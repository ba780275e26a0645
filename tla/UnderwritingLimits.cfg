\* Two orders are quoted before either is created, so that the policies together
\* exceed the capacity; a limit of 1.5 XLM is enforced as 1 XLM; the events of two
\* overlapping updates cross.
SPECIFICATION Spec
CONSTANTS
  Requests = {q1, q2}
  Xdrs = {x1, x2}
  Fees = {f1, f2}
  MAX_SEND_ATTEMPTS = 2
  MaxPolls = 3
  Orders = {o1, o2}
  Updates = {u1, u2}
  Unit = 2
  Month = 1
  Coverages = {2, 3, 4}
  Durations = {1, 2}
  Balances = {0, 4}
  Capacity = 6
  MaxClock = 2
  Scale = 1
  RateBase = 4
  Period = 3
  MaxCoverage = 6
  MaxRate = 4
  MaxDuration = 7
  FaultSets <- AllOrNoFaults
  Products <- SmallProducts
  Keys <- SmallKeys
  Quotes <- SmallQuotes
  Refunds <- SmallRefunds
  Comparisons <- SmallComparisons
INVARIANTS
  CoverageInRange
  WithinCapacity
  LastEventIsCurrent
CHECK_DEADLOCK FALSE
