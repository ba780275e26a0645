----------------------------- MODULE MoneyMath -----------------------------
(***************************************************************************)
(* The exact arithmetic of the back end: calculatePremium,                 *)
(* calculateProRatedRefund and formatStroops (policy/policy.service.ts),   *)
(* the decimal parser and the threshold comparison                         *)
(* (common/utils/decimal.ts) and the precision check of request bodies     *)
(* (common/middleware/usdc-precision-validation.middleware.ts).            *)
(*                                                                         *)
(* A written decimal is its sign, its digits read as one number, how many  *)
(* of them stand after the point, and its exponent; text that is no number *)
(* is refused by each of the functions and is left out. BigInt arithmetic  *)
(* is TLA+'s. A behaviour performs one calculation.                        *)
(***************************************************************************)
EXTENDS Integers, FiniteSets

CONSTANTS
  Scale,        \* DEFAULT_DECIMAL_SCALE, MAX_DECIMAL_PLACES and log10 of STROOPS_PER_XLM: 7
  RateBase,     \* basis points of 100%: 10000
  Period,       \* days of the base period: 30
  MaxCoverage,  \* MAX_PREMIUM_COVERAGE_XLM
  MaxRate,      \* MAX_PREMIUM_RATE_BPS
  MaxDuration,  \* MAX_PREMIUM_DURATION_DAYS
  Quotes, Refunds, Comparisons   \* the calculations asked for

\* Decimals as they are written.
Decimals == [negative: BOOLEAN, digits: Nat, places: Nat, exp: Int]

ASSUME MoneyAssumption ==
  /\ Scale \in Nat /\ RateBase \in Nat \ {0} /\ Period \in Nat \ {0}
  /\ MaxCoverage \in Nat /\ MaxRate \in Nat /\ MaxDuration \in Nat
  /\ Quotes \subseteq [coverage: Int, rate: Int, days: Int]
  /\ Refunds \subseteq [premium: Decimals, start: Int, end: Int, now: Int]
  /\ Comparisons \subseteq [reading: Decimals, threshold: Decimals,
                           comparison: {"LessThan", "GreaterThan"}]

VARIABLE asked    \* the calculation asked for: [kind, in]

Pow10[n \in Nat] == IF n = 0 THEN 1 ELSE 10 * Pow10[n - 1]

-----------------------------------------------------------------------------
\* calculatePremium

InRange(q) ==
  /\ q.coverage \in 1..MaxCoverage
  /\ q.rate \in 1..MaxRate
  /\ q.days \in 1..MaxDuration

Refused == 0 - 1

\* The mutant: rounded to the nearest.
CeilDiv_Round(n, d) == (2 * n + d) \div (2 * d)

CeilDiv(n, d) == IF n % d > 0 THEN n \div d + 1 ELSE n \div d

CalculatePremium(q) ==
  IF InRange(q) THEN CeilDiv(q.coverage * q.rate * q.days, RateBase * Period) ELSE Refused

-----------------------------------------------------------------------------
\* Decimals

\* expandExponent moves the point: past the last digit it appends zeros.
ExpandExponent(d) ==
  IF d.exp >= d.places
  THEN [d EXCEPT !.digits = @ * Pow10[d.exp - d.places], !.places = 0, !.exp = 0]
  ELSE [d EXCEPT !.places = @ - d.exp, !.exp = 0]

Signed(d, n) == IF d.negative THEN 0 - n ELSE n

\* The mutant: digits beyond the scale are cut off.
RoundAway_Cut(n, d) == n \div d

\* Half away from zero.
RoundAway(n, d) == IF (n % d) * 2 >= d THEN n \div d + 1 ELSE n \div d

ParseDecimalScaled(value) ==
  LET d == ExpandExponent(value)
      excess == d.places - Scale
  IN  Signed(d, IF excess > 0 THEN RoundAway(d.digits, Pow10[excess])
                ELSE d.digits * Pow10[0 - excess])

\* An integer is a count of units, anything with a point or an exponent a decimal.
ParseFixedPointBigInt(value) ==
  IF value.places = 0 /\ value.exp = 0 THEN Signed(value, value.digits)
  ELSE ParseDecimalScaled(value)

CompareScaledToThreshold(reading, threshold, comparison) ==
  IF comparison = "LessThan" THEN reading < threshold ELSE reading > threshold

EvaluateThreshold(c) ==
  CompareScaledToThreshold(ParseFixedPointBigInt(c.reading),
                           ParseDecimalScaled(c.threshold), c.comparison)

\* The precision check of a request: plain notation, at most Scale places and
\* no negative zero.
ValidateAmount(d) ==
  /\ d.exp = 0
  /\ d.places <= Scale
  /\ ~(d.negative /\ d.digits = 0)

-----------------------------------------------------------------------------
\* calculateProRatedRefund

\* formatStroops: sign, whole part and the fraction padded to Scale digits.
FormatStroops(n) ==
  LET abs == IF n < 0 THEN 0 - n ELSE n
      whole == abs \div Pow10[Scale]
      frac == abs % Pow10[Scale]
  IN  [negative |-> n < 0, digits |-> whole * Pow10[Scale] + frac, places |-> Scale, exp |-> 0]

\* Decimal.mul(STROOPS_PER_XLM).toFixed(0, ROUND_DOWN)
Stroops(d) ==
  IF d.places > Scale THEN d.digits \div Pow10[d.places - Scale]
  ELSE d.digits * Pow10[Scale - d.places]

\* The mutant: a cancellation before the start is paid for more than the term.
Remaining_Unclamped(r) == IF r.end < r.now THEN 0 ELSE r.end - r.now

\* The time left, between nothing and the whole term.
Remaining(r) ==
  IF r.end < r.now THEN 0
  ELSE IF r.end - r.now > r.end - r.start THEN r.end - r.start
  ELSE r.end - r.now

CalculateProRatedRefund(r) ==
  FormatStroops(IF r.end <= r.start THEN 0
                ELSE (Stroops(r.premium) * Remaining(r)) \div (r.end - r.start))

-----------------------------------------------------------------------------
Nothing == [kind |-> "none", in |-> {}]

MoneyInit == asked = Nothing

Calculate ==
  /\ asked = Nothing
  /\ \/ \E q \in Quotes: asked' = [kind |-> "quote", in |-> q]
     \/ \E r \in Refunds: asked' = [kind |-> "refund", in |-> r]
     \/ \E c \in Comparisons: asked' = [kind |-> "compare", in |-> c]

MoneyNext == Calculate

MoneySpec == MoneyInit /\ [][MoneyNext]_asked

-----------------------------------------------------------------------------
\* The pool never collects less than the computed cost of the coverage, and
\* less than one XLM more; splitting a coverage into two policies is never
\* cheaper. Ceiling instead of rounding is what #598 asks for.
PremiumNeverShort ==
  asked.kind = "quote" =>
    LET q == asked.in
        cost == q.coverage * q.rate * q.days
        unit == RateBase * Period
        p == CalculatePremium(q)
    IN  InRange(q) =>
          /\ p * unit >= cost /\ (p - 1) * unit < cost
          /\ \A part \in 1..(q.coverage - 1):
               CalculatePremium([q EXCEPT !.coverage = part])
                 + CalculatePremium([q EXCEPT !.coverage = @ - part]) >= p

\* A refund read back from its text is the premium's share of the time left,
\* floored to the stroop: never more than was paid, also for a cancellation
\* before the policy's start, and nothing after its end.
RefundProRata ==
  asked.kind = "refund" /\ asked.in.start < asked.in.end =>
    LET r == asked.in
        total == r.end - r.start
        left == Cardinality({t \in r.start..(r.end - 1): r.now <= t})
        paid == Stroops(r.premium)
        refund == ParseDecimalScaled(CalculateProRatedRefund(r))
    IN  /\ refund * total <= paid * left /\ paid * left < (refund + 1) * total
        /\ refund <= paid

\* calculatePremium never collects less than the computed cost and less than one
\* XLM more; what cancelPolicy returns of it, read back from its text, is the
\* premium's share of the time left.
AmountsExact == PremiumNeverShort /\ RefundProRata

\* x / 10^p compared exactly with y / 10^q.
Below(x, p, y, q) == x * Pow10[q] < y * Pow10[p]

\* The payout decision is the comparison of the exact numbers: a threshold
\* with no more places than the scale is compared as it is written, in any
\* notation; a longer one moves by at most half a unit, so only a reading
\* within that half unit is decided otherwise. An amount the request check
\* accepts is stored without rounding.
DecimalsExact ==
  asked.kind = "compare" =>
    LET c == asked.in
        d == ExpandExponent(c.threshold)
        exact == Signed(d, d.digits)
        reading == ParseFixedPointBigInt(c.reading)
        triggers == EvaluateThreshold(c)
    IN  /\ d.places <= Scale =>
             triggers = IF c.comparison = "LessThan" THEN Below(reading, Scale, exact, d.places)
                        ELSE Below(exact, d.places, reading, Scale)
        /\ d.places > Scale =>
             LET gap == reading * Pow10[d.places - Scale] - exact
             IN  2 * (IF gap < 0 THEN 0 - gap ELSE gap) > Pow10[d.places - Scale] =>
                   triggers = IF c.comparison = "LessThan" THEN gap < 0 ELSE gap > 0
        /\ ValidateAmount(c.threshold) =>
             ParseDecimalScaled(c.threshold) * Pow10[c.threshold.places]
               = Signed(c.threshold, c.threshold.digits) * Pow10[Scale]
=============================================================================
