\* Two replicas over two hours; seven readings, two of them refused; every answer
\* of an upstream over a month of three days.
SPECIFICATION FairSpec
CONSTANTS
    Replica = {r1, r2}
    MaxHour = 1
    TicksPerHour = 2
    FaultSets = {{}, {"ledger", "database", "crash"}}
    Calls = 7
    Bad = {2, 5}
    BatchSize = 2
    MaxBuffer = 3
    Days = 3
    Scale = 2
    MaxRetries = 3
    Null = Null
    Kinds <- AllKinds
    Values <- SmallValues
    Bounds <- SmallBounds
INVARIANTS
    SubmittedOnce
    BadRowsIsolated
    StoredIsObserved
PROPERTIES
    AcceptedIsAnswered
CHECK_DEADLOCK FALSE
