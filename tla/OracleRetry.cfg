SPECIFICATION SubmitSpec
CONSTANTS
    Replica = {r1, r2}
    MaxHour = 1
    TicksPerHour = 2
    FaultSets = {{}}
INVARIANTS
    NextCycleRetries
CHECK_DEADLOCK FALSE
