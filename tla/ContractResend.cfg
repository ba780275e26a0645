SPECIFICATION Spec
CONSTANTS
    Call = {c1, c2}
    MaxAttempts = 3
    TimeBound = 1
    WaitFor = 2
    FaultSets = {{"send"}}
INVARIANTS
    LandsOnceUnanswered
