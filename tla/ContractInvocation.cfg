SPECIFICATION FairSpec
CONSTANTS
    Call = {c1, c2}
    MaxAttempts = 2
    TimeBound = 1
    WaitFor = 2
    FaultSets = {{}, {"poll"}, {"send", "error", "poll", "dedup"}}
INVARIANTS
    LandsOnce
PROPERTIES
    RefinesContractCall
    CallsEnd
