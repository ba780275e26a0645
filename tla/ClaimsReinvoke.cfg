SPECIFICATION Spec
CONSTANTS
    Workers = {w1}
    Callers = {}
    Claim = {c1, c2}
    NoClaim = NoClaim
    StuckAfter = 1
    Lookahead = 1
    EndTimes = {1, 3}
    MaxTime = 4
    MaxUpdates = 1
    MaxFaults = 1
PROPERTY
    SweptPayoutNotRepeated
