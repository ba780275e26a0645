SPECIFICATION Spec
CONSTANTS
    Workers = {w1}
    Callers = {}
    Claim = {c1}
    NoClaim = NoClaim
    StuckAfter = 1
    Lookahead = 1
    EndTimes = {1}
    MaxTime = 2
    MaxUpdates = 0
    MaxFaults = 0
INVARIANT
    ExpiredWasEvaluated
