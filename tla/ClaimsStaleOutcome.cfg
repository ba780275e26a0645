SPECIFICATION Spec
CONSTANTS
    Workers = {w1}
    Callers = {r1}
    Claim = {c1}
    NoClaim = NoClaim
    StuckAfter = 1
    Lookahead = 1
    EndTimes = {1}
    MaxTime = 4
    MaxUpdates = 0
    MaxFaults = 0
PROPERTY
    FailedClaimStaysFailed
