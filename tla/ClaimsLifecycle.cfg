\* One worker and one HTTP caller on one policy: every pair of flows.
SPECIFICATION Spec
CONSTANTS
    Workers = {w1}
    Callers = {r1}
    Claim = {c1, c2}
    NoClaim = NoClaim
    StuckAfter = 1
    Lookahead = 1
    EndTimes = {1, 3}
    MaxTime = 5
    MaxUpdates = 1
    MaxFaults = 1
SYMMETRY Symmetry
INVARIANTS
    OneOpenClaim
    PaidAndClaimedAgree
    OneAttemptPerGate
PROPERTIES
    SweepLeavesProgressAlone
    OutcomeMatchesGate
    RefinesPolicyStatus
