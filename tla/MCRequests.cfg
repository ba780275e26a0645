\* Two requests in flight, two nonces, four tokens; two requests with one
\* idempotency key in four environments.
SPECIFICATION FairSpec
CONSTANTS
    Request = {x1, x2}
    MaxNonces = 2
    NonceTtl = 1
    MaxFailed = 2
    LockoutTtl = 2
    FaultSets = {{}, {"redis", "crash", "database"}}
    MaxTokens = 4
    AccessLife = 1
    RefreshLife = 2
    Window = 2
    MaxFailures = 2
    Grace = 2
    Keyed = {q1, q2}
    NoRequest = NoRequest
    WaitTimeout = 1
    RequestTimeout = 2
    LockTtl = 3
    KeyFaults = {{}, {"client"}, {"crash"}, {"redis"}}
INVARIANTS
    OneLiveHandler
    MarkOutlivesToken
    RefusedForRecentFailures
PROPERTIES
    LockoutEnds
    SuccessIsFinal
    LockComesFree
