\* Every write path to a policy: two writes or readings, or one with faults, while
\* a load takes up to half a TTL; two readers and an admin of the catalogue; two
\* overlapping health checks of one dependency of each kind.
SPECIFICATION Spec
CONSTANTS
    Replica = {r1, r2}
    Reader = {r1, r2}
    Runs <- Itself
    FaultSets = {{}, {"redis", "crash"}}
    Ttl = 2
    ReadingTtl = 1
    MaxWait = 1
    MaxChanges <- TwoOrOne
    Readers = {x1, x2}
    Admins = {m1}
    Rates = {1, 2}
    PageTtl = 2
    MaxQuery = 2
    Checks = {k1, k2}
    Watched = {"pool", "keeper", "network", "heartbeats", "openMeteo"}
    ResponseTtl = 2
    ExternalTtl = 3
    HeartbeatTtl = 2
    MaxCheck = 1
SYMMETRY Symmetry
INVARIANTS
    FreshUnlessRaced
    StaleStateExpires
    CatalogueAge
    AnswerIsRecent
CHECK_DEADLOCK FALSE
