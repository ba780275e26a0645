\* Four calls to an oracle upstream, three to Horizon; two URLs per database and
\* four rotations; three connection attempts to Redis.
SPECIFICATION FairSpec
CONSTANTS
    Call = {c1, c2, c3, c4}
    Threshold = 2
    ResetTimeout = 3
    HorizonCall = {h1, h2, h3}
    HorizonAttempts = 3
    HorizonThreshold = 2
    HorizonReset = 2
    MaxUrl = 2
    MaxRotations = 4
    Drain = 2
    QueryLife = 1
    RedisAttempts = 3
INVARIANTS
    SingleProbe
PROPERTIES
    NeverRefusesForGood
    RotationApplied
    RedisComesBack
CHECK_DEADLOCK FALSE
