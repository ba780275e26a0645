\* Two replicas, a client of one of them that may reconnect, three changes; a
\* notification to two registrations, one of which never answers; a
\* response streamed with up to two payloads.
SPECIFICATION FairSpec
CONSTANTS
    Replicas = {a, b}
    Home = a
    Streams = {s1}
    MaxChanges = 3
    FaultSets = {{}, {"redis", "database"}}
    Notifications = {n1}
    Registrations = {g1, g2}
    Dead = {g2}
    Wants <- WantsAllOrTwo
    MAX_RETRY_ATTEMPTS = 3
    MaxPayloads = 2
INVARIANTS
    InOrderPerOrigin
    DrainSettlesInFlight
PROPERTIES
    StreamCatchesUp
    DeliveredDespiteOthers
    ReleasedWhenGone
CHECK_DEADLOCK FALSE
