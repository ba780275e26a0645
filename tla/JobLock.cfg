SPECIFICATION FairSpec
CONSTANTS
    Run = {r1, r2, r3}
    Token = {t1, t2, t3, t4}
    NoToken = none
    Ttl = 3
INVARIANTS
    LostOnlyByLapse
    Exclusive
