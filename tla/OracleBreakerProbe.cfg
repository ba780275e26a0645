SPECIFICATION BreakerSpec
CONSTANTS
    Call = {c1, c2, c3, c4}
    Threshold = 2
    ResetTimeout = 3
INVARIANTS
    HalfOpenHasProbe
