SPECIFICATION Spec
CONSTANTS
    c1 = c1
    c2 = c2
    c3 = c3
    None = None
    Nobody = Nobody
    Callers <- ThreeCallers
    MaxTime = 3
    MaxSleep = 0
    Offsets = {0}
    MaxAge = 2
    RefreshAfter = 1
    Timeout = 2
    Ages = {0}
    StoredAges = {1}
SYMMETRY SymmetryOfThree
INVARIANTS
    SingleFlight
    PendingIsUnderWay
PROPERTIES
    KeyNeverReturns
