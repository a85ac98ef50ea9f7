SPECIFICATION Spec
CONSTANTS
    c1 = c1
    c2 = c2
    c3 = c3
    None = None
    Nobody = Nobody
    Callers <- TwoCallers
    MaxTime = 6
    MaxSleep = 2
    Offsets <- RightOrBehind
    MaxAge = 2
    RefreshAfter = 1
    Timeout = 1
    Ages = {0, 2, 3}
    StoredAges = {1}
SYMMETRY Symmetry
INVARIANTS
    TypeOK
    UsedCopyIsFresh
PROPERTIES
    RemovedKeyStops
