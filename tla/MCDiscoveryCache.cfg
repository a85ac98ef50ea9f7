SPECIFICATION Spec
CONSTANTS
    t1 = t1
    t2 = t2
    None = None
    Threads <- TwoThreads
    MaxTime = 6
    MaxSleep = 2
    Offsets <- RightOrBehind
    MaxAge = 2
    RefreshAfter = 1
    Timeout = 1
    Ages = {0, 2, 3}
    StoredAges = {1}
SYMMETRY Symmetry
INVARIANTS
    TypeOK
    UsedCopyIsFresh
PROPERTIES
    RemovedKeyStops
