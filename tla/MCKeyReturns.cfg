SPECIFICATION Spec
CONSTANTS
    t1 = t1
    t2 = t2
    None = None
    Threads <- OneThread
    MaxTime = 3
    MaxSleep = 0
    Offsets = {0}
    MaxAge = 2
    RefreshAfter = 0
    Timeout = 1
    Ages = {0, 2}
    StoredAges = {}
PROPERTIES
    KeyNeverReturns
