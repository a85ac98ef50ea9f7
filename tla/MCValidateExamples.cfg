SPECIFICATION MCSpec
CONSTANT Ids <- MCIds
CONSTANT Versions = {"v1", "v2"}
CONSTANT MaxEdits = 3
CONSTANT Dids = {"A", "B"}
CONSTANT Keys = {"k1", "k2", "k3", "odd"}
CONSTANT OddKeys = {"odd"}
INVARIANT TypeOK
INVARIANT PassMeansSound
INVARIANT OneFailurePerCause
INVARIANT NothingIsLost
INVARIANT SetNeedsItsKeys
INVARIANT PassMeansPublished
CHECK_DEADLOCK FALSE
