SPECIFICATION Spec
CONSTANTS
    MaxBody = 2
    Closing <- EitherConnection
INVARIANTS
    AbandonEndsRead
