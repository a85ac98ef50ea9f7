SPECIFICATION CallSpec
CONSTANTS
    MaxBody = 2
    Closing <- EitherConnection
INVARIANTS
    TypeOK
    ResultIsTheWorkers
    AbandonEndsAttachedRead
PROPERTIES
    CallerReturns
    WorkerEnds
