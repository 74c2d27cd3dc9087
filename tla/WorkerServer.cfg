CONSTANTS
    a = a
    b = b
    None = None
    Requests = {a, b}
    Size <- MCSize
    QueueCapacity = 1
    MaxBatchRequests = 2
    MaxBatchItems = 3
SPECIFICATION WorkerSpec
INVARIANTS
    WorkerTypeOK
    CallsTrackFutures
    StoppedClean
    RepliesAreTrue
PROPERTIES
    RefusedOnlyWhenFull
    EveryCallAnswered
    ShutdownCompletes
