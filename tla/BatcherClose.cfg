CONSTANTS
    a = a
    b = b
    c = c
    d = d
    None = None
    Requests = {a, b, c, d}
    Size <- MCSize
    QueueCapacity = 2
    MaxBatchRequests = 2
    MaxBatchItems = 4
SPECIFICATION Spec
INVARIANTS
    QueuedFailedOnClose
