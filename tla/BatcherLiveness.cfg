CONSTANTS
    a = a
    b = b
    c = c
    d = d
    None = None
    Requests = {a, b, c}
    Size <- MCSize3
    QueueCapacity = 2
    MaxBatchRequests = 2
    MaxBatchItems = 3
SPECIFICATION Spec
PROPERTIES
    ImplementsQueue
    EveryRequestSettles
    CloseTerminates
