CONSTANTS
    Requests = {p, q}
    Workers <- MCWorkers
    FailureThreshold = 1
    RecoveryThreshold = 1
    CountCap = 1
    MaxOutstanding = 1
    Budget = 2
    MinRetryBudget = 1
SPECIFICATION Spec
PROPERTIES
    NotReadyIsIneligible
