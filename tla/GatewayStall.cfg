CONSTANTS
    Requests = {p}
    Workers <- MCOneWorker
    FailureThreshold = 1
    RecoveryThreshold = 1
    CountCap = 1
    MaxOutstanding = 1
    Budget = 1
    MinRetryBudget = 0
    Messages <- MCMessages
SPECIFICATION AppSpec
PROPERTIES
    StopsThoughClientsStall
