CONSTANTS
    Requests = {p, q}
    Workers <- MCWorkers
    FailureThreshold = 1
    RecoveryThreshold = 1
    CountCap = 1
    MaxOutstanding = 2
    Budget = 1
    MinRetryBudget = 0
    Messages <- MCMessages
SPECIFICATION AppSpec
INVARIANTS
    AppTypeOK
    ReservationsExact
    OnlyValidDispatched
PROPERTIES
    EveryRequestAnswered
    GatewayStops
    ImplementsRouter
