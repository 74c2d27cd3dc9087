CONSTANTS
    Requests = {p, q}
    Workers <- MCThreeWorkers
    FailureThreshold = 1
    RecoveryThreshold = 1
    CountCap = 1
    MaxOutstanding = 1
    Budget = 2
    MinRetryBudget = 1
SPECIFICATION Spec
SYMMETRY MCSymmetry
INVARIANTS
    TypeOK
    OutstandingBounded
    RetryElsewhere
PROPERTIES
    AtCapacityMeansSaturated
    TieRotation
