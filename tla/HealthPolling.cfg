CONSTANTS
    None = None
    Workers <- MCWorkers
    FailureThreshold = 2
    RecoveryThreshold = 2
    CountCap = 2
SPECIFICATION Spec
INVARIANTS
    TypeOK
    HealthCountersConsistent
    StoppedReleasesAll
PROPERTIES
    DeadWorkerEjected
    ReadyWorkerRestored
    RecoveryIsFresh
