CONSTANTS
    None = None
    Workers <- MCOneWorker
    FailureThreshold = 3
    RecoveryThreshold = 2
    CountCap = 3
SPECIFICATION Spec
PROPERTIES
    RestartedWorkerRestored
