\* The default failure_threshold.
SPECIFICATION Spec
CONSTANTS
    b1 = b1
    b2 = b2
    r1 = r1
    r2 = r2
    Backends = {b1, b2}
    Routes = {r1, r2}
    Pool <- MCPool
    Endpoint <- MCEndpoint
    FailureThreshold = 3
    RecoveryThreshold = 2
    FailOnDeadPool = TRUE
    WindowOutlastsStartup = TRUE
INVARIANTS
    DeadPoolAborts
\* The process ends when startup fails, and the checker when it is told to.
CHECK_DEADLOCK FALSE
