\* Two requests and one backend that comes back from ejection.
SPECIFICATION Spec
CONSTANTS
    b1 = b1
    b2 = b2
    Requests = {q1, q2}
    Pool <- MCSinglePool
    Balancing = "round_robin"
    MaxAttempts = 1
    RetryIdempotent = FALSE
    BackoffConfigured = FALSE
    MaxBufferedBodies = 1
    CounterPeriod = 2
    FailureThreshold = 1
    RecoveryThreshold = 1
INVARIANTS
    SingleProbe
