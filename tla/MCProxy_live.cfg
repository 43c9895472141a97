\* Two requests, up to three attempts each, one backend, no backoff; no symmetry.
SPECIFICATION Spec
CONSTANTS
    b1 = b1
    b2 = b2
    Requests = {q1, q2}
    Pool <- MCSinglePool
    Balancing = "first_healthy"
    MaxAttempts = 3
    RetryIdempotent = TRUE
    BackoffConfigured = FALSE
    MaxBufferedBodies = 1
    CounterPeriod = 2
    FailureThreshold = 2
    RecoveryThreshold = 2
PROPERTIES
    EveryRequestAnswered
    ActsAsBreaker
