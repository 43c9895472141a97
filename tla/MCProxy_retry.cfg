\* Two requests compete for one buffer permit and two backends; two attempts.
SPECIFICATION Spec
CONSTANTS
    b1 = b1
    b2 = b2
    Requests = {q1, q2}
    Pool <- MCPool
    Balancing = "round_robin"
    MaxAttempts = 2
    RetryIdempotent = FALSE
    BackoffConfigured = TRUE
    MaxBufferedBodies = 1
    CounterPeriod = 2
    FailureThreshold = 1
    RecoveryThreshold = 1
SYMMETRY Symmetry
INVARIANTS
    TypeOK
    PermitsConserved
    SendsBounded
    NoBackendTwice
    NoneStranded
PROPERTIES
    WindsDown
