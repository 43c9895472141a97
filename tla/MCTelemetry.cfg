\* Two tasks, two jobs of up to three attempts; a ring of two transitions.
SPECIFICATION Spec
CONSTANTS
    Tasks = {t1, t2}
    MaxJobs = 2
    MaxAttempts = 3
    ExposeMetrics = TRUE
    ExposeHealth = TRUE
    MaxTransitions = 2
    FailureThreshold = 2
    RecoveryThreshold = 2
SYMMETRY Symmetry
\* The jobs run out.
CHECK_DEADLOCK FALSE
INVARIANTS
    TypeOK
    ErrorsExplainResponses
    DownIsExplained
    ResponsesAccounted
    RingExact
