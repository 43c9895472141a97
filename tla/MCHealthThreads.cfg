\* Two tasks race on one backend with the default recovery threshold; no
\* symmetry, a temporal property is checked.
SPECIFICATION Spec
CONSTANTS
    Backends = {b1}
    Threads = {t1, t2}
    FailureThreshold = 2
    RecoveryThreshold = 2
INVARIANTS
    NoLimbo
    StrandedIsOwed
PROPERTIES
    Readmitted
