\* Three connections: one may close before the others are accepted.
SPECIFICATION Spec
CONSTANTS
    Conns = {c1, c2, c3}
INVARIANTS
    TypeOK
    TrackerExact
    DrainedMeansEmpty
PROPERTIES
    DrainEnds
\* The server stops when its drain is over, or when accept fails.
CHECK_DEADLOCK FALSE
