\* One connection is enough to lose the wakeup.
SPECIFICATION Spec
CONSTANTS
    Conns = {c1}
INVARIANTS
    ShutsDownAfterDraining
CHECK_DEADLOCK FALSE
