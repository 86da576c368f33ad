SPECIFICATION Spec
CONSTANTS
    Procs = {p1, p2, p3}
    None = None
    Overlapping = TRUE
INVARIANTS
    OneLearner
CHECK_DEADLOCK FALSE
