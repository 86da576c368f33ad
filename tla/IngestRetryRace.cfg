SPECIFICATION Spec
CONSTANTS
    Handlers = {h1, h2}
    a = a
    b = b
    fa = fa
    fb = fb
    Contents = {a, b}
    Shapes = {fa, fb}
    Shape <- MCShape
    MaxBehaviors = 1
    MaxRetained = 2
    MaxRequests = 3
    Migrated = FALSE
    Pooled = TRUE
    None = None
INVARIANTS
    ConflictIsReal
CHECK_DEADLOCK FALSE
