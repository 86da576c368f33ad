SPECIFICATION FairSpec
CONSTANTS
    Handlers = {h1, h2}
    a = a
    b = b
    fa = fa
    fb = fb
    Contents = {a, b}
    Shapes = {fa, fb}
    Shape <- MCShape
    MaxBehaviors = 1
    MaxRetained = 2
    MaxRequests = 3
    Migrated = TRUE
    Pooled = FALSE
    None = None
INVARIANTS
    IngestInv
    StoredEvidenceIsRight
    AnswersAreHonest
PROPERTIES
    EndedRunsAreFrozen
    IncompleteIsSticky
    RequestsEnd
    ImplementsLog
CHECK_DEADLOCK FALSE
