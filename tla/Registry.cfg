SPECIFICATION RegistrySpec
CONSTANTS
    Resting = Resting
    None = None
    i1 = i1
    i2 = i2
    i3 = i3
    prj = prj
    agentA = agentA
    agentB = agentB
    a1 = a1
    a2 = a2
    b1 = b1
    b2 = b2
    h1 = h1
    h2 = h2
    ra = ra
    rb = rb
    rc = rc
    rd = rd
    s1 = s1
    s2 = s2
    ca = ca
    cb = cb
    fa = fa
    fb = fb
    Requests = {i1, i2, i3}
    Projects = {prj}
    Refs = {1, 2, 3}
    MaxRank = 1
    MaxEnvironments = 2
    InitialRanks = {0, 1}
    Runs = {a1, a2, b1, b2}
    RunInfo <- MCRunInfo
    Pooled = TRUE
    ExecutionHandlers = {h1, h2}
    ExecutionIds = {i1, i2, i3}
    ScenarioRuns = {ra, rb, rc, rd}
    CompletedRuns = {ra, rb, rc}
    OwnRuns = {rb, rd}
    Repetitions = {1}
    StatedReferences = {s1, s2}
    IngestHandlers = {i1, i2, i3}
    Contents = {ca, cb}
    Shapes = {fa, fb}
    Shape <- MCShape
    MaxBehaviors = 1
    MaxRetained = 1
    MaxRequests = 3
SYMMETRY Symmetry
INVARIANTS
    RegistryIsSound
    ExecutionsAreSound
    StoredEvidenceIsRight
PROPERTIES
    PromotionsAreAuthoritative
    EndedIsFinal
CHECK_DEADLOCK FALSE
