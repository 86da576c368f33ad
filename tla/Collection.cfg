SPECIFICATION CollectionSpec
CONSTANTS
    Resting = Resting
    None = None
    s1 = s1
    s2 = s2
    s3 = s3
    d1 = d1
    d2 = d2
    Fingerprints <- MCFingerprints
    NoFingerprint = none
    Times = {1, 2, 3}
    Volatiles <- MCVolatiles
    NoLatency = 0
    NoDelegator = none
    maxFingerprints = 2
    maxPredecessors = 1
    maxTrigramPredecessors = 1
    maxDelegators = 1
    MinObservations = 2
    MinTransitionObservations = 2
    MinNGramObservations = 2
    Weights <- MCWeights
    SensitiveTargetFloor <- MCSensitiveTargetFloor
    Hours = 2
    Rules <- MCRules
    DefaultAction = "observe_only"
    MaxObserved = 4
    ServiceNames = {s1, s2}
    ServiceModels = {m}
    ServiceOperations = {op1, op2}
    ReportedSpans = 2
    ReportBound = 1
    ProducerRoom = 1
    ModelRoom = 1
    OperationRoom = 1
    BodyRoom = 1
    SinkRuns = {s1, s2}
    SinkRecords = 2
    SinkForeign = 1
    ShownStatuses = {"pending", "running", "completed"}
    tuiPendingEventCapacity = 1
    tuiObservationCapacity = 2
    ShownRecords = 1
    DropBound = 1
    KeyBound = 1
    Producers = {web}
    Collectors = {c1, c2}
    Ingests = {i1, i2}
    MaxSpans <- MCMaxSpans
    MaxReports <- MCMaxReports
    MaxInstances <- MCMaxInstances
    MaxHeld = 1
    FreshWindow = 1
    Expiry = 2
    MaxDelay = 1
    MaxTime = 4
    c1 = c1
    c2 = c2
SYMMETRY Symmetry
INVARIANTS
    ProcessorIsSound
    StatusIsTrue
    SinkInvUnderFaults
    ShowsTheRun
PROPERTIES
    StatusNeverGoesBack
CHECK_DEADLOCK FALSE
