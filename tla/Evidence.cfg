SPECIFICATION EvidenceSpec
CONSTANTS
    Resting = Resting
    None = None
    new1 = new1
    new2 = new2
    new3 = new3
    old1 = old1
    t1 = t1
    t2 = t2
    s1 = s1
    s2 = s2
    s3 = s3
    tool = tool
    llm = llm
    host = host
    misspelt = misspelt
    r1 = r1
    c1 = c1
    c2 = c2
    c3 = c3
    k1 = k1
    k2 = k2
    p1 = p1
    p2 = p2
    p3 = p3
    CountedIdentities = {new1, new2, new3, old1}
    KnownIdentities = {old1}
    CountedSpans <- Spans
    CountedObservations = 3
    ChangeLimits = {0, 1, 2}
    ComparedFingerprints = {tool, llm}
    ComparedTarget <- MCComparedTarget
    ComparedModels = {llm}
    ComparedRuns = {1, 2}
    ComparedCalls = 2
    ComparedAlarms <- ReadAlarms
    ComparedWord = 6
    ComparedLimits <- AskedLimits
    FindingRecords <- Records
    FindingRetained = 2
    FindingBehaviors = 2
    FindingPage = 2
    FindingBounds <- MCFindingBounds
    SuiteMembers = 2
    SuiteRuns = 2
    SuiteSizes = {1, 2}
    SuiteLimit = 3
    SuiteOverhead = 1
    LockOwners = {p1, p2, p3}
    Openers = {p1, p2}
    OpenFaults = 2
    LearningProcesses = {p1, p2}
    LearnedKeys = {k1, k2}
    LearningCalls = {c1, c2, c3}
    LearnedKeyOf <- MCLearnedKeyOf
    LearningProcessOf <- MCLearningProcessOf
    LostAnswers = 2
    Runs = {r1}
    queueCapacity = 1
    maxSubscribers = 2
    MaxSubscriptions = 2
    MaxEvents = 2
INVARIANTS
    CountIsRight
    VerdictIsRight
    EvidenceIsExact
    ReportsAreExact
    StreamIsGapless
    SuiteIsTruthful
    StaleLocksAreTakenOver
    MigrationIsSafe
    StoredBaselinesAreRight
PROPERTIES
    DisconnectedForOwnReasons
    AnswersAreTrue
CHECK_DEADLOCK FALSE
