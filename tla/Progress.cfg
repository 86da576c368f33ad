SPECIFICATION ProgressSpec
CONSTANTS
    Resting = Resting
    None = None
    r1 = r1
    k1 = k1
    k2 = k2
    c1 = c1
    c2 = c2
    c3 = c3
    LocalProcs = {"p1", "p2"}
    LocalPorts = {"a", "b"}
    SessionModes = {"dev", "suite", "check"}
    SignalBound = 3
    FailureBound = 2
    CollectorPorts = 2
    Keys = {k1, k2}
    Calls = {c1, c2, c3}
    KeyOf <- MCKeyOf
    Shards = {1, 2, 3}
    MaxCrashes = 1
    MaxFailures = 1
    MaxFreezes = 1
INVARIANTS
    AcknowledgedIsDurable
    SessionIsSound
    RuntimeIsSound
PROPERTIES
    Recovers
    SlotsComeBack
    StopReturns
    CallsAndSessionsEnd
CHECK_DEADLOCK FALSE
