CONSTANTS
    Runs = {r1}
    MaxRecords = 3
    MaxForeign = 1
    LateDelivery = FALSE
    RecoverySyncFails = FALSE
    None = None
SPECIFICATION FairSpec
INVARIANTS
    LearningIsSafe
    NothingIsLostSilently
PROPERTIES
    GivenUpStaysUnlearned
    CallsReturn
    ImplementsDelivery
