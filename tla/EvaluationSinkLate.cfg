CONSTANTS
    Runs = {r1}
    MaxRecords = 2
    MaxForeign = 0
    LateDelivery = TRUE
    RecoverySyncFails = FALSE
    None = None
SPECIFICATION Spec
INVARIANTS
    DiscardedNeverInRun
