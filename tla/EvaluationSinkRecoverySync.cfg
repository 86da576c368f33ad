CONSTANTS
    Runs = {r1}
    MaxRecords = 2
    MaxForeign = 0
    LateDelivery = FALSE
    RecoverySyncFails = TRUE
    None = None
SPECIFICATION Spec
INVARIANTS
    NoSilentDivergence
