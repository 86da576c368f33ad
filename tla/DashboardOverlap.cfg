SPECIFICATION Spec
CONSTANTS
    Statuses = {"pending", "running", "completed"}
    Overlapping = TRUE
    tuiPendingEventCapacity = 2
    tuiObservationCapacity = 2
    MaxRecords = 1
    MaxDrops = 0
    MaxKeys = 0
INVARIANTS
    LiveIsCurrent
CHECK_DEADLOCK FALSE
