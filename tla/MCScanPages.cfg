SPECIFICATION FairSpec
CONSTANTS
    Total = 3
    MaxAttempts = 2
    DefaultBatch = 1
    MaxBatch = 2
    MaxCrashes = 1
CHECK_DEADLOCK FALSE
INVARIANTS
    BackendOnce
    NothingSkipped
    ReplayOnlyAfterRestart
    OneLateAttempt
PROPERTIES
    ScanFinishes
