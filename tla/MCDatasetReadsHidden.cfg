SPECIFICATION DatasetSpec
CONSTANTS
    MaxCount = 3
    MaxOperations = 2
    MaxAttempts = 3
CHECK_DEADLOCK FALSE
INVARIANT
    SuccessesReturned
