SPECIFICATION DatasetSpec
CONSTANTS
    MaxCount = 3
    MaxOperations = 2
    MaxAttempts = 3
CHECK_DEADLOCK FALSE
INVARIANTS
    ResultsAligned
    RetryBudget
    PrefixReturned
    NilMeansRead
PROPERTIES
    SettledNotResent
    ReadReturns
