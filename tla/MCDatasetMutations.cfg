SPECIFICATION DatasetSpec
CONSTANTS
    MaxCount = 3
    MaxOperations = 2
    Programs = {p1, p2}
CHECK_DEADLOCK FALSE
INVARIANTS
    SentOnce
    RejectedWithoutEffect
    ResultsTruthful
    DoubtConfined
    ProgramsDeclared
    NilMeansTaken
    FailuresPreserved
