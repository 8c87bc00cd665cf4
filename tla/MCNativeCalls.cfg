SPECIFICATION Spec
CONSTANTS
    Commands <- MCCommands
    Canonical = {"own", "other"}
    Resource = "own"
    Encoding = "json"
    Values = {"ordered", "map", "nil", "unencodable"}
    Sorts <- MCSorts
    Projections <- MCProjections
    Blank = Blank
    NotUTF8 = NotUTF8
    PageSizes = {0, 1, 3}
    BadPages <- MCBadPages
    BadSizes <- MCBadSizes
    DefaultPageSize = 2
    MaxPageSize = 3
    MaxUint32 = 7
    Total = 3
    Nil = Nil
INVARIANTS
    RunOnceAsGiven
    ReturnTruthful
    PagesComplete
