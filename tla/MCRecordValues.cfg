SPECIFICATION MCSpec
CONSTANTS
    Slices = {s1, s2, s3, s4, s5}
    Contents = {"", "object", "document"}
    Empty = ""
    Objects <- MCObjects
    Nil = Nil
    MaxAddressBytes = 30
    MaxStoreBytes = 3
    IntBytes = 2
    Stores <- MCStores
    Paths <- MCPaths
    Keys <- MCKeys
    Offered <- MCOffered
    Error = Error
SYMMETRY Symmetry
INVARIANTS
    ValuesKept
    KeyIdentity
    OneSpelling
