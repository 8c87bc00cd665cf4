SPECIFICATION MCSpec
CONSTANTS
    NaN = NaN
    Scale = 10
    MaxDuration = 99
    DefaultAttempts = 4
    DefaultBackoff = 3
    DefaultMaxBackoff = 6
    DefaultMultiplier = 20
    DefaultJitter = 2
    Policies <- MCPolicies
    Clients = {k1, k2}
    Conns = {c1, c2, c3}
    None = None
    Options <- MCOptions
    Intervals <- MCIntervals
    DefaultMaxOperations = 3
    DefaultScanTimeout = 5
    DefaultMessageBytes = 4
    DefaultInterval = 7
SYMMETRY Symmetry
INVARIANT
    RetriesSpaced
