SPECIFICATION FairSpec
CONSTANTS
    Resolvers = {r1, r2}
    Closers = {c1, c2}
    None = None
CHECK_DEADLOCK FALSE
INVARIANTS
    CloseIsFinal
    FirstLookupKept
    RefreshScheduled
PROPERTIES
    CloseReturns
    AddressesRefreshed
    OneSourceAtATime
