SPECIFICATION FairSpec
CONSTANTS
    Resolvers = {r1, r2}
    Closers = {c1}
    None = None
CHECK_DEADLOCK FALSE
PROPERTY
    LookupNotInterrupted
