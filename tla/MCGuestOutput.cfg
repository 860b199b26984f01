CONSTANTS
    AddrSpace = 12
    PageSize = 4
    Ram <- MCRam
    ByteCount = 4
    PrefixBytes = 2
    Addrs = {2, 3, 5, 8, 11}
    Counts = {0, 1, 3, 5, 6, 11}
    DestSizes = {2, 8}
    MaxCalls = 2
SPECIFICATION FairOutputSpec
CHECK_DEADLOCK FALSE
INVARIANTS
    OutputExact
    HintsWhole
PROPERTIES
    WriteReturns
