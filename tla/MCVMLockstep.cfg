CONSTANTS
    AddrSpace = 64
    PageSize = 8
    HeapStart = 24
    Break = 16
    ExitCodes = 4
    Entry = 8
    Offsets = {4, 48, 58}
    Values = {0, 4, 8, 13, 63}
    MaxSteps = 4
SPECIFICATION LockSpec
CHECK_DEADLOCK FALSE
INVARIANTS
    PcAligned
    RegionsDisjoint
    ModesAgree
    SlowInStep
PROPERTIES
    StoresReserved
