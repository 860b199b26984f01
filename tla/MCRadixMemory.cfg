CONSTANTS
    LevelDepths <- MCLevelDepths
    PageDepth = 2
    LeafBytes = 2
    Byte = {0, 1}
    ZeroByte = 0
    Accesses <- MCAccesses
SPECIFICATION Spec
INVARIANTS
    CachesSound
    TrieSpansPages
    InvalidUpToRoot
    TrieCoherent
    ReadsFlat
PROPERTIES
    RefinesFlat
    CachingIsPure
