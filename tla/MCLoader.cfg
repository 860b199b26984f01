CONSTANTS
    LevelDepths <- MCLevelDepths
    PageDepth = 1
    LeafBytes = 2
    Byte = {0, 1, 2}
    ZeroByte = 0
    Accesses = {}
    Files <- MCFiles
    RetPatch <- MCRetPatch
    MemProfile <- MCMemProfile
    StackPointer = 10
    StackWords <- MCStackWords
    WordBytes = 2
SPECIFICATION FairSpec
CHECK_DEADLOCK FALSE
INVARIANTS
    ImageLoaded
    PrestateCommits
    TrieReady
PROPERTIES
    LoadTerminates
