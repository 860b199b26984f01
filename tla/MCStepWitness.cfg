CONSTANTS
    LevelDepths <- MCLevelDepths
    PageDepth = 2
    LeafBytes = 2
    Byte = {0, 1}
    ZeroByte = 0
    Accesses <- MCAccesses
    FetchSize = 2
    PCs <- MCPCs
    Stored <- MCStored
    ProofModes = {"always", "never"}
SPECIFICATION Spec
CHECK_DEADLOCK FALSE
INVARIANTS
    WitnessAccepted
    PostStatesAgree
    RootMatchesContents
    OnlyMisalignedFetchFails
