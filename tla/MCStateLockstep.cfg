CONSTANTS
    Values <- MCValues
    Hashes <- MCHashes
    Registers = {0, 1, 31}
    Proofs = {1, 4}
    MaxWrites = 2
SPECIFICATION Spec
INVARIANTS
    HashesAgree
    FieldsRead
    InputServesBoth
    SnapshotLossless
PROPERTIES
    FreeMemoryKept
