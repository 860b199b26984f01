CONSTANTS
    MaxBits = 2
    MaxOthers = 1
SPECIFICATION DecodeSpec
INVARIANTS
    OperandsDecoded
