CONSTANTS
    LeafBytes = 4
    MemBytes = 16
    Byte = {0, 1, 2, 3, 4}
    Keys <- MCKeys
    Preimage <- MCPreimage
    KeyAddrs = {2, 4}
    BufAddrs = {7, 8, 9}
    Counts = {1, 2, 3, 9}
    MaxRequests = 3
SPECIFICATION FairSpec
CHECK_DEADLOCK FALSE
INVARIANTS
    DeliveredInOrder
    WitnessServesSlow
PROPERTIES
    OnlyBufferWritten
    Completes
