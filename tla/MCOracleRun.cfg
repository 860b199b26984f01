CONSTANTS
    KeyCount = 2
    MaxSteps = 7
    MaxRuns = 2
    CheckEvery = 2
    SnapshotAt = {2}
    StopAt = {6}
    StopKeys = {2}
    WithServer = {TRUE, FALSE}
SPECIFICATION FairSpec
CHECK_DEADLOCK FALSE
INVARIANTS
    NoOrphanServer
    FiledHintsHandled
    ReadsItsKey
    HintedBeforeGet
PROPERTIES
    Terminates
