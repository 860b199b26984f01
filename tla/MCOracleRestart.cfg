CONSTANTS
    KeyCount = 2
    MaxSteps = 7
    MaxRuns = 2
    CheckEvery = 2
    SnapshotAt = {2}
    StopAt = {6}
    StopKeys = {2}
    WithServer = {TRUE}
SPECIFICATION FairSpec
CHECK_DEADLOCK FALSE
INVARIANTS
    RestartServable
