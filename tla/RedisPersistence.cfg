CONSTANTS
    Policies = {"always", "everysec"}
    None = None
    Writes = 2
    Commands = 2
    Faults = 1
    Crashes = 1
    Bound <- Bounds

SPECIFICATION FairSpec
INVARIANTS
    TypeOK
    AofComplete
    AckedSynced
    DirtyCounts
PROPERTIES
    BufferDrains
    AofSwitchesOn
CHECK_DEADLOCK FALSE
