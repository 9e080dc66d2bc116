CONSTANTS
    Policies = {"always"}
    None = None
    Writes = 2
    Commands = 0
    Faults = 0
    Crashes = 1
    Bound <- Bounds

SPECIFICATION Spec
INVARIANT ShutdownKeepsAcked
CHECK_DEADLOCK FALSE
