CONSTANTS
    redis1 = redis1
    redis2 = redis2
    redis3 = redis3
    redis4 = redis4
    Server = {redis1, redis2, redis3, redis4}
    None = None
    FirstHosts <- TwoMasters
    BacklogSize = 1
    Writes = 1
    Bgsaves = 1
    Faults = 0
    Failures = 0
    Slaveofs = 1
    RestartsAndSlaveofs = 1
    Bound <- Bounds

SPECIFICATION Spec
INVARIANT NoPsyncWithOldSlave
CHECK_DEADLOCK FALSE
