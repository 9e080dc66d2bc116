CONSTANTS
    redis1 = redis1
    redis2 = redis2
    redis3 = redis3
    redis4 = redis4
    Server = {redis1, redis2, redis3}
    None = None
    FirstHosts <- Topologies
    BacklogSize = 1
    Writes = 2
    Bgsaves = 1
    Faults = 2
    Failures = 1
    Slaveofs = 1
    RestartsAndSlaveofs = 1
    Bound <- Bounds

SPECIFICATION FairSpec
INVARIANTS
    TypeOK
    NothingLost
    OffsetsAgree
PROPERTY EventuallyInSync
CHECK_DEADLOCK FALSE
