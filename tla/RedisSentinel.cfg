CONSTANTS
    s1 = s1
    s2 = s2
    s3 = s3
    redis1 = redis1
    redis2 = redis2
    redis3 = redis3
    Sentinel = {s1, s2, s3}
    Instance = {redis1, redis2, redis3}
    FirstMaster = redis1
    FirstSlaves = {{redis2}, {redis2, redis3}}
    Quorum = 2
    None = None
    MaxFailovers = 2
    MaxDisturbances = 2
    MaxTotal = 4

SYMMETRY SentinelSymmetry
SPECIFICATION Spec
INVARIANTS
    TypeOK
    OneVotePerEpoch
    LeaderHasVotes
    NoInstanceForgotten
CHECK_DEADLOCK FALSE
