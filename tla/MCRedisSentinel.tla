--------------------------- MODULE MCRedisSentinel ---------------------------
(* Three sentinels with a quorum of two watch a master and its slaves. *)
EXTENDS RedisSentinel, TLC

CONSTANTS s1, s2, s3, redis1, redis2, redis3

SentinelSymmetry == Permutations(Sentinel)
=============================================================================
