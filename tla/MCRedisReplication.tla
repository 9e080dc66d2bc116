------------------------- MODULE MCRedisReplication -------------------------
(***************************************************************************)
(* A master with two slaves, a chain of three, or a master with two slaves *)
(* beside another master.                                                  *)
(***************************************************************************)
EXTENDS RedisReplication

CONSTANTS redis1, redis2, redis3, redis4,
          Writes, Bgsaves, Faults, Failures, Slaveofs, RestartsAndSlaveofs

Star == [x \in Server |-> IF x = redis1 THEN None ELSE redis1]
Chain == [x \in Server |-> CASE x = redis1 -> None
                             [] x = redis2 -> redis1
                             [] OTHER -> redis2]
Topologies == {Star, Chain}

TwoMasters == {[x \in Server |-> IF x \in {redis1, redis4} THEN None ELSE redis1]}

\* Each fault at most once, and at most Faults of them all together.
Bounds(c) ==
    /\ c["write"] <= Writes
    /\ c["bgsave"] <= Bgsaves
    /\ c["slaveof"] <= Slaveofs
    /\ c["bgsave fails"] <= Failures
    /\ {c["break"], c["bgsave fails"], c["restart"], c["backlog freed"]} \subseteq 0..1
    /\ c["break"] + c["bgsave fails"] + c["restart"] + c["backlog freed"] <= Faults
    /\ c["restart"] + c["slaveof"] <= RestartsAndSlaveofs
=============================================================================
