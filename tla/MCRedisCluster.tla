--------------------------- MODULE MCRedisCluster ---------------------------
(* One master with two slaves, or three masters of a slot each and a slave. *)
EXTENDS RedisCluster, TLC

CONSTANTS a, b, c, x, y, sa, sb, sc

Order == (a :> 1) @@ (x :> 2) @@ (y :> 3) @@ (b :> 4) @@ (c :> 5)
IDs == [n \in Node |-> Order[n]]
Masters == [n \in Node |-> IF n \in {x, y} THEN a ELSE None]
Owners == [j \in Slot |-> CASE j = sa -> a [] j = sb -> b [] OTHER -> c]
Epochs == [n \in MasterNodes |-> CASE n = a -> 1 [] n = b -> 2 [] OTHER -> 3]
=============================================================================
