------------------------- MODULE MCRedisPersistence -------------------------
(* One server, whose writes, commands and faults are bounded. *)
EXTENDS RedisPersistence

CONSTANTS Writes, Commands, Faults, Crashes

Bounds(c) ==
    /\ c["write"] <= Writes
    /\ c["rewrite"] + c["bgsave"] + c["config"] <= Commands
    /\ c["fault"] <= Faults
    /\ c["crash"] <= Crashes
=============================================================================
