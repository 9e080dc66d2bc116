---------------------------- MODULE MCMasterData ----------------------------
(* Two rows in each collection, two lists on their way. *)
EXTENDS MasterData, TLC

MasterSymmetry == Permutations(Id) \cup Permutations(Req) \cup Permutations(Nama)
=============================================================================
