--------------------------- MODULE MCCabangServer ---------------------------
(* Two devices, two ids for branches, one name. *)
EXTENDS CabangServer, TLC

CabangSymmetry == Permutations(CabangId) \cup Permutations(Pemilik) \cup Permutations(Peran)
=============================================================================
