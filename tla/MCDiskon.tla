------------------------------ MODULE MCDiskon ------------------------------
(* Two branches, whose managers type the same names. *)
EXTENDS Diskon, TLC

DiskonSymmetry ==
    Permutations(Cabang) \cup Permutations(DiskonId) \cup Permutations(Nama)
=============================================================================
