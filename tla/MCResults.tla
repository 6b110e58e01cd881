----------------------------- MODULE MCResults -----------------------------
(* A small instance of Results for TLC.                                     *)
EXTENDS Results, TLC

MCSymmetry == Permutations(Player)
=============================================================================
