----------------------------- MODULE MCRegistry -----------------------------
(* A small instance of Registry for TLC.                                    *)
EXTENDS Registry, TLC

CONSTANTS i1, i2, c1, t1, t2, t3

MCSymmetry == Permutations(Instance) \cup Permutations(Task)
(* The properties say nothing more of a code once it is contested.          *)
MCUncontested == contested # Code
=============================================================================
