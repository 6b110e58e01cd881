------------------------------ MODULE MCAdmin ------------------------------
(* A small instance of Admin for TLC.                                       *)
EXTENDS Admin, TLC

CONSTANTS t1, t2, i1, i2, pw1, pw2, s1, s2

MCSymmetry == Permutations(Thread) \cup Permutations(IP) \cup Permutations(Session)
=============================================================================
