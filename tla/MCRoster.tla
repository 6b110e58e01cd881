------------------------------ MODULE MCRoster ------------------------------
(* A small instance of Roster for TLC: n1s is n1 with the trailing space    *)
(* that cutting a longer name may leave.                                    *)
EXTENDS Roster, TLC

CONSTANTS n1, n2, n3, n4, n1s

MCSanitize == [n \in Name |-> IF n = n1s THEN n1 ELSE n]

MCSymmetry == Permutations(Player) \cup Permutations({n2, n3, n4})
=============================================================================
