----------------------------- MODULE MCOutbound -----------------------------
(* A small instance of Outbound for TLC: one player with two sessions, so   *)
(* that one replaces the other, and a player with one.                      *)
EXTENDS Outbound

CONSTANTS p1, p2, s1, s2, s3

MCPlayerOf == [s \in Sock |-> IF s = s3 THEN p2 ELSE p1]
=============================================================================
