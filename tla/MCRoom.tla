------------------------------- MODULE MCRoom -------------------------------
(* Room on small instances.  Symmetry is used for safety only. *)
EXTENDS Room, TLC

RoomSymmetry ==
  Permutations(Player) \cup Permutations(Session) \cup Permutations(Callback)
=============================================================================
