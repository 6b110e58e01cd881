------------------------------ MODULE MCPersist ------------------------------
(* Small instances of Persist for TLC.  Version numbers are ordered and the  *)
(* queue is a sequence, so there is no symmetry.                             *)
EXTENDS Persist
=============================================================================
