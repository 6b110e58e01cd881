------------------------------- MODULE MCHub -------------------------------
(* Small instances of Hub for TLC.  The run of the safety invariants also    *)
(* checks liveness, so no symmetry is used.                                  *)
EXTENDS Hub
=============================================================================
