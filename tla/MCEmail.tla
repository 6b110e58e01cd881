------------------------------ MODULE MCEmail ------------------------------
(* Small instances of Email for TLC.  Free entries are taken by CHOOSE, so   *)
(* the identifiers of entries are not symmetric.                             *)
EXTENDS Email
=============================================================================
