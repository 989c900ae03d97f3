---------------------------- MODULE MCUpdateDedup ----------------------------
(* Instances of UpdateDedup for TLC. *)
EXTENDS UpdateDedupProperties
=============================================================================
