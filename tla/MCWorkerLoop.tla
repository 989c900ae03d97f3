---------------------------- MODULE MCWorkerLoop ----------------------------
(* Instances of WorkerLoop for TLC. *)
EXTENDS WorkerLoopProperties
=============================================================================
