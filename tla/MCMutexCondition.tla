--------------------------- MODULE MCMutexCondition -------------------------
(* Small instances of MutexCondition for TLC. *)
EXTENDS MutexCondition
=============================================================================
