----------------------------- MODULE MCVMThread -----------------------------
(* Small instances of VMThread for TLC. *)
EXTENDS VMThread
=============================================================================
