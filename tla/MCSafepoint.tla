---------------------------- MODULE MCSafepoint ----------------------------
(* Small instances of Safepoint for TLC. *)
EXTENDS Safepoint, TLC

(* Threads are interchangeable: the safety runs may reduce by symmetry. *)
Symmetry == Permutations(Threads)
=============================================================================
