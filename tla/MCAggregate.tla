---------------------------- MODULE MCAggregate ----------------------------
(* Instances of Aggregate for TLC. *)
EXTENDS Aggregate, TLC

Symmetry == Permutations(Workers)
=============================================================================
