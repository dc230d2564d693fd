--------------------------- MODULE MCIncrementalGC ---------------------------
(* IncrementalGC with three slots, in two blocks or in a block each.       *)
EXTENDS IncrementalGC, TLC

CONSTANTS o1, o2, o3, b1, b2, b3

TwoBlocks   == (o1 :> b1) @@ (o2 :> b1) @@ (o3 :> b2)
ThreeBlocks == (o1 :> b1) @@ (o2 :> b2) @@ (o3 :> b3)
Symmetry == Permutations({o1, o2})
=============================================================================
