------------------------------ MODULE MCGCHeap ------------------------------
(* Instances of GCHeap.  The code's constants are scaled down; an address   *)
(* space of 14 pages leaves room for two regions and a table that moves.    *)
EXTENDS GCHeap

CONSTANT t1

OneThread == {t1}

(* A small item, and one that gets a region of its own, on an even page.    *)
SmallAndLarge == {<<2, 1>>, <<4, 2>>}
=============================================================================
