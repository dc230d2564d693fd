----------------------------- MODULE MCHashtable -----------------------------
EXTENDS Hashtable, TLC
CONSTANTS i1, s1, s2, v1, v2
\* Hash values chosen so that keys meet in tables of 2, 4 and 8 pairs.
MCKeys == {i1, s1, s2}
MCInts == {i1}
MCObjects == {s1}
MCHideable == {i1}
MCValues == "inline" :> {v1} @@ "weakKeys" :> {v1} @@ "weakValues" :> {v1, v2}
MCHash == i1 :> 1 @@ s1 :> 5 @@ s2 :> 2
=============================================================================
