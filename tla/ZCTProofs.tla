------------------------------ MODULE ZCTProofs ------------------------------
(***************************************************************************)
(* Proofs about ZCT for any finite set of objects, any size of the blocks  *)
(* and of the table, and any finalizers but those that retain an object of *)
(* the stack ("retain"), for which IndexConsistent does not hold.  That    *)
(* indices stay below the capacity is proved when the pinning memory has   *)
(* room (Ample): PinObject does not compare the index with ZCT_CAPACITY.   *)
(***************************************************************************)
EXTENDS ZCT, SequenceTheorems, FiniteSetTheorems, TLAPS

(* Types, with indices that are only known to be numbers. *)
Typed ==
  /\ alive \subseteq Objs
  /\ ptr \in [Objs -> SUBSET Objs] /\ globals \subseteq Objs
  /\ stack \subseteq Objs /\ locals \subseteq Objs
  /\ rc \in [Objs -> 0..MaxRef] /\ sticky \subseteq Objs
  /\ idx \in [Objs -> Nat \cup {None}]
  /\ pinned \subseteq Objs
  /\ table \in Seq(Objs \cup {None}) /\ pin \in Seq(Objs \cup {None})
  /\ nblocks \in Nat \ {0}
  /\ reaping \in BOOLEAN /\ collecting \in BOOLEAN /\ marked \subseteq Objs
  /\ pc \in {"run", "reap", "finalizer", "sweep", "add"}
  /\ dying \in Objs \cup {None} /\ pending \in Objs \cup {None}

(* The reaper and the collector never run together; who runs when. *)
Modes ==
  /\ ~(reaping /\ collecting)
  /\ reaping => pc \in {"reap", "finalizer"}
  /\ collecting => pc \in {"sweep", "finalizer"}
  /\ pc = "reap" => reaping
  /\ pc = "sweep" => collecting
  /\ pc = "finalizer" => reaping \/ collecting
  /\ dying # None <=> pc = "finalizer"
  /\ dying # None => dying \in alive /\ dying \notin marked
  /\ pc = "add" => pending # None
  /\ pending # None => ~collecting /\ pc \in {"add", "reap", "finalizer"}
  /\ locals # {} => pc = "finalizer"
  /\ pin # <<>> => reaping
  /\ ~collecting => marked = {}

(* What survives the reaper or the collector that runs, and the cells a    *)
(* sweep frees, which objects yet to be freed may still refer to.          *)
Live == IF collecting THEN alive \cap marked ELSE alive \ {dying}
Swept == IF collecting THEN Objs \ marked ELSE {}

Roots == globals \cup frame \subseteq Live

(* No reference leads out of what survives, nor to a cell that New may use. *)
Closed ==
  /\ \A c \in alive : ptr[c] \subseteq alive \cup Swept
  /\ \A c \in Live : ptr[c] \subseteq Live

Unused ==
  \A o \in Objs \ alive : ptr[o] = {} /\ rc[o] = 0 /\ idx[o] = None /\ o \notin sticky

(* A count below the maximum is not sticky, and only an object without a   *)
(* counted reference has an index.                                         *)
Counted ==
  \A o \in Objs : /\ rc[o] < MaxRef \/ o \in sticky
                  /\ idx[o] # None => rc[o] = 0 /\ o \notin sticky

(* The object that AddSlow will add after reaping is as it was before. *)
Added ==
  pending # None =>
    rc[pending] = 0 /\ idx[pending] = None /\ pending \notin sticky \cup locals

(* Entries and indices agree, and no object is in both tables. *)
At(s, o, i) == i + 1 \in DOMAIN s /\ s[i + 1] = o
Indexed ==
  /\ \A o \in Objs, i \in Nat : At(table, o, i) \/ At(pin, o, i) => idx[o] = i
  /\ \A o \in Objs : idx[o] # None => At(table, o, idx[o]) \/ At(pin, o, idx[o])
  /\ \A o \in Objs, i \in Nat : ~(At(table, o, i) /\ At(pin, o, i))

(* Reaping has pinned what the stack refers to, and unpins what it moves.  *)
InPin(o) == idx[o] # None /\ At(pin, o, idx[o])
InTable(o) == idx[o] # None /\ At(table, o, idx[o])
Pins ==
  /\ \A o \in pinned : ~InPin(o) /\ (~reaping => ~InTable(o))
  /\ reaping => /\ \A o \in stack \cup ({pending} \ {None}) : o \in pinned \/ InPin(o)
                /\ \A o \in locals \cup ({dying} \ {None}) : ~InPin(o)

IInv ==
  Typed /\ Modes /\ Roots /\ Closed /\ Unused /\ Counted /\ CountsAccurate
        /\ Added /\ Indexed /\ Pins

(***************************************************************************)
(* Entries of a sequence that is appended to, cleared at an index, popped. *)
(***************************************************************************)
Entry == Objs \cup {None}

LEMMA AppendAt ==
  ASSUME NEW s \in Seq(Entry), NEW o \in Entry
  PROVE  /\ Append(s, o) \in Seq(Entry) /\ Len(s) \in Nat
         /\ Len(Append(s, o)) = Len(s) + 1
         /\ \A p \in Objs, i \in Nat : At(s, p, i) => i < Len(s)
         /\ \A p \in Objs, i \in Nat : At(Append(s, o), p, i)
                                <=> At(s, p, i) \/ (p = o /\ i = Len(s))
<1> DEFINE r == Append(s, o)
           n == Len(s)
<1>1. /\ r \in Seq(Entry) /\ Len(r) = n + 1 /\ n \in Nat
      /\ DOMAIN r = 1..(n + 1) /\ DOMAIN s = 1..n
      /\ \A i \in 1..n : r[i] = s[i]
      /\ r[n + 1] = o
  BY AppendProperties, LenProperties
<1> HIDE DEF r, n
<1>2. ASSUME NEW p \in Objs, NEW i \in Nat
      PROVE  At(r, p, i) <=> At(s, p, i) \/ (p = o /\ i = n)
  <2>1. i + 1 \in 1..(n + 1) <=> i + 1 \in 1..n \/ i = n
    BY <1>1
  <2>2. i = n => i + 1 \notin 1..n /\ i + 1 = n + 1
    BY <1>1
  <2> QED
    BY <1>1, <2>1, <2>2 DEF At
<1>3. ASSUME NEW p \in Objs, NEW i \in Nat, At(s, p, i) PROVE i < n
  BY <1>1, <1>3 DEF At
<1> QED
  BY <1>1, <1>2, <1>3 DEF r, n

LEMMA ClearAt ==
  ASSUME NEW s \in Seq(Entry), NEW k \in Nat, NEW r,
         r = [j \in DOMAIN s |-> IF j = k + 1 THEN None ELSE s[j]]
  PROVE  /\ r \in Seq(Entry) /\ Len(r) = Len(s)
         /\ \A p \in Objs, i \in Nat : At(r, p, i) <=> At(s, p, i) /\ i # k
<1>1. DOMAIN s = 1..Len(s) /\ Len(s) \in Nat /\ \A j \in 1..Len(s) : s[j] \in Entry
  BY LenProperties, ElementOfSeq
<1>2. /\ r = [j \in 1..Len(s) |-> IF j = k + 1 THEN None ELSE s[j]]
      /\ \A j \in 1..Len(s) : (IF j = k + 1 THEN None ELSE s[j]) \in Entry
  BY <1>1 DEF Entry
<1>3. r \in Seq(Entry) /\ DOMAIN r = 1..Len(s) /\ Len(r) \in Nat
  BY <1>1, <1>2, IsASeq, LenProperties
<1>4. Len(r) = Len(s)
  BY <1>1, <1>3, LenProperties
<1>5. ASSUME NEW p \in Objs, NEW i \in Nat PROVE At(r, p, i) <=> At(s, p, i) /\ i # k
  BY <1>1, ZCTAssumption DEF At
<1> QED
  BY <1>3, <1>4, <1>5

LEMMA FrontAt ==
  ASSUME NEW s \in Seq(Entry), s # <<>>
  PROVE  /\ SubSeq(s, 1, Len(s) - 1) \in Seq(Entry)
         /\ Len(SubSeq(s, 1, Len(s) - 1)) = Len(s) - 1 /\ Len(s) \in Nat \ {0}
         /\ s[Len(s)] \in Entry
         /\ \A p \in Objs, i \in Nat : At(SubSeq(s, 1, Len(s) - 1), p, i)
                                <=> At(s, p, i) /\ i # Len(s) - 1
         /\ At(s, s[Len(s)], Len(s) - 1)
<1> DEFINE n == Len(s)
           r == SubSeq(s, 1, n - 1)
<1>1. /\ DOMAIN s = 1..n /\ n \in Nat \ {0}
      /\ \A j \in 1..n : s[j] \in Entry
  BY LenProperties, ElementOfSeq, EmptySeq
<1> HIDE DEF n
<1>2. r \in Seq(Entry) /\ Len(r) = n - 1 /\ \A j \in 1..(n - 1) : r[j] = s[j]
  <2>1. 1 \in Int /\ n - 1 \in Int /\ \A j \in 1..(n - 1) : s[j] \in Entry
    BY <1>1
  <2> QED
    BY <2>1, <1>1, SubSeqProperties
<1>3. DOMAIN r = 1..(n - 1)
  BY <1>2, LenProperties
<1> HIDE DEF r
<1>4. ASSUME NEW p \in Objs, NEW i \in Nat PROVE At(r, p, i) <=> At(s, p, i) /\ i # n - 1
  <2>1. i + 1 \in 1..(n - 1) <=> i + 1 \in 1..n /\ i # n - 1
    BY <1>1
  <2> QED
    BY <1>1, <1>2, <1>3, <2>1 DEF At
<1>5. At(s, s[n], n - 1) /\ s[n] \in Entry
  BY <1>1 DEF At
<1> QED
  BY <1>1, <1>2, <1>4, <1>5 DEF r, n

(***************************************************************************)
(* What adding an object to the table, and taking one out, changes.        *)
(***************************************************************************)

(* Every object but o keeps its place. *)
Elsewhere(o) ==
  \A p \in Objs \ {o} : /\ idx'[p] = idx[p]
                        /\ InTable(p)' <=> InTable(p)
                        /\ InPin(p)' <=> InPin(p)

LEMMA EnterEffect ==
  ASSUME Typed, Indexed, NEW o \in Objs, idx[o] = None, UNCHANGED pin,
         table' = Append(table, o), idx' = [idx EXCEPT ![o] = Len(table)]
  PROVE  /\ table' \in Seq(Objs \cup {None}) /\ idx' \in [Objs -> Nat \cup {None}]
         /\ Indexed' /\ Elsewhere(o) /\ InTable(o)' /\ ~InPin(o)'
<1>1. /\ table' \in Seq(Entry) /\ Len(table) \in Nat
      /\ \A p \in Objs, i \in Nat : At(table, p, i) => i < Len(table)
      /\ \A p \in Objs, i \in Nat : At(table', p, i) <=> At(table, p, i) \/ (p = o /\ i = Len(table))
  BY AppendAt DEF Typed, Entry
<1>2. /\ idx' \in [Objs -> Nat \cup {None}] /\ idx'[o] = Len(table)
      /\ \A p \in Objs \ {o} : idx'[p] = idx[p]
      /\ None \notin Nat /\ None \notin Objs
      /\ \A p \in Objs : idx[p] \in Nat \cup {None}
  BY <1>1, ZCTAssumption DEF Typed
<1>3. \A i \in Nat : ~At(table, o, i) /\ ~At(pin, o, i)
  BY <1>2 DEF Indexed
<1> DEFINE n == Len(table)
<1> HIDE DEF n
<1>4. ASSUME NEW p \in Objs, NEW i \in Nat, At(table', p, i) \/ At(pin, p, i)
      PROVE  idx'[p] = i
  BY <1>1, <1>2, <1>3, <1>4 DEF Indexed
<1>5. ASSUME NEW p \in Objs, idx'[p] # None
      PROVE  At(table', p, idx'[p]) \/ At(pin, p, idx'[p])
  BY <1>1, <1>2, <1>5 DEF Indexed
<1>6. ASSUME NEW p \in Objs, NEW i \in Nat PROVE ~(At(table', p, i) /\ At(pin, p, i))
  BY <1>1, <1>3 DEF Indexed
<1>7. Indexed'
  BY <1>4, <1>5, <1>6 DEF Indexed, At
<1>8. \A p \in Objs \ {o} : idx[p] # None => (At(table', p, idx[p]) <=> At(table, p, idx[p]))
  BY <1>1, <1>2 DEF Indexed
<1> QED
  BY <1>1, <1>2, <1>3, <1>7, <1>8 DEF Elsewhere, InTable, InPin, At, Entry

LEMMA RemoveEffect ==
  ASSUME Typed, Indexed, NEW o \in Objs, ~InPin(o), UNCHANGED pin,
         IF idx[o] # None THEN RemoveFromZCT(o) ELSE UNCHANGED <<table, idx>>
  PROVE  /\ table' \in Seq(Objs \cup {None}) /\ idx' \in [Objs -> Nat \cup {None}]
         /\ Indexed' /\ Elsewhere(o) /\ idx'[o] = None
<1>1. CASE idx[o] = None
  BY <1>1 DEF Indexed, Elsewhere, InTable, InPin, At, Typed
<1>2. CASE idx[o] # None
  <2> DEFINE k == idx[o]
  <2>1. k \in Nat /\ None \notin Nat
    BY <1>2, ZCTAssumption DEF Typed
  <2>2. /\ table' = [j \in DOMAIN table |-> IF j = k + 1 THEN None ELSE table[j]]
        /\ idx' = [idx EXCEPT ![o] = None]
    BY <1>2 DEF RemoveFromZCT
  <2> HIDE DEF k
  <2>3. /\ table' \in Seq(Entry)
        /\ \A p \in Objs, i \in Nat : At(table', p, i) <=> At(table, p, i) /\ i # k
    <3> DEFINE r == table'
    <3>1. table \in Seq(Entry) /\ r = [j \in DOMAIN table |-> IF j = k + 1 THEN None ELSE table[j]]
      BY <2>2 DEF Typed, Entry
    <3> HIDE DEF r
    <3>2. /\ r \in Seq(Entry)
          /\ \A p \in Objs, i \in Nat : At(r, p, i) <=> At(table, p, i) /\ i # k
      BY <2>1, <3>1, ClearAt
    <3> QED
      BY <3>2 DEF r
  <2>4. /\ idx' \in [Objs -> Nat \cup {None}] /\ idx'[o] = None
        /\ \A p \in Objs \ {o} : idx'[p] = idx[p]
        /\ \A p \in Objs : idx[p] \in Nat \cup {None}
    BY <2>2 DEF Typed
  <2>5. At(table, o, k) /\ ~At(pin, o, k)
    BY <1>2 DEF k, InPin, Indexed
  <2>6. \A p \in Objs \ {o} : ~At(table, p, k)
    BY <2>1, <2>5, ZCTAssumption DEF At
  <2>7. \A i \in Nat : ~At(table', o, i) /\ ~At(pin, o, i)
    BY <2>1, <2>3, <2>5 DEF Indexed, k
  <2>8. ASSUME NEW p \in Objs, NEW i \in Nat, At(table', p, i) \/ At(pin, p, i)
        PROVE  idx'[p] = i
    BY <2>3, <2>4, <2>7, <2>8 DEF Indexed
  <2>9. ASSUME NEW p \in Objs, idx'[p] # None
        PROVE  At(table', p, idx'[p]) \/ At(pin, p, idx'[p])
    BY <2>3, <2>4, <2>6, <2>9 DEF Indexed
  <2>10. ASSUME NEW p \in Objs, NEW i \in Nat PROVE ~(At(table', p, i) /\ At(pin, p, i))
    BY <2>3 DEF Indexed
  <2>11. Indexed'
    BY <2>8, <2>9, <2>10 DEF Indexed, At
  <2>12. \A p \in Objs \ {o} : idx[p] # None => (At(table', p, idx[p]) <=> At(table, p, idx[p]))
    BY <2>3, <2>4, <2>6
  <2> QED
    BY <2>3, <2>4, <2>11, <2>12 DEF Elsewhere, InTable, InPin, At, Entry
<1> QED
  BY <1>1, <1>2

(* ZCT::Add: the object is entered, left out, or left for after reaping.   *)
LEMMA AddEffect ==
  ASSUME Typed, Indexed, NEW o \in Objs, idx[o] = None, UNCHANGED pin, Add(o)
  PROVE  /\ table' \in Seq(Objs \cup {None}) /\ idx' \in [Objs -> Nat \cup {None}]
         /\ nblocks' \in Nat \ {0}
         /\ Indexed' /\ Elsewhere(o) /\ ~InPin(o)'
         /\ pinned' \subseteq pinned /\ pinned \subseteq pinned' \cup {o}
         /\ reaping => pinned' = pinned
         /\ ~reaping /\ InTable(o)' => o \notin pinned'
         /\ \/ UNCHANGED <<pc, pending>>
            \/ /\ ~collecting /\ ~reaping /\ idx'[o] = None
               /\ pc' = "add" /\ pending' = o
<1>1. ASSUME Enter(o), nblocks' \in Nat \ {0}, UNCHANGED <<pc, pending>>
      PROVE  /\ table' \in Seq(Objs \cup {None}) /\ idx' \in [Objs -> Nat \cup {None}]
             /\ Indexed' /\ Elsewhere(o) /\ ~InPin(o)'
             /\ pinned' \subseteq pinned /\ pinned \subseteq pinned' \cup {o}
             /\ reaping => pinned' = pinned
             /\ ~reaping => o \notin pinned'
  <2>1. /\ table' = Append(table, o) /\ idx' = [idx EXCEPT ![o] = Len(table)]
        /\ pinned' = IF reaping THEN pinned ELSE pinned \ {o}
    BY <1>1 DEF Enter
  <2>2. /\ table' \in Seq(Objs \cup {None}) /\ idx' \in [Objs -> Nat \cup {None}]
        /\ Indexed' /\ Elsewhere(o) /\ ~InPin(o)'
    BY <2>1, EnterEffect
  <2> QED
    BY <2>1, <2>2 DEF Typed
<1>2. ASSUME NotEntered
      PROVE  /\ table' \in Seq(Objs \cup {None}) /\ idx' \in [Objs -> Nat \cup {None}]
             /\ nblocks' \in Nat \ {0} /\ idx'[o] = None
             /\ Indexed' /\ Elsewhere(o) /\ ~InPin(o)' /\ ~InTable(o)'
             /\ pinned' = pinned
  <2>1. UNCHANGED <<table, idx, pinned, nblocks, pin>>
    BY <1>2 DEF NotEntered
  <2> QED
    BY <2>1 DEF Typed, Indexed, Elsewhere, InTable, InPin, At
<1>3. nblocks \in Nat \ {0} /\ nblocks + 1 \in Nat \ {0}
  BY DEF Typed
<1>4. CASE NotEntered /\ UNCHANGED <<pc, pending>>
  BY <1>2, <1>4
<1>5. CASE Enter(o) /\ nblocks' \in Nat \ {0} /\ UNCHANGED <<pc, pending>>
  BY <1>1, <1>5
<1>6. CASE Full /\ ~collecting /\ ~reaping /\ pending' = o /\ pc' = "add" /\ NotEntered
  BY <1>2, <1>6
<1> QED
  BY <1>3, <1>4, <1>5, <1>6 DEF Add, GrowAndEnter

(* An object that gets a reference leaves the table. *)
LEMMA IncrementEffect ==
  ASSUME Typed, Counted, Indexed, NEW o \in alive, ~InPin(o), UNCHANGED pin,
         IncrementRef(o)
  PROVE  /\ table' \in Seq(Objs \cup {None}) /\ idx' \in [Objs -> Nat \cup {None}]
         /\ rc' \in [Objs -> 0..MaxRef] /\ sticky' \subseteq Objs
         /\ Indexed' /\ Elsewhere(o) /\ idx'[o] = None
         /\ \A p \in Objs \ {o} : rc'[p] = rc[p]
         /\ sticky \subseteq sticky' /\ sticky' \subseteq sticky \cup {o}
         /\ rc'[o] < MaxRef \/ o \in sticky'
         /\ o \notin sticky' => rc'[o] = rc[o] + 1
<1>1. /\ o \in Objs /\ MaxRef \in Nat \ {0, 1} /\ rc[o] \in 0..MaxRef
      /\ rc[o] < MaxRef \/ o \in sticky
      /\ idx[o] # None => rc[o] = 0 /\ o \notin sticky
  BY ZCTAssumption DEF Typed, Counted
<1>2. CASE o \in sticky
  <2>1. UNCHANGED <<rc, sticky, table, idx>> /\ idx[o] = None
    BY <1>1, <1>2 DEF IncrementRef
  <2> QED
    BY <1>1, <1>2, <2>1, RemoveEffect DEF Typed
<1>3. CASE o \notin sticky
  <2>1. /\ rc' = [rc EXCEPT ![o] = rc[o] + 1] /\ rc[o] + 1 \in 0..MaxRef
        /\ IF idx[o] # None THEN RemoveFromZCT(o) ELSE UNCHANGED <<table, idx>>
        /\ sticky' = IF rc[o] + 1 = MaxRef THEN sticky \cup {o} ELSE sticky
    BY <1>1, <1>3 DEF IncrementRef
  <2>2. /\ rc' \in [Objs -> 0..MaxRef] /\ rc'[o] = rc[o] + 1
        /\ \A p \in Objs \ {o} : rc'[p] = rc[p]
    BY <1>1, <2>1 DEF Typed
  <2>3. /\ table' \in Seq(Objs \cup {None}) /\ idx' \in [Objs -> Nat \cup {None}]
        /\ Indexed' /\ Elsewhere(o) /\ idx'[o] = None
    BY <1>1, <2>1, RemoveEffect
  <2>4. rc'[o] < MaxRef \/ o \in sticky'
    BY <1>1, <1>3, <2>1, <2>2
  <2> QED
    BY <1>1, <2>1, <2>2, <2>3, <2>4 DEF Typed
<1> QED
  BY <1>2, <1>3

(* An object that loses its last reference is added to the table. *)
LEMMA DecrementEffect ==
  ASSUME Typed, Counted, NEW o \in Objs, o \in alive \ sticky => rc[o] # 0,
         DecrementRef(o)
  PROVE  /\ rc' \in [Objs -> 0..MaxRef] /\ \A p \in Objs \ {o} : rc'[p] = rc[p]
         /\ rc'[o] = IF o \in alive \ sticky THEN rc[o] - 1 ELSE rc[o]
         /\ \/ NotEntered /\ UNCHANGED <<pc, pending>> /\ (idx[o] # None => rc'[o] = rc[o])
            \/ o \in alive \ sticky /\ rc'[o] = 0 /\ idx[o] = None /\ Add(o)
<1>1. CASE o \notin alive \ sticky
  <2>1. UNCHANGED rc /\ NotEntered /\ UNCHANGED <<pc, pending>>
    BY <1>1 DEF DecrementRef
  <2> QED
    BY <1>1, <2>1 DEF Typed
<1>2. CASE o \in alive \ sticky
  <2>1. /\ rc[o] # 0 /\ rc[o] \in 0..MaxRef /\ MaxRef \in Nat /\ idx[o] = None
    BY <1>2, ZCTAssumption DEF Typed, Counted
  <2>2. /\ rc' = [rc EXCEPT ![o] = rc[o] - 1] /\ rc[o] - 1 \in 0..MaxRef
        /\ IF rc[o] = 1 THEN Add(o) ELSE NotEntered /\ UNCHANGED <<pc, pending>>
    BY <1>2, <2>1 DEF DecrementRef
  <2> QED
    BY <1>2, <2>1, <2>2 DEF Typed
<1> QED
  BY <1>1, <1>2

(***************************************************************************)
(* What popping the table changes.                                         *)
(***************************************************************************)
LEMMA PopEffect ==
  ASSUME Typed, table # <<>>, Pop
  PROVE  /\ table' \in Seq(Objs \cup {None}) /\ nblocks' \in Nat \ {0}
         /\ Len(table) - 1 \in Nat /\ Top \in Objs \cup {None}
         /\ Len(table') = Len(table) - 1
         /\ At(table, Top, Len(table) - 1)
         /\ \A p \in Objs, i \in Nat : At(table', p, i)
                                         <=> At(table, p, i) /\ i # Len(table) - 1
<1> DEFINE n == Len(table)
<1>1. /\ table' \in Seq(Entry) /\ n \in Nat \ {0} /\ Top \in Entry
      /\ Len(table') = n - 1 /\ At(table, Top, n - 1)
      /\ \A p \in Objs, i \in Nat : At(table', p, i) <=> At(table, p, i) /\ i # n - 1
  BY FrontAt DEF Typed, Entry, Pop, Top
<1> HIDE DEF n
<1>2. nblocks' \in Nat \ {0}
  <2>1. nblocks \in Nat \ {0} /\ BlockSize \in Nat
    BY ZCTAssumption DEF Typed
  <2>2. CASE nblocks = 1
    <3>1. (nblocks - 1) * BlockSize = 0
      BY <2>1, <2>2
    <3> QED
      BY <1>1, <2>1, <2>2, <3>1 DEF Pop, n
  <2>3. CASE nblocks # 1
    BY <2>1, <2>3 DEF Pop
  <2> QED
    BY <2>2, <2>3
<1> QED
  BY <1>1, <1>2 DEF Entry, n

(* An empty entry goes. *)
LEMMA PopNullEffect ==
  ASSUME Typed, Indexed, table # <<>>, Pop, Top = None, UNCHANGED <<idx, pin>>
  PROVE  Indexed' /\ \A p \in Objs : (InTable(p)' <=> InTable(p)) /\ (InPin(p)' <=> InPin(p))
<1>1. \A p \in Objs, i \in Nat : At(table', p, i) <=> At(table, p, i)
  BY PopEffect, ZCTAssumption DEF At
<1>2. \A p \in Objs : idx[p] \in Nat \/ idx[p] = None
  BY DEF Typed
<1>3. \A p \in Objs : idx[p] # None => (At(table', p, idx[p]) <=> At(table, p, idx[p]))
  BY <1>1, <1>2
<1>4. Indexed'
  BY <1>1, <1>3 DEF Indexed, At
<1> QED
  BY <1>3, <1>4 DEF InTable, InPin, At

(* The object of the last entry is in the table and nowhere else. *)
LEMMA TopIndexed ==
  ASSUME Typed, Indexed, table # <<>>, Pop, Top \in Objs
  PROVE  /\ idx[Top] = Len(table) - 1 /\ idx[Top] # None
         /\ InTable(Top) /\ ~InPin(Top)
         /\ \A i \in Nat : ~At(table', Top, i) /\ ~At(pin, Top, i)
         /\ \A p \in Objs \ {Top}, i \in Nat : At(table', p, i) <=> At(table, p, i)
<1> DEFINE n == Len(table) - 1
<1>1. /\ n \in Nat /\ At(table, Top, n) /\ None \notin Nat
      /\ \A p \in Objs, i \in Nat : At(table', p, i) <=> At(table, p, i) /\ i # n
  BY PopEffect, ZCTAssumption
<1> HIDE DEF n
<1>2. idx[Top] = n
  BY <1>1 DEF Indexed
<1>3. \A p \in Objs \ {Top} : ~At(table, p, n)
  BY <1>1 DEF At
<1> QED
  BY <1>1, <1>2, <1>3 DEF n, Indexed, InTable, InPin

(* It leaves the table when it is reaped, or not pinned for want of memory. *)
LEMMA PopOut ==
  ASSUME Typed, Indexed, table # <<>>, Pop, NEW o \in Objs, Top = o, UNCHANGED pin,
         idx' = [idx EXCEPT ![o] = None]
  PROVE  /\ idx' \in [Objs -> Nat \cup {None}] /\ idx'[o] = None
         /\ Indexed' /\ Elsewhere(o)
<1>1. /\ \A i \in Nat : ~At(table', o, i) /\ ~At(pin, o, i)
      /\ \A p \in Objs \ {o}, i \in Nat : At(table', p, i) <=> At(table, p, i)
      /\ o \in Objs
  BY TopIndexed
<1>2. /\ idx' \in [Objs -> Nat \cup {None}] /\ idx'[o] = None
      /\ \A p \in Objs \ {o} : idx'[p] = idx[p]
      /\ \A p \in Objs : idx[p] \in Nat \/ idx[p] = None
  BY DEF Typed
<1>3. Indexed'
  <2>1. ASSUME NEW p \in Objs, NEW i \in Nat, At(table', p, i) \/ At(pin, p, i)
        PROVE  idx'[p] = i
    BY <1>1, <1>2, <2>1 DEF Indexed
  <2>2. ASSUME NEW p \in Objs, idx'[p] # None
        PROVE  At(table', p, idx'[p]) \/ At(pin, p, idx'[p])
    BY <1>1, <1>2, <2>2 DEF Indexed
  <2>3. ASSUME NEW p \in Objs, NEW i \in Nat PROVE ~(At(table', p, i) /\ At(pin, p, i))
    BY <1>1, <2>3 DEF Indexed
  <2> QED
    BY <2>1, <2>2, <2>3 DEF Indexed, At
<1>4. \A p \in Objs \ {o} : idx[p] # None => (At(table', p, idx[p]) <=> At(table, p, idx[p]))
  BY <1>1, <1>2
<1> QED
  BY <1>2, <1>3, <1>4 DEF Elsewhere, InTable, InPin, At

(* Or it moves to the pinning memory. *)
LEMMA PopIn ==
  ASSUME Typed, Indexed, table # <<>>, Pop, NEW o \in Objs, Top = o,
         pin' = Append(PinRoom, o), idx' = [idx EXCEPT ![o] = Len(PinRoom)]
  PROVE  /\ idx' \in [Objs -> Nat \cup {None}] /\ pin' \in Seq(Objs \cup {None})
         /\ Indexed' /\ Elsewhere(o) /\ InPin(o)' /\ ~InTable(o)'
<1> DEFINE n == Len(PinRoom)
<1>1. /\ \A i \in Nat : ~At(table', o, i) /\ ~At(pin, o, i)
      /\ \A p \in Objs \ {o}, i \in Nat : At(table', p, i) <=> At(table, p, i)
      /\ o \in Objs
  BY TopIndexed
<1>2. /\ PinRoom \in Seq(Entry)
      /\ \A p \in Objs, i \in Nat : At(PinRoom, p, i) <=> At(pin, p, i)
  <2>1. pin \in Seq(Entry) /\ None \in Entry /\ \A p \in Objs : p # None
    BY ZCTAssumption DEF Typed, Entry
  <2>2. /\ Append(pin, None) \in Seq(Entry)
        /\ \A p \in Objs, i \in Nat :
             At(Append(pin, None), p, i) <=> At(pin, p, i) \/ (p = None /\ i = Len(pin))
    BY <2>1, AppendAt
  <2> QED
    BY <2>1, <2>2 DEF PinRoom
<1>3. /\ pin' \in Seq(Entry) /\ n \in Nat
      /\ \A p \in Objs, i \in Nat : At(pin', p, i) <=> At(pin, p, i) \/ (p = o /\ i = n)
  BY <1>1, <1>2, AppendAt DEF Entry
<1>4. /\ idx' \in [Objs -> Nat \cup {None}] /\ idx'[o] = n /\ None \notin Nat
      /\ \A p \in Objs \ {o} : idx'[p] = idx[p]
      /\ \A p \in Objs : idx[p] \in Nat \/ idx[p] = None
  BY <1>3, ZCTAssumption DEF Typed
<1> HIDE DEF n
<1>5. Indexed'
  <2>1. ASSUME NEW p \in Objs, NEW i \in Nat, At(table', p, i) \/ At(pin', p, i)
        PROVE  idx'[p] = i
    BY <1>1, <1>3, <1>4, <2>1 DEF Indexed
  <2>2. ASSUME NEW p \in Objs, idx'[p] # None
        PROVE  At(table', p, idx'[p]) \/ At(pin', p, idx'[p])
    BY <1>1, <1>3, <1>4, <2>2 DEF Indexed
  <2>3. ASSUME NEW p \in Objs, NEW i \in Nat PROVE ~(At(table', p, i) /\ At(pin', p, i))
    BY <1>1, <1>3, <2>3 DEF Indexed
  <2> QED
    BY <2>1, <2>2, <2>3 DEF Indexed, At
<1>6. \A p \in Objs \ {o} :
        idx[p] # None => /\ At(table', p, idx[p]) <=> At(table, p, idx[p])
                         /\ At(pin', p, idx[p]) <=> At(pin, p, idx[p])
  BY <1>1, <1>3, <1>4
<1>7. At(pin', o, n) /\ ~At(table', o, n)
  BY <1>1, <1>3
<1>8. Elsewhere(o)
  BY <1>4, <1>6 DEF Elsewhere, InTable, InPin, At
<1>9. InPin(o)' /\ ~InTable(o)'
  BY <1>4, <1>7 DEF InTable, InPin, At
<1> QED
  BY <1>3, <1>4, <1>5, <1>8, <1>9 DEF Entry

(* The pinning memory becomes the table. *)
LEMMA EndEffect ==
  ASSUME Typed, Indexed, table = <<>>, table' = pin, pin' = <<>>, UNCHANGED idx
  PROVE  /\ table' \in Seq(Objs \cup {None}) /\ pin' \in Seq(Objs \cup {None})
         /\ Indexed' /\ \A p \in Objs : ~InPin(p)' /\ (InTable(p)' <=> InPin(p))
<1>1. \A p \in Objs, i \in Nat : ~At(table, p, i) /\ ~At(pin', p, i)
  BY EmptySeq, LenProperties DEF At
<1>2. \A p \in Objs : idx[p] \in Nat \/ idx[p] = None
  BY DEF Typed
<1>3. Indexed'
  BY <1>1, <1>2 DEF Indexed, At
<1> QED
  BY <1>1, <1>2, <1>3, EmptySeq DEF Typed, InTable, InPin, At

(***************************************************************************)
(* What the running code may touch.                                        *)
(***************************************************************************)
NoRetain == "retain" \notin Uses

LEMMA NotPinned ==
  ASSUME Modes, ~reaping, NEW o PROVE ~InPin(o)
<1>1. pin = <<>>
  BY DEF Modes
<1>2. DOMAIN <<>> = {}
  BY EmptySeq, LenProperties
<1> QED
  BY <1>1, <1>2 DEF InPin, At

LEMMA Surviving ==
  ASSUME Typed, Modes, Roots, NEW o \in globals \cup stack \cup locals
  PROVE  o \in Live /\ o \in alive /\ o \in Objs /\ o # dying
<1>1. o \in Live
  BY DEF Roots, frame
<1> QED
  BY <1>1, ZCTAssumption DEF Live, Typed, Modes

LEMMA AtHandAlive ==
  ASSUME NoRetain, Typed, Modes, Roots, Pins, InProgram, NEW o \in AtHand
  PROVE  /\ o \in Objs /\ o \in alive /\ ~InPin(o)
         /\ o = dying \/ (o \in Live /\ o \in stack \cup locals)
<1>1. CASE pc = "run"
  <2>1. o \in stack /\ ~reaping
    BY <1>1 DEF AtHand, Modes
  <2> QED
    BY <2>1, Surviving, NotPinned
<1>2. CASE pc # "run"
  <2>1. /\ pc = "finalizer" /\ o \in locals \cup {dying}
        /\ dying \in alive /\ dying \in Objs /\ None \notin Objs
    BY <1>2, ZCTAssumption DEF AtHand, Modes, NoRetain, InProgram, Typed
  <2>2. o = dying \/ (o \in Live /\ o \in alive /\ o \in Objs /\ o \in stack \cup locals)
    BY <2>1, Surviving
  <2>3. ~InPin(o)
    BY <2>1, NotPinned DEF Pins
  <2> QED
    BY <2>1, <2>2, <2>3
<1> QED
  BY <1>1, <1>2

LEMMA HoldersAlive ==
  ASSUME Typed, Modes, Roots, InProgram, NEW c \in Holders
  PROVE  c \in Objs /\ c \in alive /\ (c = dying \/ c \in Live)
<1>1. CASE pc = "run"
  BY <1>1, Surviving DEF Holders
<1>2. CASE pc # "run"
  <2>1. /\ pc = "finalizer" /\ c \in locals \cup {dying}
        /\ dying \in alive /\ dying \in Objs
    BY <1>2, ZCTAssumption DEF Holders, Modes, InProgram, Typed
  <2> QED
    BY <2>1, Surviving
<1> QED
  BY <1>1, <1>2

(***************************************************************************)
(* Counts                                                                  *)
(***************************************************************************)
Refs(o) == {c \in alive : o \in ptr[c]}
Elsewise(o) == IF o \in globals THEN 1 ELSE 0

LEMMA RefsFinite == ASSUME Typed, NEW o PROVE IsFiniteSet(Refs(o)) /\ Cardinality(Refs(o)) \in Nat
<1>1. IsFiniteSet(Refs(o))
  BY ZCTAssumption, FS_Subset DEF Typed, Refs
<1> QED
  BY <1>1, FS_CardinalityType

(* An object with a counted reference does not have count zero. *)
LEMMA Referenced ==
  ASSUME Typed, CountsAccurate, NEW o \in alive \ sticky,
         o \in globals \/ \E c \in alive : o \in ptr[c]
  PROVE  rc[o] # 0
<1>1. rc[o] = Cardinality(Refs(o)) + Elsewise(o)
  BY DEF CountsAccurate, Refs, Elsewise
<1>2. IsFiniteSet(Refs(o)) /\ Cardinality(Refs(o)) \in Nat
  BY RefsFinite
<1>3. CASE o \in globals
  BY <1>1, <1>2, <1>3 DEF Elsewise
<1>4. CASE \E c \in alive : o \in ptr[c]
  <2>1. Refs(o) # {}
    BY <1>4 DEF Refs
  <2>2. Cardinality(Refs(o)) # 0
    BY <1>2, <2>1, FS_EmptySet
  <2> QED
    BY <1>1, <1>2, <2>2 DEF Elsewise
<1> QED
  BY <1>3, <1>4

LEMMA CountsSame ==
  ASSUME CountsAccurate,
         \A o \in alive' \ sticky' : /\ o \in alive \ sticky /\ rc'[o] = rc[o]
                                     /\ Refs(o)' = Refs(o)
                                     /\ o \in globals' <=> o \in globals
  PROVE  CountsAccurate'
BY DEF CountsAccurate, Refs

LEMMA CountsChange ==
  ASSUME CountsAccurate, NEW o,
         \A p \in (alive' \ sticky') \ {o} :
           /\ p \in alive \ sticky /\ rc'[p] = rc[p]
           /\ Refs(p)' = Refs(p)
           /\ p \in globals' <=> p \in globals,
         o \in alive' \ sticky' => rc'[o] = Cardinality(Refs(o)') + Elsewise(o)'
  PROVE  CountsAccurate'
BY DEF CountsAccurate, Refs, Elsewise

LEMMA FreeTyped ==
  ASSUME Typed, NEW o \in Objs, Free(o) PROVE rc' \in [Objs -> 0..MaxRef]
<1>1. 0 \in 0..MaxRef
  BY ZCTAssumption
<1> QED
  BY <1>1 DEF Typed, Free

(* The pinning memory fills at least one block when it is not empty. *)
LEMMA BlocksPinned ==
  ASSUME Typed, NEW n,
         n = IF pin = <<>> THEN nblocks ELSE (Len(pin) + BlockSize - 1) \div BlockSize
  PROVE  n \in Nat \ {0}
<1>1. CASE pin = <<>>
  BY <1>1 DEF Typed
<1>2. CASE pin # <<>>
  <2>1. Len(pin) \in Nat \ {0} /\ BlockSize \in Nat \ {0}
    BY <1>2, EmptySeq, ZCTAssumption DEF Typed
  <2>2. \A k \in Nat \ {0}, b \in Nat \ {0} : (k + b - 1) \div b \in Nat \ {0}
    <3> TAKE k \in Nat \ {0}, b \in Nat \ {0}
    <3>1. k + b - 1 \in Nat /\ k + b - 1 >= b
      OBVIOUS
    <3> DEFINE a == k + b - 1
    <3> HIDE DEF a
    <3>2. a \in Nat /\ a >= b
      BY <3>1 DEF a
    <3>3. a \div b \in Int /\ a \div b >= 1
      BY <3>2
    <3> QED
      BY <3>3 DEF a
  <2> QED
    BY <1>2, <2>1, <2>2
<1> QED
  BY <1>1, <1>2

(* Every step keeps the types. *)
LEMMA TypedStep ==
  ASSUME NoRetain, IInv, Next PROVE Typed'
<1>0. /\ Typed /\ Modes /\ Roots /\ Closed /\ Unused /\ Counted /\ CountsAccurate
      /\ Added /\ Indexed /\ Pins
  BY DEF IInv
<1> USE <1>0 DEF Typed, heapVars, modeVars, tableVars
<1>1. ASSUME NEW o \in Objs, New(o) PROVE Typed'
  <2>1. o \notin alive /\ idx[o] = None /\ Add(o) /\ pin' = pin
    BY <1>1, <1>0 DEF New, Unused
  <2>2. /\ table' \in Seq(Objs \cup {None}) /\ idx' \in [Objs -> Nat \cup {None}]
        /\ nblocks' \in Nat \ {0} /\ pinned' \subseteq pinned
        /\ pc' \in {pc, "add"} /\ pending' \in {pending, o}
    BY <1>0, <2>1, AddEffect
  <2>3. /\ alive' = alive \cup {o} /\ stack' \subseteq Objs /\ locals' \subseteq Objs
        /\ UNCHANGED <<ptr, globals, rc, sticky, pin, modeVars, dying>>
    BY <1>1 DEF New
  <2> QED
    BY <2>2, <2>3
<1>2. ASSUME NEW o \in Objs, Load(o) PROVE Typed'
  BY <1>2 DEF Load
<1>3. ASSUME NEW o \in Objs, Drop(o) PROVE Typed'
  BY <1>3 DEF Drop
<1>4. ASSUME NEW o \in Objs, Store(o) PROVE Typed'
  <2>1. o \in alive /\ ~InPin(o) /\ IncrementRef(o)
    BY <1>4, <1>0, AtHandAlive DEF Store
  <2>2. /\ table' \in Seq(Objs \cup {None}) /\ idx' \in [Objs -> Nat \cup {None}]
        /\ rc' \in [Objs -> 0..MaxRef] /\ sticky' \subseteq Objs
    BY <1>4, <1>0, <2>1, IncrementEffect DEF Store
  <2>3. /\ ptr' \in [Objs -> SUBSET Objs] /\ globals' \subseteq Objs
        /\ UNCHANGED <<alive, stack, locals, pinned, nblocks, pin, modeVars, pc, dying, pending>>
    BY <1>4 DEF Store
  <2> QED
    BY <2>2, <2>3
<1>5. ASSUME NEW o \in Objs, Clear(o) PROVE Typed'
  <2>1. o \in alive \ sticky => rc[o] # 0
    BY <1>5, <1>0, HoldersAlive, Referenced DEF Clear
  <2>2. /\ ptr' \in [Objs -> SUBSET Objs] /\ globals' \subseteq Objs
        /\ DecrementRef(o)
        /\ UNCHANGED <<alive, stack, locals, sticky, pin, modeVars, dying>>
    BY <1>5 DEF Clear
  <2>3. /\ rc' \in [Objs -> 0..MaxRef]
        /\ \/ NotEntered /\ UNCHANGED <<pc, pending>>
           \/ idx[o] = None /\ Add(o)
    BY <1>0, <2>1, <2>2, DecrementEffect
  <2>4. CASE NotEntered /\ UNCHANGED <<pc, pending>>
    BY <2>2, <2>3, <2>4 DEF NotEntered
  <2>5. CASE idx[o] = None /\ Add(o)
    <3>1. /\ table' \in Seq(Objs \cup {None}) /\ idx' \in [Objs -> Nat \cup {None}]
          /\ nblocks' \in Nat \ {0} /\ pinned' \subseteq pinned
          /\ pc' \in {pc, "add"} /\ pending' \in {pending, o}
      BY <1>0, <2>2, <2>5, AddEffect
    <3> QED
      BY <2>2, <2>3, <3>1
  <2> QED
    BY <2>3, <2>4, <2>5
<1>6. ASSUME NEW o \in Objs, Stick(o) PROVE Typed'
  <2>1. ~InPin(o) /\ pin' = pin
    BY <1>6, <1>0, NotPinned DEF Stick, Modes
  <2>2. table' \in Seq(Objs \cup {None}) /\ idx' \in [Objs -> Nat \cup {None}]
    BY <1>6, <1>0, <2>1, RemoveEffect DEF Stick
  <2> QED
    BY <1>6, <2>2 DEF Stick
<1>7. ASSUME NEW o \in Objs, Delete(o) PROVE Typed'
  <2>1. ~InPin(o) /\ pin' = pin
    BY <1>7, <1>0, NotPinned DEF Delete, Modes
  <2>2. table' \in Seq(Objs \cup {None}) /\ idx' \in [Objs -> Nat \cup {None}]
    BY <1>7, <1>0, <2>1, RemoveEffect DEF Delete, Destroy
  <2>3. rc' \in [Objs -> 0..MaxRef] /\ alive' \subseteq Objs /\ stack' \subseteq Objs
        /\ sticky' \subseteq Objs /\ pinned' \subseteq Objs
    BY <1>7, FreeTyped DEF Delete, Free
  <2> QED
    BY <1>7, <2>2, <2>3 DEF Delete
<1>8. ASSUME NEW o \in Objs, StartFinalizer(o) PROVE Typed'
  BY <1>8 DEF StartFinalizer
<1>9. ASSUME StartReap PROVE Typed'
  BY <1>9, EmptySeq DEF StartReap
<1>10. ASSUME PopNull PROVE Typed'
  <2>1. table' \in Seq(Objs \cup {None}) /\ nblocks' \in Nat \ {0}
    BY <1>10, <1>0, PopEffect DEF PopNull
  <2> QED
    BY <1>10, <2>1 DEF PopNull
<1>11. ASSUME PopPinned PROVE Typed'
  <2>1. PICK o \in Objs : o = Top
    BY <1>11 DEF PopPinned
  <2>2. table # <<>> /\ Pop /\ PinObject(o)
        /\ UNCHANGED <<alive, heapVars, rc, sticky, modeVars, pc, dying, pending>>
    BY <1>11, <2>1 DEF PopPinned
  <2>3. table' \in Seq(Objs \cup {None}) /\ nblocks' \in Nat \ {0}
    BY <1>0, <2>2, PopEffect
  <2>4. /\ idx' \in [Objs -> Nat \cup {None}] /\ pin' \in Seq(Objs \cup {None})
        /\ pinned' \subseteq pinned
    BY <1>0, <2>1, <2>2, PopIn, PopOut DEF PinObject
  <2> QED
    BY <2>2, <2>3, <2>4
<1>12. ASSUME ReapObject PROVE Typed'
  <2>1. PICK o \in Objs : o = Top
    BY <1>12 DEF ReapObject
  <2>2. /\ table # <<>> /\ Pop /\ idx' = [idx EXCEPT ![o] = None]
        /\ dying' = o /\ pc' = "finalizer"
        /\ UNCHANGED <<alive, heapVars, rc, sticky, pinned, pin, modeVars, pending>>
    BY <1>12, <2>1 DEF ReapObject
  <2>3. table' \in Seq(Objs \cup {None}) /\ nblocks' \in Nat \ {0}
    BY <1>0, <2>2, PopEffect
  <2>4. idx' \in [Objs -> Nat \cup {None}]
    BY <1>0, <2>1, <2>2, PopOut
  <2> QED
    BY <2>2, <2>3, <2>4
<1>13. ASSUME EndFinalizer PROVE Typed'
  <2>1. PICK o \in Objs : o = dying
    BY <1>13, ZCTAssumption, <1>0 DEF EndFinalizer, Modes
  <2>2. /\ ~InPin(o) /\ pin' = pin /\ Destroy(o) /\ Free(o)
        /\ locals' = {} /\ dying' = None /\ pc' \in {"reap", "sweep"}
        /\ UNCHANGED <<ptr, globals, stack, nblocks, pin, modeVars, pending>>
    BY <1>13, <1>0, <2>1, NotPinned, ZCTAssumption DEF EndFinalizer, Modes, Pins
  <2>3. table' \in Seq(Objs \cup {None}) /\ idx' \in [Objs -> Nat \cup {None}]
    BY <1>0, <2>2, RemoveEffect DEF Destroy
  <2>4. rc' \in [Objs -> 0..MaxRef] /\ alive' \subseteq Objs
        /\ sticky' \subseteq Objs /\ pinned' \subseteq Objs
    BY <2>2, FreeTyped DEF Free
  <2> QED
    BY <2>2, <2>3, <2>4
<1>14. ASSUME EndReap PROVE Typed'
  <2>1. nblocks' \in Nat \ {0}
    BY <1>14, BlocksPinned DEF EndReap
  <2> QED
    BY <1>14, <2>1, EmptySeq DEF EndReap
<1>15. ASSUME AddPending PROVE Typed'
  <2>1. PICK o \in Objs : o = pending
    BY <1>15, ZCTAssumption, <1>0 DEF AddPending, Modes
  <2>2. /\ idx[o] = None /\ pin' = pin /\ pending' = None /\ pc' = "run"
        /\ (Enter(o) /\ nblocks' \in {nblocks, nblocks + 1}) \/ NotEntered
        /\ UNCHANGED <<alive, heapVars, rc, sticky, pin, modeVars, dying>>
    BY <1>15, <1>0, <2>1, ZCTAssumption DEF AddPending, Added, GrowAndEnter
  <2>3. CASE NotEntered
    BY <2>2, <2>3 DEF NotEntered
  <2>4. CASE Enter(o) /\ nblocks' \in {nblocks, nblocks + 1}
    <3>1. table' \in Seq(Objs \cup {None}) /\ idx' \in [Objs -> Nat \cup {None}]
      BY <1>0, <2>2, <2>4, EnterEffect DEF Enter
    <3>2. pinned' \subseteq pinned
      BY <2>4 DEF Enter
    <3> QED
      BY <2>2, <2>4, <3>1, <3>2
  <2> QED
    BY <2>2, <2>3, <2>4
<1>16. ASSUME StartCollecting PROVE Typed'
  <2>1. marked' \subseteq Objs
    BY <1>16 DEF StartCollecting, ReachableFrom
  <2> QED
    BY <1>16, <2>1 DEF StartCollecting
<1>17. ASSUME EndCollecting PROVE Typed'
  BY <1>17 DEF EndCollecting
<1> QED
  BY <1>1, <1>2, <1>3, <1>4, <1>5, <1>6, <1>7, <1>8, <1>9, <1>10, <1>11,
     <1>12, <1>13, <1>14, <1>15, <1>16, <1>17
  DEF Next

(***************************************************************************)
(* The rest of the invariant, action by action.                            *)
(***************************************************************************)
Rest ==
  Modes /\ Roots /\ Closed /\ Unused /\ Counted /\ CountsAccurate /\ Added /\ Indexed /\ Pins

(* The object left for after reaping survives like the stack. *)
LEMMA PendingLive ==
  ASSUME Typed, Modes, Roots, pending # None
  PROVE  pending \in Live /\ pending \in alive /\ pending \in Objs /\ pending # dying
<1>1. pending \in Live /\ pending \in Objs
  BY DEF Roots, frame, Typed
<1> QED
  BY <1>1, ZCTAssumption DEF Live, Modes

(* A new object has no reference yet. *)
LEMMA NewStep ==
  ASSUME IInv, NEW o \in Objs, New(o) PROVE Rest'
<1>0. /\ Typed /\ Modes /\ Roots /\ Closed /\ Unused /\ Counted /\ CountsAccurate
      /\ Added /\ Indexed /\ Pins
  BY DEF IInv
<1>1. /\ o \notin alive /\ alive' = alive \cup {o} /\ o # None
      /\ idx[o] = None /\ rc[o] = 0 /\ ptr[o] = {} /\ o \notin sticky /\ Add(o)
      /\ UNCHANGED <<ptr, globals, rc, sticky, pin, reaping, collecting, marked, dying>>
      /\ collecting => o \in marked
  BY <1>0, ZCTAssumption DEF New, Unused, modeVars
<1>2. \/ pc = "run" /\ stack' = stack \cup {o} /\ locals' = locals
      \/ pc = "finalizer" /\ locals' = locals \cup {o} /\ stack' = stack
  BY DEF New, InProgram
<1>3. /\ Indexed' /\ Elsewhere(o) /\ ~InPin(o)'
      /\ pinned' \subseteq pinned /\ pinned \subseteq pinned' \cup {o}
      /\ reaping => pinned' = pinned
      /\ ~reaping /\ InTable(o)' => o \notin pinned'
      /\ \/ UNCHANGED <<pc, pending>>
         \/ /\ ~collecting /\ ~reaping /\ idx'[o] = None
            /\ pc' = "add" /\ pending' = o
  BY <1>0, <1>1, AddEffect
<1>4. Modes'
  BY <1>0, <1>1, <1>2, <1>3 DEF Modes
<1>5. Live' = Live \cup {o}
  BY <1>0, <1>1 DEF Live, Modes
<1>6. Roots'
  <2>1. frame' \subseteq frame \cup {o}
    BY <1>2, <1>3 DEF frame
  <2> QED
    BY <1>0, <1>1, <1>5, <2>1 DEF Roots
<1>7. Closed'
  BY <1>0, <1>1, <1>5 DEF Closed, Swept
<1>8. Unused'
  BY <1>0, <1>1, <1>3 DEF Unused, Elsewhere
<1>9. Counted'
  BY <1>0, <1>1, <1>3, ZCTAssumption DEF Counted, Elsewhere
<1>10. CountsAccurate'
  <2>1. \A p \in Objs \ {o} : Refs(p)' = Refs(p)
    BY <1>1 DEF Refs
  <2>2. Refs(o)' = {} /\ o \notin globals
    <3>1. o \notin globals
      BY <1>0, <1>1, Surviving
    <3>2. \A c \in alive' : o \notin ptr[c]
      BY <1>0, <1>1 DEF Closed, Swept
    <3> QED
      BY <1>1, <3>1, <3>2 DEF Refs
  <2>3. rc'[o] = Cardinality(Refs(o)') + Elsewise(o)'
    BY <1>1, <2>2, FS_EmptySet DEF Elsewise
  <2> QED
    BY <1>0, <1>1, <2>1, <2>3, CountsChange DEF Typed
<1>11. Added'
  <2>1. CASE UNCHANGED pending
    <3> SUFFICES ASSUME pending # None
                 PROVE  /\ rc'[pending] = 0 /\ idx'[pending] = None
                        /\ pending \notin sticky' \cup locals'
      BY <2>1 DEF Added
    <3>1. pending \in Objs \ {o}
      BY <1>0, <1>1, PendingLive
    <3> QED
      BY <1>0, <1>1, <1>2, <1>3, <3>1 DEF Added, Elsewhere
  <2>2. CASE ~collecting /\ ~reaping /\ idx'[o] = None /\ pc' = "add" /\ pending' = o
    BY <1>0, <1>1, <1>2, <2>2 DEF Added, Modes
  <2> QED
    BY <1>3, <2>1, <2>2
<1>12. Pins'
  <2>1. ASSUME NEW p \in pinned' PROVE ~InPin(p)' /\ (~reaping' => ~InTable(p)')
    BY <1>0, <1>1, <1>3, <2>1 DEF Pins, Elsewhere, Typed
  <2>2. ASSUME reaping', NEW p \in stack' \cup ({pending'} \ {None})
        PROVE  p \in pinned' \/ InPin(p)'
    <3>1. p \in stack \cup ({pending} \ {None}) /\ p \in Objs \ {o}
      BY <1>0, <1>1, <1>2, <1>3, <2>2, Surviving, PendingLive DEF Modes
    <3> QED
      BY <1>0, <1>1, <1>3, <2>2, <3>1 DEF Pins, Elsewhere
  <2>3. ASSUME reaping', NEW p \in locals' \cup ({dying'} \ {None})
        PROVE  ~InPin(p)'
    <3>1. CASE p = o
      BY <1>3, <3>1
    <3>2. CASE p # o
      BY <1>0, <1>1, <1>2, <1>3, <2>3, <3>2 DEF Pins, Elsewhere, Typed
    <3> QED
      BY <3>1, <3>2
  <2> QED
    BY <2>1, <2>2, <2>3 DEF Pins
<1> QED
  BY <1>3, <1>4, <1>6, <1>7, <1>8, <1>9, <1>10, <1>11, <1>12 DEF Rest

(* A step that moves no reference, and no entry. *)
LEMMA HeapSame ==
  ASSUME IInv, UNCHANGED <<alive, ptr, globals, rc, sticky, idx, pending, locals>>
  PROVE  Unused' /\ Counted' /\ CountsAccurate' /\ Added'
BY DEF IInv, Unused, Counted, CountsAccurate, Added

LEMMA EntriesSame ==
  ASSUME IInv, UNCHANGED <<idx, table, pin>>
  PROVE  /\ Indexed'
         /\ \A p \in Objs : (InTable(p)' <=> InTable(p)) /\ (InPin(p)' <=> InPin(p))
BY DEF IInv, Indexed, InTable, InPin, At

(* A reference read from an object that survives leads to one. *)
LEMMA LoadStep ==
  ASSUME IInv, NEW o \in Objs, Load(o) \/ Drop(o) PROVE Rest'
<1>0. Typed /\ Modes /\ Roots /\ Closed /\ Pins
  BY DEF IInv
<1>1. /\ pc = "run" /\ pc' = pc
      /\ UNCHANGED <<alive, ptr, globals, rc, sticky, idx, pinned, table, pin,
                     reaping, collecting, marked, pending, dying, locals>>
  BY DEF Load, Drop, tableVars, modeVars
<1>2. stack' \subseteq stack \cup Live
  <2>1. ASSUME Load(o) PROVE o \in Live
    <3>1. o \in globals \/ \E c \in stack : o \in ptr[c]
      BY <2>1 DEF Load
    <3> QED
      BY <1>0, <3>1, Surviving DEF Closed
  <2> QED
    BY <2>1 DEF Load, Drop
<1>3. Modes' /\ ~reaping'
  BY <1>0, <1>1 DEF Modes
<1>4. Unused' /\ Counted' /\ CountsAccurate' /\ Added' /\ Indexed'
  BY <1>1, HeapSame, EntriesSame
<1>5. Live' = Live /\ Closed'
  BY <1>0, <1>1 DEF Live, Closed, Swept
<1>6. Roots'
  BY <1>0, <1>1, <1>2, <1>5 DEF Roots, frame
<1>7. Pins'
  BY <1>0, <1>1, <1>3, EntriesSame DEF Pins, Typed
<1> QED
  BY <1>3, <1>4, <1>5, <1>6, <1>7 DEF Rest

(* A stored reference is counted, and leads from what survives to what     *)
(* survives.                                                               *)
LEMMA StoreStep ==
  ASSUME NoRetain, IInv, NEW o \in Objs, Store(o) PROVE Rest'
<1>0. /\ Typed /\ Modes /\ Roots /\ Closed /\ Unused /\ Counted /\ CountsAccurate
      /\ Added /\ Indexed /\ Pins
  BY DEF IInv
<1>1. /\ InProgram /\ o \in AtHand /\ IncrementRef(o)
      /\ UNCHANGED <<alive, stack, locals, pinned, nblocks, pin, modeVars, pc, dying, pending>>
      /\ UNCHANGED <<pin, reaping, collecting, marked>>
  BY DEF Store, modeVars
<1>2. /\ o \in alive /\ ~InPin(o)
      /\ o = dying \/ (o \in Live /\ o \in stack \cup locals)
  BY <1>0, <1>1, AtHandAlive
<1>3. /\ Indexed' /\ Elsewhere(o) /\ idx'[o] = None
      /\ \A p \in Objs \ {o} : rc'[p] = rc[p]
      /\ sticky \subseteq sticky' /\ sticky' \subseteq sticky \cup {o}
      /\ rc'[o] < MaxRef \/ o \in sticky'
      /\ o \notin sticky' => rc'[o] = rc[o] + 1
  BY <1>0, <1>1, <1>2, IncrementEffect
<1>4. Modes' /\ Live' = Live /\ Swept' = Swept
  BY <1>0, <1>1 DEF Modes, Live, Swept
<1>5. \/ \E c \in Holders :
            /\ o \notin ptr[c] /\ ptr' = [ptr EXCEPT ![c] = @ \cup {o}] /\ globals' = globals
            /\ c = dying \/ o # dying
      \/ /\ o \notin globals \cup {dying}
         /\ globals' = globals \cup {o} /\ ptr' = ptr
  BY DEF Store
<1> DEFINE Stored ==
      /\ globals' \subseteq globals \cup Live
      /\ Closed'
      /\ \A p \in Objs \ alive : ptr'[p] = ptr[p]
      /\ \A p \in Objs \ {o} : Refs(p)' = Refs(p) /\ (p \in globals' <=> p \in globals)
      /\ Cardinality(Refs(o)') + Elsewise(o)' = Cardinality(Refs(o)) + Elsewise(o) + 1
<1>6. Stored
  <2>1. CASE o \notin globals \cup {dying} /\ globals' = globals \cup {o} /\ ptr' = ptr
    <3>1. Closed'
      BY <1>0, <1>1, <1>4, <2>1 DEF Closed
    <3>2. \A p : Refs(p)' = Refs(p)
      BY <1>1, <2>1 DEF Refs
    <3>3. Elsewise(o)' = 1 /\ Elsewise(o) = 0
      BY <2>1 DEF Elsewise
    <3>4. Cardinality(Refs(o)) \in Nat
      BY <1>0, RefsFinite
    <3> QED
      BY <1>2, <2>1, <3>1, <3>2, <3>3, <3>4
  <2>2. ASSUME NEW c \in Holders, o \notin ptr[c], globals' = globals,
               ptr' = [ptr EXCEPT ![c] = @ \cup {o}], c = dying \/ o # dying
        PROVE  Stored
    <3>1. c \in Objs /\ c \in alive /\ (c = dying \/ c \in Live)
      BY <1>0, <1>1, HoldersAlive
    <3>2. /\ ptr'[c] = ptr[c] \cup {o} /\ \A p \in Objs \ {c} : ptr'[p] = ptr[p]
      BY <1>0, <2>2, <3>1 DEF Typed
    <3>3. dying \notin Live
      BY <1>0, ZCTAssumption DEF Live, Modes, Typed
    <3>4. Closed'
      <4>1. \A p \in alive : ptr'[p] \subseteq alive \cup Swept
        BY <1>0, <1>2, <3>1, <3>2 DEF Closed, Typed
      <4>2. \A p \in Live : ptr'[p] \subseteq Live
        BY <1>0, <1>2, <2>2, <3>1, <3>2, <3>3 DEF Closed, Typed, Live
      <4> QED
        BY <1>1, <1>4, <4>1, <4>2 DEF Closed
    <3>5. ASSUME NEW p \in Objs \ {o} PROVE Refs(p)' = Refs(p)
      BY <1>0, <1>1, <3>1, <3>2 DEF Refs, Typed
    <3>6. Refs(o)' = Refs(o) \cup {c} /\ c \notin Refs(o)
      BY <1>0, <1>1, <2>2, <3>1, <3>2 DEF Refs, Typed
    <3>7. Cardinality(Refs(o)') = Cardinality(Refs(o)) + 1 /\ Cardinality(Refs(o)) \in Nat
      BY <1>0, <3>6, RefsFinite, FS_AddElement
    <3>8. Elsewise(o)' = Elsewise(o) /\ Elsewise(o) \in Nat
      BY <2>2 DEF Elsewise
    <3> QED
      BY <1>2, <2>2, <3>1, <3>2, <3>4, <3>5, <3>7, <3>8
  <2> QED
    BY <1>5, <2>1, <2>2
<1>7. Roots'
  BY <1>0, <1>1, <1>4, <1>6 DEF Roots, frame
<1>8. Unused'
  BY <1>0, <1>1, <1>2, <1>3, <1>6 DEF Unused, Elsewhere
<1>9. Counted'
  BY <1>0, <1>3 DEF Counted, Elsewhere
<1>10. CountsAccurate'
  <2>1. ASSUME o \notin sticky' PROVE rc'[o] = Cardinality(Refs(o)') + Elsewise(o)'
    <3>1. rc[o] = Cardinality(Refs(o)) + Elsewise(o)
      BY <1>0, <1>2, <1>3, <2>1 DEF CountsAccurate, Refs, Elsewise
    <3> QED
      BY <1>3, <1>6, <2>1, <3>1
  <2> QED
    BY <1>0, <1>1, <1>3, <1>6, <2>1, CountsChange DEF Typed
<1>11. Added'
  <2>1. pending # None => pending \in Objs \ {o}
    BY <1>0, <1>1, <1>2, PendingLive DEF InProgram, AtHand, Modes, Added, NoRetain
  <2> QED
    BY <1>0, <1>1, <1>3, <2>1 DEF Added, Elsewhere
<1>12. Pins'
  <2>1. ~InPin(o)' /\ ~InTable(o)'
    BY <1>3 DEF InPin, InTable
  <2>2. \A p \in Objs : InPin(p)' => InPin(p)
    BY <1>3, <2>1 DEF Elsewhere
  <2>3. \A p \in Objs : InTable(p)' => InTable(p)
    BY <1>3, <2>1 DEF Elsewhere
  <2>4. \A p \in Objs : InPin(p) => InPin(p)'
    BY <1>2, <1>3 DEF Elsewhere
  <2> QED
    BY <1>0, <1>1, <2>2, <2>3, <2>4 DEF Pins, Typed
<1> QED
  BY <1>3, <1>4, <1>6, <1>7, <1>8, <1>9, <1>10, <1>11, <1>12 DEF Rest

(* A cleared reference is no longer counted; with the last one the object  *)
(* goes to the table.                                                      *)
LEMMA ClearStep ==
  ASSUME IInv, NEW o \in Objs, Clear(o) PROVE Rest'
<1>0. /\ Typed /\ Modes /\ Roots /\ Closed /\ Unused /\ Counted /\ CountsAccurate
      /\ Added /\ Indexed /\ Pins
  BY DEF IInv
<1>1. /\ InProgram /\ DecrementRef(o)
      /\ UNCHANGED <<alive, stack, locals, sticky, pin, dying, reaping, collecting, marked>>
  BY DEF Clear, modeVars
<1> DEFINE InField == \E c \in Holders : o \in ptr[c] /\ ptr' = [ptr EXCEPT ![c] = @ \ {o}]
                                         /\ globals' = globals
           InGlobals == /\ pc = "run" /\ o \in globals
                        /\ globals' = globals \ {o} /\ ptr' = ptr
<1>2. InField \/ InGlobals
  BY DEF Clear
<1> HIDE DEF InField, InGlobals
<1>3. o \in alive \ sticky => rc[o] # 0
  BY <1>0, <1>1, <1>2, HoldersAlive, Referenced DEF InField, InGlobals
<1>4. /\ \A p \in Objs \ {o} : rc'[p] = rc[p]
      /\ rc'[o] = IF o \in alive \ sticky THEN rc[o] - 1 ELSE rc[o]
      /\ \/ NotEntered /\ UNCHANGED <<pc, pending>> /\ (idx[o] # None => rc'[o] = rc[o])
         \/ o \in alive \ sticky /\ rc'[o] = 0 /\ idx[o] = None /\ Add(o)
  BY <1>0, <1>1, <1>3, DecrementEffect
<1> DEFINE Placed ==
      /\ Indexed' /\ Elsewhere(o) /\ (InPin(o)' <=> InPin(o))
      /\ pinned' \subseteq pinned /\ pinned \subseteq pinned' \cup {o}
      /\ reaping => pinned' = pinned
      /\ ~reaping /\ InTable(o)' => o \notin pinned'
      /\ idx'[o] # None => rc'[o] = 0 /\ o \notin sticky
      /\ o \notin alive => idx'[o] = idx[o]
      /\ \/ UNCHANGED <<pc, pending>>
         \/ /\ ~collecting /\ ~reaping /\ idx'[o] = None /\ rc'[o] = 0 /\ o \notin sticky
            /\ pc' = "add" /\ pending' = o
<1>5. Placed
  <2>1. CASE NotEntered /\ UNCHANGED <<pc, pending>> /\ (idx[o] # None => rc'[o] = rc[o])
    <3>1. UNCHANGED <<table, idx, pinned, pin>>
      BY <1>1, <2>1 DEF NotEntered
    <3>2. /\ Indexed' /\ Elsewhere(o)
          /\ InPin(o)' <=> InPin(o)
          /\ InTable(o)' <=> InTable(o)
      BY <1>0, <3>1 DEF Indexed, Elsewhere, InTable, InPin, At
    <3> QED
      BY <1>0, <2>1, <3>1, <3>2 DEF Counted, Pins
  <2>2. CASE o \in alive \ sticky /\ rc'[o] = 0 /\ idx[o] = None /\ Add(o)
    <3>1. /\ Indexed' /\ Elsewhere(o) /\ ~InPin(o)'
          /\ pinned' \subseteq pinned /\ pinned \subseteq pinned' \cup {o}
          /\ reaping => pinned' = pinned
          /\ ~reaping /\ InTable(o)' => o \notin pinned'
          /\ \/ UNCHANGED <<pc, pending>>
             \/ /\ ~collecting /\ ~reaping /\ idx'[o] = None
                /\ pc' = "add" /\ pending' = o
      BY <1>0, <1>1, <2>2, AddEffect
    <3>2. ~InPin(o)
      BY <2>2 DEF InPin
    <3> QED
      BY <2>2, <3>1, <3>2
  <2> QED
    BY <1>4, <2>1, <2>2
<1>6. Modes' /\ Live' = Live /\ Swept' = Swept
  <2>1. Live' = Live /\ Swept' = Swept
    BY <1>1 DEF Live, Swept
  <2>2. CASE UNCHANGED <<pc, pending>>
    BY <1>0, <1>1, <2>1, <2>2 DEF Modes
  <2>3. CASE ~collecting /\ ~reaping /\ pc' = "add" /\ pending' = o
    <3>1. pc = "run" /\ o # None
      BY <1>0, <1>1, <2>3, ZCTAssumption DEF Modes, InProgram
    <3> QED
      BY <1>0, <1>1, <2>1, <2>3, <3>1 DEF Modes
  <2> QED
    BY <1>5, <2>2, <2>3
<1> DEFINE Dropped ==
      /\ globals' \subseteq globals /\ Closed'
      /\ \A p \in Objs \ alive : ptr'[p] = ptr[p]
      /\ \A p \in Objs \ {o} : Refs(p)' = Refs(p) /\ (p \in globals' <=> p \in globals)
      /\ Cardinality(Refs(o)') + Elsewise(o)' = Cardinality(Refs(o)) + Elsewise(o) - 1
      /\ pc = "run" => o \in Live
<1>7. Dropped
  <2>1. CASE InGlobals
    <3>1. Closed' /\ o \in Live
      BY <1>0, <1>1, <1>6, <2>1, Surviving DEF Closed, InGlobals
    <3>2. \A p : Refs(p)' = Refs(p)
      BY <1>1, <2>1 DEF Refs, InGlobals
    <3>3. Elsewise(o)' = 0 /\ Elsewise(o) = 1
      BY <2>1 DEF Elsewise, InGlobals
    <3>4. Cardinality(Refs(o)) \in Nat
      BY <1>0, RefsFinite
    <3> QED
      BY <2>1, <3>1, <3>2, <3>3, <3>4 DEF InGlobals
  <2>2. ASSUME NEW c \in Holders, o \in ptr[c], globals' = globals,
               ptr' = [ptr EXCEPT ![c] = @ \ {o}]
        PROVE  Dropped
    <3>1. c \in Objs /\ c \in alive /\ (c = dying \/ c \in Live)
      BY <1>0, <1>1, HoldersAlive
    <3>2. /\ ptr'[c] = ptr[c] \ {o} /\ \A p \in Objs \ {c} : ptr'[p] = ptr[p]
      BY <1>0, <2>2, <3>1 DEF Typed
    <3>3. \A p \in Objs : ptr'[p] \subseteq ptr[p]
      BY <3>2
    <3>4. Closed'
      <4>1. \A p \in alive : ptr'[p] \subseteq alive \cup Swept
        BY <1>0, <3>3 DEF Closed, Typed
      <4>2. \A p \in Live : ptr'[p] \subseteq Live
        BY <1>0, <3>3 DEF Closed, Typed, Live
      <4> QED
        BY <1>1, <1>6, <4>1, <4>2 DEF Closed
    <3>5. ASSUME NEW p \in Objs \ {o} PROVE Refs(p)' = Refs(p)
      BY <1>0, <1>1, <3>1, <3>2 DEF Refs, Typed
    <3>6. Refs(o)' = Refs(o) \ {c} /\ c \in Refs(o)
      BY <1>0, <1>1, <2>2, <3>1, <3>2 DEF Refs, Typed
    <3>7. Cardinality(Refs(o)') = Cardinality(Refs(o)) - 1 /\ Cardinality(Refs(o)) \in Nat
      BY <1>0, <3>6, RefsFinite, FS_RemoveElement
    <3>8. Elsewise(o)' = Elsewise(o) /\ Elsewise(o) \in Nat
      BY <2>2 DEF Elsewise
    <3>9. pc = "run" => o \in Live
      BY <1>0, <2>2, Surviving DEF Holders, Closed
    <3> QED
      BY <2>2, <3>1, <3>2, <3>4, <3>5, <3>7, <3>8, <3>9
  <2> QED
    BY <1>2, <2>1, <2>2 DEF InField
<1> HIDE DEF Placed, Dropped
<1>8. pc' = "add" /\ pending' = o => pc = "run" \/ UNCHANGED <<pc, pending>>
  BY <1>0, <1>1, <1>5 DEF Placed, Modes, InProgram
<1>9. Roots'
  <2>1. frame' \subseteq frame \cup Live
    BY <1>0, <1>1, <1>5, <1>7, <1>8 DEF frame, Placed, Dropped
  <2> QED
    BY <1>0, <1>6, <1>7, <2>1 DEF Roots, Dropped
<1>10. Unused'
  BY <1>0, <1>1, <1>4, <1>5, <1>7 DEF Unused, Elsewhere, Placed, Dropped
<1>11. Counted'
  <2>1. rc'[o] < MaxRef \/ o \in sticky'
    BY <1>0, <1>1, <1>3, <1>4, ZCTAssumption DEF Counted, Typed
  <2> QED
    BY <1>0, <1>1, <1>4, <1>5, <2>1 DEF Counted, Elsewhere, Placed
<1>12. CountsAccurate'
  <2>1. ASSUME o \in alive \ sticky PROVE rc'[o] = Cardinality(Refs(o)') + Elsewise(o)'
    <3>1. rc[o] = Cardinality(Refs(o)) + Elsewise(o)
      BY <1>0, <2>1 DEF CountsAccurate, Refs, Elsewise
    <3>2. rc'[o] = rc[o] - 1
      BY <1>4, <2>1
    <3>3. Cardinality(Refs(o)') + Elsewise(o)' = Cardinality(Refs(o)) + Elsewise(o) - 1
      BY <1>7 DEF Dropped
    <3>4. Cardinality(Refs(o)) \in Nat /\ Elsewise(o) \in Nat
      BY <1>0, RefsFinite DEF Elsewise
    <3> QED
      BY <3>1, <3>2, <3>3, <3>4
  <2>2. \A p \in (alive' \ sticky') \ {o} :
           /\ p \in alive \ sticky /\ rc'[p] = rc[p]
           /\ Refs(p)' = Refs(p) /\ (p \in globals' <=> p \in globals)
    BY <1>0, <1>1, <1>4, <1>7 DEF Dropped, Typed
  <2> QED
    BY <1>0, <1>1, <2>1, <2>2, CountsChange
<1>13. Added'
  <2>1. CASE UNCHANGED <<pc, pending>>
    <3> SUFFICES ASSUME pending # None
                 PROVE  /\ rc'[pending] = 0 /\ idx'[pending] = None
                        /\ pending \notin sticky \cup locals
      BY <1>1, <2>1 DEF Added
    <3>1. /\ pending \in Objs /\ pending \in alive \ sticky
          /\ rc[pending] = 0 /\ idx[pending] = None /\ pending \notin locals
      BY <1>0, PendingLive DEF Added
    <3>2. pending # o
      BY <1>3, <3>1
    <3> QED
      BY <1>4, <1>5, <3>1, <3>2 DEF Placed, Elsewhere
  <2>2. CASE /\ ~collecting /\ ~reaping /\ idx'[o] = None /\ rc'[o] = 0 /\ o \notin sticky
             /\ pc' = "add" /\ pending' = o
    <3>1. locals = {}
      BY <1>0, <1>1, <2>2 DEF Modes, InProgram
    <3> QED
      BY <1>1, <2>2, <3>1 DEF Added
  <2> QED
    BY <1>5, <2>1, <2>2 DEF Placed
<1>14. Pins'
  <2>1. ASSUME NEW p \in pinned' PROVE ~InPin(p)' /\ (~reaping' => ~InTable(p)')
    BY <1>0, <1>1, <1>5, <2>1 DEF Pins, Elsewhere, Typed, Placed
  <2>2. ASSUME reaping', NEW p \in stack' \cup ({pending'} \ {None})
        PROVE  p \in pinned' \/ InPin(p)'
    BY <1>0, <1>1, <1>5, <2>2 DEF Pins, Elsewhere, Typed, Placed
  <2>3. ASSUME reaping', NEW p \in locals' \cup ({dying'} \ {None})
        PROVE  ~InPin(p)'
    BY <1>0, <1>1, <1>5, <2>3 DEF Pins, Elsewhere, Typed, Placed
  <2> QED
    BY <2>1, <2>2, <2>3 DEF Pins
<1> QED
  BY <1>5, <1>6, <1>7, <1>9, <1>10, <1>11, <1>12, <1>13, <1>14 DEF Rest, Placed, Dropped

(* A sticky object leaves the table. *)
LEMMA StickStep ==
  ASSUME IInv, NEW o \in Objs, Stick(o) PROVE Rest'
<1>0. /\ Typed /\ Modes /\ Roots /\ Closed /\ Unused /\ Counted /\ CountsAccurate
      /\ Added /\ Indexed /\ Pins
  BY DEF IInv
<1>1. /\ pc = "run" /\ o \in stack /\ sticky' = sticky \cup {o}
      /\ IF idx[o] # None THEN RemoveFromZCT(o) ELSE UNCHANGED <<table, idx>>
      /\ UNCHANGED <<alive, ptr, globals, stack, locals, rc, pinned, pin, reaping,
                     collecting, marked, pc, dying, pending>>
  BY DEF Stick, heapVars, modeVars
<1>2. ~reaping /\ ~InPin(o) /\ o \in alive
  BY <1>0, <1>1, NotPinned, Surviving DEF Modes
<1>3. Indexed' /\ Elsewhere(o) /\ idx'[o] = None
  BY <1>0, <1>1, <1>2, RemoveEffect
<1>4. Modes' /\ Live' = Live /\ Roots' /\ Closed'
  BY <1>0, <1>1 DEF Modes, Live, Roots, frame, Closed, Swept
<1>5. Unused' /\ Counted'
  BY <1>0, <1>1, <1>2, <1>3 DEF Unused, Counted, Elsewhere
<1>6. CountsAccurate'
  <2>1. \A p : Refs(p)' = Refs(p)
    BY <1>1 DEF Refs
  <2> QED
    BY <1>0, <1>1, <2>1, CountsSame
<1>7. Added'
  BY <1>0, <1>1 DEF Added, Modes
<1>8. Pins'
  <2>1. ~InPin(o)' /\ ~InTable(o)'
    BY <1>3 DEF InPin, InTable
  <2> QED
    BY <1>0, <1>1, <1>2, <1>3, <2>1 DEF Pins, Elsewhere, Typed
<1> QED
  BY <1>3, <1>4, <1>5, <1>6, <1>7, <1>8 DEF Rest

(* The object the program deletes has no reference but its own. *)
LEMMA DeleteStep ==
  ASSUME IInv, NEW o \in Objs, Delete(o) PROVE Rest'
<1>0. /\ Typed /\ Modes /\ Roots /\ Closed /\ Unused /\ Counted /\ CountsAccurate
      /\ Added /\ Indexed /\ Pins
  BY DEF IInv
<1>1. /\ pc = "run" /\ o \in stack /\ ptr[o] = {} /\ stack' = stack \ {o}
      /\ o \notin globals \cup UNION Range(ptr)
      /\ IF idx[o] # None THEN RemoveFromZCT(o) ELSE UNCHANGED <<table, idx>>
      /\ alive' = alive \ {o} /\ rc' = [rc EXCEPT ![o] = 0]
      /\ sticky' = sticky \ {o} /\ pinned' = pinned \ {o}
      /\ UNCHANGED <<ptr, globals, locals, pin, reaping, collecting, marked, pc, dying, pending>>
  BY DEF Delete, Destroy, Free, modeVars
<1>2. /\ ~reaping /\ ~collecting /\ dying = None /\ pending = None /\ locals = {}
      /\ ~InPin(o)
  BY <1>0, <1>1, NotPinned DEF Modes
<1>3. Indexed' /\ Elsewhere(o) /\ idx'[o] = None
  BY <1>0, <1>1, <1>2, RemoveEffect
<1>4. \A c \in Objs : o \notin ptr[c]
  BY <1>0, <1>1 DEF Typed, Range
<1>5. rc'[o] = 0 /\ \A p \in Objs \ {o} : rc'[p] = rc[p]
  BY <1>0, <1>1 DEF Typed
<1>6. Modes'
  BY <1>0, <1>1, <1>2 DEF Modes
<1>7. Live = alive /\ Live' = alive \ {o}
  BY <1>0, <1>1, <1>2, ZCTAssumption DEF Live, Typed
<1>8. Roots'
  BY <1>0, <1>1, <1>2, <1>7 DEF Roots, frame
<1>9. Closed'
  BY <1>0, <1>1, <1>2, <1>4, <1>7 DEF Closed, Swept, Typed
<1>10. Unused' /\ Counted'
  BY <1>0, <1>1, <1>3, <1>5, ZCTAssumption DEF Unused, Counted, Elsewhere
<1>11. CountsAccurate'
  <2>1. \A p : Refs(p)' = Refs(p)
    BY <1>1 DEF Refs
  <2> QED
    BY <1>0, <1>1, <1>5, <2>1, CountsSame DEF Typed
<1>12. Added'
  BY <1>1, <1>2 DEF Added
<1>13. Pins'
  BY <1>0, <1>1, <1>2, <1>3 DEF Pins, Elsewhere, Typed
<1> QED
  BY <1>3, <1>6, <1>8, <1>9, <1>10, <1>11, <1>12, <1>13 DEF Rest

(* The collector finalizes what it did not mark, which nothing marked      *)
(* refers to.                                                              *)
LEMMA StartFinalizerStep ==
  ASSUME IInv, NEW o \in Objs, StartFinalizer(o) PROVE Rest'
<1>0. Typed /\ Modes /\ Roots /\ Closed /\ Pins
  BY DEF IInv
<1>1. /\ pc = "sweep" /\ o \in alive \ marked /\ dying' = o /\ pc' = "finalizer"
      /\ UNCHANGED <<alive, ptr, globals, stack, locals, rc, sticky, idx, pinned, table,
                     pin, reaping, collecting, marked, pending>>
  BY DEF StartFinalizer, heapVars, modeVars, tableVars
<1>2. Modes' /\ collecting /\ ~reaping
  BY <1>0, <1>1, ZCTAssumption DEF Modes
<1>3. Unused' /\ Counted' /\ CountsAccurate' /\ Added' /\ Indexed'
  BY <1>1, HeapSame, EntriesSame
<1>4. Live' = Live /\ Closed'
  BY <1>0, <1>1, <1>2 DEF Live, Closed, Swept
<1>5. Roots'
  BY <1>0, <1>1, <1>4 DEF Roots, frame
<1>6. Pins'
  BY <1>0, <1>1, <1>2, EntriesSame DEF Pins, Typed
<1> QED
  BY <1>2, <1>3, <1>4, <1>5, <1>6 DEF Rest

(* Reaping starts by pinning what the stack refers to. *)
LEMMA StartReapStep ==
  ASSUME IInv, StartReap PROVE Rest'
<1>0. Typed /\ Modes /\ Roots /\ Closed /\ Pins
  BY DEF IInv
<1>1. /\ InProgram \/ pc = "add"
      /\ ~collecting /\ ~reaping /\ reaping' = TRUE /\ pin' = <<>> /\ pc' = "reap"
      /\ pinned' = pinned \cup (frame \cap alive)
      /\ UNCHANGED <<alive, ptr, globals, stack, locals, rc, sticky, idx, table,
                     collecting, marked, dying, pending>>
  BY DEF StartReap, heapVars
<1>2. pc \in {"run", "add"} /\ pin' = pin /\ locals = {} /\ dying = None
  BY <1>0, <1>1 DEF Modes, InProgram
<1>3. Modes'
  BY <1>0, <1>1, <1>2 DEF Modes
<1>4. Unused' /\ Counted' /\ CountsAccurate' /\ Added' /\ Indexed'
  BY <1>1, <1>2, HeapSame, EntriesSame
<1>5. Live' = Live /\ Closed'
  BY <1>0, <1>1 DEF Live, Closed, Swept
<1>6. Roots'
  BY <1>0, <1>1, <1>5 DEF Roots, frame
<1>7. Pins'
  <2>1. \A p \in Objs : ~InPin(p)'
    BY <1>0, <1>1, <1>2, NotPinned, EntriesSame
  <2>2. frame \subseteq pinned'
    BY <1>0, <1>1 DEF Roots, Live
  <2> QED
    BY <1>0, <1>1, <1>2, <2>1, <2>2 DEF Pins, Typed, frame
<1> QED
  BY <1>3, <1>4, <1>5, <1>6, <1>7 DEF Rest

LEMMA PopNullStep ==
  ASSUME IInv, PopNull PROVE Rest'
<1>0. Typed /\ Modes /\ Roots /\ Closed /\ Indexed /\ Pins
  BY DEF IInv
<1>1. /\ table # <<>> /\ Top = None /\ Pop
      /\ UNCHANGED <<alive, ptr, globals, stack, locals, rc, sticky, idx, pinned, pin,
                     reaping, collecting, marked, pc, dying, pending>>
  BY DEF PopNull, heapVars, modeVars
<1>2. /\ Indexed'
      /\ \A p \in Objs : (InTable(p)' <=> InTable(p)) /\ (InPin(p)' <=> InPin(p))
  BY <1>0, <1>1, PopNullEffect
<1>3. Unused' /\ Counted' /\ CountsAccurate' /\ Added'
  BY <1>1, HeapSame
<1>4. Modes' /\ Live' = Live /\ Roots' /\ Closed'
  BY <1>0, <1>1 DEF Modes, Live, Roots, frame, Closed, Swept
<1>5. Pins'
  BY <1>0, <1>1, <1>2 DEF Pins, Typed
<1> QED
  BY <1>2, <1>3, <1>4, <1>5 DEF Rest

(* A pinned object moves, or stays pinned and out of both tables. *)
LEMMA PopPinnedStep ==
  ASSUME IInv, PopPinned PROVE Rest'
<1>0. /\ Typed /\ Modes /\ Roots /\ Closed /\ Unused /\ Counted /\ CountsAccurate
      /\ Added /\ Indexed /\ Pins
  BY DEF IInv
<1>1. PICK o \in Objs : o = Top
  BY <1>0 DEF PopPinned, Typed
<1>2. /\ pc = "reap" /\ table # <<>> /\ o \in pinned /\ Pop /\ PinObject(o)
      /\ UNCHANGED <<alive, ptr, globals, stack, locals, rc, sticky, reaping, collecting,
                     marked, pc, dying, pending>>
  BY <1>1 DEF PopPinned, heapVars, modeVars
<1>3. idx[o] # None /\ reaping /\ locals = {} /\ dying = None
  BY <1>0, <1>1, <1>2, TopIndexed DEF Modes
<1>4. /\ Indexed' /\ Elsewhere(o) /\ ~InTable(o)'
      /\ \/ pinned' = pinned \ {o} /\ InPin(o)'
         \/ pinned' = pinned /\ ~InPin(o)' /\ idx'[o] = None
  <2>1. CASE /\ pin' = Append(PinRoom, o) /\ idx' = [idx EXCEPT ![o] = Len(PinRoom)]
             /\ pinned' = pinned \ {o}
    BY <1>0, <1>1, <1>2, <2>1, PopIn
  <2>2. CASE idx' = [idx EXCEPT ![o] = None] /\ UNCHANGED <<pin, pinned>>
    <3>1. Indexed' /\ Elsewhere(o) /\ idx'[o] = None
      BY <1>0, <1>1, <1>2, <2>2, PopOut
    <3> QED
      BY <2>2, <3>1 DEF InTable, InPin
  <2> QED
    BY <1>2, <2>1, <2>2 DEF PinObject
<1>5. Modes' /\ Live' = Live /\ Roots' /\ Closed'
  <2>1. pin' # <<>> => reaping'
    BY <1>2, <1>3
  <2> QED
    BY <1>0, <1>2, <2>1 DEF Modes, Live, Roots, frame, Closed, Swept
<1>6. Unused' /\ Counted'
  BY <1>0, <1>2, <1>3, <1>4 DEF Unused, Counted, Elsewhere
<1>7. CountsAccurate'
  BY <1>0, <1>2 DEF CountsAccurate
<1>8. Added'
  BY <1>0, <1>2, <1>3, <1>4 DEF Added, Elsewhere, Typed
<1>9. Pins'
  BY <1>0, <1>2, <1>3, <1>4 DEF Pins, Elsewhere, Typed
<1> QED
  BY <1>4, <1>5, <1>6, <1>7, <1>8, <1>9 DEF Rest

(* The reaper takes an object that nothing refers to: its count is zero,   *)
(* and what the stack refers to is pinned or has moved.                    *)
LEMMA ReapObjectStep ==
  ASSUME IInv, ReapObject PROVE Rest'
<1>0. /\ Typed /\ Modes /\ Roots /\ Closed /\ Unused /\ Counted /\ CountsAccurate
      /\ Added /\ Indexed /\ Pins
  BY DEF IInv
<1>1. PICK o \in Objs : o = Top
  BY DEF ReapObject
<1>2. /\ pc = "reap" /\ table # <<>> /\ o \notin pinned /\ Pop
      /\ idx' = [idx EXCEPT ![o] = None] /\ dying' = o /\ pc' = "finalizer"
      /\ UNCHANGED <<alive, ptr, globals, stack, locals, rc, sticky, pinned, pin, reaping,
                     collecting, marked, pending>>
  BY <1>1 DEF ReapObject, heapVars, modeVars
<1>3. /\ reaping /\ ~collecting /\ locals = {} /\ dying = None /\ marked = {}
      /\ Live = alive
  BY <1>0, <1>2, ZCTAssumption DEF Modes, Live, Typed
<1>4. Indexed' /\ Elsewhere(o) /\ idx'[o] = None
  BY <1>0, <1>1, <1>2, PopOut
<1>5. idx[o] # None /\ ~InPin(o)
  BY <1>0, <1>1, <1>2, TopIndexed
<1>6. o \in alive /\ rc[o] = 0 /\ o \notin sticky /\ o # None
  BY <1>0, <1>5, ZCTAssumption DEF Unused, Counted
<1>7. o \notin globals /\ \A c \in alive : o \notin ptr[c]
  BY <1>0, <1>6, Referenced
<1>8. o \notin frame
  BY <1>0, <1>2, <1>3, <1>5 DEF Pins, frame
<1>9. Live' = alive \ {o}
  BY <1>2, <1>3 DEF Live
<1>10. Modes'
  BY <1>0, <1>2, <1>3, <1>6 DEF Modes
<1>11. Roots'
  BY <1>0, <1>2, <1>3, <1>7, <1>8, <1>9 DEF Roots, frame
<1>12. Closed'
  BY <1>0, <1>2, <1>3, <1>7, <1>9 DEF Closed, Swept
<1>13. Unused' /\ Counted'
  BY <1>0, <1>2, <1>4, <1>6 DEF Unused, Counted, Elsewhere
<1>14. CountsAccurate'
  BY <1>0, <1>2 DEF CountsAccurate
<1>15. Added'
  BY <1>0, <1>2, <1>4, <1>5 DEF Added, Elsewhere, Typed
<1>16. Pins'
  <2>1. ~InPin(o)' /\ ~InTable(o)'
    BY <1>4 DEF InPin, InTable
  <2> QED
    BY <1>0, <1>2, <1>3, <1>4, <1>8, <2>1 DEF Pins, Elsewhere, Typed, frame
<1> QED
  BY <1>4, <1>10, <1>11, <1>12, <1>13, <1>14, <1>15, <1>16 DEF Rest

(* A finalized object has no references left, and nothing that survives    *)
(* refers to it.                                                           *)
LEMMA EndFinalizerStep ==
  ASSUME IInv, EndFinalizer PROVE Rest'
<1>0. /\ Typed /\ Modes /\ Roots /\ Closed /\ Unused /\ Counted /\ CountsAccurate
      /\ Added /\ Indexed /\ Pins
  BY DEF IInv
<1>1. PICK o \in Objs : o = dying
  BY <1>0, ZCTAssumption DEF EndFinalizer, Modes, Typed
<1>2. /\ pc = "finalizer" /\ ptr[o] = {} /\ o # None
      /\ IF idx[o] # None THEN RemoveFromZCT(o) ELSE UNCHANGED <<table, idx>>
      /\ alive' = alive \ {o} /\ rc' = [rc EXCEPT ![o] = 0]
      /\ sticky' = sticky \ {o} /\ pinned' = pinned \ {o}
      /\ locals' = {} /\ dying' = None
      /\ pc' = IF reaping THEN "reap" ELSE "sweep"
      /\ UNCHANGED <<ptr, globals, stack, pin, reaping, collecting, marked, pending>>
  BY <1>1, ZCTAssumption DEF EndFinalizer, Destroy, Free, modeVars
<1>3. /\ reaping \/ collecting
      /\ o \in alive /\ o \notin marked /\ ~InPin(o)
  BY <1>0, <1>1, <1>2, NotPinned DEF Modes, Pins
<1>4. Indexed' /\ Elsewhere(o) /\ idx'[o] = None
  BY <1>0, <1>2, <1>3, RemoveEffect
<1>5. rc'[o] = 0 /\ \A p \in Objs \ {o} : rc'[p] = rc[p]
  BY <1>0, <1>2 DEF Typed
<1>6. Modes'
  BY <1>0, <1>2, <1>3 DEF Modes
<1>7. Live' = Live
  <2>1. CASE collecting
    BY <1>2, <1>3, <2>1 DEF Live
  <2>2. CASE ~collecting
    <3>1. None \notin alive
      BY <1>0, ZCTAssumption DEF Typed
    <3>2. Live = alive \ {o} /\ Live' = (alive \ {o}) \ {None}
      BY <1>1, <1>2, <2>2 DEF Live
    <3> QED
      BY <3>1, <3>2
  <2> QED
    BY <2>1, <2>2
<1>8. Roots'
  BY <1>0, <1>2, <1>7 DEF Roots, frame
<1>9. Closed'
  <2>1. \A c \in alive \ {o} : ptr[c] \subseteq (alive \ {o}) \cup Swept
    <3>1. CASE collecting
      BY <1>0, <1>3, <3>1 DEF Closed, Swept
    <3>2. CASE ~collecting
      BY <1>0, <1>1, <3>2 DEF Closed, Live
    <3> QED
      BY <3>1, <3>2
  <2>2. Swept' = Swept
    BY <1>2 DEF Swept
  <2> QED
    BY <1>0, <1>2, <1>7, <2>1, <2>2 DEF Closed
<1>10. Unused' /\ Counted'
  BY <1>0, <1>2, <1>4, <1>5, ZCTAssumption DEF Unused, Counted, Elsewhere
<1>11. CountsAccurate'
  <2>1. \A p : Refs(p)' = Refs(p)
    BY <1>2 DEF Refs
  <2> QED
    BY <1>0, <1>2, <1>5, <2>1, CountsSame DEF Typed
<1>12. Added'
  <2>1. pending # None => pending \in Objs \ {o}
    BY <1>0, <1>1, PendingLive
  <2> QED
    BY <1>0, <1>2, <1>4, <1>5, <2>1 DEF Added, Elsewhere
<1>13. Pins'
  <2>1. ~InPin(o)' /\ ~InTable(o)'
    BY <1>4 DEF InPin, InTable
  <2>2. o \notin stack /\ o # pending
    BY <1>0, <1>1, <1>2, Surviving, PendingLive
  <2> QED
    BY <1>0, <1>2, <1>3, <1>4, <2>1, <2>2 DEF Pins, Elsewhere, Typed
<1> QED
  BY <1>4, <1>6, <1>8, <1>9, <1>10, <1>11, <1>12, <1>13 DEF Rest

(* What has moved is not pinned, so that nothing in the new table is. *)
LEMMA EndReapStep ==
  ASSUME IInv, EndReap PROVE Rest'
<1>0. Typed /\ Modes /\ Roots /\ Closed /\ Indexed /\ Pins
  BY DEF IInv
<1>1. /\ pc = "reap" /\ table = <<>> /\ table' = pin /\ pin' = <<>> /\ reaping' = FALSE
      /\ pc' = IF pending = None THEN "run" ELSE "add"
      /\ UNCHANGED <<alive, ptr, globals, stack, locals, rc, sticky, idx, pinned,
                     collecting, marked, dying, pending>>
  BY DEF EndReap, heapVars
<1>2. Indexed' /\ \A p \in Objs : ~InPin(p)' /\ (InTable(p)' <=> InPin(p))
  BY <1>0, <1>1, EndEffect
<1>3. Unused' /\ Counted' /\ CountsAccurate' /\ Added'
  BY <1>1, HeapSame
<1>4. Modes' /\ Live' = Live
  BY <1>0, <1>1 DEF Modes, Live
<1>5. Roots' /\ Closed'
  BY <1>0, <1>1, <1>4 DEF Roots, frame, Closed, Swept
<1>6. Pins'
  BY <1>0, <1>1, <1>2 DEF Pins, Typed
<1> QED
  BY <1>2, <1>3, <1>4, <1>5, <1>6 DEF Rest

(* After reaping the object is added as it would have been before. *)
LEMMA AddPendingStep ==
  ASSUME IInv, AddPending PROVE Rest'
<1>0. /\ Typed /\ Modes /\ Roots /\ Closed /\ Unused /\ Counted /\ CountsAccurate
      /\ Added /\ Indexed /\ Pins
  BY DEF IInv
<1>1. PICK o \in Objs : o = pending
  BY <1>0, ZCTAssumption DEF AddPending, Modes, Typed
<1>2. /\ pc = "add" /\ ~reaping /\ pending' = None /\ pc' = "run" /\ o # None
      /\ Enter(o) \/ NotEntered
      /\ UNCHANGED <<alive, ptr, globals, stack, locals, rc, sticky, pin, reaping,
                     collecting, marked, dying>>
  BY <1>1, ZCTAssumption DEF AddPending, GrowAndEnter, heapVars, modeVars
<1>3. /\ idx[o] = None /\ rc[o] = 0 /\ o \notin sticky /\ o \in alive
      /\ ~InPin(o) /\ ~InTable(o) /\ dying = None /\ locals = {}
  BY <1>0, <1>1, <1>2, PendingLive DEF Added, InPin, InTable, Modes
<1>4. /\ Indexed' /\ Elsewhere(o) /\ ~InPin(o)' /\ pinned' \subseteq pinned
      /\ InTable(o)' => o \notin pinned'
  <2>1. CASE Enter(o)
    <3>1. /\ table' = Append(table, o) /\ idx' = [idx EXCEPT ![o] = Len(table)]
          /\ pinned' = pinned \ {o}
      BY <1>2, <2>1 DEF Enter
    <3> QED
      BY <1>0, <1>2, <1>3, <3>1, EnterEffect
  <2>2. CASE NotEntered
    <3>1. UNCHANGED <<idx, table, pin, pinned>>
      BY <1>2, <2>2 DEF NotEntered
    <3> QED
      BY <1>3, <3>1, EntriesSame DEF Elsewhere
  <2> QED
    BY <1>2, <2>1, <2>2
<1>5. Modes' /\ Live' = Live /\ Roots' /\ Closed'
  BY <1>0, <1>2, <1>3 DEF Modes, Live, Roots, frame, Closed, Swept
<1>6. Unused' /\ Counted'
  BY <1>0, <1>2, <1>3, <1>4 DEF Unused, Counted, Elsewhere
<1>7. CountsAccurate' /\ Added'
  BY <1>0, <1>2 DEF CountsAccurate, Added
<1>8. Pins'
  BY <1>0, <1>2, <1>4 DEF Pins, Elsewhere, Typed
<1> QED
  BY <1>4, <1>5, <1>6, <1>7, <1>8 DEF Rest

(* Everything is reachable from what it is reachable from, and what is     *)
(* reachable refers to nothing else.                                       *)
LEMMA ReachableClosed ==
  ASSUME Typed, NEW R, R \subseteq Objs
  PROVE  /\ R \subseteq ReachableFrom(R) /\ ReachableFrom(R) \subseteq Objs
         /\ \A x \in ReachableFrom(R) : ptr[x] \subseteq ReachableFrom(R)
<1>1. ASSUME NEW x \in ReachableFrom(R), NEW y \in ptr[x] PROVE y \in ReachableFrom(R)
  <2>1. x \in Objs /\ y \in Objs
    BY <1>1 DEF ReachableFrom, Typed
  <2> SUFFICES ASSUME NEW S \in SUBSET Objs, R \subseteq S, \A z \in S : ptr[z] \subseteq S
               PROVE  y \in S
    BY <2>1 DEF ReachableFrom
  <2>2. x \in S
    BY <1>1 DEF ReachableFrom
  <2> QED
    BY <1>1, <2>2
<1> QED
  BY <1>1 DEF ReachableFrom

(* A set that holds the roots and is closed holds all that is reachable. *)
LEMMA ReachableWithin ==
  ASSUME NEW R, NEW S \in SUBSET Objs, R \subseteq S, \A x \in S : ptr[x] \subseteq S
  PROVE  ReachableFrom(R) \subseteq S
BY DEF ReachableFrom

(* The marked objects hold the roots and refer to marked objects. *)
LEMMA StartCollectingStep ==
  ASSUME IInv, StartCollecting PROVE Rest'
<1>0. Typed /\ Modes /\ Roots /\ Closed /\ Indexed /\ Pins
  BY DEF IInv
<1>1. /\ InProgram /\ ~collecting /\ ~reaping /\ collecting' = TRUE /\ pc' = "sweep"
      /\ UNCHANGED <<alive, ptr, globals, stack, locals, rc, sticky, idx, pinned, table,
                     pin, reaping, dying, pending>>
  BY DEF StartCollecting, heapVars, tableVars
<1>2. pc = "run" /\ dying = None /\ pending = None /\ locals = {} /\ Live = alive
  BY <1>0, <1>1, ZCTAssumption DEF Modes, InProgram, Live, Typed
<1>3. PICK M \in SUBSET Objs : /\ marked' = M \cup (Objs \ alive)
                               /\ globals \cup frame \subseteq M
                               /\ \A x \in M : ptr[x] \subseteq M
  <2>1. PICK R \in SUBSET alive :
          marked' = ReachableFrom(globals \cup frame \cup R) \cup (Objs \ alive)
    BY DEF StartCollecting
  <2> DEFINE Q == globals \cup frame \cup R
  <2>2. Q \subseteq Objs
    BY <1>0 DEF Typed, frame
  <2> HIDE DEF Q
  <2>3. /\ Q \subseteq ReachableFrom(Q) /\ ReachableFrom(Q) \subseteq Objs
        /\ \A x \in ReachableFrom(Q) : ptr[x] \subseteq ReachableFrom(Q)
    BY <1>0, <2>2, ReachableClosed
  <2>4. marked' = ReachableFrom(Q) \cup (Objs \ alive) /\ globals \cup frame \subseteq Q
    BY <2>1 DEF Q
  <2> QED
    BY <2>3, <2>4
<1>4. Live' = alive \cap M
  BY <1>0, <1>1, <1>3 DEF Live, Typed
<1>5. Modes'
  BY <1>0, <1>1, <1>2 DEF Modes
<1>6. Unused' /\ Counted' /\ CountsAccurate' /\ Added' /\ Indexed'
  BY <1>1, HeapSame, EntriesSame
<1>7. Roots'
  BY <1>0, <1>1, <1>2, <1>3, <1>4 DEF Roots, frame
<1>8. Closed'
  BY <1>0, <1>1, <1>2, <1>3, <1>4 DEF Closed, Swept
<1>9. Pins'
  BY <1>0, <1>1, EntriesSame DEF Pins, Typed
<1> QED
  BY <1>5, <1>6, <1>7, <1>8, <1>9 DEF Rest

(* Collecting ends when all that is left is marked. *)
LEMMA EndCollectingStep ==
  ASSUME IInv, EndCollecting PROVE Rest'
<1>0. Typed /\ Modes /\ Roots /\ Closed /\ Indexed /\ Pins
  BY DEF IInv
<1>1. /\ pc = "sweep" /\ alive \subseteq marked
      /\ collecting' = FALSE /\ marked' = {} /\ pc' = "run"
      /\ UNCHANGED <<alive, ptr, globals, stack, locals, rc, sticky, idx, pinned, table,
                     pin, reaping, dying, pending>>
  BY DEF EndCollecting, heapVars, tableVars
<1>2. /\ collecting /\ ~reaping /\ dying = None /\ pending = None /\ locals = {}
      /\ Live = alive /\ Live' = alive
  BY <1>0, <1>1, ZCTAssumption DEF Modes, Live, Typed
<1>3. Modes'
  BY <1>0, <1>1, <1>2 DEF Modes
<1>4. Unused' /\ Counted' /\ CountsAccurate' /\ Added' /\ Indexed'
  BY <1>1, HeapSame, EntriesSame
<1>5. Roots' /\ Closed'
  BY <1>0, <1>1, <1>2 DEF Roots, frame, Closed
<1>6. Pins'
  BY <1>0, <1>1, EntriesSame DEF Pins, Typed
<1> QED
  BY <1>3, <1>4, <1>5, <1>6 DEF Rest

(***************************************************************************)
(* The theorems                                                            *)
(***************************************************************************)
LEMMA InitInv == ASSUME Init PROVE IInv
<1>1. Typed
  <2>1. /\ [o \in Objs |-> 0] \in [Objs -> 0..MaxRef] /\ 1 \in Nat \ {0}
        /\ [o \in Objs |-> None] \in [Objs -> Nat \cup {None}]
        /\ [o \in Objs |-> {}] \in [Objs -> SUBSET Objs]
    BY ZCTAssumption
  <2>2. <<>> \in Seq(Objs \cup {None})
    BY EmptySeq
  <2> QED
    BY <2>1, <2>2 DEF Init, Typed
<1>2. \A o \in Objs, i \in Nat : ~At(table, o, i) /\ ~At(pin, o, i)
  BY EmptySeq, LenProperties DEF Init, At
<1>3. Indexed /\ Pins
  BY <1>2 DEF Init, Indexed, Pins
<1>4. Modes /\ Roots /\ Closed /\ Unused /\ Counted /\ CountsAccurate /\ Added
  BY ZCTAssumption DEF Init, Modes, Roots, frame, Live, Closed, Unused, Counted,
                       CountsAccurate, Added
<1> QED
  BY <1>1, <1>3, <1>4 DEF IInv

LEMMA StepInv == ASSUME NoRetain, IInv, [Next]_vars PROVE IInv'
<1>1. CASE Next
  <2>1. Typed'
    BY <1>1, TypedStep
  <2>2. Rest'
    BY <1>1, NewStep, LoadStep, StoreStep, ClearStep, StickStep, DeleteStep,
       StartFinalizerStep, StartReapStep, PopNullStep, PopPinnedStep, ReapObjectStep,
       EndFinalizerStep, EndReapStep, AddPendingStep, StartCollectingStep,
       EndCollectingStep
    DEF Next
  <2> QED
    BY <2>1, <2>2 DEF IInv, Rest
<1>2. CASE UNCHANGED vars
  BY <1>2 DEF vars, heapVars, tableVars, modeVars, IInv, Typed, Modes, Roots, frame, Live,
     Closed, Swept, Unused, Counted, CountsAccurate, Added, Indexed, At, Pins, InPin, InTable
<1> QED
  BY <1>1, <1>2

(* The inductive invariant holds in every state the program reaches, when  *)
(* no finalizer retains an object of the stack.                            *)
THEOREM Invariance == NoRetain => (Spec => []IInv)
<1> SUFFICES ASSUME NoRetain PROVE Spec => []IInv
  OBVIOUS
<1>1. Init => IInv
  BY InitInv
<1>2. IInv /\ [Next]_vars => IInv'
  BY StepInv
<1> QED
  BY <1>1, <1>2, PTL DEF Spec

(* What the program can reach is alive, and its finalizer does not run:    *)
(* the survivors hold the roots and refer to survivors only, so that they  *)
(* hold all that is reachable.                                             *)
LEMMA SafeInState == ASSUME IInv PROVE ReachableAlive
<1>0. Typed /\ Modes /\ Roots /\ Closed
  BY DEF IInv
<1>1. Live \subseteq alive \ {dying} /\ Live \subseteq Objs
  BY <1>0, ZCTAssumption DEF Live, Modes, Typed
<1>2. Reachable \subseteq Live
  BY <1>0, <1>1, ReachableWithin DEF Roots, Closed, Reachable
<1> QED
  BY <1>1, <1>2 DEF ReachableAlive

(* Neither the reaper nor the collector takes an object in use. *)
THEOREM NothingInUseIsFreed == NoRetain => (Spec => []ReachableAlive)
<1> SUFFICES ASSUME NoRetain PROVE Spec => []ReachableAlive
  OBVIOUS
<1>1. Spec => []IInv
  BY Invariance
<1>2. IInv => ReachableAlive
  BY SafeInState
<1> QED
  BY <1>1, <1>2, PTL

(* The count of an object that is not sticky is the number of its counted  *)
(* references, whatever finalizers do to the count of a dying object.      *)
THEOREM CountsHold == NoRetain => (Spec => []CountsAccurate)
<1> SUFFICES ASSUME NoRetain PROVE Spec => []CountsAccurate
  OBVIOUS
<1>1. Spec => []IInv
  BY Invariance
<1>2. IInv => CountsAccurate
  BY DEF IInv
<1> QED
  BY <1>1, <1>2, PTL

(* Every entry is an object with that index and every index is found; what *)
(* is in the table has no counted reference, and nothing in it is pinned   *)
(* once reaping is over.                                                   *)
LEMMA EntriesInState == ASSUME IInv PROVE IndexConsistent /\ EntriesReapable
<1>0. Typed /\ Unused /\ Counted /\ CountsAccurate /\ Indexed /\ Pins
  BY DEF IInv
<1>1. None \notin Nat /\ None \notin Objs /\ \A p \in Objs : idx[p] \in Nat \/ idx[p] = None
  BY <1>0, ZCTAssumption DEF Typed
<1>2. ASSUME NEW s \in Seq(Entry), NEW i \in DOMAIN s, s[i] # None
      PROVE  s[i] \in Objs /\ i - 1 \in Nat /\ At(s, s[i], i - 1)
  <2>1. i \in 1..Len(s) /\ Len(s) \in Nat /\ s[i] \in Entry
    BY LenProperties, ElementOfSeq
  <2> QED
    BY <1>2, <2>1 DEF At, Entry
<1>3. ASSUME NEW s \in Seq(Entry), NEW p \in Objs, idx[p] # None, At(s, p, idx[p])
      PROVE  <<p, idx[p]>> \in Entries(s)
  <2>1. idx[p] + 1 \in DOMAIN s /\ s[idx[p] + 1] = p /\ (idx[p] + 1) - 1 = idx[p] /\ p # None
    BY <1>1, <1>3 DEF At
  <2> QED
    BY <2>1 DEF Entries
<1>4. table \in Seq(Entry) /\ pin \in Seq(Entry)
  BY <1>0 DEF Typed, Entry
<1>5. IndexConsistent
  <2> DEFINE Own == {<<o, idx[o]>> : o \in {x \in alive : idx[x] # None}}
  <2>1. ASSUME NEW e \in Entries(table) \cup Entries(pin) PROVE e \in Own
    <3>1. PICK s \in {table, pin} : e \in Entries(s)
      BY <2>1
    <3>2. PICK i \in DOMAIN s : s[i] # None /\ e = <<s[i], i - 1>>
      BY <3>1 DEF Entries
    <3>3. PICK o \in Objs : o = s[i] /\ i - 1 \in Nat /\ At(s, o, i - 1)
      BY <1>2, <1>4, <3>2
    <3>4. idx[o] = i - 1
      BY <1>0, <3>1, <3>3 DEF Indexed
    <3>5. idx[o] # None /\ o \in alive
      BY <1>0, <1>1, <3>3, <3>4 DEF Unused
    <3> QED
      BY <3>2, <3>3, <3>4, <3>5
  <2>2. ASSUME NEW e \in Own PROVE e \in Entries(table) \cup Entries(pin)
    <3>1. PICK o \in alive : idx[o] # None /\ e = <<o, idx[o]>>
      BY <2>2
    <3>2. o \in Objs /\ (At(table, o, idx[o]) \/ At(pin, o, idx[o]))
      BY <1>0, <3>1 DEF Indexed, Typed
    <3> QED
      BY <1>3, <1>4, <3>1, <3>2
  <2> QED
    BY <2>1, <2>2 DEF IndexConsistent
<1>6. EntriesReapable
  <2>1. ASSUME NEW o \in alive, idx[o] # None
        PROVE  rc[o] = 0 /\ o \notin globals \cup UNION Range(ptr)
    <3>1. o \in Objs /\ rc[o] = 0 /\ o \notin sticky
      BY <1>0, <2>1 DEF Typed, Counted
    <3>2. o \notin globals /\ \A c \in alive : o \notin ptr[c]
      BY <1>0, <3>1, Referenced
    <3>3. \A c \in Objs : o \notin ptr[c]
      BY <1>0, <3>2 DEF Unused
    <3> QED
      BY <1>0, <3>1, <3>2, <3>3 DEF Typed, Range
  <2>2. ASSUME ~reaping, NEW i \in DOMAIN table PROVE table[i] \notin pinned
    <3> SUFFICES ASSUME table[i] \in pinned PROVE FALSE
      OBVIOUS
    <3>1. PICK o \in Objs : o = table[i] /\ o \in pinned
      BY <1>0 DEF Typed
    <3>2. i - 1 \in Nat /\ At(table, o, i - 1)
      BY <1>1, <1>2, <1>4, <3>1
    <3>3. idx[o] = i - 1 /\ idx[o] # None
      BY <1>0, <1>1, <3>2 DEF Indexed
    <3> QED
      BY <1>0, <2>2, <3>1, <3>2, <3>3 DEF Pins, InTable
  <2> QED
    BY <2>1, <2>2 DEF EntriesReapable
<1> QED
  BY <1>5, <1>6

(* The table, the pinning memory and the objects agree, for a table of any *)
(* capacity.                                                               *)
THEOREM EntriesAgree == NoRetain => (Spec => [](IndexConsistent /\ EntriesReapable))
<1> SUFFICES ASSUME NoRetain PROVE Spec => [](IndexConsistent /\ EntriesReapable)
  OBVIOUS
<1>1. Spec => []IInv
  BY Invariance
<1>2. IInv => IndexConsistent /\ EntriesReapable
  BY EntriesInState
<1> QED
  BY <1>1, <1>2, PTL

(***************************************************************************)
(* Indices below the capacity.  CanGrow looks at the table only, so that   *)
(* the pinning memory has to fit by its size: an object in it takes at     *)
(* most an entry and the link of a block.                                  *)
(***************************************************************************)
Ample == 2 * Cardinality(Objs) + BlockSize <= Capacity

Fits == Len(table) <= nblocks * BlockSize /\ nblocks * BlockSize <= Capacity
Moved == {o \in Objs : \E i \in Nat : At(pin, o, i)}
Sized == Fits /\ Len(pin) <= 2 * Cardinality(Moved)

LEMMA MovedFinite ==
  /\ IsFiniteSet(Moved) /\ Cardinality(Moved) \in Nat /\ Cardinality(Objs) \in Nat
  /\ Cardinality(Moved) <= Cardinality(Objs)
<1>1. Moved \subseteq Objs /\ IsFiniteSet(Objs)
  BY ZCTAssumption DEF Moved
<1> QED
  BY <1>1, FS_Subset, FS_CardinalityType

LEMMA PinSame == ASSUME UNCHANGED pin PROVE Moved' = Moved
BY DEF Moved, At

LEMMA EnterFits ==
  ASSUME Typed, Fits, NEW o \in Objs, Enter(o),
         \/ ~Full /\ nblocks' = nblocks
         \/ CanGrow /\ Full /\ nblocks' = nblocks + 1
  PROVE  Fits'
<1>1. Len(table') = Len(table) + 1 /\ Len(table) \in Nat
  BY AppendAt DEF Enter, Typed, Entry
<1>2. /\ nblocks \in Nat /\ BlockSize \in Nat \ {0} /\ Capacity \in Nat
      /\ (nblocks + 1) * BlockSize = nblocks * BlockSize + BlockSize
      /\ nblocks * BlockSize \in Nat
  BY ZCTAssumption DEF Typed
<1>3. CASE ~Full /\ nblocks' = nblocks
  BY <1>1, <1>2, <1>3 DEF Full, Fits
<1>4. CASE CanGrow /\ Full /\ nblocks' = nblocks + 1
  <2>1. Len(table) = nblocks * BlockSize /\ Len(table) + BlockSize <= Capacity
    BY <1>1, <1>2, <1>4 DEF Full, Fits, CanGrow
  <2> QED
    BY <1>1, <1>2, <1>4, <2>1 DEF Fits
<1> QED
  BY <1>3, <1>4

LEMMA NotEnteredFits == ASSUME Fits, NotEntered PROVE Fits'
BY DEF Fits, NotEntered

LEMMA AddFits ==
  ASSUME Typed, Fits, NEW o \in Objs, Add(o) PROVE Fits'
BY EnterFits, NotEnteredFits DEF Add, GrowAndEnter

LEMMA RemoveFits ==
  ASSUME Typed, Fits, NEW o \in Objs, UNCHANGED nblocks,
         IF idx[o] # None THEN RemoveFromZCT(o) ELSE UNCHANGED <<table, idx>>
  PROVE  Fits'
<1>1. Len(table') = Len(table)
  <2>1. CASE idx[o] # None
    <3> DEFINE r == table'
               k == idx[o]
    <3>1. /\ k \in Nat /\ table \in Seq(Entry)
          /\ r = [j \in DOMAIN table |-> IF j = k + 1 THEN None ELSE table[j]]
      BY <2>1 DEF RemoveFromZCT, Typed, Entry
    <3> HIDE DEF r, k
    <3>2. Len(r) = Len(table)
      BY <3>1, ClearAt
    <3> QED
      BY <3>2 DEF r
  <2> QED
    BY <2>1
<1> QED
  BY <1>1 DEF Fits

LEMMA PopFits ==
  ASSUME Typed, Fits, table # <<>>, Pop PROVE Fits'
<1>1. /\ Len(table') = Len(table) - 1 /\ Len(table) - 1 \in Nat
      /\ Len(table) \in Nat
  BY PopEffect DEF Typed
<1>2. /\ nblocks \in Nat \ {0} /\ BlockSize \in Nat \ {0} /\ Capacity \in Nat
      /\ (nblocks - 1) * BlockSize = nblocks * BlockSize - BlockSize
      /\ nblocks * BlockSize \in Nat
  BY ZCTAssumption DEF Typed
<1> QED
  BY <1>1, <1>2 DEF Fits, Pop

(* An object that moves takes an entry or two. *)
LEMMA PinSized ==
  ASSUME Typed, Indexed, table # <<>>, Pop, NEW o \in Objs, Top = o, PinObject(o),
         Len(pin) <= 2 * Cardinality(Moved)
  PROVE  Len(pin') <= 2 * Cardinality(Moved')
<1>1. CASE pin' = pin
  BY <1>1, PinSame
<1>2. CASE pin' = Append(PinRoom, o)
  <2>1. /\ PinRoom \in Seq(Entry) /\ Len(pin) \in Nat
        /\ Len(PinRoom) \in {Len(pin), Len(pin) + 1}
        /\ \A p \in Objs, i \in Nat : At(PinRoom, p, i) <=> At(pin, p, i)
    <3>1. pin \in Seq(Entry) /\ None \in Entry /\ \A p \in Objs : p # None
      BY ZCTAssumption DEF Typed, Entry
    <3> QED
      BY <3>1, AppendAt DEF PinRoom
  <2>2. /\ Len(pin') = Len(PinRoom) + 1 /\ Len(PinRoom) \in Nat
        /\ \A p \in Objs, i \in Nat :
             At(pin', p, i) <=> At(PinRoom, p, i) \/ (p = o /\ i = Len(PinRoom))
    BY <1>2, <2>1, AppendAt DEF Entry
  <2>3. \A i \in Nat : ~At(pin, o, i)
    BY TopIndexed
  <2>4. Moved' = {p \in Objs : \E i \in Nat : At(pin', p, i)}
    BY DEF Moved, At
  <2>5. Moved' = Moved \cup {o} /\ o \notin Moved
    BY <2>1, <2>2, <2>3, <2>4 DEF Moved
  <2>6. Cardinality(Moved') = Cardinality(Moved) + 1 /\ Cardinality(Moved) \in Nat
    BY <2>5, MovedFinite, FS_AddElement
  <2> QED
    BY <2>1, <2>2, <2>6
<1> QED
  BY <1>1, <1>2 DEF PinObject

(* The pinning memory becomes a table within the capacity. *)
LEMMA EndFits ==
  ASSUME Ample, Typed, Sized, table' = pin,
         nblocks' = IF pin = <<>> THEN nblocks ELSE (Len(pin) + BlockSize - 1) \div BlockSize
  PROVE  Fits'
<1>1. /\ nblocks \in Nat \ {0} /\ BlockSize \in Nat \ {0} /\ Capacity \in Nat
      /\ Len(pin) \in Nat /\ nblocks * BlockSize \in Nat
  BY ZCTAssumption DEF Typed
<1>2. CASE pin = <<>>
  BY <1>1, <1>2, EmptySeq DEF Fits, Sized
<1>3. CASE pin # <<>>
  <2>1. \A l \in Nat, b \in Nat \ {0} :
          /\ (l + b - 1) \div b \in Nat
          /\ ((l + b - 1) \div b) * b <= l + b - 1 /\ l <= ((l + b - 1) \div b) * b
    OBVIOUS
  <2>2. /\ nblocks' \in Nat /\ nblocks' * BlockSize <= Len(pin) + BlockSize - 1
        /\ Len(pin) <= nblocks' * BlockSize
    BY <1>1, <1>3, <2>1
  <2>3. nblocks' * BlockSize \in Nat
    BY <1>1, <2>2
  <2>4. Len(pin) + BlockSize - 1 <= Capacity
    BY <1>1, MovedFinite DEF Ample, Sized
  <2> QED
    BY <1>1, <2>2, <2>3, <2>4 DEF Fits
<1> QED
  BY <1>2, <1>3

LEMMA SizedStep ==
  ASSUME NoRetain, Ample, IInv, Sized, Next PROVE Sized'
<1>0. Typed /\ Modes /\ Indexed /\ Added /\ Fits /\ Len(pin) <= 2 * Cardinality(Moved)
  BY DEF IInv, Sized
<1>1. ASSUME Fits', UNCHANGED pin PROVE Sized'
  BY <1>0, <1>1, PinSame DEF Sized
<1>2. ASSUME Fits', pin' = <<>> PROVE Sized'
  <2>1. Moved' \subseteq Objs
    BY DEF Moved
  <2>2. Cardinality(Moved') \in Nat
    BY <2>1, ZCTAssumption, FS_Subset, FS_CardinalityType
  <2> QED
    BY <1>2, <2>2, EmptySeq DEF Sized
<1>3. ASSUME NEW o \in Objs, New(o) \/ Clear(o) PROVE Sized'
  <2>1. Add(o) \/ NotEntered
    BY <1>3 DEF New, Clear, DecrementRef
  <2> QED
    BY <1>0, <1>1, <1>3, <2>1, AddFits, NotEnteredFits DEF New, Clear
<1>4. ASSUME NEW o \in Objs, Store(o) \/ Stick(o) \/ Delete(o) PROVE Sized'
  <2>1. /\ UNCHANGED <<nblocks, pin>>
        /\ \/ IF idx[o] # None THEN RemoveFromZCT(o) ELSE UNCHANGED <<table, idx>>
           \/ UNCHANGED table
    BY <1>4 DEF Store, IncrementRef, Stick, Delete, Destroy
  <2> QED
    BY <1>0, <1>1, <2>1, RemoveFits DEF Fits
<1>5. ASSUME NEW o \in Objs, Load(o) \/ Drop(o) \/ StartFinalizer(o) PROVE Sized'
  BY <1>0, <1>1, <1>5 DEF Load, Drop, StartFinalizer, tableVars, Fits
<1>6. ASSUME StartReap PROVE Sized'
  BY <1>0, <1>2, <1>6 DEF StartReap, Fits
<1>7. ASSUME PopNull \/ ReapObject PROVE Sized'
  BY <1>0, <1>1, <1>7, PopFits DEF PopNull, ReapObject
<1>8. ASSUME PopPinned PROVE Sized'
  <2>1. PICK o \in Objs : o = Top
    BY <1>0, <1>8 DEF PopPinned, Typed
  <2>2. table # <<>> /\ Pop /\ PinObject(o)
    BY <1>8, <2>1 DEF PopPinned
  <2> QED
    BY <1>0, <2>1, <2>2, PopFits, PinSized DEF Sized
<1>9. ASSUME EndFinalizer PROVE Sized'
  <2>1. PICK o \in Objs : o = dying
    BY <1>0, <1>9, ZCTAssumption DEF EndFinalizer, Modes, Typed
  <2> QED
    BY <1>0, <1>1, <1>9, <2>1, RemoveFits DEF EndFinalizer, Destroy
<1>10. ASSUME EndReap PROVE Sized'
  BY <1>0, <1>2, <1>10, EndFits DEF EndReap
<1>11. ASSUME AddPending PROVE Sized'
  <2>1. PICK o \in Objs : o = pending
    BY <1>0, <1>11, ZCTAssumption DEF AddPending, Modes, Typed
  <2> QED
    BY <1>0, <1>1, <1>11, <2>1, EnterFits, NotEnteredFits DEF AddPending, GrowAndEnter
<1>12. ASSUME StartCollecting \/ EndCollecting PROVE Sized'
  BY <1>0, <1>1, <1>12 DEF StartCollecting, EndCollecting, tableVars, Fits
<1> QED
  BY <1>3, <1>4, <1>5, <1>6, <1>7, <1>8, <1>9, <1>10, <1>11, <1>12 DEF Next

LEMMA SizedInv == ASSUME NoRetain, Ample PROVE Spec => []Sized
<1>1. Init => Sized
  <2>1. ASSUME Init PROVE Sized
    <3>1. /\ BlockSize \in Nat /\ Capacity \in Nat /\ Cardinality(Objs) \in Nat
          /\ Cardinality(Moved) \in Nat
      BY ZCTAssumption, MovedFinite
    <3> QED
      BY <2>1, <3>1, EmptySeq DEF Init, Sized, Fits, Ample
  <2> QED
    BY <2>1
<1>2. IInv /\ Sized /\ [Next]_vars => Sized'
  <2>1. ASSUME IInv, Sized, UNCHANGED vars PROVE Sized'
    BY <2>1, PinSame DEF vars, tableVars, Sized, Fits
  <2> QED
    BY <2>1, SizedStep
<1>3. Spec => []IInv
  BY Invariance
<1> QED
  BY <1>1, <1>2, <1>3, PTL DEF Spec

LEMMA TypesInState == ASSUME Ample, IInv, Sized PROVE TypeOK
<1>0. Typed /\ Indexed
  BY DEF IInv
<1>1. /\ Len(table) \in Nat /\ DOMAIN table = 1..Len(table) /\ Len(table) <= Capacity
      /\ Len(pin) \in Nat /\ DOMAIN pin = 1..Len(pin) /\ Len(pin) <= Capacity
      /\ Capacity \in Nat
  <2>1. nblocks * BlockSize \in Nat /\ BlockSize \in Nat /\ Capacity \in Nat
    BY <1>0, ZCTAssumption DEF Typed
  <2>2. /\ Len(table) \in Nat /\ DOMAIN table = 1..Len(table)
        /\ Len(pin) \in Nat /\ DOMAIN pin = 1..Len(pin)
    BY <1>0, LenProperties DEF Typed
  <2> QED
    BY <2>1, <2>2, MovedFinite DEF Sized, Fits, Ample
<1>2. ASSUME NEW o \in Objs PROVE idx[o] \in (0..Capacity - 1) \cup {None}
  <2>1. idx[o] \in Nat \/ idx[o] = None
    BY <1>0 DEF Typed
  <2>2. CASE idx[o] # None
    <3>1. idx[o] + 1 \in DOMAIN table \/ idx[o] + 1 \in DOMAIN pin
      BY <1>0, <2>2 DEF Indexed, At
    <3> QED
      BY <1>1, <2>1, <2>2, <3>1
  <2> QED
    BY <2>2
<1> QED
  BY <1>0, <1>2 DEF Typed, TypeOK

(* The table, the pinning memory and the objects in them agree and every   *)
(* index is below the capacity, when the objects are few enough for the    *)
(* pinning memory.                                                         *)
THEOREM TableHolds == NoRetain /\ Ample => (Spec => []TableConsistent)
<1> SUFFICES ASSUME NoRetain, Ample PROVE Spec => []TableConsistent
  OBVIOUS
<1>1. Spec => []IInv
  BY Invariance
<1>2. Spec => []Sized
  BY SizedInv
<1>3. IInv /\ Sized => TableConsistent
  BY TypesInState, EntriesInState DEF TableConsistent
<1> QED
  BY <1>1, <1>2, <1>3, PTL
=============================================================================
