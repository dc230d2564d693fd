------------------------------ MODULE Hashtable ------------------------------
(***************************************************************************)
(* InlineHashtable and the tables built on it (core/avmplusHashtable.cpp): *)
(* the dynamic properties of a ScriptObject ("inline", with DontEnum       *)
(* support), a Dictionary with weak keys ("weakKeys") and a cache with     *)
(* weak values ("weakValues").                                             *)
(*                                                                         *)
(* Open addressing in a power-of-two array of key/value pairs.  A removed  *)
(* pair leaves a DELETED mark, which find walks over and put never reuses; *)
(* the marks count in m_size until grow rehashes.  next() enumerates the   *)
(* table through one cached cursor, integers first.  A script may run      *)
(* several enumerations at once and change the table between two calls,    *)
(* and the collector may clear weak references at any time.                *)
(***************************************************************************)
EXTENDS Integers, FiniteSets

CONSTANTS
  Keys,
  Ints,        \* the keys that are kIntptrType atoms
  Objects,     \* the keys that a weakKeys table holds through a GCWeakRef
  Hideable,    \* bound: the keys whose DontEnum bit scripts change
  Hash,        \* the atom of a key, without its three tag bits
  Values,      \* the values a table of each kind holds
  Kinds,       \* the kinds of table
  Nested,      \* bound: the kinds of table over which loops are nested
  Slots,       \* pairs of a new table
  MaxSlots,    \* bound: MAX_CAPACITY in pairs, past which the process aborts
  EMPTY, DELETED, None

(* Capacities are powers of two: no odd number but 1 divides them. *)
PowerOfTwo(n) == \A d, q \in 1 .. n : d * q = n => d = 1 \/ d % 2 = 0

ASSUME HashtableAssumption ==
  /\ Ints \subseteq Keys /\ Objects \subseteq Keys \ Ints /\ Hideable \subseteq Keys
  /\ {EMPTY, DELETED, None} \cap (Keys \cup UNION {Values[k] : k \in Kinds}) = {} /\ EMPTY # DELETED
  /\ Hash \in [Keys -> Nat]
  /\ Kinds \subseteq {"inline", "weakKeys", "weakValues"} /\ Nested \subseteq Kinds
  /\ Slots \in Nat \ {0} /\ PowerOfTwo(Slots) /\ MaxSlots \in Nat

VARIABLES
  kind,
  atoms,       \* the pairs
  m_size,      \* put counts up, only grow counts anew
  hasDeletedItems,
  iter,        \* iterIndices: the public index last returned and its slot
  dead,        \* weakly held objects that have been collected
  bound,       \* history: the value the calls so far have bound to each key
  index,       \* the cookie of the enumeration under way, 0 when there is none
  \* the history of that enumeration:
  due, done,   \* keys that have been there and enumerable since it began, and
               \* that it has still to report or has reported
  shape,       \* since it began the table was "same", "edited" or "rehashed"
  mine         \* the cursor is this enumeration's, not an inner one's

tableVars == <<atoms, m_size, hasDeletedItems>>
loopVars == <<index, due, done, shape, mine>>
vars == <<kind, tableVars, iter, dead, bound, loopVars>>

Pair(k, v, h) == [key |-> k, val |-> v, hidden |-> h]
EmptyPair == Pair(EMPTY, None, FALSE)
DeletedPair == Pair(DELETED, None, FALSE)
Blank(n) == [i \in 0 .. n - 1 |-> EmptyPair]

getCapacity(t) == Cardinality(DOMAIN t)
Live(t) == {i \in DOMAIN t : t[i].key \in Keys}

\* The pair's weak reference is null.
IsNull(p) == \/ kind = "weakKeys" /\ p.key \in dead
             \/ kind = "weakValues" /\ p.val \in dead

---------------------------------------------------------------------------
\* find: the steps of the probe are 8, 9, 10, ... pairs.  They repeat after
\* twice the length of the table.
Probe(k, n, j) == (Hash[k] + 8 * j + (j * (j - 1)) \div 2) % n
StopsAt(k, t, n, j) == t[Probe(k, n, j)].key \in {k, EMPTY}
Endless(k, t) == LET n == getCapacity(t)
                 IN \A j \in 0 .. 2 * n - 1 : ~StopsAt(k, t, n, j)
find(k, t) ==
  LET n == getCapacity(t)
  IN Probe(k, n, CHOOSE j \in 0 .. 2 * n - 1 :
                   StopsAt(k, t, n, j) /\ \A i \in 0 .. j - 1 : ~StopsAt(k, t, n, i))
contains(k, t) == ~Endless(k, t) /\ t[find(k, t)].key = k

isFull(size, t) == 5 * (size + 1) >= 4 * getCapacity(t)

\* A step of rehash takes over a pair, unless it is deleted.  The first one
\* is a mutation that does not look for an EMPTY slot.
MovedInPlace(new, p) ==
  IF p.key \in Keys THEN [new EXCEPT ![Hash[p.key] % getCapacity(new)] = p] ELSE new
Moved(new, p) == IF p.key \in Keys THEN [new EXCEPT ![find(p.key, new)] = p] ELSE new

\* The pairs of t are put into an empty table of n pairs one after the other:
\* Rehashing(t, n)[i] is what it holds after the first i.
Rehashing(t, n) ==
  LET new[i \in 0 .. getCapacity(t)] ==
        IF i = 0 THEN Blank(n) ELSE Moved(new[i - 1], t[i - 1])
  IN new
Rehash(t, n) == Rehashing(t, n)[getCapacity(t)]

\* prune of WeakKeyHashtable and WeakValueHashtable.
prune(t) == [i \in DOMAIN t |-> IF t[i].key \in Keys /\ IsNull(t[i]) THEN DeletedPair
                                                                   ELSE t[i]]

Init ==
  /\ kind \in Kinds
  /\ atoms = Blank(Slots) /\ m_size = 0 /\ hasDeletedItems = FALSE
  /\ iter = [public |-> 0, slot |-> 0, int |-> FALSE]
  /\ dead = {} /\ bound = [k \in Keys |-> None]
  /\ index = 0 /\ due = {} /\ done = {} /\ shape = "same" /\ mine = TRUE

---------------------------------------------------------------------------
\* Whether the enumeration may still rely on its cookie: see Position.
Undisturbed == shape = "same" \/ (shape = "edited" /\ mine)

\* The table changes under an enumeration, and loses some keys.
Edited(gone) ==
  /\ due' = due \ gone /\ done' = done \ gone
  /\ shape' = IF index # 0 /\ shape = "same" THEN "edited" ELSE shape
  /\ UNCHANGED <<index, mine>>

\* After a rehash nothing is expected of an enumeration.
Rehashed ==
  /\ due' = {} /\ done' = {}
  /\ shape' = IF index # 0 THEN "rehashed" ELSE shape
  /\ UNCHANGED <<index, mine>>

\* The caller holds its key and its value, so that neither is dead.
Held(k) == k \notin dead

\* add with a key that is there: the DontEnum bit of the key stays.  With
\* the value that is there it changes nothing.
Update(k, v) ==
  /\ Held(k) /\ v \notin dead /\ contains(k, atoms)
  /\ atoms[find(k, atoms)].val # v
  /\ atoms' = [atoms EXCEPT ![find(k, atoms)].val = v]
  /\ bound' = [bound EXCEPT ![k] = v]
  /\ UNCHANGED <<kind, m_size, hasDeletedItems, iter, dead, loopVars>>

Inserted(k, v) == [atoms EXCEPT ![find(k, atoms)] = Pair(k, v, FALSE)]

MayInsert(k, v) ==
  /\ Held(k) /\ v \notin dead
  /\ ~Endless(k, atoms) /\ atoms[find(k, atoms)].key = EMPTY

Insert(k, v) ==
  /\ ~isFull(m_size + 1, atoms)
  /\ MayInsert(k, v)
  /\ atoms' = Inserted(k, v) /\ m_size' = m_size + 1
  /\ bound' = [bound EXCEPT ![k] = v]
  /\ Edited({})
  /\ UNCHANGED <<kind, hasDeletedItems, iter, dead>>

\* add that fills the table: the tables with weak references prune first,
\* and grow keeps the capacity when there are deleted pairs to drop.
InsertAndGrow(k, v) ==
  LET t == prune(Inserted(k, v))
      deleted == hasDeletedItems \/ t # Inserted(k, v)
      n == IF deleted THEN getCapacity(t) ELSE 2 * getCapacity(t)
  IN /\ isFull(m_size + 1, atoms)
     /\ MayInsert(k, v)
     /\ n <= MaxSlots
     /\ atoms' = Rehash(t, n)
     /\ m_size' = Cardinality(Live(t))
     /\ hasDeletedItems' = FALSE
     /\ bound' = [bound EXCEPT ![k] = v]
     /\ Rehashed
     /\ UNCHANGED <<kind, iter, dead>>

\* A removal that uncounts the pair, although its slot cannot be reused.
DeletePairUncounted(i) ==
  /\ atoms' = [atoms EXCEPT ![i] = DeletedPair]
  /\ m_size' = m_size - 1
  /\ hasDeletedItems' = TRUE
  /\ bound' = [bound EXCEPT ![atoms[i].key] = None]
  /\ Edited({atoms[i].key})
  /\ UNCHANGED <<kind, iter, dead>>

DeletePairAt(i) ==
  /\ atoms' = [atoms EXCEPT ![i] = DeletedPair]
  /\ hasDeletedItems' = TRUE
  /\ bound' = [bound EXCEPT ![atoms[i].key] = None]
  /\ Edited({atoms[i].key})
  /\ UNCHANGED <<kind, m_size, iter, dead>>

\* A key that is not there leaves everything as it was.
Remove(k) ==
  /\ Held(k) /\ contains(k, atoms)
  /\ DeletePairAt(find(k, atoms))

\* get of a weakValues table drops the pair when its object is gone.
GetDead(k) ==
  /\ kind = "weakValues" /\ contains(k, atoms)
  /\ IsNull(atoms[find(k, atoms)])
  /\ DeletePairAt(find(k, atoms))

\* The DontEnum bit is set without a look at the key.
SetEnumerableUnseen(k, enumerable) ==
  /\ kind = "inline"
  /\ atoms[find(k, atoms)].hidden = enumerable
  /\ atoms' = [atoms EXCEPT ![find(k, atoms)].hidden = ~enumerable]
  /\ Edited({k})
  /\ UNCHANGED <<kind, m_size, hasDeletedItems, iter, dead, bound>>

SetAtomPropertyIsEnumerable(k, enumerable) ==
  /\ kind = "inline" /\ contains(k, atoms)
  /\ atoms[find(k, atoms)].hidden = enumerable
  /\ atoms' = [atoms EXCEPT ![find(k, atoms)].hidden = ~enumerable]
  /\ Edited({k})
  /\ UNCHANGED <<kind, m_size, hasDeletedItems, iter, dead, bound>>

\* The collector frees an object and clears its weak reference, unless the
\* table holds the object in the other half of a pair.
WeaklyHeld == CASE kind = "weakKeys" -> Objects
                [] kind = "weakValues" -> Values[kind]
                [] kind = "inline" -> {}

Strong(p) == IF kind = "weakKeys" THEN p.val ELSE p.key

Collect(x) ==
  /\ x \in WeaklyHeld \ dead
  /\ \A i \in Live(atoms) : x # Strong(atoms[i])
  /\ dead' = dead \cup {x}
  /\ bound' = [k \in Keys |-> IF x \in {k, bound[k]} THEN None ELSE bound[k]]
  /\ due' = {k \in due : x \notin {k, bound[k]}}
  /\ done' = {k \in done : x \notin {k, bound[k]}}
  /\ UNCHANGED <<kind, tableVars, iter, index, shape, mine>>

\* A later object and its weak reference may have the same address once the
\* table no longer keeps the old weak reference alive.
Recycle(x) ==
  /\ x \in dead
  /\ \A i \in Live(atoms) : x \notin {atoms[i].key, atoms[i].val}
  /\ dead' = dead \ {x}
  /\ UNCHANGED <<kind, tableVars, iter, bound, loopVars>>

---------------------------------------------------------------------------
\* The enumeration order: integer keys, then the others, by slot.
Enumerable(t) ==
  {[slot |-> i, int |-> t[i].key \in Ints] : i \in {j \in Live(t) : ~t[j].hidden}}
Before(p, q) == \/ p.int /\ ~q.int
                \/ p.int = q.int /\ p.slot < q.slot
First(set) == CHOOSE p \in set : \A q \in set \ {p} : Before(p, q)

publicIterIndexToRealIndex(p) ==
  LET all == Enumerable(atoms)
  IN {q \in all : Cardinality({r \in all : Before(r, q)}) = p - 1}

\* A cursor that looks whether its slot holds an integer key, and does not
\* remember it.
PositionForgetful(i) ==
  IF i = iter.public THEN {[slot |-> iter.slot, int |-> atoms[iter.slot].key \in Ints]}
                     ELSE publicIterIndexToRealIndex(i)

\* Where an enumeration with cookie i stands: the cursor if it is the last
\* index returned, otherwise the i-th entry of today's table.
Position(i) ==
  IF i = iter.public THEN {[slot |-> iter.slot, int |-> iter.int]}
                     ELSE publicIterIndexToRealIndex(i)

\* The entries that next passes from a position (none: the enumeration is
\* over; 0: all of them).
Ahead(i) ==
  IF i = 0 THEN Enumerable(atoms)
  ELSE IF i > 2 * getCapacity(atoms) THEN {}
  ELSE LET at == Position(i)
       IN IF at = {} THEN {} ELSE {q \in Enumerable(atoms) : \E p \in at : Before(p, q)}

\* The loop of WeakKeyHashtable::next skips and removes null keys.
Alive(set) == {q \in set : ~(kind = "weakKeys" /\ IsNull(atoms[q.slot]))}
Passed(set, alive) == {q \in set : \A p \in alive : Before(q, p)}
Swept(passed) == [i \in DOMAIN atoms |->
                   IF \E q \in passed : q.slot = i THEN DeletedPair ELSE atoms[i]]
Cursor(i, passed, alive) ==
  IF alive = {} THEN [public |-> 0, slot |-> 0, int |-> FALSE]
  ELSE LET q == First(alive)
       IN [public |-> i + Cardinality(passed) + 1, slot |-> q.slot, int |-> q.int]

\* One call of next with argument i, and of keyAt for what it returns.
Advance(i) ==
  LET set == Ahead(i)
      alive == Alive(set)
      passed == Passed(set, alive)
  IN /\ iter' = Cursor(i, passed, alive)
     /\ atoms' = Swept(passed)
     /\ hasDeletedItems' = (hasDeletedItems \/ passed # {})
     /\ UNCHANGED <<kind, m_size, dead, bound>>

Reported == {k \in Keys : iter'.public # 0 /\ k = atoms[iter'.slot].key}
Lasting == {k \in Keys : \E q \in Enumerable(atoms) :
                           k = atoms[q.slot].key /\ ~IsNull(atoms[q.slot])}

\* A for-in loop; one that is left early never continues.  No caller
\* enumerates a table with weak values.
BeginLoop ==
  /\ kind # "weakValues" /\ index = 0
  /\ Advance(0)
  /\ index' = iter'.public
  /\ due' = (IF index' = 0 THEN {} ELSE Lasting) \ Reported
  /\ done' = Reported \cap Lasting
  /\ shape' = IF index' = 0 \/ atoms' = atoms THEN "same" ELSE "edited"
  /\ mine' = TRUE

ContinueLoop ==
  /\ index # 0
  /\ Advance(index)
  /\ index' = iter'.public
  /\ due' = IF index' = 0 \/ ~Undisturbed THEN {} ELSE due \ Reported
  /\ done' = IF index' = 0 \/ ~Undisturbed THEN {} ELSE done \cup (due \cap Reported)
  /\ shape' = CASE index' = 0 -> "same"
                 [] index' # 0 /\ ~Undisturbed -> "rehashed"
                 [] index' # 0 /\ Undisturbed ->
                      IF atoms' # atoms /\ shape = "same" THEN "edited" ELSE shape
  /\ mine' = TRUE

\* A loop over the same table within the body of the first one, or after it
\* was left.
InnerLoop ==
  /\ index # 0 /\ kind \in Nested
  /\ \E i \in {0} \cup (IF mine THEN {} ELSE {iter.public}) : Advance(i)
  /\ shape' = IF atoms' # atoms /\ shape = "same" THEN "edited" ELSE shape
  /\ mine' = FALSE
  /\ UNCHANGED <<index, due, done>>

Next ==
  \/ \E k \in Keys, v \in Values[kind] : Update(k, v) \/ Insert(k, v) \/ InsertAndGrow(k, v)
  \/ \E k \in Keys : Remove(k) \/ GetDead(k)
  \/ \E k \in Hideable, e \in BOOLEAN : SetAtomPropertyIsEnumerable(k, e)
  \/ \E x \in WeaklyHeld : Collect(x) \/ Recycle(x)
  \/ BeginLoop \/ ContinueLoop \/ InnerLoop

Spec == Init /\ [][Next]_vars
---------------------------------------------------------------------------
TypeOK ==
  /\ kind \in Kinds
  /\ DOMAIN atoms = 0 .. getCapacity(atoms) - 1 /\ PowerOfTwo(getCapacity(atoms))
  /\ \A i \in DOMAIN atoms :
       \/ atoms[i] \in {EmptyPair, DeletedPair}
       \/ atoms[i] \in [key : Keys, val : Values[kind], hidden : BOOLEAN]
  /\ m_size \in 0 .. getCapacity(atoms) /\ hasDeletedItems \in BOOLEAN
  /\ iter.public \in 0 .. 2 * getCapacity(atoms) /\ iter.slot \in DOMAIN atoms
  /\ dead \subseteq WeaklyHeld /\ bound \in [Keys -> Values[kind] \cup {None}]
  /\ index \in 0 .. 2 * getCapacity(atoms)
  /\ due \subseteq Keys /\ done \subseteq Keys \ due
  /\ shape \in {"same", "edited", "rehashed"} /\ mine \in BOOLEAN

\* find returns for every key, there or not: deleted pairs never fill the
\* table, although put does not reuse them and nothing but grow drops them.
\* This is what put's caller must see to: "expanding the table to maintain at
\* least one free slot".
FindReturns == \A k \in Keys : ~Endless(k, atoms)

\* The table implements a map: what find and the weak references give for a
\* key is what the calls so far have bound to it.  Neither a rehash, nor a
\* DELETED mark on the way to a key, nor the DontEnum bits, nor an enumeration
\* that drops dead keys, nor pruning changes it.
IsMap == bound = [k \in Keys |-> LET p == atoms[find(k, atoms)]
                                 IN IF p.key = k /\ ~IsNull(p) THEN p.val ELSE None]

\* The array is well formed, and what it holds is that map.
TableIsMap == TypeOK /\ IsMap

\* A for-in loop that comes to its end has reported every key that was there
\* and enumerable throughout, once, whatever was deleted or added meanwhile.
\* Excepted are a rehash, which the code calls ill-defined, and another loop
\* over the same table while the table is being edited.
EnumeratesOnce ==
  [][index # 0 /\ index' # index /\ Undisturbed
     => (Reported \cap done = {}) /\ (index' = 0 => due = {})]_vars
=============================================================================
