--------------------------------- MODULE ZCT ---------------------------------
(***************************************************************************)
(* Deferred reference counting in MMgc: the reference counts of RCObject   *)
(* (MMgc/GCObject.h) and the zero count table (MMgc/ZCT.cpp).              *)
(*                                                                         *)
(* References from the heap are counted and references from the stack are  *)
(* not.  An object whose count is zero is in the table, and knows its      *)
(* index there.  Reap pins what the stack refers to and pops the table: a  *)
(* pinned object moves to a new table, any other is finalized and freed.   *)
(* Finalizers drop references, so that they add to the table being popped. *)
(* The table is a list of blocks: it grows by a block, or Add reaps first, *)
(* or the object is left to the garbage collector.                         *)
(*                                                                         *)
(* The mark phase of the collector is a choice of the objects it marks.    *)
(***************************************************************************)
EXTENDS Naturals, Sequences, FiniteSets, Functions

CONSTANTS
  Objs,
  BlockSize,   \* entries of a block
  Capacity,    \* ZCT_CAPACITY: the indices an object can hold
  MaxRef,      \* the count at which an object becomes sticky
  Uses,        \* what finalizers do beyond dropping references: "create"
               \* objects, add and drop a reference to the object itself
               \* ("self"), "retain" an object the stack refers to
  MaxFields, MaxFrame, MaxGlobals,   \* bounds on the program's data
  None

ASSUME ZCTAssumption ==
  /\ IsFiniteSet(Objs) /\ None \notin Objs \cup Nat
  /\ BlockSize \in Nat \ {0, 1} /\ Capacity \in Nat \ {0}
  /\ MaxRef \in Nat \ {0, 1}
  /\ Uses \subseteq {"create", "self", "retain"}
  /\ MaxFields \in Nat /\ MaxFrame \in Nat /\ MaxGlobals \in Nat

VARIABLES
  alive,       \* objects with a nonzero composite
  ptr,         \* counted references in each object
  globals,     \* counted references from elsewhere
  stack,       \* what the stack refers to
  locals,      \* what a running finalizer created
  rc, sticky,  \* RefCount() and STICKYFLAG
  idx,         \* ZCT_INDEX with ZCTFLAG, or None
  pinned,      \* STACK_PIN
  table,       \* the entries below top; None is NULL
  nblocks,     \* blocks in the block table
  pin,         \* the entries of the pinning memory
  reaping, collecting,
  marked,      \* while collecting, the objects with kMark and the free cells
  pc,
  dying,       \* the object whose finalizer runs
  pending      \* the object AddSlow has to add after reaping

heapVars == <<ptr, globals, stack, locals>>
tableVars == <<table, nblocks, pin>>
modeVars == <<reaping, collecting, marked>>
vars == <<alive, heapVars, rc, sticky, idx, pinned, tableVars, modeVars, pc, dying,
          pending>>

TypeOK ==
  /\ alive \subseteq Objs
  /\ ptr \in [Objs -> SUBSET Objs] /\ globals \subseteq Objs
  /\ stack \subseteq Objs /\ locals \subseteq Objs
  /\ rc \in [Objs -> 0..MaxRef] /\ sticky \subseteq Objs
  /\ idx \in [Objs -> (0..Capacity - 1) \cup {None}]
  /\ pinned \subseteq Objs
  /\ table \in Seq(Objs \cup {None}) /\ pin \in Seq(Objs \cup {None})
  /\ nblocks \in Nat \ {0}
  /\ reaping \in BOOLEAN /\ collecting \in BOOLEAN /\ marked \subseteq Objs
  /\ pc \in {"run", "reap", "finalizer", "sweep", "add"}
  /\ dying \in Objs \cup {None} /\ pending \in Objs \cup {None}

Init ==
  /\ alive = {} /\ ptr = [o \in Objs |-> {}] /\ globals = {} /\ stack = {}
  /\ locals = {} /\ rc = [o \in Objs |-> 0] /\ sticky = {}
  /\ idx = [o \in Objs |-> None] /\ pinned = {}
  /\ table = <<>> /\ nblocks = 1 /\ pin = <<>>
  /\ reaping = FALSE /\ collecting = FALSE /\ marked = {}
  /\ pc = "run" /\ dying = None /\ pending = None

frame == stack \cup locals \cup ({pending} \ {None})
ReachableFrom(R) ==
  {o \in Objs : \A S \in SUBSET Objs :
                  (R \subseteq S /\ \A x \in S : ptr[x] \subseteq S) => o \in S}
Reachable == ReachableFrom(globals \cup frame)

InProgram == pc \in {"run", "finalizer"}

(***************************************************************************)
(* The table                                                               *)
(***************************************************************************)
Full == Len(table) >= nblocks * BlockSize

(* Mutation of CanGrow: a block is added to a full table. *)
CanGrowFull == Len(table) <= Capacity
CanGrow == Len(table) + BlockSize <= Capacity

(* Mutation of Enter: an object is unpinned while the table is reaped. *)
EnterUnpinned(o) ==
  /\ table' = Append(table, o)
  /\ idx' = [idx EXCEPT ![o] = Len(table)]
  /\ pinned' = pinned \ {o}

(* setZCTIndexAndMaybeUnpin. *)
Enter(o) ==
  /\ table' = Append(table, o)
  /\ idx' = [idx EXCEPT ![o] = Len(table)]
  /\ pinned' = IF reaping THEN pinned ELSE pinned \ {o}

NotEntered == UNCHANGED <<table, idx, pinned, nblocks>>

(* The growing part of AddSlow; the memory may not be there. *)
GrowAndEnter(o) ==
  \/ CanGrow /\ nblocks' = nblocks + 1 /\ Enter(o)
  \/ NotEntered

(* ZCT::Add and AddSlow.  Reaping first is for the program only. *)
Add(o) ==
  \/ /\ collecting /\ o \notin marked
     /\ NotEntered /\ UNCHANGED <<pc, pending>>
  \/ /\ (collecting => o \in marked) /\ ~Full
     /\ Enter(o) /\ UNCHANGED <<nblocks, pc, pending>>
  \/ /\ (collecting => o \in marked) /\ Full
     /\ GrowAndEnter(o) /\ UNCHANGED <<pc, pending>>
  \/ /\ Full /\ ~collecting /\ ~reaping
     /\ pending' = o /\ pc' = "add" /\ NotEntered

(* RemoveFromZCT (ZCT::Remove) clears the entry at the object's index. *)
RemoveFromZCT(o) ==
  /\ table' = [i \in DOMAIN table |-> IF i = idx[o] + 1 THEN None ELSE table[i]]
  /\ idx' = [idx EXCEPT ![o] = None]

(* Mutation of IncrementRef: the count saturates. *)
IncrementSaturating(o) ==
  IF o \notin alive \/ o \in sticky THEN UNCHANGED <<rc, sticky, table, idx>>
  ELSE /\ rc' = [rc EXCEPT ![o] = IF @ < MaxRef THEN @ + 1 ELSE @]
       /\ UNCHANGED sticky
       /\ IF idx[o] # None THEN RemoveFromZCT(o) ELSE UNCHANGED <<table, idx>>

(* RCObject::IncrementRef. *)
IncrementRef(o) ==
  IF o \notin alive \/ o \in sticky THEN UNCHANGED <<rc, sticky, table, idx>>
  ELSE /\ rc' = [rc EXCEPT ![o] = @ + 1]
       /\ IF rc[o] + 1 = MaxRef
          THEN sticky' = sticky \cup {o} /\ UNCHANGED <<table, idx>>
          ELSE /\ UNCHANGED sticky
               /\ IF idx[o] # None THEN RemoveFromZCT(o) ELSE UNCHANGED <<table, idx>>

(* RCObject::DecrementRef. *)
DecrementRef(o) ==
  IF o \notin alive \/ o \in sticky \/ rc[o] = 0
  THEN UNCHANGED rc /\ NotEntered /\ UNCHANGED <<pc, pending>>
  ELSE /\ rc' = [rc EXCEPT ![o] = @ - 1]
       /\ IF rc[o] = 1 THEN Add(o) ELSE NotEntered /\ UNCHANGED <<pc, pending>>

(***************************************************************************)
(* The program, and finalizers.                                            *)
(***************************************************************************)

(* RCObject::RCObject; a sweep reuses no object it finalized. *)
New(o) ==
  /\ InProgram /\ o \notin alive
  /\ pc = "finalizer" => "create" \in Uses
  /\ collecting => o \in marked
  /\ alive' = alive \cup {o}
  /\ IF pc = "run"
     THEN Cardinality(stack) < MaxFrame /\ stack' = stack \cup {o} /\ UNCHANGED locals
     ELSE Cardinality(locals) < MaxFrame /\ locals' = locals \cup {o} /\ UNCHANGED stack
  /\ Add(o)
  /\ UNCHANGED <<ptr, globals, rc, sticky, pin, modeVars, dying>>

Load(o) ==
  /\ pc = "run" /\ o \notin stack /\ Cardinality(stack) < MaxFrame
  /\ o \in globals \cup UNION {ptr[c] : c \in stack}
  /\ stack' = stack \cup {o}
  /\ UNCHANGED <<alive, ptr, globals, locals, rc, sticky, idx, pinned, tableVars,
                 modeVars, pc, dying, pending>>

Drop(o) ==
  /\ pc = "run" /\ o \in stack
  /\ stack' = stack \ {o}
  /\ UNCHANGED <<alive, ptr, globals, locals, rc, sticky, idx, pinned, tableVars,
                 modeVars, pc, dying, pending>>

(* The objects whose fields the running code writes. *)
Holders == IF pc = "run" THEN stack ELSE locals \cup {dying}

(* The objects it has at hand to refer to. *)
AtHand ==
  IF pc = "run" THEN stack
  ELSE locals \cup (IF "self" \in Uses THEN {dying} ELSE {})
              \cup (IF "retain" \in Uses THEN stack ELSE {})

(* WriteFieldRC: a reference is stored in an object or elsewhere.  The     *)
(* reference to a dying object goes to its own fields.                     *)
Store(o) ==
  /\ InProgram /\ o \in AtHand
  /\ \/ \E c \in Holders :
          /\ o \notin ptr[c] /\ Cardinality(ptr[c]) < MaxFields
          /\ ptr' = [ptr EXCEPT ![c] = @ \cup {o}] /\ UNCHANGED globals
          /\ dying \in {c, o} => c = dying /\ (o = dying \/ o \in stack)
     \/ /\ o \notin globals \cup {dying} /\ Cardinality(globals) < MaxGlobals
        /\ globals' = globals \cup {o} /\ UNCHANGED ptr
  /\ IncrementRef(o)
  /\ UNCHANGED <<alive, stack, locals, pinned, nblocks, pin, modeVars, pc, dying,
                 pending>>

(* WriteFieldRC and WriteBarrierRC_dtor: a reference is overwritten. *)
Clear(o) ==
  /\ InProgram
  /\ \/ \E c \in Holders : /\ o \in ptr[c]
                           /\ ptr' = [ptr EXCEPT ![c] = @ \ {o}] /\ UNCHANGED globals
     \/ pc = "run" /\ o \in globals /\ globals' = globals \ {o} /\ UNCHANGED ptr
  /\ DecrementRef(o)
  /\ UNCHANGED <<alive, stack, locals, sticky, pin, modeVars, dying>>

(* RCObject::Stick. *)
Stick(o) ==
  /\ pc = "run" /\ o \in stack \ sticky
  /\ sticky' = sticky \cup {o}
  /\ IF idx[o] # None THEN RemoveFromZCT(o) ELSE UNCHANGED <<table, idx>>
  /\ UNCHANGED <<alive, heapVars, rc, pinned, nblocks, pin, modeVars, pc, dying,
                 pending>>

(* Mutation of Destroy: a dead object stays in the table. *)
DestroySilently(o) == UNCHANGED <<table, idx>>

(* RCObject::~RCObject. *)
Destroy(o) == IF idx[o] # None THEN RemoveFromZCT(o) ELSE UNCHANGED <<table, idx>>

(* The cell of a destroyed object is free. *)
Free(o) ==
  /\ alive' = alive \ {o} /\ rc' = [rc EXCEPT ![o] = 0]
  /\ sticky' = sticky \ {o} /\ pinned' = pinned \ {o}

(* The program deletes an object nothing else refers to. *)
Delete(o) ==
  /\ pc = "run" /\ o \in stack
  /\ ptr[o] = {} /\ o \notin globals \cup UNION Range(ptr)
  /\ stack' = stack \ {o}
  /\ Destroy(o) /\ Free(o)
  /\ UNCHANGED <<ptr, globals, locals, nblocks, pin, modeVars, pc, dying, pending>>

(***************************************************************************)
(* Reaping                                                                 *)
(***************************************************************************)

(* Reap, called by the program or by AddSlow. *)
StartReap ==
  /\ (InProgram \/ pc = "add") /\ ~collecting /\ ~reaping /\ table # <<>>
  /\ reaping' = TRUE /\ pin' = <<>> /\ pc' = "reap"
  /\ pinned' = pinned \cup (frame \cap alive)
  /\ UNCHANGED <<alive, heapVars, rc, sticky, idx, table, nblocks, collecting, marked,
                 dying, pending>>

Top == table[Len(table)]

(* PopFastSegment, and the entry popped. *)
Pop ==
  /\ table' = SubSeq(table, 1, Len(table) - 1)
  /\ nblocks' = IF Len(table) <= (nblocks - 1) * BlockSize THEN nblocks - 1 ELSE nblocks

PopNull ==
  /\ pc = "reap" /\ table # <<>> /\ Top = None
  /\ Pop
  /\ UNCHANGED <<alive, heapVars, rc, sticky, idx, pinned, pin, modeVars, pc, dying,
                 pending>>

(* GrowPinningMemory: the first entry of a block links the blocks. *)
PinRoom == IF Len(pin) % BlockSize = 0 THEN Append(pin, None) ELSE pin

(* Mutation of PinObject: an object stays pinned. *)
PinObjectPinned(o) ==
  \/ /\ pin' = Append(PinRoom, o)
     /\ idx' = [idx EXCEPT ![o] = Len(PinRoom)]
     /\ UNCHANGED pinned
  \/ /\ Len(pin) % BlockSize = 0
     /\ idx' = [idx EXCEPT ![o] = None] /\ UNCHANGED <<pin, pinned>>

(* PinObject; without memory the object is left to the collector. *)
PinObject(o) ==
  \/ /\ pin' = Append(PinRoom, o)
     /\ idx' = [idx EXCEPT ![o] = Len(PinRoom)]
     /\ pinned' = pinned \ {o}
  \/ /\ Len(pin) % BlockSize = 0
     /\ idx' = [idx EXCEPT ![o] = None] /\ UNCHANGED <<pin, pinned>>

PopPinned ==
  /\ pc = "reap" /\ table # <<>> /\ Top \in pinned
  /\ Pop /\ PinObject(Top)
  /\ UNCHANGED <<alive, heapVars, rc, sticky, modeVars, pc, dying, pending>>

(* ReapObject, up to the finalizer. *)
ReapObject ==
  /\ pc = "reap" /\ table # <<>> /\ Top \in Objs \ pinned
  /\ Pop
  /\ idx' = [idx EXCEPT ![Top] = None]
  /\ dying' = Top /\ pc' = "finalizer"
  /\ UNCHANGED <<alive, heapVars, rc, sticky, pinned, pin, modeVars, pending>>

(* The members and then the RCObject part of an object are destroyed. *)
EndFinalizer ==
  /\ pc = "finalizer" /\ ptr[dying] = {}
  /\ Destroy(dying) /\ Free(dying)
  /\ locals' = {} /\ dying' = None
  /\ pc' = IF reaping THEN "reap" ELSE "sweep"
  /\ UNCHANGED <<ptr, globals, stack, nblocks, pin, modeVars, pending>>

(* UsePinningMemory, and the end of Reap. *)
EndReap ==
  /\ pc = "reap" /\ table = <<>>
  /\ table' = pin
  /\ nblocks' = IF pin = <<>> THEN nblocks ELSE (Len(pin) + BlockSize - 1) \div BlockSize
  /\ pin' = <<>> /\ reaping' = FALSE
  /\ pc' = IF pending = None THEN "run" ELSE "add"
  /\ UNCHANGED <<alive, heapVars, rc, sticky, idx, pinned, collecting, marked, dying,
                 pending>>

(* The rest of AddSlow after reaping. *)
AddPending ==
  /\ pc = "add" /\ ~reaping
  /\ pending' = None /\ pc' = "run"
  /\ IF Full THEN GrowAndEnter(pending) ELSE Enter(pending) /\ UNCHANGED nblocks
  /\ UNCHANGED <<alive, heapVars, rc, sticky, pin, modeVars, dying>>

(***************************************************************************)
(* The collector                                                           *)
(***************************************************************************)

(* FinishIncrementalMark and Sweep, up to the finalizers. *)
StartCollecting ==
  /\ InProgram /\ ~collecting /\ ~reaping
  /\ collecting' = TRUE /\ pc' = "sweep"
  /\ \E R \in SUBSET alive :
       marked' = ReachableFrom(globals \cup frame \cup R) \cup (Objs \ alive)
  /\ UNCHANGED <<alive, heapVars, rc, sticky, idx, pinned, tableVars, reaping, dying,
                 pending>>

(* FinalizationPass reaches an unmarked object. *)
StartFinalizer(o) ==
  /\ pc = "sweep" /\ o \in alive \ marked
  /\ dying' = o /\ pc' = "finalizer"
  /\ UNCHANGED <<alive, heapVars, rc, sticky, idx, pinned, tableVars, modeVars, pending>>

(* EndCollecting. *)
EndCollecting ==
  /\ pc = "sweep" /\ alive \subseteq marked
  /\ collecting' = FALSE /\ marked' = {} /\ pc' = "run"
  /\ UNCHANGED <<alive, heapVars, rc, sticky, idx, pinned, tableVars, reaping, dying,
                 pending>>

Next ==
  \/ \E o \in Objs : \/ New(o) \/ Load(o) \/ Drop(o) \/ Store(o) \/ Clear(o)
                     \/ Stick(o) \/ Delete(o) \/ StartFinalizer(o)
  \/ StartReap \/ PopNull \/ PopPinned \/ ReapObject \/ EndFinalizer \/ EndReap
  \/ AddPending \/ StartCollecting \/ EndCollecting

Spec == Init /\ [][Next]_vars

(***************************************************************************)
(* Properties                                                              *)
(***************************************************************************)

(* What the program can reach is alive, and its finalizer does not run:    *)
(* neither the reaper nor the collector takes an object in use.            *)
ReachableAlive == Reachable \subseteq alive \ {dying}

(* Every entry of the table and of the pinning memory is an object that    *)
(* has that index, and an object with an index is found there.             *)
Entries(s) == {<<s[i], i - 1>> : i \in {j \in DOMAIN s : s[j] # None}}
IndexConsistent ==
  Entries(table) \cup Entries(pin) = {<<o, idx[o]>> : o \in {x \in alive : idx[x] # None}}

(* An object in the table has no counted reference, so that the reaper may *)
(* take it when the stack does not refer to it, and once reaping is over   *)
(* no entry is left pinned (the check at the end of Reap).                 *)
EntriesReapable ==
  /\ \A o \in alive : idx[o] # None => rc[o] = 0 /\ o \notin globals \cup UNION Range(ptr)
  /\ ~reaping => \A i \in DOMAIN table : table[i] \notin pinned

(* The table, the pinning memory and the objects in them agree, whatever   *)
(* finalizers do to the table while it is reaped.                          *)
TableConsistent == TypeOK /\ IndexConsistent /\ EntriesReapable

(* The count of an object that is not sticky is its counted references. *)
CountsAccurate ==
  \A o \in alive \ sticky :
    rc[o] = Cardinality({c \in alive : o \in ptr[c]})
            + (IF o \in globals THEN 1 ELSE 0)
=============================================================================
