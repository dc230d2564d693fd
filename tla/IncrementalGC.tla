---------------------------- MODULE IncrementalGC ----------------------------
(***************************************************************************)
(* The incremental mark and sweep collector of MMgc (MMgc/GC.cpp) with one *)
(* small-object allocator under it (MMgc/GCAlloc.cpp).                     *)
(*                                                                         *)
(* The collector runs on the program's own thread, in increments between   *)
(* the program's operations, and calls back into the program twice in a    *)
(* collection: presweep callbacks run after marking, and finalizers run    *)
(* while the blocks are swept.  Between two increments the program moves   *)
(* pointers; a write barrier puts a marked object that is written to back  *)
(* on a mark stack.  Roots and the native stack have no barrier and are    *)
(* scanned again at the end.  A mark stack that cannot grow drops the item *)
(* and sets m_markStackOverflow, and marking is restarted from everything  *)
(* that is marked.                                                         *)
(*                                                                         *)
(* A mark stack is the set of objects on it: the order in which segments   *)
(* are moved between the two stacks makes any order possible.  The list of *)
(* blocks is the set of its blocks, walked in any order; the order of the  *)
(* list, in which the blocks were created, is one of these.                *)
(***************************************************************************)
EXTENDS Naturals, FiniteSets

CONSTANTS
  Objs,          \* the slots of the allocator's blocks
  BlockOf,       \* the block of a slot
  PointerFree,   \* slots whose objects contain no pointers
  WeaklyHeld,    \* slots to whose objects the program makes weak references
  Uses,          \* what callbacks do beyond allocating, reading and storing:
                 \* "detach": a presweep callback clears a pointer or frees,
                 \* "grow": a finalizer's allocation needs a new block
  SegmentSize,   \* items a mark stack takes without allocating memory
  MaxFields, MaxFrame, MaxRoots,   \* bounds on the program's data
  None

Blocks == {BlockOf[o] : o \in Objs}

ASSUME GCAssumption ==
  /\ IsFiniteSet(Objs) /\ PointerFree \subseteq Objs /\ WeaklyHeld \subseteq Objs
  /\ None \notin Objs \cup Blocks
  /\ Uses \subseteq {"detach", "grow"}
  /\ SegmentSize \in Nat \ {0}
  /\ MaxFields \in Nat /\ MaxFrame \in Nat /\ MaxRoots \in Nat

VARIABLES
  ptr,         \* the pointers in each object
  roots,       \* the pointers in GCRoot memory
  stack,       \* the pointers in the program's stack and registers
  locals,      \* the pointers in the frames of a running callback
  weak,        \* objects whose weak reference is not cleared (kHasWeakRef)
  bits,        \* kMark and kQueued of each slot; both are kFreelist
  finalizable, \* objects with kFinalizable
  work,        \* m_incrementalWork
  barrier,     \* m_barrierWork
  overflow,    \* m_markStackOverflow
  marking,
  collecting,
  pc,          \* what the collector, or an allocation, is doing
  loop,        \* the mark loop it is in: 1 and 2 of Finish, 3 of Sweep
  todo,        \* slots HandleMarkStackOverflow has still to look at
  blocks,      \* m_firstBlock..m_lastBlock
  sweepList,   \* blocks to be swept (m_needsSweeping)
  done,        \* blocks whose finalizeState is finalizedValue
  empty,       \* smallEmptyPageList
  cur, nxt,    \* b and next in FinalizationPass
  after,       \* the blocks behind next in the list
  dying        \* the object whose finalizer runs

programVars == <<ptr, roots, stack, locals>>
markVars    == <<work, barrier, overflow>>
blockVars   == <<blocks, sweepList, done, empty>>
passVars    == <<cur, nxt, after, dying>>
vars == <<programVars, weak, bits, finalizable, markVars, marking, collecting, pc,
          loop, todo, blockVars, passVars>>

Pcs == {"run", "alloc", "drain", "handle", "flush", "roots", "stack", "presweep",
        "finalize", "finalizer", "start", "restart", "final"}

TypeOK ==
  /\ ptr \in [Objs -> SUBSET Objs]
  /\ roots \subseteq Objs /\ stack \subseteq Objs /\ locals \subseteq Objs
  /\ weak \subseteq Objs /\ finalizable \subseteq Objs
  /\ bits \in [Objs -> {"free", "white", "queued", "marked"}]
  /\ work \subseteq Objs /\ barrier \subseteq Objs
  /\ overflow \in BOOLEAN /\ marking \in BOOLEAN /\ collecting \in BOOLEAN
  /\ collecting => marking
  /\ pc \in Pcs /\ loop \in 1..3 /\ todo \subseteq Objs
  /\ blocks \subseteq Blocks /\ sweepList \subseteq Blocks /\ done \subseteq Blocks
  /\ empty \subseteq Blocks /\ after \subseteq Blocks
  /\ cur \in Blocks \cup {None} /\ nxt \in Blocks \cup {None}
  /\ dying \in Objs \cup {None}

Init ==
  /\ ptr = [o \in Objs |-> {}]
  /\ roots = {} /\ stack = {} /\ locals = {} /\ weak = {} /\ finalizable = {}
  /\ bits = [o \in Objs |-> "free"]
  /\ work = {} /\ barrier = {} /\ overflow = FALSE
  /\ marking = FALSE /\ collecting = FALSE
  /\ pc = "run" /\ loop = 1 /\ todo = {}
  /\ blocks = {} /\ sweepList = {} /\ done = {} /\ empty = {}
  /\ cur = None /\ nxt = None /\ after = {} /\ dying = None

White(S) == {o \in S : bits[o] = "white"}

(* The objects the program can reach through the pointers p from a set. *)
Closed(S, p) == \A o \in S : p[o] \subseteq S
ReachableFrom(R, p) ==
  {o \in Objs : \A S \in SUBSET Objs : (R \subseteq S /\ Closed(S, p)) => o \in S}

frame == stack \cup locals
Reachable == ReachableFrom(roots \cup frame, ptr)

(***************************************************************************)
(* Mark stacks.  Push_GCObject fails when a new segment cannot be had.     *)
(***************************************************************************)

(* Mutation of Trace: an object that is marked already is pushed again. *)
TraceMarked(S, w, black) ==
  LET new == {o \in S : bits[o] # "free"} IN
  /\ work' = w \cup new
  /\ UNCHANGED overflow
  /\ bits' = [o \in Objs |-> IF o \in black THEN "marked"
                             ELSE IF o \in new THEN "queued" ELSE bits[o]]

(* The pointers of S are traced, with w on the stack: those to objects     *)
(* without pointers are marked, the others are pushed as far as possible.  *)
(* The slots in black become marked as well.                               *)
Trace(S, w, black) ==
  LET new == White(S) \ black
      leaf == new \cap PointerFree IN
  \E pushed \in SUBSET (new \ leaf) :
    /\ pushed # new \ leaf => Cardinality(w) + Cardinality(pushed) >= SegmentSize
    /\ work' = w \cup pushed
    /\ overflow' = (overflow \/ pushed # new \ leaf)
    /\ bits' = [o \in Objs |-> IF o \in black \cup leaf THEN "marked"
                               ELSE IF o \in pushed THEN "queued" ELSE bits[o]]

(* MarkItem_GCObject on an object, with w on the stack. *)
MarkItem(o, w) == Trace(ptr[o], w, {o})

(* Push_GCObject on an object with kQueued set: dropped, the bit is        *)
(* cleared.                                                                *)
PushOne(o) ==
  \/ /\ work' = work \cup {o} /\ UNCHANGED overflow
     /\ bits' = [bits EXCEPT ![o] = "queued"]
  \/ /\ Cardinality(work) >= SegmentSize
     /\ overflow' = TRUE /\ UNCHANGED work
     /\ bits' = [bits EXCEPT ![o] = "white"]

(* Mutation of FlushBarrierWork: the items that stay behind are forgotten. *)
FlushSilently ==
  \E moved \in SUBSET barrier :
    /\ barrier # {} => moved # {}
    /\ work' = work \cup moved /\ barrier' = barrier \ moved
    /\ UNCHANGED overflow

(* FlushBarrierWork moves everything, or as much as it can. *)
FlushBarrierWork ==
  \E moved \in SUBSET barrier :
    /\ barrier # {} => moved # {}
    /\ work' = work \cup moved /\ barrier' = barrier \ moved
    /\ overflow' = (overflow \/ moved # barrier)

(***************************************************************************)
(* Blocks                                                                  *)
(***************************************************************************)
Members(b) == {o \in Objs : BlockOf[o] = b}

(* The free lists: the block being finalized is not on them. *)
FreeItems == {o \in Objs : /\ bits[o] = "free"
                           /\ BlockOf[o] \in blocks \ (sweepList \cup {cur})}

(* SweepGuts on the blocks B; the objects in F are freed as well. *)
Reclaim(B, F) ==
  LET dead == F \cup {o \in Objs : BlockOf[o] \in B /\ bits[o] \in {"white", "free"}} IN
  /\ bits' = [o \in Objs |-> IF o \in dead THEN "free"
                             ELSE IF BlockOf[o] \in B THEN "white" ELSE bits[o]]
  /\ ptr' = [o \in Objs |-> IF o \in dead THEN {} ELSE ptr[o]]
  /\ finalizable' = finalizable \ dead
  /\ sweepList' = sweepList \ B

(* Blocks of B that are now empty go back to the heap: a block that was    *)
(* swept, or every block (CoalesceQuickList).                              *)
GiveBack(B) ==
  blocks' = {b \in blocks : b \in B => \E o \in Members(b) : bits'[o] # "free"}

(***************************************************************************)
(* The program, between increments or in a callback.                       *)
(***************************************************************************)
InCallback == pc \in {"presweep", "finalizer"}
InProgram  == pc = "run" \/ InCallback

MayPush == Cardinality(IF InCallback THEN locals ELSE stack) < MaxFrame
PushFrame(o) ==
  IF InCallback THEN locals' = locals \cup {o} /\ UNCHANGED stack
                ELSE stack' = stack \cup {o} /\ UNCHANGED locals

(* GCAlloc::Alloc.  While collecting, an object in a block that is still   *)
(* to be finalized is born marked.                                         *)
Alloc(o) ==
  /\ InProgram \/ pc = "alloc"
  /\ bits[o] = "free" /\ MayPush
  /\ \/ o \in FreeItems /\ UNCHANGED <<blocks, after, done>>
     \/ /\ FreeItems = {} /\ (collecting \/ sweepList = {})
        /\ BlockOf[o] \notin blocks \cup empty
        /\ pc = "finalizer" => "grow" \in Uses
        /\ blocks' = blocks \cup {BlockOf[o]}
        /\ after' = IF nxt = None THEN after ELSE after \cup {BlockOf[o]}
        /\ done' = IF pc = "finalizer" THEN done \cup {BlockOf[o]} ELSE done
  /\ bits' = [bits EXCEPT ![o] = IF collecting /\ BlockOf[o] \notin done'
                                 THEN "marked" ELSE "white"]
  /\ finalizable' = finalizable \cup {o}
  /\ PushFrame(o)
  /\ pc' = IF pc = "alloc" THEN "run" ELSE pc
  /\ UNCHANGED <<ptr, roots, weak, markVars, marking, collecting, loop, todo,
                 sweepList, empty, cur, nxt, dying>>

(* AllocSlow sweeps blocks until there is a free item.  An allocation that *)
(* fails, as there is no memory for a new block, changes nothing.          *)
AllocSweep ==
  /\ pc \in {"run", "alloc"} /\ MayPush /\ FreeItems = {}
  /\ \E b \in sweepList : Reclaim({b}, {}) /\ GiveBack({b})
  /\ pc' = "alloc"
  /\ UNCHANGED <<roots, stack, locals, weak, markVars, marking, collecting, loop,
                 todo, done, empty, passVars>>

(* A pointer is read from a root, from an object or from a weak reference. *)
Load(o) ==
  /\ InProgram /\ MayPush /\ o \notin frame
  /\ o \in roots \cup UNION {ptr[c] : c \in frame}
  /\ PushFrame(o)
  /\ UNCHANGED <<ptr, roots, weak, bits, finalizable, markVars, marking, collecting,
                 pc, loop, todo, blockVars, passVars>>

(* Mutation of WeakGet: no read barrier. *)
WeakGetPlain(o) ==
  /\ InProgram /\ o \in weak /\ (o \in frame \/ MayPush)
  /\ PushFrame(o)
  /\ UNCHANGED <<work, overflow, bits>>
  /\ UNCHANGED <<ptr, roots, weak, finalizable, barrier, marking, collecting, pc,
                 loop, todo, blockVars, passVars>>

(* GCWeakRef::get, with the read barrier of the presweep phase. *)
WeakGet(o) ==
  /\ InProgram /\ o \in weak /\ (o \in frame \/ MayPush)
  /\ PushFrame(o)
  /\ IF pc = "presweep" /\ bits[o] # "marked" THEN PushOne(o)
     ELSE UNCHANGED <<work, overflow, bits>>
  /\ UNCHANGED <<ptr, roots, weak, finalizable, barrier, marking, collecting, pc,
                 loop, todo, blockVars, passVars>>

(* GC::GetWeakRef. *)
GetWeakRef(o) ==
  /\ InProgram /\ o \in frame \ weak
  /\ o \in WeaklyHeld
  /\ collecting => bits[o] = "marked"
  /\ weak' = weak \cup {o}
  /\ UNCHANGED <<programVars, bits, finalizable, markVars, marking, collecting, pc,
                 loop, todo, blockVars, passVars>>

Drop(o) ==
  /\ pc = "run" /\ o \in stack
  /\ stack' = stack \ {o}
  /\ UNCHANGED <<ptr, roots, locals, weak, bits, finalizable, markVars, marking,
                 collecting, pc, loop, todo, blockVars, passVars>>

(* Roots are written with no barrier. *)
WriteRoot(o) ==
  /\ InProgram
  /\ \/ o \in frame \ roots /\ Cardinality(roots) < MaxRoots /\ roots' = roots \cup {o}
     \/ o \in roots /\ roots' = roots \ {o}
  /\ UNCHANGED <<ptr, stack, locals, weak, bits, finalizable, markVars, marking,
                 collecting, pc, loop, todo, blockVars, passVars>>

(* Mutation of WriteBarrier: a container the barrier stack cannot take is  *)
(* left marked.                                                            *)
WriteBarrierFull(c) ==
  IF marking /\ bits[c] = "marked" /\ ~collecting /\ Cardinality(barrier) < SegmentSize
  THEN /\ barrier' = barrier \cup {c}
       /\ bits' = [bits EXCEPT ![c] = "queued"]
       /\ UNCHANGED <<work, overflow>>
  ELSE UNCHANGED <<markVars, bits>>

(* InlineWriteBarrierTrap and WriteBarrierHit. *)
WriteBarrier(c) ==
  IF marking /\ bits[c] = "marked" /\ ~collecting
  THEN \/ /\ barrier' = barrier \cup {c}
          /\ bits' = [bits EXCEPT ![c] = "queued"]
          /\ UNCHANGED <<work, overflow>>
       \/ /\ Cardinality(barrier) >= SegmentSize
          /\ PushOne(c) /\ UNCHANGED barrier
  ELSE UNCHANGED <<markVars, bits>>

(* A pointer of an object is written. *)
Write(c) ==
  /\ InProgram /\ c \in frame \ PointerFree
  /\ \/ \E o \in frame \ ptr[c] : /\ Cardinality(ptr[c]) < MaxFields
                                  /\ ptr' = [ptr EXCEPT ![c] = @ \cup {o}]
     \/ \E o \in ptr[c] : /\ pc = "presweep" => "detach" \in Uses
                          /\ ptr' = [ptr EXCEPT ![c] = @ \ {o}]
  /\ WriteBarrier(c)
  /\ UNCHANGED <<roots, stack, locals, weak, finalizable, marking, collecting, pc,
                 loop, todo, blockVars, passVars>>

(* A program frees an object that nothing else refers to, weak references  *)
(* included, and a finalizer what its object owns.                         *)
MayFree(o) ==
  \/ o \in frame /\ o \notin ReachableFrom(roots \cup ((frame \cup weak) \ {o}), ptr)
  \/ /\ pc = "finalizer" /\ o \in ptr[dying] \ {dying}
     /\ o \notin ReachableFrom(roots \cup frame \cup weak, ptr)

(* GC::Free and GCAlloc::Free: an object on a mark stack, and any object   *)
(* during the sweep, is only cleared (AbortFree).                          *)
Free(o) ==
  /\ InProgram /\ MayFree(o)
  /\ pc = "presweep" => "detach" \in Uses
  /\ stack' = stack \ {o} /\ locals' = locals \ {o}
  /\ weak' = weak \ {o}
  /\ IF marking /\ (collecting \/ bits[o] = "queued")
     THEN /\ ptr' = [ptr EXCEPT ![o] = {}]
          /\ finalizable' = finalizable \ {o}
          /\ UNCHANGED <<bits, blocks, sweepList>>
     ELSE LET B == {BlockOf[o]} \cap sweepList IN Reclaim(B, {o}) /\ GiveBack(B)
  /\ UNCHANGED <<roots, markVars, marking, collecting, pc, loop, todo, done, empty,
                 passVars>>

(***************************************************************************)
(* The collector                                                           *)
(***************************************************************************)

(* StartIncrementalMark: SweepNeedsSweeping, then the roots. *)
StartIncrementalMark ==
  /\ pc = "run" /\ ~marking /\ ~collecting
  /\ marking' = TRUE
  /\ Reclaim(sweepList, {}) /\ GiveBack(blocks)
  /\ pc' = "start"
  /\ UNCHANGED <<roots, stack, locals, weak, markVars, collecting, loop, todo, done,
                 empty, passVars>>

(* MarkNonstackRoots, at the start, in the final scan and, deep, as the    *)
(* first part of HandleMarkStackOverflow.                                  *)
MarkNonstackRoots ==
  /\ pc \in {"start", "roots", "restart"}
  /\ Trace(roots, work, {})
  /\ pc' = CASE pc = "start" -> "run" [] pc = "roots" -> "stack" [] OTHER -> "handle"
  /\ todo' = IF pc = "restart" THEN Objs ELSE todo
  /\ UNCHANGED <<programVars, weak, finalizable, barrier, marking, collecting, loop,
                 blockVars, passVars>>

(* One item of Mark, in an increment or to the end. *)
Mark(o) ==
  /\ pc \in {"run", "drain", "handle"} /\ o \in work
  /\ MarkItem(o, work \ {o})
  /\ UNCHANGED <<programVars, weak, finalizable, barrier, marking, collecting, pc,
                 loop, todo, blockVars, passVars>>

(* IncrementalMark takes full segments of the barrier stack when it has    *)
(* nothing else to do.                                                     *)
CheckBarrierWork ==
  /\ pc = "run" /\ marking /\ work = {}
  /\ \E moved \in SUBSET barrier :
       /\ Cardinality(moved) >= SegmentSize
       /\ work' = moved /\ barrier' = barrier \ moved
  /\ UNCHANGED <<programVars, weak, bits, finalizable, overflow, marking, collecting,
                 pc, loop, todo, blockVars, passVars>>

(* FinishIncrementalMark, up to its first loop. *)
FinishIncrementalMark ==
  /\ pc = "run" /\ marking
  /\ pc' = "drain" /\ loop' = 1
  /\ UNCHANGED <<programVars, weak, bits, finalizable, markVars, marking, collecting,
                 todo, blockVars, passVars>>

(* Mark has emptied the stack: restart after an overflow, in each of the   *)
(* three loops.                                                            *)
Restart ==
  /\ pc = "drain" /\ work = {} /\ overflow
  /\ overflow' = FALSE /\ pc' = "restart"
  /\ UNCHANGED <<programVars, weak, bits, finalizable, work, barrier, marking,
                 collecting, loop, todo, blockVars, passVars>>

(* HandleMarkStackOverflow looks at every slot, and marks from each marked *)
(* object until the stack is empty again.                                  *)
HandleMarkStackOverflow ==
  /\ pc = "handle" /\ work = {}
  /\ \E o \in todo :
       /\ todo' = todo \ {o}
       /\ IF bits[o] = "marked" THEN MarkItem(o, work)
                                ELSE UNCHANGED <<work, overflow, bits>>
  /\ UNCHANGED <<programVars, weak, finalizable, barrier, marking, collecting, pc,
                 loop, blockVars, passVars>>

HandleEnd ==
  /\ pc = "handle" /\ work = {} /\ todo = {}
  /\ pc' = IF loop = 3 THEN "drain" ELSE "flush"
  /\ UNCHANGED <<programVars, weak, bits, finalizable, markVars, marking, collecting,
                 loop, todo, blockVars, passVars>>

(* The first loop is over. *)
FinalScan ==
  /\ pc = "drain" /\ loop = 1 /\ work = {} /\ ~overflow
  /\ pc' = "final" /\ loop' = 2
  /\ UNCHANGED <<programVars, weak, bits, finalizable, markVars, marking, collecting,
                 todo, blockVars, passVars>>

(* FlushBarrierWork, in both loops and in the final scan. *)
Flush ==
  /\ pc \in {"flush", "final"}
  /\ FlushBarrierWork
  /\ pc' = IF pc = "final" THEN "roots" ELSE IF loop = 1 THEN "drain" ELSE "stack"
  /\ UNCHANGED <<programVars, weak, bits, finalizable, marking, collecting, loop,
                 todo, blockVars, passVars>>

(* Mutation of MarkQueueAndStack: a stack that is not pushed is forgotten. *)
MarkQueueOnly ==
  /\ pc = "stack"
  /\ \/ Trace(stack, work, {})
     \/ /\ Cardinality(work) >= SegmentSize
        /\ UNCHANGED <<overflow, work, bits>>
  /\ pc' = "drain"
  /\ UNCHANGED <<programVars, weak, finalizable, barrier, marking, collecting, loop,
                 todo, blockVars, passVars>>

(* MarkQueueAndStack: the stack is pushed as one item, which may fail, and *)
(* then is the first that Mark takes.                                      *)
MarkQueueAndStack ==
  /\ pc = "stack"
  /\ \/ Trace(stack, work, {})
     \/ /\ Cardinality(work) >= SegmentSize
        /\ overflow' = TRUE
        /\ UNCHANGED <<work, bits>>
  /\ pc' = "drain"
  /\ UNCHANGED <<programVars, weak, finalizable, barrier, marking, collecting, loop,
                 todo, blockVars, passVars>>

(* The second loop is over; GC::Sweep up to the presweep callbacks. *)
StartSweep ==
  /\ pc = "drain" /\ loop = 2 /\ work = {} /\ ~overflow
  /\ barrier' = {}
  /\ collecting' = TRUE
  /\ pc' = "presweep"
  /\ UNCHANGED bits /\ GiveBack(blocks)
  /\ UNCHANGED <<programVars, weak, finalizable, work, overflow, marking, loop, todo,
                 sweepList, done, empty, passVars>>

EndPresweep ==
  /\ pc = "presweep"
  /\ locals' = {}
  /\ pc' = IF overflow THEN "restart" ELSE "drain"
  /\ overflow' = FALSE
  /\ loop' = 3
  /\ UNCHANGED <<ptr, roots, stack, weak, bits, finalizable, work, barrier, marking,
                 collecting, todo, blockVars, passVars>>

(* The next block of the pass is one of B. *)
NextOf(B) ==
  \/ B = {} /\ nxt' = None /\ after' = {}
  \/ \E b \in B : nxt' = b /\ after' = B \ {b}

(* Mutation of StartFinalize: weak references are not cleared. *)
StartFinalizeOnly ==
  /\ pc = "drain" /\ loop = 3 /\ work = {} /\ ~overflow
  /\ pc' = "finalize"
  /\ NextOf(blocks)
  /\ UNCHANGED <<programVars, weak, bits, finalizable, markVars, marking, collecting,
                 loop, todo, blockVars, cur, dying>>

(* The third loop is over: MarkOrClearWeakRefs, and the pass begins. *)
StartFinalize ==
  /\ pc = "drain" /\ loop = 3 /\ work = {} /\ ~overflow
  /\ weak' = {o \in weak : bits[o] = "marked"}
  /\ pc' = "finalize"
  /\ NextOf(blocks)
  /\ UNCHANGED <<programVars, bits, finalizable, markVars, marking, collecting, loop,
                 todo, blockVars, cur, dying>>

(***************************************************************************)
(* FinalizationPass                                                        *)
(***************************************************************************)
(* The loop reads the next block before it looks at this one. *)
FinalizeBlock ==
  /\ pc = "finalize" /\ cur = None /\ nxt # None
  /\ cur' = nxt /\ NextOf(after)
  /\ UNCHANGED <<programVars, weak, bits, finalizable, markVars, marking, collecting,
                 pc, loop, todo, blockVars, dying>>

(* The finalizer of an unmarked object runs. *)
StartFinalizer(o) ==
  /\ pc = "finalize" /\ cur # None
  /\ o \in White(Members(cur)) \cap finalizable
  /\ finalizable' = finalizable \ {o}
  /\ dying' = o /\ pc' = "finalizer"
  /\ UNCHANGED <<programVars, weak, bits, markVars, marking, collecting, loop, todo,
                 blockVars, cur, nxt, after>>

EndFinalizer ==
  /\ pc = "finalizer"
  /\ locals' = {} /\ dying' = None /\ pc' = "finalize"
  /\ UNCHANGED <<ptr, roots, stack, weak, bits, finalizable, markVars, marking,
                 collecting, loop, todo, blockVars, cur, nxt, after>>

(* The block is empty, or nothing in it was freed, or it is to be swept. *)
BlockDone ==
  LET marked == {o \in Members(cur) : bits[o] = "marked"} IN
  /\ pc = "finalize" /\ cur # None
  /\ White(Members(cur)) \cap finalizable = {}
  /\ \/ /\ marked = {}
        /\ blocks' = blocks \ {cur}
        /\ empty' = empty \cup {cur}
        /\ UNCHANGED <<bits, sweepList>>
     \/ /\ marked # {} /\ White(Members(cur)) = {}
        /\ bits' = [o \in Objs |-> IF o \in marked THEN "white" ELSE bits[o]]
        /\ UNCHANGED <<blocks, empty, sweepList>>
     \/ /\ marked # {} /\ White(Members(cur)) # {}
        /\ sweepList' = sweepList \cup {cur}
        /\ UNCHANGED <<bits, blocks, empty>>
  /\ done' = done \cup {cur}
  /\ cur' = None
  /\ UNCHANGED <<programVars, weak, finalizable, markVars, marking, collecting, pc,
                 loop, todo, nxt, after, dying>>

(* Mutation of EndSweep: collecting is not reset. *)
EndSweepCollecting ==
  /\ pc = "finalize" /\ cur = None /\ nxt = None
  /\ Reclaim({}, {o \in Objs : BlockOf[o] \in empty}) /\ GiveBack({})
  /\ empty' = {} /\ done' = {}
  /\ marking' = FALSE
  /\ pc' = "run" /\ loop' = 1
  /\ UNCHANGED <<roots, stack, locals, weak, markVars, collecting, todo, passVars>>

(* The rest of GC::Finalize and GC::Sweep; Collect, and eagerSweeping,     *)
(* sweep the blocks at once.                                               *)
EndSweep ==
  /\ pc = "finalize" /\ cur = None /\ nxt = None
  /\ \E eager \in BOOLEAN :
       /\ Reclaim(IF eager THEN sweepList ELSE {}, {o \in Objs : BlockOf[o] \in empty})
       /\ GiveBack(IF eager THEN blocks ELSE {})
  /\ empty' = {} /\ done' = {}
  /\ collecting' = FALSE /\ marking' = FALSE
  /\ pc' = "run" /\ loop' = 1
  /\ UNCHANGED <<roots, stack, locals, weak, markVars, todo, passVars>>

(***************************************************************************)
(* The specification                                                       *)
(***************************************************************************)
Program ==
  \E o \in Objs : \/ Alloc(o) \/ Load(o) \/ WeakGet(o) \/ GetWeakRef(o) \/ Drop(o)
                  \/ WriteRoot(o) \/ Write(o) \/ Free(o)

Increment == StartIncrementalMark \/ CheckBarrierWork \/ FinishIncrementalMark
             \/ (pc = "run" /\ \E o \in Objs : Mark(o))

Collector ==
  \/ MarkNonstackRoots \/ (pc # "run" /\ \E o \in Objs : Mark(o))
  \/ Restart \/ HandleMarkStackOverflow \/ HandleEnd \/ FinalScan \/ Flush
  \/ MarkQueueAndStack \/ StartSweep \/ EndPresweep \/ StartFinalize
  \/ FinalizeBlock \/ (\E o \in Objs : StartFinalizer(o)) \/ EndFinalizer
  \/ BlockDone \/ EndSweep

Next == Program \/ AllocSweep \/ Increment \/ Collector

Spec == Init /\ [][Next]_vars

(* A collection that has started to finish runs to its end on the          *)
(* program's thread, and callbacks return.                                 *)
FairSpec == Spec /\ WF_vars(Collector)

(***************************************************************************)
(* Properties                                                              *)
(***************************************************************************)

(* What the program can reach is neither freed nor finalized. *)
ReachableSafe ==
  \A o \in Reachable : bits[o] # "free" /\ o # dying /\ BlockOf[o] \notin empty

(* Between increments no object that is marked and reachable points to an  *)
(* unmarked one, unless the overflow flag asks for a restart: every write  *)
(* went through the barrier, whatever the stacks could take.               *)
TriColor ==
  (marking /\ ~collecting /\ ~overflow /\ pc \in {"run", "drain"}) =>
    \A o \in Reachable : bits[o] = "marked" => White(ptr[o]) = {}

(* When the sweep starts, everything reachable is marked. *)
MarkingComplete == [][StartSweep => \A o \in Reachable : bits[o] = "marked"]_vars

(* A queued object is on a mark stack: it would be neither marked nor      *)
(* freed otherwise, and finalizing relies on there being none.             *)
QueuedIsStacked ==
  /\ {o \in Objs : bits[o] = "queued"} \subseteq work \cup barrier
  /\ pc \in {"finalize", "finalizer"} => work \cup barrier = {}

(* The state of marking is sound: every mark bit, stack and flag has a     *)
(* value the code gives it, queued objects are stacked, and no marked      *)
(* object hides an unmarked one.                                           *)
MarkingSound == TypeOK /\ QueuedIsStacked /\ TriColor

(* A weak reference that is not cleared refers to an object that is        *)
(* neither freed nor finalized.                                            *)
WeakRefsAlive == \A o \in weak : bits[o] # "free" /\ o # dying /\ BlockOf[o] \notin empty

(* Marking ends however often the mark stack overflows. *)
CollectionEnds == (pc \notin {"run", "alloc"}) ~> (pc = "run")
=============================================================================
