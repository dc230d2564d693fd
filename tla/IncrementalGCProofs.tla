------------------------- MODULE IncrementalGCProofs -------------------------
(***************************************************************************)
(* Proofs about IncrementalGC for any objects and blocks, any roots and    *)
(* stacks, and any size of the mark stacks, under NoUses: presweep         *)
(* callbacks make no pointer disappear, and the allocations of finalizers  *)
(* find a block with a free item.  Without it the collector does reclaim   *)
(* what is in use, and TLC shows how.                                      *)
(***************************************************************************)
EXTENDS IncrementalGC, TLAPS

Fin == pc \in {"finalize", "finalizer"}

(* What the program reaches, if it follows weak references as well. *)
Live == ReachableFrom(roots \cup frame \cup weak, ptr)

Marked == {o \in Objs : bits[o] = "marked"}

(* The slots a restart has yet to look at. *)
Unlooked == IF pc = "handle" THEN todo ELSE {}

(* What marking will reach from the mark stack through objects that are    *)
(* not marked.                                                             *)
Grey == ReachableFrom(work, [o \in Objs |-> IF bits[o] = "marked" THEN {} ELSE ptr[o]])

(* The blocks in which objects in use are marked, not white: those not yet *)
(* finalized, and those that are but wait to be swept.                     *)
Unflipped == IF Fin THEN (Blocks \ done) \cup sweepList ELSE sweepList

(* Who runs when. *)
Modes ==
  /\ ~marking => pc \in {"run", "alloc"}
  /\ marking /\ ~collecting =>
       pc \in {"run", "start", "drain", "handle", "flush", "roots", "stack", "restart", "final"}
  /\ collecting =>
       pc \in {"presweep", "drain", "handle", "restart", "finalize", "finalizer"}
  /\ collecting /\ pc # "presweep" => loop = 3
  /\ loop = 3 => collecting
  /\ pc \in {"roots", "stack", "final"} => loop = 2
  /\ locals # {} => InCallback
  /\ dying # None <=> pc = "finalizer"
  /\ pc = "finalizer" => cur # None
  /\ cur # None \/ nxt # None \/ done \cup empty # {} => Fin
  /\ after # {} => nxt # None
  /\ sweepList # {} => ~marking \/ Fin

(* The mark stacks and the queued bits agree. *)
Queues ==
  /\ ~marking \/ pc = "start" \/ Fin => work \cup barrier = {} /\ ~overflow
  /\ collecting => barrier = {}
  /\ work \cap barrier = {}
  /\ \A o \in Objs : bits[o] = "queued" => o \in work \cup barrier
  /\ \A o \in work \cup barrier : /\ bits[o] # "free"
                                  /\ ~collecting => bits[o] = "queued"
  /\ \A o \in Objs : (bits[o] = "free" \/ o \in PointerFree) => ptr[o] = {}

(* The blocks: what is allocated is in a block, and the finalization pass  *)
(* will visit every block it has not visited.                              *)
Layout ==
  /\ \A o \in Objs : bits[o] # "free" => BlockOf[o] \in blocks \cup empty
  /\ blocks \cap empty = {} /\ sweepList \subseteq blocks
  /\ Fin => blocks \subseteq done \cup {cur, nxt} \cup after
  /\ ({cur, nxt} \ {None}) \cup after \subseteq blocks \ done
  /\ cur # None => cur # nxt
  /\ {cur, nxt} \cap after = {}
  /\ collecting => sweepList \subseteq done
  /\ dying # None => bits[dying] = "white" /\ BlockOf[dying] = cur

(* What is in use is allocated, and has the color of its block. *)
Colors ==
  /\ \A o \in Live : bits[o] # "free" /\ BlockOf[o] \notin empty
  /\ ~marking \/ Fin =>
       /\ \A o \in Objs : bits[o] = "marked" => BlockOf[o] \in Unflipped
       /\ \A o \in Live : BlockOf[o] \in Unflipped => bits[o] = "marked"
  /\ pc = "start" => Marked = {}

(* No marked object points to a white one, unless marking will restart. *)
Tri ==
  marking /\ ~collecting /\ ~overflow /\ pc # "restart" =>
    \A o \in Live \ Unlooked : bits[o] = "marked" => White(ptr[o]) = {}

(* What the final scan has done so far. *)
Scanned ==
  marking /\ ~collecting /\ ~overflow /\ loop = 2 =>
    /\ pc \in {"roots", "stack", "drain"} => barrier = {}
    /\ pc \in {"stack", "handle", "flush", "drain"} => White(roots) = {}
    /\ pc = "drain" => White(stack) = {}

(* After the final scan only presweep callbacks bring objects to light     *)
(* that are not marked, and the mark stack leads to them.                  *)
Covered ==
  collecting /\ ~Fin =>
    /\ stack \subseteq Marked
    /\ pc # "restart" /\ ~overflow =>
         /\ roots \cup frame \subseteq Marked \cup Grey
         /\ \A o \in Live \ Unlooked : bits[o] = "marked" => ptr[o] \subseteq Marked \cup Grey

Rest == Modes /\ Queues /\ Layout /\ Colors /\ Tri /\ Scanned /\ Covered
IInv == TypeOK /\ Rest

(* Callbacks do only what the collector can cope with. *)
NoUses == Uses = {}

(***************************************************************************)
(* Reachability                                                            *)
(***************************************************************************)
LEMMA ReachClosed ==
  ASSUME NEW p, \A x \in Objs : p[x] \subseteq Objs, NEW R \in SUBSET Objs
  PROVE  /\ R \subseteq ReachableFrom(R, p) /\ ReachableFrom(R, p) \subseteq Objs
         /\ \A x \in ReachableFrom(R, p) : p[x] \subseteq ReachableFrom(R, p)
<1>1. ASSUME NEW x \in ReachableFrom(R, p), NEW y \in p[x] PROVE y \in ReachableFrom(R, p)
  <2>1. x \in Objs /\ y \in Objs
    BY <1>1 DEF ReachableFrom
  <2> SUFFICES ASSUME NEW S \in SUBSET Objs, R \subseteq S, Closed(S, p) PROVE y \in S
    BY <2>1 DEF ReachableFrom
  <2>2. x \in S
    BY <1>1 DEF ReachableFrom
  <2> QED
    BY <1>1, <2>2 DEF Closed
<1> QED
  BY <1>1 DEF ReachableFrom

LEMMA ReachWithin ==
  ASSUME NEW p, NEW R, NEW S \in SUBSET Objs, R \subseteq S, \A x \in S : p[x] \subseteq S
  PROVE  ReachableFrom(R, p) \subseteq S
BY DEF ReachableFrom, Closed

LEMMA LiveClosed ==
  ASSUME TypeOK
  PROVE  /\ roots \cup frame \cup weak \subseteq Live /\ Live \subseteq Objs
         /\ \A x \in Live : ptr[x] \subseteq Live
<1>1. roots \cup frame \cup weak \in SUBSET Objs /\ \A x \in Objs : ptr[x] \subseteq Objs
  BY DEF TypeOK, frame
<1> QED
  BY <1>1, ReachClosed DEF Live

LEMMA LiveWithin ==
  ASSUME NEW S \in SUBSET Objs, (roots \cup frame \cup weak)' \subseteq S,
         \A x \in S : ptr'[x] \subseteq S
  PROVE  Live' \subseteq S
BY ReachWithin DEF Live

(* No operation of the program brings back what it cannot reach. *)
LEMMA LiveShrinks ==
  ASSUME TypeOK, (roots \cup frame \cup weak)' \subseteq Live,
         \A x \in Live : ptr'[x] \subseteq Live
  PROVE  Live' \subseteq Live
BY LiveClosed, LiveWithin

LEMMA ReachableLive == ASSUME TypeOK PROVE Reachable \subseteq Live
BY LiveClosed, ReachWithin DEF Reachable

LEMMA GreyClosed ==
  ASSUME TypeOK
  PROVE  /\ work \subseteq Grey /\ Grey \subseteq Objs
         /\ \A x \in Grey : bits[x] # "marked" => ptr[x] \subseteq Grey
<1> DEFINE p == [o \in Objs |-> IF bits[o] = "marked" THEN {} ELSE ptr[o]]
<1>1. work \in SUBSET Objs /\ \A x \in Objs : p[x] \subseteq Objs
  BY DEF TypeOK
<1>2. \A x \in Objs : bits[x] # "marked" => p[x] = ptr[x]
  OBVIOUS
<1> HIDE DEF p
<1>3. /\ work \subseteq ReachableFrom(work, p) /\ ReachableFrom(work, p) \subseteq Objs
      /\ \A x \in ReachableFrom(work, p) : p[x] \subseteq ReachableFrom(work, p)
  BY <1>1, ReachClosed
<1>4. Grey = ReachableFrom(work, p)
  BY DEF Grey, p
<1> QED
  BY <1>2, <1>3, <1>4

LEMMA GreyWithin ==
  ASSUME TypeOK, NEW S \in SUBSET Objs, work \subseteq S,
         \A x \in S : bits[x] # "marked" => ptr[x] \subseteq S
  PROVE  Grey \subseteq S
<1> DEFINE p == [o \in Objs |-> IF bits[o] = "marked" THEN {} ELSE ptr[o]]
<1>1. \A x \in S : p[x] \subseteq S
  OBVIOUS
<1> HIDE DEF p
<1>2. ReachableFrom(work, p) \subseteq S
  BY <1>1, ReachWithin
<1> QED
  BY <1>2 DEF Grey, p

(* An object that is freed is out of reach from then on. *)
LEMMA FreedIsDead ==
  ASSUME TypeOK, NEW o \in Objs, MayFree(o), roots' = roots, stack' = stack \ {o},
         locals' = locals \ {o}, weak' = weak \ {o},
         \A x \in Objs : ptr'[x] \subseteq ptr[x]
  PROVE  Live' \subseteq Live /\ o \notin Live'
<1>1. (roots \cup frame \cup weak)' \subseteq roots \cup ((frame \cup weak) \ {o}) \cup (roots \cap {o})
  BY DEF frame
<1>2. Live' \subseteq Live
  <2>1. (roots \cup frame \cup weak)' \subseteq Live
    BY <1>1, LiveClosed
  <2>2. \A x \in Live : ptr'[x] \subseteq Live
    BY LiveClosed
  <2> QED
    BY <2>1, <2>2, LiveShrinks
<1>3. CASE o \notin Live
  BY <1>2, <1>3
<1>4. CASE o \notin ReachableFrom(roots \cup ((frame \cup weak) \ {o}), ptr)
  <2> DEFINE R == roots \cup ((frame \cup weak) \ {o})
             T == ReachableFrom(R, ptr)
  <2>1. R \in SUBSET Objs /\ \A x \in Objs : ptr[x] \subseteq Objs
    BY DEF TypeOK, frame
  <2>2. o \notin T /\ (roots \cup frame \cup weak)' \subseteq R
    BY <1>1, <1>4
  <2> HIDE DEF R
  <2>3. R \subseteq T /\ T \subseteq Objs /\ \A x \in T : ptr[x] \subseteq T
    BY <2>1, ReachClosed
  <2> HIDE DEF T
  <2>4. Live' \subseteq T
    BY <2>2, <2>3, LiveWithin
  <2> QED
    BY <1>2, <2>2, <2>4
<1> QED
  BY <1>3, <1>4 DEF MayFree, Live

(***************************************************************************)
(* Tracing                                                                 *)
(***************************************************************************)
Bit == {"free", "white", "queued", "marked"}

(* What Trace does to the colors and the mark stack. *)
Effect(S, w, black) ==
  /\ bits' \in [Objs -> Bit] /\ overflow' \in BOOLEAN
  /\ w \subseteq work' /\ work' \subseteq Objs
  /\ overflow => overflow'
  /\ \A x \in work' \ w : bits[x] = "white" /\ bits'[x] = "queued" /\ x \notin black
  /\ \A x \in black : bits'[x] = "marked"
  /\ \A x \in Objs : \/ bits'[x] = bits[x]
                     \/ bits[x] # "free" /\ bits'[x] = "marked" /\ x \in black \cup PointerFree
                     \/ bits[x] = "white" /\ bits'[x] = "queued" /\ x \in work'
  /\ \A x \in Objs \ black : bits[x] # "white" => bits'[x] = bits[x]
  /\ ~overflow' => \A x \in S : bits'[x] # "white"

LEMMA TraceEffect ==
  ASSUME TypeOK, NEW S \in SUBSET Objs, NEW w \in SUBSET Objs, NEW black \in SUBSET Objs,
         \A x \in black : bits[x] # "free", Trace(S, w, black)
  PROVE  Effect(S, w, black)
<1> DEFINE new == White(S) \ black
           leaf == new \cap PointerFree
<1>1. PICK pushed \in SUBSET (new \ leaf) :
        /\ work' = w \cup pushed
        /\ overflow' = (overflow \/ pushed # new \ leaf)
        /\ bits' = [o \in Objs |-> IF o \in black \cup leaf THEN "marked"
                                   ELSE IF o \in pushed THEN "queued" ELSE bits[o]]
  BY DEF Trace
<1>2. \A x \in Objs : /\ x \in new <=> x \in S /\ bits[x] = "white" /\ x \notin black
                      /\ x \in leaf <=> x \in new /\ x \in PointerFree
  BY DEF White
<1>3. new \subseteq Objs /\ leaf \subseteq new /\ pushed \subseteq new /\ pushed \cap leaf = {}
  BY DEF White
<1> HIDE DEF new, leaf
<1>4. \A x \in Objs : bits'[x] = IF x \in black \cup leaf THEN "marked"
                                ELSE IF x \in pushed THEN "queued" ELSE bits[x]
  BY <1>1
<1>5. bits' \in [Objs -> Bit] /\ overflow' \in BOOLEAN /\ work' \subseteq Objs
  BY <1>1, <1>3 DEF TypeOK, Bit
<1>6. ~overflow' => pushed = new \ leaf
  BY <1>1
<1>7. \A x \in work' \ w : x \in pushed
  BY <1>1
<1> QED
  BY <1>1, <1>2, <1>3, <1>4, <1>5, <1>6, <1>7 DEF Effect

LEMMA GreyClosedNext ==
  ASSUME TypeOK'
  PROVE  /\ work' \subseteq Grey' /\ Grey' \subseteq Objs
         /\ \A x \in Grey' : bits'[x] # "marked" => ptr'[x] \subseteq Grey'
<1> DEFINE p == [o \in Objs |-> IF bits'[o] = "marked" THEN {} ELSE ptr'[o]]
<1>1. work' \in SUBSET Objs /\ \A x \in Objs : p[x] \subseteq Objs
  BY DEF TypeOK
<1>2. \A x \in Objs : bits'[x] # "marked" => p[x] = ptr'[x]
  OBVIOUS
<1>4. Grey' = ReachableFrom(work', p)
  BY DEF Grey, ReachableFrom, Closed
<1> HIDE DEF p
<1>3. /\ work' \subseteq ReachableFrom(work', p) /\ ReachableFrom(work', p) \subseteq Objs
      /\ \A x \in ReachableFrom(work', p) : p[x] \subseteq ReachableFrom(work', p)
  BY <1>1, ReachClosed
<1> QED
  BY <1>2, <1>3, <1>4

traceFrame == <<programVars, weak, finalizable, barrier, marking, collecting, blockVars, passVars>>

(* Marking colors objects, and changes nothing else. *)
LEMMA TraceKeeps ==
  ASSUME TypeOK, Modes, Queues, Layout, Colors,
         NEW S \in SUBSET Objs, NEW w \in SUBSET work, NEW black \in SUBSET Objs,
         Trace(S, w, black), work \subseteq w \cup black,
         \A x \in black : bits[x] # "free",
         ~collecting => black \cap (w \cup barrier) = {},
         marking, ~Fin, pc' \in Pcs \ {"start", "finalize", "finalizer"},
         loop' \in 1..3, todo' \subseteq Objs, UNCHANGED traceFrame
  PROVE  TypeOK' /\ Queues' /\ Layout' /\ Colors' /\ Live' = Live
<1> USE DEF traceFrame, programVars, blockVars, passVars
<1>0. w \in SUBSET Objs /\ work \subseteq Objs /\ barrier \subseteq Objs
  BY DEF TypeOK
<1>1. Effect(S, w, black)
  BY <1>0, TraceEffect
<1> USE DEF Effect
<1>2. TypeOK'
  BY <1>1 DEF TypeOK, Bit
<1>3. Live' = Live
  BY DEF Live, frame, ReachableFrom, Closed
<1>4. \A x \in Objs : bits'[x] = "free" <=> bits[x] = "free"
  BY <1>1
<1>5. Queues'
  <2>1. \A x \in Objs : bits'[x] = "queued" => x \in work' \cup barrier'
    BY <1>1 DEF Queues
  <2>2. \A x \in work' \cup barrier' : /\ bits'[x] # "free"
                                       /\ ~collecting' => bits'[x] = "queued"
    <3> TAKE x \in work' \cup barrier'
    <3>1. CASE x \in work' \ w
      BY <1>1, <3>1
    <3>2. CASE x \in w \cup barrier
      <4>1. bits[x] # "free" /\ x \in Objs /\ (~collecting => bits[x] = "queued" /\ x \notin black)
        BY <1>0, <3>2 DEF Queues
      <4> QED
        BY <1>1, <1>4, <4>1
    <3> QED
      BY <3>1, <3>2
  <2>3. work' \cap barrier' = {}
    BY <1>0, <1>1 DEF Queues
  <2>4. \A o \in Objs : bits'[o] = "free" \/ o \in PointerFree => ptr'[o] = {}
    BY <1>4 DEF Queues
  <2>5. collecting' => barrier' = {}
    BY DEF Queues
  <2>6. marking' /\ pc' # "start" /\ ~Fin'
    BY DEF Fin
  <2> QED
    BY <2>1, <2>2, <2>3, <2>4, <2>5, <2>6 DEF Queues
<1>6. Layout'
  <2>1. dying = None
    BY DEF Modes, Fin
  <2>2. \A o \in Objs : bits'[o] # "free" => BlockOf[o] \in blocks' \cup empty'
    BY <1>4 DEF Layout
  <2>3. ~Fin'
    BY DEF Fin
  <2> QED
    BY <2>1, <2>2, <2>3 DEF Layout
<1>7. Colors'
  <2>1. \A o \in Live' : bits'[o] # "free" /\ BlockOf[o] \notin empty'
    BY <1>3, <1>4, LiveClosed DEF Colors
  <2> QED
    BY <2>1 DEF Colors, Fin
<1> QED
  BY <1>2, <1>3, <1>5, <1>6, <1>7

(* What was grey is marked or grey still. *)
Covers(S, black) ==
  /\ overflow => overflow'
  /\ Marked \subseteq Marked'
  /\ \A x \in Objs : bits[x] # "white" => bits'[x] # "white"
  /\ ~overflow' => \A x \in S : bits'[x] # "white"
  /\ \A x \in Objs : bits'[x] = "marked" => bits[x] = "marked" \/ x \in black \/ ptr[x] = {}
  /\ collecting /\ ~overflow' =>
       S \cap Live \subseteq Marked' \cup Grey' /\ Live \cap Grey \subseteq Marked' \cup Grey'

LEMMA TraceCovers ==
  ASSUME IInv, TypeOK',
         NEW S \in SUBSET Objs, NEW w \in SUBSET work, NEW black \in SUBSET Objs,
         Trace(S, w, black), work \subseteq w \cup black,
         \A x \in black : bits[x] # "free" /\ ptr[x] \subseteq S,
         Live' = Live, UNCHANGED traceFrame
  PROVE  Covers(S, black)
<1> USE DEF traceFrame, programVars, blockVars, passVars
<1>0. w \in SUBSET Objs /\ work \subseteq Objs
  BY DEF IInv, TypeOK
<1>1. Effect(S, w, black)
  BY <1>0, TraceEffect, \A x \in black : bits[x] # "free" DEF IInv
<1> USE DEF Effect
<1>2. /\ \A x \in Objs : bits[x] = "free" \/ x \in PointerFree => ptr[x] = {}
      /\ \A x \in Objs : bits[x] = "queued" => x \in work \cup barrier
  BY DEF IInv, Rest, Queues
<1>3. \A x \in Live : x \in Objs /\ bits[x] # "free"
  BY LiveClosed DEF IInv, Rest, Colors
<1>4. Marked \subseteq Marked' /\ \A x \in Objs : bits'[x] = "free" <=> bits[x] = "free"
  BY <1>1 DEF Marked
<1>5. /\ work' \subseteq Grey' /\ Grey' \subseteq Objs
      /\ \A x \in Grey' : bits'[x] # "marked" => ptr'[x] \subseteq Grey'
  BY GreyClosedNext
<1>6. /\ \A x \in Objs : bits[x] # "white" => bits'[x] # "white"
      /\ \A x \in Objs : bits'[x] = "marked" => bits[x] = "marked" \/ x \in black \/ ptr[x] = {}
  BY <1>1, <1>2
<1>7. ASSUME collecting, ~overflow'
      PROVE  S \cap Live \subseteq Marked' \cup Grey' /\ Live \cap Grey \subseteq Marked' \cup Grey'
  <2>1. \A x \in Objs : bits'[x] = "queued" => x \in work'
    <3>1. barrier = {}
      BY <1>7 DEF IInv, Rest, Queues
    <3> QED
      BY <1>1, <1>2, <3>1
  <2>2. \A x \in S : x \in Marked' \cup Grey' \/ bits'[x] = "free"
    BY <1>1, <1>5, <1>7, <2>1 DEF Marked, Bit
  <2> DEFINE T == Marked' \cup Grey' \cup {x \in Objs : bits[x] = "free"}
  <2>3. T \in SUBSET Objs /\ work \subseteq T
    BY <1>0, <1>1, <1>5 DEF Marked
  <2>4. ASSUME NEW x \in T, bits[x] # "marked" PROVE ptr[x] \subseteq T
    <3>1. CASE x \in black
      BY <1>4, <2>2, <3>1
    <3>2. CASE ptr[x] = {}
      BY <3>2
    <3>3. CASE x \notin black /\ ptr[x] # {}
      <4>1. x \in Objs /\ bits[x] # "free" /\ bits'[x] # "marked"
        BY <1>2, <1>6, <2>3, <2>4, <3>3
      <4>2. x \in Grey'
        BY <4>1 DEF Marked
      <4> QED
        BY <1>5, <4>1, <4>2
    <3> QED
      BY <3>1, <3>2, <3>3
  <2>5. Grey \subseteq T
    <3> HIDE DEF T
    <3> QED
      BY <2>3, <2>4, GreyWithin DEF IInv
  <2> QED
    BY <1>3, <1>4, <2>2, <2>5
<1> QED
  BY <1>1, <1>4, <1>6, <1>7 DEF Covers

(***************************************************************************)
(* The collector's steps                                                   *)
(***************************************************************************)
LEMMA SameLive ==
  ASSUME UNCHANGED <<programVars, weak>>
  PROVE  Live' = Live
BY DEF Live, frame, ReachableFrom, Closed, programVars

LEMMA SameGrey ==
  ASSUME UNCHANGED <<ptr, bits, work>>
  PROVE  Grey' = Grey
BY DEF Grey, ReachableFrom, Closed

LEMMA ControlStep ==
  ASSUME IInv, FinishIncrementalMark \/ Restart \/ HandleEnd \/ FinalScan
  PROVE  IInv'
<1> USE DEF FinishIncrementalMark, Restart, HandleEnd, FinalScan, blockVars, passVars, markVars, Fin
<1>1. /\ UNCHANGED <<programVars, weak, bits, finalizable, work, barrier, marking, collecting,
                     blockVars, passVars>>
      /\ pc \in {"run", "drain", "handle"} /\ pc' \in {"drain", "restart", "flush", "final"}
      /\ marking
  BY DEF IInv, Rest, Modes
<1>2. Live' = Live /\ Grey' = Grey
  BY <1>1, SameLive, SameGrey DEF programVars
<1> USE DEF programVars
<1>3. Marked' = Marked
  BY <1>1 DEF Marked
<1>4. TypeOK'
  <2>1. pc' \in Pcs /\ loop' \in 1..3 /\ UNCHANGED todo /\ overflow' \in BOOLEAN
    <3>1. pc' \in Pcs
      BY <1>1 DEF Pcs
    <3>2. loop' \in {loop, 1, 2} /\ loop \in 1..3
      BY DEF IInv, TypeOK
    <3>3. UNCHANGED todo
      OBVIOUS
    <3>4. overflow' \in BOOLEAN
      BY DEF IInv, TypeOK
    <3> QED
      BY <3>1, <3>2, <3>3, <3>4
  <2> QED
    BY <1>1, <2>1 DEF IInv, TypeOK
<1>5. Modes'
  BY DEF IInv, Rest, Modes, InCallback
<1>6. Queues'
  BY <1>1 DEF IInv, Rest, Queues
<1>7. Layout'
  BY <1>1 DEF IInv, Rest, Layout
<1>8. Colors'
  BY <1>1, <1>2 DEF IInv, Rest, Colors, Modes
<1>9. Tri'
  BY <1>1, <1>2 DEF IInv, Rest, Tri, White, Unlooked, Modes
<1>10. Scanned'
  BY <1>1 DEF IInv, Rest, Scanned, White, Modes
<1>11. Covered'
  BY <1>1, <1>2, <1>3 DEF IInv, Rest, Covered, Unlooked, Modes, frame
<1> QED
  BY <1>4, <1>5, <1>6, <1>7, <1>8, <1>9, <1>10, <1>11 DEF IInv, Rest

LEMMA MarkStep ==
  ASSUME IInv, NEW o \in Objs, Mark(o)
  PROVE  IInv'
<1> DEFINE w == work \ {o}
<1>1. /\ Trace(ptr[o], w, {o}) /\ o \in work
      /\ UNCHANGED traceFrame /\ UNCHANGED <<pc, loop, todo>>
      /\ pc \in {"run", "drain", "handle"}
  BY DEF Mark, MarkItem, traceFrame
<1>2. /\ ptr[o] \in SUBSET Objs /\ w \in SUBSET work /\ {o} \in SUBSET Objs
      /\ work \subseteq w \cup {o}
      /\ \A x \in {o} : bits[x] # "free" /\ ptr[x] \subseteq ptr[o]
      /\ ~collecting => {o} \cap (w \cup barrier) = {}
  BY <1>1 DEF IInv, Rest, Queues, TypeOK
<1>3. marking /\ ~Fin
  BY <1>1 DEF IInv, Rest, Queues, Modes, Fin
<1> HIDE DEF w
<1>4. TypeOK' /\ Queues' /\ Layout' /\ Colors' /\ Live' = Live
  <2>1. pc' \in Pcs \ {"start", "finalize", "finalizer"} /\ loop' \in 1..3 /\ todo' \subseteq Objs
    BY <1>1 DEF Pcs, IInv, TypeOK
  <2>2. TypeOK /\ Modes /\ Queues /\ Layout /\ Colors
    BY DEF IInv, Rest
  <2> QED
    BY <1>1, <1>2, <1>3, <2>1, <2>2, TraceKeeps
<1>5. Covers(ptr[o], {o})
  BY <1>1, <1>2, <1>4, TraceCovers
<1> USE DEF Covers
<1> USE DEF traceFrame, programVars, blockVars, passVars
<1>6. Modes'
  BY <1>1 DEF IInv, Rest, Modes, InCallback, Fin
<1>7. \A x \in Live : x \in Objs /\ ptr[x] \subseteq Live
  BY LiveClosed DEF IInv
<1>8. \A x \in Objs : ptr[x] \subseteq Objs
  BY DEF IInv, TypeOK
<1>9. Tri'
  BY <1>1, <1>4, <1>5, <1>7, <1>8 DEF IInv, Rest, Tri, White, Unlooked
<1>10. Scanned'
  BY <1>1, <1>5 DEF IInv, Rest, Scanned, White, TypeOK
<1>11. Covered'
  <2> SUFFICES ASSUME collecting', ~Fin' PROVE Covered'
    BY DEF Covered
  <2>1. stack' \subseteq Marked'
    BY <1>1, <1>5 DEF IInv, Rest, Covered, Fin
  <2>2. ASSUME pc' # "restart", ~overflow'
        PROVE  /\ (roots \cup frame)' \subseteq Marked' \cup Grey'
               /\ \A x \in Live' \ Unlooked' : bits'[x] = "marked" => ptr'[x] \subseteq Marked' \cup Grey'
    <3>1. /\ roots \cup frame \subseteq Marked \cup Grey
          /\ \A x \in Live \ Unlooked : bits[x] = "marked" => ptr[x] \subseteq Marked \cup Grey
      BY <1>1, <1>5, <2>2 DEF IInv, Rest, Covered, Fin
    <3>2. /\ ptr[o] \cap Live \subseteq Marked' \cup Grey'
          /\ Live \cap (Marked \cup Grey) \subseteq Marked' \cup Grey'
      BY <1>1, <1>5, <2>2
    <3>3. roots \cup frame \subseteq Live
      BY LiveClosed DEF IInv
    <3>4. (roots \cup frame)' = roots \cup frame
      BY <1>1 DEF frame
    <3>5. Unlooked' = Unlooked
      BY <1>1 DEF Unlooked
    <3> QED
      BY <1>1, <1>4, <1>5, <1>7, <3>1, <3>2, <3>3, <3>4, <3>5
  <2> QED
    BY <2>1, <2>2 DEF Covered
<1> QED
  BY <1>4, <1>6, <1>9, <1>10, <1>11 DEF IInv, Rest

LEMMA RootsStep ==
  ASSUME IInv, MarkNonstackRoots
  PROVE  IInv'
<1>1. /\ Trace(roots, work, {})
      /\ UNCHANGED traceFrame /\ UNCHANGED loop
      /\ pc \in {"start", "roots", "restart"}
      /\ pc' = IF pc = "start" THEN "run" ELSE IF pc = "roots" THEN "stack" ELSE "handle"
      /\ todo' = IF pc = "restart" THEN Objs ELSE todo
  BY DEF MarkNonstackRoots, traceFrame
<1>2. /\ roots \in SUBSET Objs /\ work \in SUBSET work /\ {} \in SUBSET Objs
      /\ work \subseteq work \cup {}
      /\ \A x \in {} : bits[x] # "free" /\ ptr[x] \subseteq roots
      /\ ~collecting => {} \cap (work \cup barrier) = {}
  BY DEF IInv, TypeOK
<1>3. marking /\ ~Fin
  BY <1>1 DEF IInv, Rest, Modes, Fin
<1>4. TypeOK' /\ Queues' /\ Layout' /\ Colors' /\ Live' = Live
  <2>1. pc' \in Pcs \ {"start", "finalize", "finalizer"} /\ loop' \in 1..3 /\ todo' \subseteq Objs
    BY <1>1 DEF Pcs, IInv, TypeOK
  <2>2. TypeOK /\ Modes /\ Queues /\ Layout /\ Colors
    BY DEF IInv, Rest
  <2> QED
    BY <1>1, <1>2, <1>3, <2>1, <2>2, TraceKeeps
<1>5. Covers(roots, {})
  BY <1>1, <1>2, <1>4, TraceCovers
<1> USE DEF Covers, traceFrame, programVars, blockVars, passVars
<1>6. Modes'
  BY <1>1 DEF IInv, Rest, Modes, InCallback, Fin
<1>7. roots \cup frame \subseteq Live /\ \A x \in Live : x \in Objs /\ ptr[x] \subseteq Live
  BY LiveClosed DEF IInv
<1>8. \A x \in Objs : ptr[x] \subseteq Objs
  BY DEF IInv, TypeOK
<1>9. Tri'
  <2>1. CASE pc = "start"
    <3>1. \A x \in Objs : bits'[x] = "marked" => ptr[x] = {}
      BY <1>5, <2>1 DEF IInv, Rest, Colors, Marked
    <3> QED
      BY <1>1, <1>4, <1>7, <3>1 DEF Tri, White
  <2>2. CASE pc = "roots"
    BY <1>1, <1>4, <1>5, <1>7, <1>8, <2>2 DEF IInv, Rest, Tri, White, Unlooked
  <2>3. CASE pc = "restart"
    BY <1>1, <1>4, <1>7, <2>3 DEF Tri, Unlooked
  <2> QED
    BY <1>1, <2>1, <2>2, <2>3
<1>10. Scanned'
  BY <1>1, <1>5 DEF IInv, Rest, Scanned, White, TypeOK
<1>11. Covered'
  <2> SUFFICES ASSUME collecting' PROVE Covered'
    BY DEF Covered
  <2>0. pc = "restart" /\ collecting /\ locals = {}
    BY <1>1 DEF IInv, Rest, Modes, InCallback
  <2>1. stack' \subseteq Marked'
    BY <1>1, <1>5, <2>0 DEF IInv, Rest, Covered, Fin
  <2>2. ASSUME ~overflow' PROVE  (roots \cup frame)' \subseteq Marked' \cup Grey'
    BY <1>1, <1>5, <1>7, <2>0, <2>1, <2>2 DEF frame
  <2>3. Live' \ Unlooked' = {}
    BY <1>1, <1>4, <1>7, <2>0 DEF Unlooked
  <2> QED
    BY <2>1, <2>2, <2>3 DEF Covered
<1> QED
  BY <1>4, <1>6, <1>9, <1>10, <1>11 DEF IInv, Rest

LEMMA StackStep ==
  ASSUME IInv, MarkQueueAndStack
  PROVE  IInv'
<1>1. /\ UNCHANGED traceFrame /\ UNCHANGED <<loop, todo>>
      /\ pc = "stack" /\ pc' = "drain"
  BY DEF MarkQueueAndStack, traceFrame
<1>2. marking /\ ~collecting /\ ~Fin /\ loop = 2 /\ pc' \in Pcs
  BY <1>1 DEF IInv, Rest, Modes, Fin, Pcs
<1>3. Modes'
  BY <1>1, <1>2 DEF IInv, Rest, Modes, InCallback, Fin, traceFrame, programVars, blockVars, passVars
<1>4. Covered'
  BY <1>1, <1>2 DEF Covered, traceFrame
<1>5. CASE Trace(stack, work, {})
  <2>1. /\ stack \in SUBSET Objs /\ work \in SUBSET work /\ {} \in SUBSET Objs
        /\ work \subseteq work \cup {}
        /\ \A x \in {} : bits[x] # "free" /\ ptr[x] \subseteq stack
        /\ ~collecting => {} \cap (work \cup barrier) = {}
    BY DEF IInv, TypeOK
  <2>2. TypeOK' /\ Queues' /\ Layout' /\ Colors' /\ Live' = Live
    <3>1. pc' \in Pcs \ {"start", "finalize", "finalizer"} /\ loop' \in 1..3 /\ todo' \subseteq Objs
      BY <1>1, <1>2 DEF IInv, TypeOK
    <3>2. TypeOK /\ Modes /\ Queues /\ Layout /\ Colors
      BY DEF IInv, Rest
    <3> QED
      BY <1>1, <1>2, <1>5, <2>1, <3>1, <3>2, TraceKeeps
  <2>3. Covers(stack, {})
    BY <1>1, <1>5, <2>1, <2>2, TraceCovers
  <2> USE DEF Covers, traceFrame, programVars
  <2>4. \A x \in Live : x \in Objs /\ ptr[x] \subseteq Objs
    BY LiveClosed DEF IInv, TypeOK
  <2>5. Tri'
    BY <1>1, <2>2, <2>3, <2>4 DEF IInv, Rest, Tri, White, Unlooked
  <2>6. Scanned'
    BY <1>1, <1>2, <2>3 DEF IInv, Rest, Scanned, White, TypeOK
  <2> QED
    BY <1>3, <1>4, <2>2, <2>5, <2>6 DEF IInv, Rest
<1>6. CASE overflow' /\ UNCHANGED <<work, bits>>
  <2> USE DEF traceFrame, programVars, blockVars, passVars
  <2>1. Live' = Live
    BY <1>1, SameLive
  <2>2. TypeOK' /\ Tri' /\ Scanned'
    BY <1>1, <1>2, <1>6 DEF IInv, TypeOK, Tri, Scanned
  <2>3. Queues'
    BY <1>1, <1>2, <1>6 DEF IInv, Rest, Queues, Fin
  <2>4. Layout'
    BY <1>1, <1>2, <1>6 DEF IInv, Rest, Layout, Fin
  <2>5. Colors'
    BY <1>1, <1>2, <1>6, <2>1 DEF IInv, Rest, Colors, Fin
  <2> QED
    BY <1>3, <1>4, <2>2, <2>3, <2>4, <2>5 DEF IInv, Rest
<1> QED
  BY <1>5, <1>6 DEF MarkQueueAndStack

LEMMA HandleStep ==
  ASSUME IInv, HandleMarkStackOverflow
  PROVE  IInv'
<1>1. /\ UNCHANGED traceFrame /\ UNCHANGED <<pc, loop>>
      /\ pc = "handle" /\ work = {}
  BY DEF HandleMarkStackOverflow, traceFrame
<1>2. PICK o \in todo :
         /\ todo' = todo \ {o}
         /\ IF bits[o] = "marked" THEN Trace(ptr[o], work, {o})
                                  ELSE UNCHANGED <<work, overflow, bits>>
  BY DEF HandleMarkStackOverflow, MarkItem
<1>3. marking /\ ~Fin /\ o \in Objs /\ locals = {}
  BY <1>1 DEF IInv, Rest, Modes, Fin, TypeOK, InCallback
<1> USE DEF traceFrame, programVars, blockVars, passVars
<1>4. Modes'
  BY <1>1 DEF IInv, Rest, Modes, InCallback, Fin
<1>5. /\ roots \cup frame \subseteq Live
      /\ \A x \in Live : x \in Objs /\ ptr[x] \subseteq Live /\ ptr[x] \subseteq Objs
  BY LiveClosed DEF IInv, TypeOK
<1>6. Unlooked' = Unlooked \ {o} /\ todo' \subseteq Objs
  BY <1>1, <1>2 DEF Unlooked, IInv, TypeOK
<1>7. CASE bits[o] = "marked"
  <2>1. /\ ptr[o] \in SUBSET Objs /\ work \in SUBSET work /\ {o} \in SUBSET Objs
        /\ work \subseteq work \cup {o}
        /\ \A x \in {o} : bits[x] # "free" /\ ptr[x] \subseteq ptr[o]
        /\ ~collecting => {o} \cap (work \cup barrier) = {}
    BY <1>1, <1>3, <1>7 DEF IInv, Rest, Queues, TypeOK
  <2>2. TypeOK' /\ Queues' /\ Layout' /\ Colors' /\ Live' = Live
    <3>1. pc' \in Pcs \ {"start", "finalize", "finalizer"} /\ loop' \in 1..3 /\ todo' \subseteq Objs
      BY <1>1, <1>6 DEF IInv, TypeOK, Pcs
    <3>2. TypeOK /\ Modes /\ Queues /\ Layout /\ Colors
      BY DEF IInv, Rest
    <3> QED
      BY <1>1, <1>2, <1>3, <1>7, <2>1, <3>1, <3>2, TraceKeeps
  <2>3. Covers(ptr[o], {o})
    BY <1>1, <1>2, <1>7, <2>1, <2>2, TraceCovers
  <2> USE DEF Covers
  <2>4. Tri'
    BY <1>1, <1>5, <1>6, <2>2, <2>3 DEF IInv, Rest, Tri, White
  <2>5. Scanned'
    BY <1>1, <2>3 DEF IInv, Rest, Scanned, White, TypeOK
  <2>6. Covered'
    <3> SUFFICES ASSUME collecting' PROVE Covered'
      BY DEF Covered
    <3>1. stack' \subseteq Marked'
      BY <1>1, <1>3, <2>3 DEF IInv, Rest, Covered
    <3>2. ASSUME ~overflow'
          PROVE  /\ (roots \cup frame)' \subseteq Marked' \cup Grey'
                 /\ \A x \in Live' \ Unlooked' : bits'[x] = "marked" => ptr'[x] \subseteq Marked' \cup Grey'
      <4>1. /\ roots \cup frame \subseteq Marked \cup Grey
            /\ \A x \in Live \ Unlooked : bits[x] = "marked" => ptr[x] \subseteq Marked \cup Grey
        BY <1>1, <1>3, <2>3, <3>2 DEF IInv, Rest, Covered
      <4>2. /\ ptr[o] \cap Live \subseteq Marked' \cup Grey'
            /\ Live \cap (Marked \cup Grey) \subseteq Marked' \cup Grey'
        BY <1>1, <2>3, <3>2
      <4>3. (roots \cup frame)' = roots \cup frame
        BY <1>1 DEF frame
      <4> QED
        BY <1>1, <1>5, <1>6, <2>2, <2>3, <4>1, <4>2, <4>3
    <3> QED
      BY <3>1, <3>2 DEF Covered
  <2> QED
    BY <1>4, <2>2, <2>4, <2>5, <2>6 DEF IInv, Rest
<1>8. CASE bits[o] # "marked"
  <2>1. UNCHANGED <<work, overflow, bits>>
    BY <1>2, <1>8
  <2>2. Live' = Live /\ Grey' = Grey /\ Marked' = Marked
    BY <1>1, <2>1, SameLive, SameGrey DEF Marked
  <2>3. TypeOK'
    BY <1>1, <1>6, <2>1 DEF IInv, TypeOK
  <2>4. Queues'
    BY <1>1, <1>3, <2>1 DEF IInv, Rest, Queues, Fin
  <2>5. Layout'
    BY <1>1, <1>3, <2>1 DEF IInv, Rest, Layout, Fin
  <2>6. Colors'
    BY <1>1, <1>3, <2>1, <2>2 DEF IInv, Rest, Colors, Fin
  <2>7. Tri'
    BY <1>1, <1>6, <1>8, <2>1, <2>2 DEF IInv, Rest, Tri, White
  <2>8. Scanned'
    BY <1>1, <2>1 DEF IInv, Rest, Scanned, White
  <2>9. Covered'
    BY <1>1, <1>3, <1>6, <1>8, <2>1, <2>2 DEF IInv, Rest, Covered, frame
  <2> QED
    BY <1>4, <2>3, <2>4, <2>5, <2>6, <2>7, <2>8, <2>9 DEF IInv, Rest
<1> QED
  BY <1>7, <1>8

LEMMA FlushStep ==
  ASSUME IInv, Flush \/ CheckBarrierWork
  PROVE  IInv'
<1>1. /\ UNCHANGED <<programVars, weak, bits, finalizable, marking, collecting, loop, todo,
                     blockVars, passVars>>
      /\ pc \in {"flush", "final", "run"} /\ marking
      /\ pc' \in {"roots", "drain", "stack", "run"}
      /\ pc' = "roots" \/ pc' = "stack" => loop = 2
      /\ (pc' = "run") = (pc = "run")
  <2>1. CASE Flush
    <3>1. marking /\ (pc = "final" => loop = 2) /\ loop \in 1..2
      BY <2>1 DEF Flush, IInv, Rest, Modes, TypeOK
    <3> QED
      BY <2>1, <3>1 DEF Flush
  <2>2. CASE CheckBarrierWork
    BY <2>2 DEF CheckBarrierWork
  <2> QED
    BY <2>1, <2>2
<1>2. ~collecting /\ ~Fin /\ ~Fin' /\ locals = {} /\ dying = None
  BY <1>1 DEF IInv, Rest, Modes, Fin, InCallback
<1>3. PICK moved \in SUBSET barrier :
        /\ work' = work \cup moved /\ barrier' = barrier \ moved
        /\ overflow' \in BOOLEAN
        /\ ~overflow' => ~overflow /\ (pc # "run" => moved = barrier)
  BY DEF Flush, FlushBarrierWork, CheckBarrierWork, IInv, TypeOK
<1> USE DEF programVars, blockVars, passVars
<1>4. Live' = Live
  BY <1>1, SameLive
<1>5. TypeOK'
  <2>1. pc' \in Pcs
    BY <1>1 DEF Pcs
  <2> QED
    BY <1>1, <1>3, <2>1 DEF IInv, TypeOK
<1>6. Modes'
  BY <1>1, <1>2 DEF IInv, Rest, Modes, InCallback, Fin
<1>7. Queues'
  BY <1>1, <1>2, <1>3 DEF IInv, Rest, Queues
<1>8. Layout'
  BY <1>1, <1>2 DEF IInv, Rest, Layout
<1>9. Colors'
  BY <1>1, <1>2, <1>4 DEF IInv, Rest, Colors
<1>10. Tri'
  BY <1>1, <1>3, <1>4 DEF IInv, Rest, Tri, White, Unlooked
<1>11. Scanned'
  <2> SUFFICES ASSUME ~overflow', loop' = 2 PROVE Scanned'
    BY DEF Scanned
  <2>1. CASE pc = "flush"
    <3>1. pc' = "stack"
      BY <1>1, <2>1 DEF Flush, CheckBarrierWork
    <3> QED
      BY <1>1, <1>2, <1>3, <2>1, <3>1 DEF IInv, Rest, Scanned, White
  <2>2. CASE pc = "final"
    <3>1. pc' = "roots"
      BY <1>1, <2>2 DEF Flush, CheckBarrierWork
    <3> QED
      BY <1>1, <1>2, <1>3, <2>2, <3>1 DEF IInv, Rest, Scanned, White
  <2>3. CASE pc = "run"
    BY <1>1, <2>3 DEF Scanned
  <2> QED
    BY <1>1, <2>1, <2>2, <2>3
<1>12. Covered'
  BY <1>1, <1>2 DEF Covered
<1> QED
  BY <1>5, <1>6, <1>7, <1>8, <1>9, <1>10, <1>11, <1>12 DEF IInv, Rest

(* When the mark stacks are empty after the final scan, what is marked     *)
(* points to what is marked.                                               *)
LEMMA MarkedClosed ==
  ASSUME IInv, pc = "drain", loop = 2, work = {}, ~overflow
  PROVE  /\ marking /\ ~collecting /\ barrier = {}
         /\ roots \cup frame \subseteq Marked \cap Live
         /\ \A x \in Marked \cap Live : ptr[x] \subseteq Marked \cap Live
<1>1. marking /\ ~collecting /\ locals = {}
  BY DEF IInv, Rest, Modes, InCallback
<1>2. barrier = {} /\ White(roots) = {} /\ White(stack) = {}
  BY <1>1 DEF IInv, Rest, Scanned
<1>3. \A x \in Live : x \in Objs /\ (bits[x] # "white" => x \in Marked)
  BY <1>2, LiveClosed DEF IInv, Rest, Queues, Colors, TypeOK, Marked
<1>4. roots \cup frame \subseteq Live /\ \A x \in Live : ptr[x] \subseteq Live
  BY LiveClosed DEF IInv
<1>5. roots \cup frame \subseteq Marked
  BY <1>1, <1>2, <1>3, <1>4 DEF frame, White
<1>6. \A x \in Live : bits[x] = "marked" => White(ptr[x]) = {}
  BY <1>1 DEF IInv, Rest, Tri, Unlooked
<1>7. \A x \in Marked \cap Live : ptr[x] \subseteq Marked
  BY <1>3, <1>4, <1>6 DEF White, Marked
<1> QED
  BY <1>1, <1>2, <1>4, <1>5, <1>7

LEMMA StartSweepStep ==
  ASSUME IInv, StartSweep
  PROVE  IInv'
<1> USE DEF StartSweep, programVars, passVars
<1>1. /\ marking /\ ~collecting /\ barrier = {}
      /\ roots \cup frame \subseteq Marked \cap Live
      /\ \A x \in Marked \cap Live : ptr[x] \subseteq Marked \cap Live
  BY MarkedClosed
<1>2. Live' = Live /\ Grey' = Grey /\ Marked' = Marked /\ frame' = frame
  BY SameLive, SameGrey DEF Marked, frame
<1>3. /\ sweepList = {} /\ done = {} /\ empty = {} /\ cur = None /\ nxt = None /\ after = {}
      /\ dying = None /\ locals = {}
  BY <1>1 DEF IInv, Rest, Modes, Fin, InCallback
<1>4. /\ blocks' \subseteq blocks
      /\ \A o \in Objs : bits[o] # "free" /\ BlockOf[o] \in blocks => BlockOf[o] \in blocks'
  BY DEF GiveBack, Members
<1>5. TypeOK'
  BY <1>1, <1>4 DEF IInv, TypeOK, Pcs
<1>6. Modes'
  BY <1>1, <1>3 DEF IInv, Rest, Modes, InCallback, Fin
<1>7. Queues'
  BY <1>1, <1>3 DEF IInv, Rest, Queues, Fin
<1>8. Layout'
  BY <1>1, <1>3, <1>4 DEF IInv, Rest, Layout, Fin
<1>9. Colors'
  BY <1>1, <1>2, <1>3 DEF IInv, Rest, Colors, Fin
<1>10. Tri' /\ Scanned'
  BY DEF Tri, Scanned
<1>11. Covered'
  <2>1. stack \subseteq frame /\ \A x \in Live : bits[x] = "marked" => x \in Marked
    BY LiveClosed DEF IInv, frame, Marked
  <2>2. \A x \in Live' : bits'[x] = "marked" => x \in Marked \cap Live
    BY <1>2, <2>1
  <2> QED
    BY <1>1, <1>2, <2>1, <2>2 DEF Covered
<1> QED
  BY <1>5, <1>6, <1>7, <1>8, <1>9, <1>10, <1>11 DEF IInv, Rest

LEMMA EndPresweepStep ==
  ASSUME IInv, EndPresweep
  PROVE  IInv'
<1> USE DEF EndPresweep, passVars, blockVars
<1>1. /\ marking /\ collecting /\ ~Fin /\ ~Fin' /\ dying = None
      /\ pc' \in {"restart", "drain"}
  BY DEF IInv, Rest, Modes, Fin
<1>2. roots \cup frame \cup weak \subseteq Live /\ \A x \in Live : ptr[x] \subseteq Live
  BY LiveClosed DEF IInv
<1>3. frame' \subseteq frame
  BY DEF frame
<1>4. Live' \subseteq Live
  BY <1>2, <1>3, LiveShrinks DEF IInv
<1>5. Grey' = Grey /\ Marked' = Marked
  BY SameGrey DEF Marked
<1>6. TypeOK'
  <2>1. pc' \in Pcs
    BY <1>1 DEF Pcs
  <2>2. loop' \in 1..3 /\ overflow' \in BOOLEAN
    <3>1. loop' \in 1..3
      OBVIOUS
    <3>2. overflow' \in BOOLEAN
      BY Zenon
    <3> QED
      BY <3>1, <3>2
  <2>3. UNCHANGED <<ptr, roots, stack, weak, bits, finalizable, work, barrier, marking, collecting, todo>>
    OBVIOUS
  <2>4. UNCHANGED <<blocks, sweepList, done, empty, cur, nxt, after, dying>> /\ locals' \subseteq Objs
    OBVIOUS
  <2> QED
    BY <2>1, <2>2, <2>3, <2>4 DEF IInv, TypeOK
<1>7. Modes'
  BY <1>1 DEF IInv, Rest, Modes, InCallback, Fin
<1>8. Queues'
  BY <1>1 DEF IInv, Rest, Queues
<1>9. Layout'
  BY <1>1 DEF IInv, Rest, Layout
<1>10. Colors'
  BY <1>1, <1>4 DEF IInv, Rest, Colors
<1>11. Tri' /\ Scanned'
  BY <1>1 DEF Tri, Scanned
<1>12. Covered'
  BY <1>1, <1>3, <1>4, <1>5 DEF IInv, Rest, Covered, Unlooked
<1> QED
  BY <1>6, <1>7, <1>8, <1>9, <1>10, <1>11, <1>12 DEF IInv, Rest

LEMMA NextIsOf ==
  ASSUME NEW B \in SUBSET Blocks, NextOf(B)
  PROVE  /\ nxt' \in Blocks \cup {None} /\ after' \subseteq B /\ (nxt' # None => nxt' \in B)
         /\ B \subseteq {nxt'} \cup after' /\ nxt' \notin after' /\ None \notin B
         /\ after' # {} => nxt' # None
BY GCAssumption DEF NextOf

LEMMA StartFinalizeStep ==
  ASSUME IInv, StartFinalize
  PROVE  IInv'
<1> USE DEF StartFinalize, programVars, markVars, blockVars
<1>1. /\ marking /\ collecting /\ ~Fin /\ Fin' /\ dying = None /\ cur = None
      /\ sweepList = {} /\ done = {} /\ empty = {} /\ locals = {} /\ barrier = {}
  BY DEF IInv, Rest, Modes, Fin, InCallback, Queues
<1>2. Grey = {}
  BY GreyWithin DEF IInv
<1>3. /\ roots \cup frame \subseteq Marked /\ \A x \in Live : bits[x] = "marked" => ptr[x] \subseteq Marked
  BY <1>1, <1>2 DEF IInv, Rest, Covered, Unlooked
<1>4. Live' \subseteq Marked \cap Live
  <2>1. roots \cup frame \cup weak \subseteq Live /\ Live \subseteq Objs /\ \A x \in Live : ptr[x] \subseteq Live
    BY LiveClosed DEF IInv
  <2>2. (roots \cup frame \cup weak)' \subseteq Marked \cap Live
    BY <1>3, <2>1 DEF Marked, frame
  <2>3. Marked \cap Live \in SUBSET Objs /\ \A x \in Marked \cap Live : ptr'[x] \subseteq Marked \cap Live
    BY <1>3, <2>1 DEF Marked
  <2> QED
    BY <2>2, <2>3, LiveWithin
<1>5. /\ blocks \in SUBSET Blocks
      /\ nxt' \in Blocks \cup {None} /\ after' \subseteq blocks /\ (nxt' # None => nxt' \in blocks)
      /\ blocks \subseteq {nxt'} \cup after' /\ nxt' \notin after' /\ None \notin blocks
      /\ after' # {} => nxt' # None
  <2>1. blocks \in SUBSET Blocks
    BY DEF IInv, TypeOK
  <2> QED
    BY <2>1, NextIsOf
<1>6. TypeOK'
  BY <1>5 DEF IInv, TypeOK, Pcs
<1>7. Modes'
  BY <1>1, <1>5 DEF IInv, Rest, Modes, InCallback, Fin
<1>8. Queues'
  BY <1>1 DEF IInv, Rest, Queues
<1>9. Layout'
  BY <1>1, <1>5 DEF IInv, Rest, Layout
<1>10. Colors'
  <2>1. \A o \in Objs : BlockOf[o] \in Blocks
    BY DEF Blocks
  <2>2. \A o \in Live' : bits'[o] = "marked" /\ bits'[o] # "free" /\ BlockOf[o] \notin empty'
    BY <1>1, <1>4 DEF Marked
  <2>3. Unflipped' = Blocks
    BY <1>1 DEF Unflipped
  <2> QED
    BY <1>1, <2>1, <2>2, <2>3 DEF Colors
<1>11. Tri' /\ Scanned' /\ Covered'
  BY <1>1 DEF Tri, Scanned, Covered
<1> QED
  BY <1>6, <1>7, <1>8, <1>9, <1>10, <1>11 DEF IInv, Rest

LEMMA PassStep ==
  ASSUME IInv, FinalizeBlock \/ (\E o \in Objs : StartFinalizer(o))
  PROVE  IInv'
<1> USE DEF programVars, markVars, blockVars
<1>1. /\ UNCHANGED <<programVars, weak, bits, markVars, marking, collecting, loop, todo, blockVars>>
      /\ finalizable' \subseteq finalizable
      /\ marking /\ collecting /\ Fin /\ Fin' /\ pc = "finalize" /\ locals = {} /\ dying = None
  BY DEF FinalizeBlock, StartFinalizer, IInv, Rest, Modes, Fin, InCallback
<1>2. Live' = Live
  BY <1>1, SameLive
<1>3. Queues'
  BY <1>1 DEF IInv, Rest, Queues
<1>4. Colors'
  BY <1>1, <1>2 DEF IInv, Rest, Colors, Unflipped, Fin
<1>5. Tri' /\ Scanned' /\ Covered'
  BY <1>1 DEF Tri, Scanned, Covered
<1>6. CASE FinalizeBlock
  <2> USE DEF FinalizeBlock
  <2>1. /\ after \in SUBSET Blocks
        /\ nxt' \in Blocks \cup {None} /\ after' \subseteq after /\ (nxt' # None => nxt' \in after)
        /\ after \subseteq {nxt'} \cup after' /\ nxt' \notin after' /\ None \notin after
        /\ after' # {} => nxt' # None
    <3>1. after \in SUBSET Blocks
      BY DEF IInv, TypeOK
    <3> QED
      BY <1>6, <3>1, NextIsOf
  <2>2. TypeOK'
    BY <1>1, <1>6, <2>1 DEF IInv, TypeOK
  <2>3. Modes'
    BY <1>1, <1>6, <2>1 DEF IInv, Rest, Modes, InCallback, Fin
  <2>4. Layout'
    <3>1. /\ cur = None /\ cur' = nxt /\ nxt \in blocks \ done /\ after \subseteq blocks \ done
          /\ nxt \notin after /\ None \notin blocks
      BY <1>6, GCAssumption DEF IInv, Rest, Layout, TypeOK
    <3>2. blocks \subseteq done \cup {nxt} \cup after
      BY <1>1, <3>1 DEF IInv, Rest, Layout
    <3>3. /\ blocks \subseteq done \cup {cur', nxt'} \cup after'
          /\ ({cur', nxt'} \ {None}) \cup after' \subseteq blocks \ done
          /\ cur' # nxt' /\ {cur', nxt'} \cap after' = {}
      BY <2>1, <3>1, <3>2
    <3>4. /\ \A o \in Objs : bits[o] # "free" => BlockOf[o] \in blocks \cup empty
          /\ blocks \cap empty = {} /\ sweepList \subseteq blocks /\ sweepList \subseteq done
      BY <1>1 DEF IInv, Rest, Layout
    <3>5. UNCHANGED <<bits, blocks, empty, done, sweepList>> /\ dying' = None
      BY <1>1, <1>6
    <3> QED
      BY <3>3, <3>4, <3>5 DEF Layout
  <2> QED
    BY <1>3, <1>4, <1>5, <2>2, <2>3, <2>4 DEF IInv, Rest
<1>7. CASE \E o \in Objs : StartFinalizer(o)
  <2>1. PICK o \in Objs : StartFinalizer(o)
    BY <1>7
  <2> USE DEF StartFinalizer
  <2>2. o # None /\ dying' = o /\ bits[o] = "white" /\ BlockOf[o] = cur
    BY <2>1, GCAssumption DEF White, Members
  <2>3. TypeOK'
    BY <1>1, <2>1, <2>2 DEF IInv, TypeOK, Pcs
  <2>4. Modes'
    BY <1>1, <2>1, <2>2 DEF IInv, Rest, Modes, InCallback, Fin
  <2>5. Layout'
    BY <1>1, <2>1, <2>2 DEF IInv, Rest, Layout
  <2> QED
    BY <1>3, <1>4, <1>5, <2>3, <2>4, <2>5 DEF IInv, Rest
<1> QED
  BY <1>6, <1>7

LEMMA EndFinalizerStep ==
  ASSUME IInv, EndFinalizer
  PROVE  IInv'
<1> USE DEF EndFinalizer, markVars, blockVars
<1>1. marking /\ collecting /\ Fin /\ Fin'
  BY DEF IInv, Rest, Modes, Fin
<1>2. roots \cup frame \cup weak \subseteq Live /\ \A x \in Live : ptr[x] \subseteq Live
  BY LiveClosed DEF IInv
<1>3. (roots \cup frame \cup weak)' \subseteq Live /\ \A x \in Live : ptr'[x] \subseteq Live
  BY <1>2 DEF frame
<1>4. Live' \subseteq Live
  BY <1>3, LiveShrinks DEF IInv
<1>5. TypeOK'
  BY <1>1 DEF IInv, TypeOK, Pcs
<1>6. Modes'
  BY <1>1 DEF IInv, Rest, Modes, InCallback, Fin
<1>7. Queues'
  BY <1>1 DEF IInv, Rest, Queues
<1>8. Layout'
  BY <1>1 DEF IInv, Rest, Layout
<1>9. Colors'
  BY <1>1, <1>4 DEF IInv, Rest, Colors, Unflipped
<1>10. Tri' /\ Scanned' /\ Covered'
  BY <1>1 DEF Tri, Scanned, Covered
<1> QED
  BY <1>5, <1>6, <1>7, <1>8, <1>9, <1>10 DEF IInv, Rest

LEMMA BlockDoneStep ==
  ASSUME IInv, BlockDone
  PROVE  IInv'
<1> DEFINE marked == {o \in Members(cur) : bits[o] = "marked"}
<1>1. /\ UNCHANGED <<ptr, roots, stack, locals, weak, finalizable, work, barrier, overflow,
                     marking, collecting, pc, loop, todo, nxt, after, dying>>
      /\ pc = "finalize" /\ cur # None /\ cur' = None /\ done' = done \cup {cur}
      /\ \/ /\ marked = {} /\ blocks' = blocks \ {cur} /\ empty' = empty \cup {cur}
            /\ UNCHANGED <<bits, sweepList>>
         \/ /\ marked # {} /\ bits' = [o \in Objs |-> IF o \in marked THEN "white" ELSE bits[o]]
            /\ UNCHANGED <<blocks, empty, sweepList>>
         \/ /\ marked # {} /\ sweepList' = sweepList \cup {cur}
            /\ UNCHANGED <<bits, blocks, empty>>
  BY DEF BlockDone, programVars, markVars
<1>2. \A o \in Objs : o \in marked <=> bits[o] = "marked" /\ BlockOf[o] = cur
  BY DEF Members
<1>3. marked \subseteq Objs
  BY DEF Members
<1> HIDE DEF marked
<1>4. /\ marking /\ collecting /\ Fin /\ Fin' /\ dying = None /\ locals = {}
      /\ cur \in Blocks /\ cur \in blocks /\ cur \notin done /\ cur \notin sweepList
      /\ cur # nxt /\ cur \notin after
  BY <1>1 DEF IInv, Rest, Modes, Fin, InCallback, Layout, TypeOK
<1>5. Live' = Live
  BY <1>1, SameLive DEF programVars
<1>6. TypeOK'
  <2>1. bits' \in [Objs -> {"free", "white", "queued", "marked"}]
    BY <1>1 DEF IInv, TypeOK
  <2>2. done' \subseteq Blocks /\ blocks' \subseteq Blocks /\ empty' \subseteq Blocks /\ sweepList' \subseteq Blocks
    BY <1>1, <1>4 DEF IInv, TypeOK
  <2> QED
    BY <1>1, <2>1, <2>2 DEF IInv, TypeOK
<1>7. Modes'
  BY <1>1, <1>4 DEF IInv, Rest, Modes, InCallback, Fin
<1>8. \A o \in Objs : /\ bits'[o] = "free" <=> bits[o] = "free"
                      /\ bits'[o] = "queued" <=> bits[o] = "queued"
                      /\ bits'[o] = "marked" => bits[o] = "marked"
                      /\ BlockOf[o] # cur => bits'[o] = bits[o]
  BY <1>1, <1>2
<1>9. Queues'
  BY <1>1, <1>4, <1>8 DEF IInv, Rest, Queues
<1>10. Layout'
  <2>1. \A o \in Objs : bits'[o] # "free" => BlockOf[o] \in blocks' \cup empty'
    BY <1>1, <1>8 DEF IInv, Rest, Layout
  <2>2. blocks' \cap empty' = {} /\ sweepList' \subseteq blocks' /\ sweepList' \subseteq done'
    BY <1>1, <1>4 DEF IInv, Rest, Layout
  <2>3. blocks' \subseteq done' \cup {cur', nxt'} \cup after'
    BY <1>1, <1>4 DEF IInv, Rest, Layout
  <2>4. ({cur', nxt'} \ {None}) \cup after' \subseteq blocks' \ done'
    BY <1>1, <1>4 DEF IInv, Rest, Layout
  <2>5. {cur', nxt'} \cap after' = {}
    BY <1>1, GCAssumption DEF IInv, Rest, Layout, TypeOK
  <2> QED
    BY <1>1, <1>4, <2>1, <2>2, <2>3, <2>4, <2>5 DEF Layout
<1>11. Colors'
  <2>1. \A o \in Objs : BlockOf[o] \in Blocks
    BY DEF Blocks
  <2>2. \A o \in Live : /\ o \in Objs /\ bits[o] # "free" /\ BlockOf[o] \notin empty
                        /\ BlockOf[o] = cur => bits[o] = "marked"
                        /\ BlockOf[o] \in Unflipped => bits[o] = "marked"
    BY <1>4, LiveClosed DEF IInv, Rest, Colors, Unflipped
  <2>3. \A o \in Objs : bits[o] = "marked" => BlockOf[o] \in Unflipped
    BY <1>4 DEF IInv, Rest, Colors
  <2>4. Unflipped' = (Blocks \ done') \cup sweepList' /\ Unflipped = (Blocks \ done) \cup sweepList
    BY <1>4 DEF Unflipped
  <2>5. /\ Unflipped' \subseteq Unflipped /\ Unflipped \ {cur} \subseteq Unflipped'
        /\ cur \in Unflipped' => bits' = bits
    BY <1>1, <1>4, <2>4
  <2>6. \A o \in Objs : bits'[o] = "marked" => BlockOf[o] \in Unflipped'
    BY <1>1, <1>2, <1>4, <1>8, <2>3, <2>4, <2>5
  <2>7. \A o \in Live' : /\ bits'[o] # "free" /\ BlockOf[o] \notin empty'
                         /\ BlockOf[o] \in Unflipped' => bits'[o] = "marked"
    BY <1>1, <1>2, <1>5, <1>8, <2>2, <2>5
  <2> QED
    BY <1>1, <2>6, <2>7 DEF Colors
<1>12. Tri' /\ Scanned' /\ Covered'
  BY <1>1, <1>4 DEF Tri, Scanned, Covered
<1> QED
  BY <1>6, <1>7, <1>9, <1>10, <1>11, <1>12 DEF IInv, Rest

(* What sweeping the blocks B and freeing F does to the objects. *)
Swept(B, F) ==
  /\ bits' \in [Objs -> Bit] /\ ptr' \in [Objs -> SUBSET Objs] /\ finalizable' \subseteq Objs
  /\ sweepList' = sweepList \ B
  /\ \A x \in Objs : /\ ptr'[x] \subseteq ptr[x]
                     /\ bits'[x] = "free" => ptr'[x] = {} \/ (ptr'[x] = ptr[x] /\ bits[x] = "free")
                     /\ bits[x] = "free" => bits'[x] = "free"
                     /\ x \in F => bits'[x] = "free"
                     /\ BlockOf[x] \in B => bits'[x] \in {"free", "white"}
                     /\ BlockOf[x] \notin B /\ x \notin F => bits'[x] = bits[x]
                     /\ bits[x] = "marked" /\ x \notin F => bits'[x] # "free"
                     /\ bits[x] = "queued" /\ x \notin F => bits'[x] # "free"

LEMMA ReclaimEffect ==
  ASSUME TypeOK, NEW B, NEW F \in SUBSET Objs, Reclaim(B, F)
  PROVE  Swept(B, F)
<1> DEFINE dead == F \cup {o \in Objs : BlockOf[o] \in B /\ bits[o] \in {"white", "free"}}
<1>1. /\ bits' = [o \in Objs |-> IF o \in dead THEN "free"
                                 ELSE IF BlockOf[o] \in B THEN "white" ELSE bits[o]]
      /\ ptr' = [o \in Objs |-> IF o \in dead THEN {} ELSE ptr[o]]
      /\ finalizable' = finalizable \ dead
      /\ sweepList' = sweepList \ B
  BY DEF Reclaim
<1>2. \A x \in Objs : x \in dead <=> x \in F \/ (BlockOf[x] \in B /\ bits[x] \in {"white", "free"})
  OBVIOUS
<1> HIDE DEF dead
<1>3. bits' \in [Objs -> Bit]
  BY <1>1 DEF TypeOK, Bit
<1>4. ptr' \in [Objs -> SUBSET Objs] /\ finalizable' \subseteq Objs
  BY <1>1 DEF TypeOK
<1>5. \A x \in Objs : /\ bits'[x] = IF x \in dead THEN "free"
                                    ELSE IF BlockOf[x] \in B THEN "white" ELSE bits[x]
                      /\ ptr'[x] = IF x \in dead THEN {} ELSE ptr[x]
  BY <1>1
<1>6. ASSUME NEW x \in Objs
      PROVE  /\ ptr'[x] \subseteq ptr[x]
             /\ bits'[x] = "free" => ptr'[x] = {} \/ (ptr'[x] = ptr[x] /\ bits[x] = "free")
             /\ bits[x] = "free" => bits'[x] = "free"
             /\ x \in F => bits'[x] = "free"
             /\ BlockOf[x] \in B => bits'[x] \in {"free", "white"}
             /\ BlockOf[x] \notin B /\ x \notin F => bits'[x] = bits[x]
             /\ bits[x] = "marked" /\ x \notin F => bits'[x] # "free"
             /\ bits[x] = "queued" /\ x \notin F => bits'[x] # "free"
  <2>1. CASE x \in dead
    <3>1. bits'[x] = "free" /\ ptr'[x] = {}
      BY <1>5, <2>1
    <3>2. x \in F \/ (BlockOf[x] \in B /\ bits[x] \in {"white", "free"})
      BY <1>2, <2>1
    <3> QED
      BY <3>1, <3>2
  <2>2. CASE x \notin dead
    BY <1>2, <1>5, <2>2
  <2> QED
    BY <2>1, <2>2
<1> QED
  BY <1>1, <1>3, <1>4, <1>6 DEF Swept

LEMMA EndSweepStep ==
  ASSUME IInv, EndSweep
  PROVE  IInv'
<1>1. PICK eager \in BOOLEAN :
        /\ Reclaim(IF eager THEN sweepList ELSE {}, {o \in Objs : BlockOf[o] \in empty})
        /\ GiveBack(IF eager THEN blocks ELSE {})
  BY DEF EndSweep
<1> DEFINE B == IF eager THEN sweepList ELSE {}
           F == {o \in Objs : BlockOf[o] \in empty}
<1>2. Swept(B, F)
  BY <1>1, ReclaimEffect DEF IInv
<1>3. /\ UNCHANGED <<roots, stack, locals, weak, work, barrier, overflow, todo, cur, nxt, after, dying>>
      /\ pc = "finalize" /\ cur = None /\ nxt = None
      /\ empty' = {} /\ done' = {} /\ ~collecting' /\ ~marking' /\ collecting' = FALSE /\ marking' = FALSE
      /\ pc' = "run" /\ loop' = 1
  BY DEF EndSweep, markVars, passVars
<1>4. /\ B \subseteq sweepList /\ sweepList \ B = (IF eager THEN {} ELSE sweepList)
      /\ \A x \in Objs : x \in F <=> BlockOf[x] \in empty
  OBVIOUS
<1>5. /\ blocks' \subseteq blocks
      /\ \A x \in Objs : bits'[x] # "free" /\ BlockOf[x] \in blocks => BlockOf[x] \in blocks'
      /\ ~eager => blocks' = blocks
  BY <1>1 DEF GiveBack, Members
<1> HIDE DEF B, F
<1> USE DEF Swept
<1>6. /\ Fin /\ ~Fin' /\ after = {} /\ dying = None /\ locals = {}
      /\ work = {} /\ barrier = {} /\ ~overflow
      /\ blocks \subseteq done
  BY <1>3, GCAssumption DEF IInv, Rest, Modes, Fin, InCallback, Queues, Layout, TypeOK
<1>7. Live' \subseteq Live
  <2>1. roots \cup frame \cup weak \subseteq Live /\ Live \subseteq Objs /\ \A x \in Live : ptr[x] \subseteq Live
    BY LiveClosed DEF IInv
  <2>2. (roots \cup frame \cup weak)' \subseteq Live
    BY <1>3, <2>1 DEF frame
  <2>3. \A x \in Live : ptr'[x] \subseteq Live
    BY <1>2, <2>1
  <2> QED
    BY <2>2, <2>3, LiveShrinks DEF IInv
<1>8. TypeOK'
  <2>1. bits' \in [Objs -> {"free", "white", "queued", "marked"}]
    BY <1>2 DEF Bit
  <2>2. loop' \in 1..3 /\ pc' \in Pcs
    BY <1>3 DEF Pcs
  <2>3. blocks' \subseteq Blocks /\ sweepList' \subseteq Blocks
    BY <1>2, <1>5 DEF IInv, TypeOK
  <2> QED
    BY <1>2, <1>3, <2>1, <2>2, <2>3 DEF IInv, TypeOK
<1>9. Modes'
  BY <1>3, <1>6 DEF Modes, InCallback
<1>10. Queues'
  BY <1>2, <1>3, <1>6 DEF IInv, Rest, Queues, Bit
<1>11. \A x \in Objs : bits'[x] # "free" => bits[x] # "free" /\ BlockOf[x] \in blocks /\ BlockOf[x] \in blocks'
  BY <1>2, <1>4, <1>5 DEF IInv, Rest, Layout
<1>12. Layout'
  <2>1. sweepList' \subseteq blocks'
    BY <1>2, <1>4, <1>5 DEF IInv, Rest, Layout
  <2> QED
    BY <1>3, <1>6, <1>11, <2>1 DEF Layout
<1>13. Colors'
  <2>1. \A o \in Objs : BlockOf[o] \in Blocks
    BY DEF Blocks
  <2>2. Unflipped' = sweepList \ B /\ Unflipped = (Blocks \ done) \cup sweepList
    BY <1>2, <1>6 DEF Unflipped
  <2>3. \A o \in Objs : bits'[o] = "marked" => BlockOf[o] \in Unflipped'
    <3> TAKE o \in Objs
    <3> HAVE bits'[o] = "marked"
    <3>1. BlockOf[o] \in blocks /\ BlockOf[o] \notin B /\ o \notin F
      BY <1>2, <1>11
    <3>2. bits[o] = "marked"
      BY <1>2, <3>1
    <3>3. BlockOf[o] \in Unflipped
      BY <1>6, <3>2 DEF IInv, Rest, Colors
    <3> QED
      BY <1>6, <2>1, <2>2, <3>1, <3>3
  <2>4. \A o \in Live' : /\ bits'[o] # "free" /\ BlockOf[o] \notin empty'
                         /\ BlockOf[o] \in Unflipped' => bits'[o] = "marked"
    <3> TAKE o \in Live'
    <3>1. /\ o \in Live /\ o \in Objs /\ bits[o] # "free" /\ o \notin F
          /\ BlockOf[o] \in Unflipped => bits[o] = "marked"
      BY <1>4, <1>6, <1>7, LiveClosed DEF IInv, Rest, Colors
    <3>2. BlockOf[o] \in B => bits[o] = "marked"
      BY <1>4, <2>2, <3>1
    <3>3. BlockOf[o] \notin B => bits'[o] = bits[o]
      BY <1>2, <3>1
    <3> QED
      BY <1>2, <1>3, <2>2, <3>1, <3>2, <3>3
  <2> QED
    BY <1>3, <2>3, <2>4 DEF Colors
<1>14. Tri' /\ Scanned' /\ Covered'
  BY <1>3 DEF Tri, Scanned, Covered
<1> QED
  BY <1>8, <1>9, <1>10, <1>12, <1>13, <1>14 DEF IInv, Rest

(***************************************************************************)
(* The program's steps                                                     *)
(***************************************************************************)

(* Outside the finalization pass the sweep keeps what is in use.           *)
LEMMA SweptKeeps ==
  ASSUME IInv, ~Fin, ~Fin', ~collecting, ~collecting',
         NEW B \in SUBSET sweepList, NEW F \in SUBSET Objs, Swept(B, F),
         Live' \subseteq Live \ F, F \cap (work \cup barrier) = {},
         blocks' \subseteq blocks,
         \A x \in Objs : bits'[x] # "free" /\ BlockOf[x] \in blocks => BlockOf[x] \in blocks',
         sweepList' \subseteq blocks',
         UNCHANGED <<work, barrier, overflow, done, empty, cur, nxt, after, dying>>,
         ~marking' \/ pc' = "start" => ~marking
  PROVE  /\ Queues' /\ Layout'
         /\ \A o \in Live' : bits'[o] # "free" /\ BlockOf[o] \notin empty'
         /\ \A o \in Objs : bits'[o] = "marked" => bits[o] = "marked" /\ BlockOf[o] \notin B
         /\ ~marking => \A o \in Objs : bits'[o] = "marked" => BlockOf[o] \in sweepList'
         /\ ~marking => \A o \in Live' : BlockOf[o] \in sweepList' => bits'[o] = "marked"
<1> USE DEF Swept
<1>1. /\ done = {} /\ empty = {} /\ cur = None /\ nxt = None /\ after = {} /\ dying = None
      /\ B # {} => ~marking
  BY DEF IInv, Rest, Modes, Fin
<1>2. \A o \in Objs : /\ bits'[o] = "marked" => bits[o] = "marked" /\ BlockOf[o] \notin B
                      /\ bits'[o] = "queued" => bits[o] = "queued"
                      /\ bits'[o] # "free" => bits[o] # "free"
  OBVIOUS
<1>3. Queues'
  <2>1. \A o \in Objs : bits'[o] = "queued" => o \in work' \cup barrier'
    BY <1>2 DEF IInv, Rest, Queues
  <2>2. \A o \in work' \cup barrier' : bits'[o] = "queued"
    <3> TAKE o \in work' \cup barrier'
    <3>1. bits[o] = "queued" /\ marking /\ o \in Objs /\ o \notin F
      BY DEF IInv, Rest, Queues, TypeOK
    <3> QED
      BY <1>1, <3>1
  <2>3. \A o \in Objs : (bits'[o] = "free" \/ o \in PointerFree) => ptr'[o] = {}
    BY DEF IInv, Rest, Queues
  <2>4. ~marking' \/ pc' = "start" => work' \cup barrier' = {} /\ ~overflow'
    BY DEF IInv, Rest, Queues
  <2> QED
    BY <2>1, <2>2, <2>3, <2>4 DEF IInv, Rest, Queues
<1>4. Layout'
  <2>1. \A o \in Objs : bits'[o] # "free" => BlockOf[o] \in blocks' \cup empty'
    BY <1>1, <1>2 DEF IInv, Rest, Layout
  <2> QED
    BY <1>1, <2>1 DEF Layout
<1>5. \A o \in Live' : /\ o \in Objs /\ o \notin F /\ bits[o] # "free"
                       /\ ~marking => (BlockOf[o] \in sweepList => bits[o] = "marked")
  <2>1. \A o \in Live : /\ o \in Objs /\ bits[o] # "free"
                        /\ ~marking => (BlockOf[o] \in sweepList => bits[o] = "marked")
    BY LiveClosed DEF IInv, Rest, Colors, Unflipped
  <2> QED
    BY <2>1
<1>6. \A o \in Live' : bits'[o] # "free" /\ BlockOf[o] \notin empty'
  <2> TAKE o \in Live'
  <2>1. CASE BlockOf[o] \in B
    <3>1. bits[o] = "marked"
      BY <1>1, <1>5, <2>1
    <3> QED
      BY <1>1, <1>5, <3>1
  <2>2. CASE BlockOf[o] \notin B
    BY <1>1, <1>5, <2>2
  <2> QED
    BY <2>1, <2>2
<1>7. ~marking => \A o \in Objs : bits'[o] = "marked" => BlockOf[o] \in sweepList'
  BY <1>2 DEF IInv, Rest, Colors, Unflipped
<1>8. ~marking => \A o \in Live' : BlockOf[o] \in sweepList' => bits'[o] = "marked"
  BY <1>5
<1> QED
  BY <1>2, <1>3, <1>4, <1>6, <1>7, <1>8

LEMMA SweepStep ==
  ASSUME IInv, StartIncrementalMark \/ AllocSweep
  PROVE  IInv'
<1>1. PICK B \in SUBSET sweepList :
        /\ Reclaim(B, {})
        /\ GiveBack(B) \/ (StartIncrementalMark /\ GiveBack(blocks))
        /\ StartIncrementalMark => B = sweepList
  <2>1. CASE StartIncrementalMark
    BY <2>1 DEF StartIncrementalMark
  <2>2. CASE AllocSweep /\ ~StartIncrementalMark
    <3>1. PICK b \in sweepList : Reclaim({b}, {}) /\ GiveBack({b})
      BY <2>2 DEF AllocSweep
    <3>2. {b} \in SUBSET sweepList
      OBVIOUS
    <3> QED
      BY <2>2, <3>1, <3>2
  <2> QED
    BY <2>1, <2>2
<1>2. Swept(B, {})
  BY <1>1, ReclaimEffect DEF IInv
<1>3. /\ UNCHANGED <<roots, stack, locals, weak, work, barrier, overflow, collecting, loop, todo,
                     done, empty, cur, nxt, after, dying>>
      /\ pc \in {"run", "alloc"} /\ ~marking
      /\ pc' \in {"start", "alloc"} /\ marking' = (pc' = "start")
      /\ StartIncrementalMark = (pc' = "start")
  <2>1. CASE StartIncrementalMark
    BY <2>1 DEF StartIncrementalMark, AllocSweep, markVars, passVars
  <2>2. CASE AllocSweep
    <3>1. sweepList # {} /\ pc \in {"run", "alloc"}
      BY <2>2 DEF AllocSweep
    <3>2. ~marking
      BY <3>1 DEF IInv, Rest, Modes, Fin
    <3> QED
      BY <2>2, <3>1, <3>2 DEF StartIncrementalMark, AllocSweep, markVars, passVars, IInv, TypeOK
  <2> QED
    BY <2>1, <2>2
<1>4. /\ ~Fin /\ ~Fin' /\ ~collecting /\ ~collecting' /\ locals = {} /\ loop # 3
      /\ done = {} /\ empty = {} /\ cur = None /\ nxt = None /\ after = {} /\ dying = None
  BY <1>3 DEF IInv, Rest, Modes, Fin, InCallback, TypeOK
<1>5. /\ blocks' \subseteq blocks
      /\ \A x \in Objs : bits'[x] # "free" /\ BlockOf[x] \in blocks => BlockOf[x] \in blocks'
      /\ sweepList' \subseteq blocks'
  <2>1. sweepList' = sweepList \ B /\ sweepList \subseteq blocks
    BY <1>2 DEF Swept, IInv, Rest, Layout
  <2>2. CASE GiveBack(B)
    BY <2>1, <2>2 DEF GiveBack, Members
  <2>3. CASE GiveBack(blocks) /\ B = sweepList
    BY <2>1, <2>3 DEF GiveBack, Members
  <2> QED
    BY <1>1, <2>2, <2>3
<1>6. Live' \subseteq Live
  <2>1. roots \cup frame \cup weak \subseteq Live /\ Live \subseteq Objs /\ \A x \in Live : ptr[x] \subseteq Live
    BY LiveClosed DEF IInv
  <2>2. (roots \cup frame \cup weak)' \subseteq Live
    BY <1>3, <2>1 DEF frame
  <2>3. \A x \in Live : ptr'[x] \subseteq Live
    BY <1>2, <2>1 DEF Swept
  <2> QED
    BY <2>2, <2>3, LiveShrinks DEF IInv
<1>7. /\ Queues' /\ Layout'
      /\ \A o \in Live' : bits'[o] # "free" /\ BlockOf[o] \notin empty'
      /\ \A o \in Objs : bits'[o] = "marked" => bits[o] = "marked" /\ BlockOf[o] \notin B
      /\ \A o \in Objs : bits'[o] = "marked" => BlockOf[o] \in sweepList'
      /\ \A o \in Live' : BlockOf[o] \in sweepList' => bits'[o] = "marked"
  BY <1>2, <1>3, <1>4, <1>5, <1>6, SweptKeeps
<1>8. TypeOK'
  <2>1. bits' \in [Objs -> {"free", "white", "queued", "marked"}]
    BY <1>2 DEF Bit, Swept
  <2>2. pc' \in Pcs /\ marking' \in BOOLEAN
    BY <1>3 DEF Pcs
  <2>3. blocks' \subseteq Blocks /\ sweepList' \subseteq Blocks
    BY <1>2, <1>5 DEF IInv, TypeOK, Swept
  <2> QED
    BY <1>2, <1>3, <1>4, <2>1, <2>2, <2>3 DEF IInv, TypeOK, Swept
<1>9. pc' = "start" => sweepList' = {} /\ \A o \in Objs : bits'[o] # "marked"
  BY <1>1, <1>2, <1>3, <1>7 DEF Swept
<1>10. Modes'
  BY <1>3, <1>4, <1>9 DEF Modes, InCallback
<1>11. Colors'
  BY <1>3, <1>4, <1>7, <1>9 DEF Colors, Unflipped, Marked
<1>12. Tri'
  BY <1>3, <1>7, <1>8, <1>9, <1>6, LiveClosed DEF Tri, IInv
<1>13. Scanned' /\ Covered'
  BY <1>3, <1>4 DEF Scanned, Covered
<1> QED
  BY <1>7, <1>8, <1>10, <1>11, <1>12, <1>13 DEF IInv, Rest

LEMMA FreeStep ==
  ASSUME NoUses, IInv, NEW o \in Objs, Free(o)
  PROVE  IInv'
<1>1. /\ MayFree(o)
      /\ UNCHANGED <<roots, work, barrier, overflow, marking, collecting, pc, loop, todo, done, empty,
                     cur, nxt, after, dying>>
      /\ stack' = stack \ {o} /\ locals' = locals \ {o} /\ weak' = weak \ {o}
  BY DEF Free, markVars, passVars
<1>2. pc = "run" \/ pc = "finalizer"
  BY DEF Free, InProgram, InCallback, NoUses
<1>3. /\ collecting <=> pc = "finalizer"
      /\ pc = "finalizer" <=> Fin
      /\ ~collecting => locals = {}
      /\ Fin' <=> Fin
  BY <1>1, <1>2 DEF IInv, Rest, Modes, Fin, InCallback, TypeOK
<1>4. CASE marking /\ (collecting \/ bits[o] = "queued")
  <2>1. ptr' = [ptr EXCEPT ![o] = {}] /\ finalizable' = finalizable \ {o} /\ UNCHANGED <<bits, blocks, sweepList>>
    BY <1>4 DEF Free
  <2>2. ptr' \in [Objs -> SUBSET Objs] /\ \A x \in Objs : ptr'[x] \subseteq ptr[x]
    BY <2>1 DEF IInv, TypeOK
  <2>3. Live' \subseteq Live
    BY <1>1, <2>2, FreedIsDead DEF IInv
  <2>4. TypeOK'
    BY <1>1, <2>1, <2>2 DEF IInv, TypeOK
  <2>5. Modes'
    BY <1>1, <2>1 DEF IInv, Rest, Modes, InCallback, Fin
  <2>6. Queues'
    BY <1>1, <1>3, <2>1, <2>2 DEF IInv, Rest, Queues
  <2>7. Layout'
    BY <1>1, <1>3, <2>1 DEF IInv, Rest, Layout
  <2>8. Colors'
    BY <1>1, <1>3, <2>1, <2>3 DEF IInv, Rest, Colors, Unflipped, Marked
  <2>9. Tri'
    <3>1. \A x \in Live' : x \in Live /\ x \in Objs /\ ptr'[x] \subseteq ptr[x]
      BY <2>2, <2>3, LiveClosed DEF IInv
    <3> QED
      BY <1>1, <2>1, <3>1 DEF IInv, Rest, Tri, White, Unlooked
  <2>10. Scanned' /\ Covered'
    BY <1>1, <1>2, <1>3 DEF Scanned, Covered
  <2> QED
    BY <2>4, <2>5, <2>6, <2>7, <2>8, <2>9, <2>10 DEF IInv, Rest
<1>5. CASE ~(marking /\ (collecting \/ bits[o] = "queued"))
  <2> DEFINE B == {BlockOf[o]} \cap sweepList
             F == {o}
  <2>1. Reclaim(B, F) /\ GiveBack(B)
    BY <1>5 DEF Free
  <2>2. B \in SUBSET sweepList /\ F \in SUBSET Objs
    OBVIOUS
  <2>3. Swept(B, F)
    BY <2>1, <2>2, ReclaimEffect DEF IInv
  <2>4. /\ ~collecting /\ pc = "run" /\ ~Fin /\ ~Fin' /\ locals = {} /\ ~collecting'
        /\ marking => bits[o] # "queued"
    BY <1>1, <1>2, <1>3, <1>5 DEF IInv, TypeOK
  <2>5. F \cap (work \cup barrier) = {}
    BY <2>4 DEF IInv, Rest, Queues
  <2>6. \A x \in Objs : ptr'[x] \subseteq ptr[x]
    BY <2>3 DEF Swept
  <2>7. Live' \subseteq Live \ F
    BY <1>1, <2>6, FreedIsDead DEF IInv
  <2>8. /\ blocks' \subseteq blocks
        /\ \A x \in Objs : bits'[x] # "free" /\ BlockOf[x] \in blocks => BlockOf[x] \in blocks'
        /\ sweepList' \subseteq blocks'
    <3>1. sweepList' = sweepList \ B /\ sweepList \subseteq blocks
      BY <2>3 DEF Swept, IInv, Rest, Layout
    <3> HIDE DEF B
    <3> QED
      BY <2>1, <3>1 DEF GiveBack, Members
  <2> HIDE DEF B, F
  <2>9. /\ Queues' /\ Layout'
        /\ \A x \in Live' : bits'[x] # "free" /\ BlockOf[x] \notin empty'
        /\ \A x \in Objs : bits'[x] = "marked" => bits[x] = "marked" /\ BlockOf[x] \notin B
        /\ ~marking => \A x \in Objs : bits'[x] = "marked" => BlockOf[x] \in sweepList'
        /\ ~marking => \A x \in Live' : BlockOf[x] \in sweepList' => bits'[x] = "marked"
    <3>1. ~marking' \/ pc' = "start" => ~marking
      BY <1>1, <2>4
    <3> QED
      BY <1>1, <2>2, <2>3, <2>4, <2>5, <2>7, <2>8, <3>1, SweptKeeps
  <2>10. TypeOK'
    <3>1. bits' \in [Objs -> {"free", "white", "queued", "marked"}]
      BY <2>3 DEF Bit, Swept
    <3>2. blocks' \subseteq Blocks /\ sweepList' \subseteq Blocks
      BY <2>3, <2>8 DEF IInv, TypeOK, Swept
    <3> QED
      BY <1>1, <2>3, <3>1, <3>2 DEF IInv, TypeOK, Swept
  <2>11. Modes'
    BY <1>1, <2>3, <2>4 DEF IInv, Rest, Modes, InCallback, Fin, Swept
  <2>12. Colors'
    BY <1>1, <2>4, <2>9 DEF Colors, Unflipped
  <2>13. Tri'
    <3> SUFFICES ASSUME marking, ~overflow, NEW x \in Live', bits'[x] = "marked", NEW y \in ptr'[x], bits'[y] = "white"
                 PROVE  FALSE
      BY <1>1, <2>4 DEF Tri, White
    <3>1. sweepList = {} /\ B = {}
      BY <2>2, <2>4 DEF IInv, Rest, Modes
    <3>2. x \in Live /\ x \in Objs /\ bits[x] = "marked" /\ y \in ptr[x] /\ y \in Objs
      BY <2>6, <2>7, <2>9, LiveClosed DEF IInv
    <3>3. bits[y] = "white"
      <4>1. y \notin F
        BY <2>3, <3>2 DEF Swept
      <4> QED
        BY <2>3, <3>1, <3>2, <4>1 DEF Swept
    <3> QED
      BY <2>4, <3>2, <3>3 DEF IInv, Rest, Tri, White, Unlooked
  <2>14. Scanned' /\ Covered'
    BY <1>1, <2>4 DEF Scanned, Covered
  <2> QED
    BY <2>9, <2>10, <2>11, <2>12, <2>13, <2>14 DEF IInv, Rest
<1> QED
  BY <1>4, <1>5

(* A step that moves references between roots, frames and weak references. *)
LEMMA MoveStep ==
  ASSUME IInv, InProgram,
         UNCHANGED <<ptr, bits, finalizable, work, barrier, overflow, marking, collecting, pc, loop, todo,
                     blockVars, passVars>>,
         roots' \subseteq Objs, stack' \subseteq Objs, locals' \subseteq Objs, weak' \subseteq Objs,
         (roots \cup frame \cup weak)' \subseteq Live,
         InCallback => stack' = stack, ~InCallback => locals' = locals,
         pc = "presweep" /\ ~overflow => (roots \cup frame)' \subseteq Marked \cup Grey
  PROVE  IInv'
<1> USE DEF blockVars, passVars
<1>1. Live' \subseteq Live
  <2>1. \A x \in Live : ptr'[x] \subseteq Live
    BY LiveClosed DEF IInv
  <2> QED
    BY <2>1, LiveShrinks DEF IInv
<1>2. Grey' = Grey /\ Marked' = Marked
  BY SameGrey DEF Marked
<1>3. TypeOK'
  BY DEF IInv, TypeOK
<1>4. Modes'
  BY DEF IInv, Rest, Modes, InCallback, Fin
<1>5. Queues'
  BY DEF IInv, Rest, Queues, Fin
<1>6. Layout'
  BY DEF IInv, Rest, Layout, Fin
<1>7. Colors'
  BY <1>1, <1>2 DEF IInv, Rest, Colors, Fin, Unflipped
<1>8. Tri'
  BY <1>1 DEF IInv, Rest, Tri, White, Unlooked
<1>9. Scanned'
  BY DEF Scanned, InProgram, InCallback
<1>10. Covered'
  <2> SUFFICES ASSUME collecting, ~Fin PROVE Covered'
    BY DEF Covered, Fin
  <2>1. pc = "presweep" /\ stack' = stack
    BY DEF InProgram, InCallback, IInv, Rest, Modes, Fin
  <2> QED
    BY <1>1, <1>2, <2>1 DEF IInv, Rest, Covered, Unlooked
<1> QED
  BY <1>3, <1>4, <1>5, <1>6, <1>7, <1>8, <1>9, <1>10 DEF IInv, Rest

(* What a presweep callback reads from what it holds is marked or grey. *)
LEMMA ReadsCovered ==
  ASSUME IInv, pc = "presweep", ~overflow
  PROVE  /\ roots \cup frame \subseteq Marked \cup Grey
         /\ \A c \in Live \cap (Marked \cup Grey) : ptr[c] \subseteq Marked \cup Grey
<1>1. collecting /\ ~Fin /\ Unlooked = {}
  BY DEF IInv, Rest, Modes, Fin, Unlooked
<1> QED
  BY <1>1, GreyClosed DEF IInv, Rest, Covered, Marked

LEMMA ReferStep ==
  ASSUME IInv, NEW o \in Objs, Load(o) \/ GetWeakRef(o) \/ Drop(o) \/ WriteRoot(o)
  PROVE  IInv'
<1>1. /\ InProgram
      /\ UNCHANGED <<ptr, bits, finalizable, work, barrier, overflow, marking, collecting, pc, loop, todo,
                     blockVars, passVars>>
      /\ roots' \subseteq roots \cup {o} /\ weak' \subseteq weak \cup {o}
      /\ stack' \subseteq stack \cup {o} /\ locals' \subseteq locals \cup {o}
      /\ InCallback => stack' = stack
      /\ ~InCallback => locals' = locals
  BY DEF Load, GetWeakRef, Drop, WriteRoot, PushFrame, programVars, markVars, InProgram, InCallback
<1>2. \/ o \in roots \cup UNION {ptr[c] : c \in frame}
      \/ o \in frame
      \/ (roots' \subseteq roots /\ stack' \subseteq stack /\ locals' \subseteq locals /\ weak' \subseteq weak)
  BY DEF Load, GetWeakRef, Drop, WriteRoot, programVars, frame
<1>3. /\ roots \cup frame \cup weak \subseteq Live /\ Live \subseteq Objs
      /\ \A x \in Live : ptr[x] \subseteq Live
  BY LiveClosed DEF IInv
<1>4. (roots \cup frame \cup weak)' \subseteq Live
  BY <1>1, <1>2, <1>3 DEF frame
<1>5. roots' \subseteq Objs /\ stack' \subseteq Objs /\ locals' \subseteq Objs /\ weak' \subseteq Objs
  BY <1>1 DEF IInv, TypeOK
<1>6. ASSUME pc = "presweep", ~overflow PROVE (roots \cup frame)' \subseteq Marked \cup Grey
  <2>1. /\ roots \cup frame \subseteq Marked \cup Grey
        /\ \A c \in Live \cap (Marked \cup Grey) : ptr[c] \subseteq Marked \cup Grey
    BY <1>6, ReadsCovered
  <2> QED
    BY <1>1, <1>2, <1>3, <2>1 DEF frame
<1> QED
  BY <1>1, <1>4, <1>5, <1>6, MoveStep

LEMMA WeakGetStep ==
  ASSUME IInv, NEW o \in Objs, WeakGet(o)
  PROVE  IInv'
<1>1. /\ InProgram /\ o \in weak
      /\ UNCHANGED <<ptr, roots, weak, finalizable, barrier, marking, collecting, pc, loop, todo,
                     blockVars, passVars>>
      /\ stack' \subseteq stack \cup {o} /\ locals' \subseteq locals \cup {o}
      /\ InCallback => stack' = stack
      /\ ~InCallback => locals' = locals
      /\ IF pc = "presweep" /\ bits[o] # "marked" THEN PushOne(o)
         ELSE UNCHANGED <<work, overflow, bits>>
  BY DEF WeakGet, PushFrame
<1>2. /\ roots \cup frame \cup weak \subseteq Live /\ Live \subseteq Objs
      /\ \A x \in Live : ptr[x] \subseteq Live
  BY LiveClosed DEF IInv
<1>3. (roots \cup frame \cup weak)' \subseteq Live
  BY <1>1, <1>2 DEF frame
<1>4. stack' \subseteq Objs /\ locals' \subseteq Objs
  BY <1>1 DEF IInv, TypeOK
<1>5. CASE ~(pc = "presweep" /\ bits[o] # "marked")
  <2>1. ASSUME pc = "presweep", ~overflow PROVE (roots \cup frame)' \subseteq Marked \cup Grey
    <3>1. roots \cup frame \subseteq Marked \cup Grey /\ o \in Marked
      BY <1>5, <2>1, ReadsCovered DEF Marked
    <3> QED
      BY <1>1, <3>1 DEF frame
  <2>2. roots' \subseteq Objs /\ weak' \subseteq Objs
    BY <1>1 DEF IInv, TypeOK
  <2> QED
    BY <1>1, <1>3, <1>4, <1>5, <2>1, <2>2, MoveStep
<1>6. CASE pc = "presweep" /\ bits[o] # "marked"
  <2>1. /\ marking /\ collecting /\ ~Fin /\ ~Fin' /\ dying = None /\ stack' = stack /\ barrier = {}
        /\ pc' = "presweep"
    BY <1>1, <1>6 DEF IInv, Rest, Modes, Fin, InCallback, Queues
  <2>2. PushOne(o)
    BY <1>1, <1>6
  <2>3. /\ bits' \in [Objs -> {"free", "white", "queued", "marked"}]
        /\ overflow' \in BOOLEAN /\ (overflow => overflow')
        /\ \A x \in Objs \ {o} : bits'[x] = bits[x]
        /\ work \subseteq work' /\ work' \subseteq work \cup {o}
        /\ \/ bits'[o] = "queued" /\ o \in work'
           \/ bits'[o] = "white" /\ overflow' /\ work' = work
    BY <2>2 DEF PushOne, IInv, TypeOK
  <2>4. bits[o] # "free" /\ o \in Live
    BY <1>1, <1>2 DEF IInv, Rest, Colors
  <2> USE DEF blockVars, passVars
  <2>5. Live' \subseteq Live
    BY <1>1, <1>2, <1>3, LiveShrinks DEF IInv
  <2>6. Marked' = Marked
    BY <1>6, <2>3 DEF Marked
  <2>7. TypeOK'
    BY <1>1, <1>4, <2>3 DEF IInv, TypeOK
  <2>8. Modes'
    BY <1>1, <2>1 DEF IInv, Rest, Modes, InCallback, Fin
  <2>9. Queues'
    <3>1. \A x \in Objs : bits'[x] = "queued" => x \in work'
      BY <2>1, <2>3 DEF IInv, Rest, Queues
    <3>2. \A x \in work' : bits'[x] # "free"
      BY <2>3, <2>4 DEF IInv, Rest, Queues, TypeOK
    <3>3. \A x \in Objs : (bits'[x] = "free" \/ x \in PointerFree) => ptr'[x] = {}
      BY <1>1, <2>3 DEF IInv, Rest, Queues
    <3> QED
      BY <1>1, <2>1, <3>1, <3>2, <3>3 DEF Queues
  <2>10. Layout'
    <3>1. \A x \in Objs : bits'[x] # "free" => BlockOf[x] \in blocks' \cup empty'
      BY <1>1, <2>3, <2>4 DEF IInv, Rest, Layout
    <3> QED
      BY <1>1, <2>1, <3>1 DEF IInv, Rest, Layout
  <2>11. Colors'
    <3>1. \A x \in Live' : bits'[x] # "free" /\ BlockOf[x] \notin empty'
      BY <1>1, <1>2, <2>3, <2>5 DEF IInv, Rest, Colors
    <3> QED
      BY <1>1, <2>1, <3>1 DEF Colors
  <2>12. Tri' /\ Scanned'
    BY <1>1, <2>1 DEF Tri, Scanned
  <2>13. Covered'
    <3> SUFFICES ASSUME ~overflow'
                 PROVE  /\ (roots \cup frame)' \subseteq Marked' \cup Grey'
                        /\ \A x \in Live' \ Unlooked' : bits'[x] = "marked" => ptr'[x] \subseteq Marked' \cup Grey'
      <4>1. stack' \subseteq Marked'
        BY <2>1, <2>6 DEF IInv, Rest, Covered
      <4> QED
        BY <4>1 DEF Covered
    <3>1. bits'[o] = "queued" /\ o \in work' /\ ~overflow
      BY <2>3
    <3>2. /\ work' \subseteq Grey' /\ Grey' \subseteq Objs
          /\ \A x \in Grey' : bits'[x] # "marked" => ptr'[x] \subseteq Grey'
      BY <2>7, GreyClosedNext
    <3>3. \A x \in Grey' : bits[x] # "marked" => ptr[x] \subseteq Grey'
      BY <1>1, <2>3, <3>1, <3>2
    <3>4. Grey \subseteq Grey'
      BY <2>3, <3>2, <3>3, GreyWithin DEF IInv
    <3>5. /\ roots \cup frame \subseteq Marked \cup Grey
          /\ \A x \in Live : bits[x] = "marked" => ptr[x] \subseteq Marked \cup Grey
      BY <1>6, <2>1, <3>1 DEF IInv, Rest, Covered, Unlooked
    <3>6. (roots \cup frame)' \subseteq roots \cup frame \cup {o}
      BY <1>1 DEF frame
    <3>7. \A x \in Live' : bits'[x] = "marked" => x \in Live /\ bits[x] = "marked"
      BY <1>2, <2>3, <2>5, <3>1
    <3> QED
      BY <1>1, <2>6, <3>1, <3>2, <3>4, <3>5, <3>6, <3>7
  <2> QED
    BY <2>7, <2>8, <2>9, <2>10, <2>11, <2>12, <2>13 DEF IInv, Rest
<1> QED
  BY <1>5, <1>6

(* The write barrier keeps the colors and the stacks consistent. *)
LEMMA WriteStep ==
  ASSUME NoUses, IInv, NEW c \in Objs, Write(c)
  PROVE  IInv'
<1>1. /\ InProgram /\ c \in frame \ PointerFree /\ WriteBarrier(c)
      /\ UNCHANGED <<roots, stack, locals, weak, finalizable, marking, collecting, pc, loop, todo,
                     blockVars, passVars>>
  BY DEF Write
<1>2. /\ roots \cup frame \cup weak \subseteq Live /\ Live \subseteq Objs
      /\ \A x \in Live : ptr[x] \subseteq Live
  BY LiveClosed DEF IInv
<1>3. /\ ptr' \in [Objs -> SUBSET Objs]
      /\ \A x \in Objs \ {c} : ptr'[x] = ptr[x]
      /\ ptr'[c] \subseteq ptr[c] \cup frame
      /\ pc = "presweep" => ptr[c] \subseteq ptr'[c]
  <2>1. CASE \E o \in frame \ ptr[c] : ptr' = [ptr EXCEPT ![c] = @ \cup {o}]
    BY <1>2, <2>1 DEF IInv, TypeOK
  <2>2. CASE \E o \in ptr[c] : /\ pc = "presweep" => "detach" \in Uses
                               /\ ptr' = [ptr EXCEPT ![c] = @ \ {o}]
    BY <2>2 DEF IInv, TypeOK, NoUses
  <2> QED
    BY <2>1, <2>2 DEF Write
<1>4. (roots \cup frame)' = roots \cup frame /\ (roots \cup frame \cup weak)' = roots \cup frame \cup weak
  BY <1>1 DEF frame
<1>5. Live' \subseteq Live
  <2>1. \A x \in Live : ptr'[x] \subseteq Live
    BY <1>1, <1>2, <1>3
  <2> QED
    BY <1>2, <1>4, <2>1, LiveShrinks DEF IInv
<1>6. c \in Live /\ bits[c] # "free"
  BY <1>1, <1>2 DEF IInv, Rest, Colors
<1> USE DEF blockVars, passVars
<1>7. Modes'
  BY <1>1 DEF IInv, Rest, Modes, InCallback, Fin
<1>8. Scanned'
  BY <1>1 DEF Scanned, InProgram, InCallback
<1>9. CASE marking /\ bits[c] = "marked" /\ ~collecting
  <2>1. pc = "run" /\ ~Fin /\ ~Fin' /\ dying = None
    BY <1>1, <1>9 DEF IInv, Rest, Modes, Fin, InProgram, InCallback
  <2>2. /\ bits' \in [Objs -> {"free", "white", "queued", "marked"}]
        /\ overflow' \in BOOLEAN /\ (overflow => overflow')
        /\ \A x \in Objs \ {c} : bits'[x] = bits[x]
        /\ \/ bits'[c] = "queued" /\ work' = work \cup {c} /\ barrier' = barrier
           \/ bits'[c] = "queued" /\ barrier' = barrier \cup {c} /\ work' = work
           \/ bits'[c] = "white" /\ overflow' /\ work' = work /\ barrier' = barrier
    BY <1>1, <1>9 DEF WriteBarrier, PushOne, IInv, TypeOK
  <2>3. c \notin work \cup barrier
    BY <1>9 DEF IInv, Rest, Queues
  <2>4. TypeOK'
    BY <1>1, <1>3, <2>2 DEF IInv, TypeOK
  <2>5. Queues'
    <3>1. \A x \in Objs : bits'[x] = "queued" => x \in work' \cup barrier'
      BY <2>2 DEF IInv, Rest, Queues
    <3>2. \A x \in work' \cup barrier' : bits'[x] = "queued"
      BY <1>9, <2>2, <2>3 DEF IInv, Rest, Queues, TypeOK
    <3>3. \A x \in Objs : (bits'[x] = "free" \/ x \in PointerFree) => ptr'[x] = {}
      BY <1>1, <1>3, <2>2 DEF IInv, Rest, Queues
    <3>4. work' \cap barrier' = {}
      BY <2>2, <2>3 DEF IInv, Rest, Queues
    <3> QED
      BY <1>1, <1>9, <2>1, <3>1, <3>2, <3>3, <3>4 DEF Queues
  <2>6. Layout'
    <3>1. \A x \in Objs : bits'[x] # "free" => BlockOf[x] \in blocks' \cup empty'
      BY <1>1, <1>6, <2>2 DEF IInv, Rest, Layout
    <3> QED
      BY <1>1, <1>9, <2>1, <3>1 DEF IInv, Rest, Layout
  <2>7. Colors'
    <3>1. \A x \in Live' : bits'[x] # "free" /\ BlockOf[x] \notin empty'
      BY <1>1, <1>2, <1>5, <2>2 DEF IInv, Rest, Colors
    <3> QED
      BY <1>1, <1>9, <2>1, <3>1 DEF Colors
  <2>8. Tri'
    <3> SUFFICES ASSUME ~overflow', NEW x \in Live', bits'[x] = "marked", NEW y \in ptr'[x], bits'[y] = "white"
                 PROVE  FALSE
      BY DEF Tri, White
    <3>1. bits'[c] = "queued" /\ ~overflow
      BY <2>2
    <3>2. x \in Live /\ x \in Objs /\ x # c /\ bits[x] = "marked"
      BY <1>2, <1>5, <2>2, <3>1
    <3>3. y \in ptr[x] /\ y \in Objs
      BY <1>2, <1>3, <3>2
    <3>4. bits[y] = "white"
      BY <2>2, <3>1, <3>3
    <3> QED
      BY <1>9, <2>1, <3>1, <3>2, <3>3, <3>4 DEF IInv, Rest, Tri, White, Unlooked
  <2>9. Covered'
    BY <1>1, <1>9 DEF Covered
  <2> QED
    BY <1>7, <1>8, <2>4, <2>5, <2>6, <2>7, <2>8, <2>9 DEF IInv, Rest
<1>10. CASE ~(marking /\ bits[c] = "marked" /\ ~collecting)
  <2>1. UNCHANGED <<bits, work, barrier, overflow>>
    BY <1>1, <1>10 DEF WriteBarrier, markVars
  <2>2. TypeOK'
    BY <1>1, <1>3, <2>1 DEF IInv, TypeOK
  <2>3. Queues'
    <3>1. \A x \in Objs : (bits'[x] = "free" \/ x \in PointerFree) => ptr'[x] = {}
      BY <1>1, <1>3, <1>6, <2>1 DEF IInv, Rest, Queues
    <3> QED
      BY <1>1, <2>1, <3>1 DEF IInv, Rest, Queues, Fin
  <2>4. Layout'
    BY <1>1, <2>1 DEF IInv, Rest, Layout, Fin
  <2>5. Colors'
    BY <1>1, <1>5, <2>1 DEF IInv, Rest, Colors, Fin, Unflipped, Marked
  <2>6. Tri'
    <3>1. \A x \in Live' : x \in Live /\ x \in Objs /\ (x # c => ptr'[x] = ptr[x])
      BY <1>2, <1>3, <1>5
    <3> QED
      BY <1>1, <1>10, <2>1, <3>1 DEF IInv, Rest, Tri, White, Unlooked
  <2>7. Covered'
    <3> SUFFICES ASSUME collecting, ~Fin PROVE Covered'
      BY <1>1 DEF Covered, Fin
    <3>1. pc = "presweep" /\ Unlooked = {} /\ Unlooked' = {}
      BY <1>1 DEF InProgram, InCallback, IInv, Rest, Modes, Fin, Unlooked
    <3>2. Marked' = Marked /\ stack' \subseteq Marked
      BY <1>1, <2>1 DEF Marked, IInv, Rest, Covered
    <3>3. ASSUME ~overflow
          PROVE  /\ (roots \cup frame)' \subseteq Marked' \cup Grey'
                 /\ \A x \in Live' : bits'[x] = "marked" => ptr'[x] \subseteq Marked' \cup Grey'
      <4>1. /\ work' \subseteq Grey' /\ Grey' \subseteq Objs
            /\ \A x \in Grey' : bits'[x] # "marked" => ptr'[x] \subseteq Grey'
        BY <2>2, GreyClosedNext
      <4>2. \A x \in Grey' : bits[x] # "marked" => ptr[x] \subseteq Grey'
        BY <1>3, <2>1, <3>1, <4>1
      <4>3. Grey \subseteq Grey'
        BY <2>1, <4>1, <4>2, GreyWithin DEF IInv
      <4>4. /\ roots \cup frame \subseteq Marked \cup Grey
            /\ \A x \in Live : bits[x] = "marked" => ptr[x] \subseteq Marked \cup Grey
        BY <3>1, <3>3 DEF IInv, Rest, Covered
      <4> QED
        BY <1>2, <1>3, <1>4, <1>5, <2>1, <3>2, <4>3, <4>4
    <3> QED
      BY <2>1, <3>1, <3>2, <3>3 DEF Covered
  <2> QED
    BY <1>7, <1>8, <2>2, <2>3, <2>4, <2>5, <2>6, <2>7 DEF IInv, Rest
<1> QED
  BY <1>9, <1>10

LEMMA AllocStep ==
  ASSUME NoUses, IInv, NEW o \in Objs, Alloc(o)
  PROVE  IInv'
<1>1. /\ pc \in {"run", "presweep", "finalizer", "alloc"} /\ bits[o] = "free"
      /\ UNCHANGED <<ptr, roots, weak, work, barrier, overflow, marking, collecting, loop, todo,
                     sweepList, empty, cur, nxt, dying>>
      /\ bits' = [bits EXCEPT ![o] = IF collecting /\ BlockOf[o] \notin done' THEN "marked" ELSE "white"]
      /\ finalizable' = finalizable \cup {o}
      /\ stack' \subseteq stack \cup {o} /\ locals' \subseteq locals \cup {o}
      /\ InCallback => stack' = stack
      /\ ~InCallback => locals' = locals
      /\ pc' = IF pc = "alloc" THEN "run" ELSE pc
  BY DEF Alloc, PushFrame, InProgram, InCallback, markVars
<1>2. /\ o \notin Live /\ ptr[o] = {} /\ o \notin work \cup barrier
      /\ dying # None => dying # o
  BY <1>1 DEF IInv, Rest, Colors, Queues, Layout
<1>3. /\ roots \cup frame \cup weak \subseteq Live /\ Live \subseteq Objs
      /\ \A x \in Live : ptr[x] \subseteq Live
  BY LiveClosed DEF IInv
<1>4. /\ Fin' <=> Fin
      /\ pc = "presweep" \/ Fin <=> collecting
      /\ pc = "presweep" => marking
      /\ pc # "finalizer" => ~Fin
  BY <1>1 DEF IInv, Rest, Modes, Fin
<1>5. BlockOf[o] \in Blocks
  BY DEF Blocks
<1>6. /\ \/ /\ BlockOf[o] \in blocks \ (sweepList \cup {cur}) /\ UNCHANGED <<blocks, after, done>>
         \/ /\ ~Fin /\ (collecting \/ sweepList = {}) /\ BlockOf[o] \notin blocks \cup empty
            /\ blocks' = blocks \cup {BlockOf[o]} /\ UNCHANGED <<after, done>>
  <2>1. CASE o \in FreeItems /\ UNCHANGED <<blocks, after, done>>
    BY <2>1 DEF FreeItems
  <2>2. CASE /\ collecting \/ sweepList = {}
             /\ BlockOf[o] \notin blocks \cup empty
             /\ pc = "finalizer" => "grow" \in Uses
             /\ blocks' = blocks \cup {BlockOf[o]}
             /\ after' = IF nxt = None THEN after ELSE after \cup {BlockOf[o]}
             /\ done' = IF pc = "finalizer" THEN done \cup {BlockOf[o]} ELSE done
    <3>1. pc # "finalizer" /\ ~Fin
      BY <1>4, <2>2 DEF NoUses
    <3>2. nxt = None
      BY <3>1 DEF IInv, Rest, Modes
    <3> QED
      BY <2>2, <3>1, <3>2
  <2> QED
    BY <2>1, <2>2 DEF Alloc
<1>7. /\ bits' \in [Objs -> {"free", "white", "queued", "marked"}]
      /\ \A x \in Objs \ {o} : bits'[x] = bits[x]
      /\ bits'[o] = IF collecting /\ BlockOf[o] \notin done THEN "marked" ELSE "white"
  BY <1>1, <1>6 DEF IInv, TypeOK
<1>8. Live' \subseteq Live \cup {o}
  <2>1. (roots \cup frame \cup weak)' \subseteq Live \cup {o}
    BY <1>1, <1>3 DEF frame
  <2>2. Live \cup {o} \in SUBSET Objs /\ \A x \in Live \cup {o} : ptr'[x] \subseteq Live \cup {o}
    BY <1>1, <1>2, <1>3
  <2> QED
    BY <2>1, <2>2, LiveWithin
<1>9. TypeOK'
  <2>1. pc' \in Pcs
    BY <1>1 DEF Pcs
  <2>2. blocks' \subseteq Blocks /\ after' \subseteq Blocks /\ done' \subseteq Blocks
    BY <1>5, <1>6 DEF IInv, TypeOK
  <2> QED
    BY <1>1, <1>7, <2>1, <2>2 DEF IInv, TypeOK
<1>10. Modes'
  <2>1. UNCHANGED <<after, done>>
    BY <1>6
  <2> QED
    BY <1>1, <2>1 DEF IInv, Rest, Modes, InCallback, Fin
<1>11. Queues'
  <2>1. \A x \in Objs : bits'[x] = "queued" => x \in work' \cup barrier'
    BY <1>1, <1>7 DEF IInv, Rest, Queues
  <2>2. \A x \in work' \cup barrier' : bits'[x] = bits[x]
    BY <1>1, <1>2, <1>7 DEF IInv, TypeOK
  <2>3. \A x \in Objs : (bits'[x] = "free" \/ x \in PointerFree) => ptr'[x] = {}
    BY <1>1, <1>2, <1>7 DEF IInv, Rest, Queues
  <2>4. ~marking' \/ pc' = "start" \/ Fin' => work' \cup barrier' = {} /\ ~overflow'
    BY <1>1, <1>4 DEF IInv, Rest, Queues
  <2> QED
    BY <1>1, <2>1, <2>2, <2>3, <2>4 DEF IInv, Rest, Queues
<1>12. Layout'
  <2>1. \A x \in Objs : bits'[x] # "free" => BlockOf[x] \in blocks' \cup empty'
    BY <1>1, <1>6, <1>7 DEF IInv, Rest, Layout
  <2>2. blocks' \cap empty' = {} /\ sweepList' \subseteq blocks'
    BY <1>1, <1>6 DEF IInv, Rest, Layout
  <2>3. Fin' => blocks' \subseteq done' \cup {cur', nxt'} \cup after'
    BY <1>1, <1>4, <1>6 DEF IInv, Rest, Layout
  <2>4. ({cur', nxt'} \ {None}) \cup after' \subseteq blocks' \ done'
    BY <1>1, <1>6 DEF IInv, Rest, Layout
  <2>5. dying' # None => bits'[dying'] = "white" /\ BlockOf[dying'] = cur'
    BY <1>1, <1>2, <1>7 DEF IInv, Rest, Layout, TypeOK
  <2>6. /\ cur' # None => cur' # nxt'
        /\ {cur', nxt'} \cap after' = {}
        /\ collecting' => sweepList' \subseteq done'
    BY <1>1, <1>6 DEF IInv, Rest, Layout
  <2> QED
    BY <2>1, <2>2, <2>3, <2>4, <2>5, <2>6 DEF Layout
<1>13. bits'[o] # "free" /\ BlockOf[o] \notin empty /\ BlockOf[o] \notin sweepList
  BY <1>6, <1>7 DEF IInv, Rest, Layout
<1>14. Colors'
  <2>1. \A x \in Live' : bits'[x] # "free" /\ BlockOf[x] \notin empty'
    BY <1>1, <1>3, <1>7, <1>8, <1>13 DEF IInv, Rest, Colors
  <2>2. ASSUME ~marking \/ Fin
        PROVE  /\ \A x \in Objs : bits'[x] = "marked" => BlockOf[x] \in Unflipped'
               /\ \A x \in Live' : BlockOf[x] \in Unflipped' => bits'[x] = "marked"
    <3>1. /\ \A x \in Objs : bits[x] = "marked" => BlockOf[x] \in Unflipped
          /\ \A x \in Live : BlockOf[x] \in Unflipped => bits[x] = "marked"
      BY <2>2 DEF IInv, Rest, Colors
    <3>2. Unflipped' = Unflipped
      BY <1>1, <1>4, <1>6 DEF Unflipped
    <3>3. bits'[o] = "marked" <=> BlockOf[o] \in Unflipped
      <4>1. CASE Fin
        BY <1>4, <1>5, <1>7, <1>13, <4>1 DEF Unflipped
      <4>2. CASE ~Fin
        <5>1. ~collecting
          BY <2>2, <4>2 DEF IInv, TypeOK
        <5> QED
          BY <1>7, <1>13, <4>2, <5>1 DEF Unflipped
      <4> QED
        BY <4>1, <4>2
    <3> QED
      BY <1>3, <1>7, <1>8, <3>1, <3>2, <3>3
  <2>3. pc' # "start"
    BY <1>1
  <2> QED
    BY <1>1, <1>4, <2>1, <2>2, <2>3 DEF Colors
<1>15. Tri'
  <2> SUFFICES ASSUME marking, ~collecting, ~overflow, NEW x \in Live', bits'[x] = "marked",
                      NEW y \in ptr'[x], bits'[y] = "white"
               PROVE  FALSE
    BY <1>1 DEF Tri, White
  <2>1. pc = "run"
    BY <1>1 DEF IInv, Rest, Modes
  <2>2. x # o /\ x \in Live /\ bits[x] = "marked"
    BY <1>3, <1>7, <1>8
  <2>3. y \in ptr[x] /\ y \in Objs /\ bits[y] = "white"
    BY <1>1, <1>2, <1>3, <1>7, <2>2
  <2> QED
    BY <2>1, <2>2, <2>3 DEF IInv, Rest, Tri, White, Unlooked
<1>16. Scanned'
  BY <1>1 DEF Scanned
<1>17. Covered'
  <2> SUFFICES ASSUME collecting, ~Fin PROVE Covered'
    BY <1>1, <1>4 DEF Covered
  <2>1. /\ pc = "presweep" /\ Unlooked = {} /\ done = {} /\ stack' = stack
    BY <1>1, <1>4 DEF InCallback, IInv, Rest, Modes, Fin, Unlooked
  <2>2. bits'[o] = "marked"
    BY <1>7, <2>1
  <2>3. Marked' = Marked \cup {o}
    BY <1>7, <2>2 DEF Marked
  <2>4. Grey \subseteq Grey' \cup {o}
    <3>1. /\ work' \subseteq Grey' /\ Grey' \subseteq Objs
          /\ \A x \in Grey' : bits'[x] # "marked" => ptr'[x] \subseteq Grey'
      BY <1>9, GreyClosedNext
    <3>2. /\ Grey' \cup {o} \in SUBSET Objs /\ work \subseteq Grey' \cup {o}
          /\ \A x \in Grey' \cup {o} : bits[x] # "marked" => ptr[x] \subseteq Grey' \cup {o}
      BY <1>1, <1>2, <1>7, <3>1
    <3> QED
      BY <3>2, GreyWithin DEF IInv
  <2>5. stack' \subseteq Marked'
    BY <2>1, <2>3 DEF IInv, Rest, Covered
  <2>6. ASSUME ~overflow
        PROVE  /\ (roots \cup frame)' \subseteq Marked' \cup Grey'
               /\ \A x \in Live' : bits'[x] = "marked" => ptr'[x] \subseteq Marked' \cup Grey'
    <3>1. /\ roots \cup frame \subseteq Marked \cup Grey
          /\ \A x \in Live : bits[x] = "marked" => ptr[x] \subseteq Marked \cup Grey
      BY <2>1, <2>6 DEF IInv, Rest, Covered
    <3>2. (roots \cup frame)' \subseteq roots \cup frame \cup {o}
      BY <1>1 DEF frame
    <3>3. \A x \in Live' : bits'[x] = "marked" => x = o \/ (x \in Live /\ bits[x] = "marked")
      BY <1>3, <1>7, <1>8
    <3> QED
      BY <1>1, <1>2, <2>3, <2>4, <3>1, <3>2, <3>3
  <2> QED
    BY <1>1, <2>5, <2>6 DEF Covered
<1> QED
  BY <1>9, <1>10, <1>11, <1>12, <1>14, <1>15, <1>16, <1>17 DEF IInv, Rest

(***************************************************************************)
(* Invariance                                                              *)
(***************************************************************************)
LEMMA InitInv == Init => IInv
<1> SUFFICES ASSUME Init PROVE IInv
  OBVIOUS
<1> USE DEF Init
<1>1. TypeOK
  <2>1. ptr \in [Objs -> SUBSET Objs] /\ bits \in [Objs -> {"free", "white", "queued", "marked"}]
    BY SMT
  <2>2. overflow \in BOOLEAN /\ marking \in BOOLEAN /\ collecting \in BOOLEAN /\ ~collecting
    BY Zenon
  <2>3. loop \in 1..3 /\ pc \in Pcs
    BY SMT DEF Pcs
  <2> QED
    BY <2>1, <2>2, <2>3 DEF TypeOK
<1>2. Live \subseteq {}
  BY ReachWithin DEF Live, frame
<1>3. Modes
  BY DEF Modes, InCallback
<1>4. Queues
  BY DEF Queues
<1>5. Layout
  BY DEF Layout, Fin
<1>6. Colors
  BY <1>2 DEF Colors
<1>7. Tri /\ Scanned /\ Covered
  BY DEF Tri, Scanned, Covered
<1> QED
  BY <1>1, <1>3, <1>4, <1>5, <1>6, <1>7 DEF IInv, Rest

LEMMA StepInv == NoUses /\ IInv /\ [Next]_vars => IInv'
<1> SUFFICES ASSUME NoUses, IInv, [Next]_vars PROVE IInv'
  OBVIOUS
<1>1. CASE Program
  <2>1. PICK o \in Objs : \/ Alloc(o) \/ Load(o) \/ WeakGet(o) \/ GetWeakRef(o) \/ Drop(o)
                          \/ WriteRoot(o) \/ Write(o) \/ Free(o)
    BY <1>1 DEF Program
  <2> QED
    BY <2>1, AllocStep, ReferStep, WeakGetStep, WriteStep, FreeStep
<1>2. CASE AllocSweep
  BY <1>2, SweepStep
<1>3. CASE Increment
  BY <1>3, SweepStep, FlushStep, ControlStep, MarkStep DEF Increment
<1>4. CASE Collector
  BY <1>4, RootsStep, MarkStep, ControlStep, HandleStep, FlushStep, StackStep, StartSweepStep,
     EndPresweepStep, StartFinalizeStep, PassStep, EndFinalizerStep, BlockDoneStep, EndSweepStep DEF Collector
<1>5. CASE UNCHANGED vars
  <2> USE <1>5 DEF vars, programVars, markVars, blockVars, passVars
  <2>1. Live' = Live /\ Grey' = Grey
    BY SameLive, SameGrey
  <2>2. TypeOK' /\ Modes'
    BY DEF IInv, Rest, TypeOK, Modes, InCallback, Fin
  <2>3. Queues' /\ Layout'
    BY DEF IInv, Rest, Queues, Layout, Fin
  <2>4. Colors'
    BY <2>1 DEF IInv, Rest, Colors, Fin, Unflipped, Marked
  <2>5. Tri' /\ Scanned'
    BY <2>1 DEF IInv, Rest, Tri, Scanned, White, Unlooked
  <2>6. Covered'
    BY <2>1 DEF IInv, Rest, Covered, Fin, Unlooked, Marked, frame
  <2> QED
    BY <2>2, <2>3, <2>4, <2>5, <2>6 DEF IInv, Rest
<1> QED
  BY <1>1, <1>2, <1>3, <1>4, <1>5 DEF Next

(* The colors, the mark stacks and the blocks stay consistent, whatever    *)
(* the program and the callbacks do between two steps of the collector     *)
(* (MMgc/GC.cpp), and whenever the mark stacks overflow.                   *)
THEOREM Invariance == NoUses => (Spec => []IInv)
<1> SUFFICES ASSUME NoUses PROVE Spec => []IInv
  OBVIOUS
<1>1. Init => IInv
  BY InitInv
<1>2. IInv /\ [Next]_vars => IInv'
  BY StepInv
<1> QED
  BY <1>1, <1>2, PTL DEF Spec

LEMMA LiveSafe ==
  ASSUME IInv, NEW o \in Live
  PROVE  bits[o] # "free" /\ o # dying /\ BlockOf[o] \notin empty
<1>1. o \in Objs /\ bits[o] # "free" /\ BlockOf[o] \notin empty
  BY LiveClosed DEF IInv, Rest, Colors
<1>2. ASSUME o = dying PROVE FALSE
  <2>1. dying # None
    BY <1>1, <1>2, GCAssumption
  <2>2. Fin /\ bits[o] = "white" /\ BlockOf[o] = cur /\ cur # None
    BY <1>2, <2>1 DEF IInv, Rest, Modes, Layout, Fin
  <2>3. cur \in Blocks \ done
    BY <2>2 DEF IInv, Rest, Layout, TypeOK
  <2> QED
    BY <2>2, <2>3 DEF IInv, Rest, Colors, Unflipped
<1> QED
  BY <1>1, <1>2

(* Nothing that the program reaches is freed or finalized by the           *)
(* incremental collector.                                                  *)
THEOREM NothingReachableIsFreed == NoUses => (Spec => []ReachableSafe)
<1> SUFFICES ASSUME NoUses PROVE Spec => []ReachableSafe
  OBVIOUS
<1>1. Spec => []IInv
  BY Invariance
<1>2. IInv => ReachableSafe
  BY LiveSafe, ReachableLive DEF ReachableSafe, IInv
<1> QED
  BY <1>1, <1>2, PTL
(* Every mark bit, stack and flag is sound: a queued object is stacked,    *)
(* and no marked object that is in use hides an unmarked one.              *)
THEOREM MarkingIsSound == NoUses => (Spec => []MarkingSound)
<1> SUFFICES ASSUME NoUses PROVE Spec => []MarkingSound
  OBVIOUS
<1>1. Spec => []IInv
  BY Invariance
<1>2. IInv => MarkingSound
  <2> SUFFICES ASSUME IInv PROVE MarkingSound
    OBVIOUS
  <2>1. TypeOK
    BY DEF IInv
  <2>2. QueuedIsStacked
    <3>1. {o \in Objs : bits[o] = "queued"} \subseteq work \cup barrier
      BY DEF IInv, Rest, Queues
    <3>2. pc \in {"finalize", "finalizer"} => work \cup barrier = {}
      BY DEF IInv, Rest, Queues, Fin
    <3> QED
      BY <3>1, <3>2 DEF QueuedIsStacked
  <2>3. TriColor
    BY <2>1, ReachableLive DEF TriColor, IInv, Rest, Tri, Unlooked
  <2> QED
    BY <2>1, <2>2, <2>3 DEF MarkingSound
<1> QED
  BY <1>1, <1>2, PTL

(* A weak reference that is not cleared refers to an object in use.        *)
THEOREM WeakReferencesHold == NoUses => (Spec => []WeakRefsAlive)
<1> SUFFICES ASSUME NoUses PROVE Spec => []WeakRefsAlive
  OBVIOUS
<1>1. Spec => []IInv
  BY Invariance
<1>2. IInv => WeakRefsAlive
  BY LiveSafe, LiveClosed DEF WeakRefsAlive, IInv
<1> QED
  BY <1>1, <1>2, PTL

(* When the sweep starts, everything that the program reaches is marked,   *)
(* however often the mark stacks overflowed.                               *)
THEOREM MarkingIsComplete == NoUses => (Spec => MarkingComplete)
<1> SUFFICES ASSUME NoUses PROVE Spec => MarkingComplete
  OBVIOUS
<1>1. Spec => []IInv
  BY Invariance
<1>2. ASSUME IInv, StartSweep, NEW o \in Reachable PROVE bits[o] = "marked"
  <2>1. /\ roots \cup frame \subseteq Marked \cap Live
        /\ \A x \in Marked \cap Live : ptr[x] \subseteq Marked \cap Live
    BY <1>2, MarkedClosed DEF StartSweep
  <2>2. Marked \cap Live \in SUBSET Objs
    BY DEF Marked
  <2>3. Reachable \subseteq Marked \cap Live
    BY <2>1, <2>2, ReachWithin DEF Reachable
  <2> QED
    BY <2>3 DEF Marked
<1>3. IInv /\ [Next]_vars => [StartSweep => \A o \in Reachable : bits[o] = "marked"]_vars
  BY <1>2
<1> QED
  BY <1>1, <1>3, PTL DEF Spec, MarkingComplete

=============================================================================
