--------------------------- MODULE VMThreadProofs ---------------------------
(***************************************************************************)
(* Proofs about VMThread for any finite set of joiners.                    *)
(***************************************************************************)
EXTENDS VMThread, FiniteSetTheorems, TLAPS

Joining == {j \in Joiners : At(j, "joining")}

(* Types of everything but the counter. *)
Typed ==
  /\ state \in {"NOT_STARTED", "RUNNABLE", "TERMINATED"}
  /\ joinerQty \in Nat
  /\ monitor \in BOOLEAN
  /\ asleep \subseteq Joiners \cup {"parent"}
  /\ pc \in [Actors -> JoinerLocs \cup ParentLocs \cup NativeLocs]
  /\ pc["parent"] \in ParentLocs /\ pc["native"] \in NativeLocs
  /\ \A j \in Joiners : pc[j] \in JoinerLocs

(* m_joinMonitor, m_state and the native thread advance together. *)
PhasesAgree ==
  /\ monitor <=> pc["parent"] \in {"starting", "created"}
  /\ state = "NOT_STARTED" <=>
       \/ pc["parent"] \in {"new", "starting", "created"}
       \/ pc["parent"] = "freed" /\ pc["native"] = "none"
  /\ pc["native"] = "none" => state = "NOT_STARTED"
  /\ pc["parent"] \in {"new", "starting"} => pc["native"] = "none"
  /\ pc["parent"] = "created" => pc["native"] = "begin"
  /\ pc["native"] = "begin" => pc["parent"] = "created" \/ state = "RUNNABLE"
  /\ pc["native"] = "running" => state = "RUNNABLE"
  /\ pc["native"] = "exited" <=> state = "TERMINATED"

(* A joiner is in join only after start, and out of it only after exit. *)
JoinersAgree ==
  \A j \in Joiners :
    /\ pc[j] = "joining" => state # "NOT_STARTED"
    /\ pc[j] = "joined" => state = "TERMINATED"

(* What the destructor's last test has established stays true. *)
FreedSettled == pc["parent"] = "freed" => ~MustWait

IInv == Typed /\ PhasesAgree /\ JoinersAgree /\ JoinersCounted /\ FreedSettled

(* The joiners inside join are finitely many, hence counted by a number. *)
LEMMA JoiningFinite ==
  /\ IsFiniteSet(Joining) /\ Cardinality(Joining) \in Nat
  /\ Cardinality(Joining) <= Cardinality(Joiners)
<1>1. Joining \subseteq Joiners
  BY DEF Joining
<1> QED
  BY <1>1, FS_Subset, FS_CardinalityType, VMThreadAssumption

(* The initial state satisfies the inductive invariant. *)
LEMMA InitInv == Init => IInv
<1> SUFFICES ASSUME Init PROVE IInv
  OBVIOUS
<1> USE VMThreadAssumption DEF Init
<1>1. \A j \in Joiners : pc[j] = "idle"
  BY DEF Actors
<1>2. pc["parent"] = "new" /\ pc["native"] = "none"
  BY DEF Actors
<1>3. Typed
  BY <1>1, <1>2 DEF Typed, Actors, JoinerLocs, ParentLocs, NativeLocs
<1>4. {j \in Joiners : At(j, "joining")} = {}
  BY <1>1 DEF At
<1>5. JoinersCounted
  BY <1>4, FS_EmptySet DEF JoinersCounted
<1> QED
  BY <1>1, <1>2, <1>3, <1>5
  DEF IInv, PhasesAgree, JoinersAgree, FreedSettled

(* Typed is kept by every step. *)
LEMMA TypedStep == Typed /\ PhasesAgree /\ JoinersAgree /\ JoinersCounted /\ Next => Typed'
<1> SUFFICES ASSUME Typed, PhasesAgree, JoinersAgree, JoinersCounted, Next
             PROVE  Typed'
  OBVIOUS
<1> USE VMThreadAssumption
    DEF Typed, At, Goto, Actors, JoinerLocs, ParentLocs, NativeLocs
<1>1. CASE StartLock
  BY <1>1 DEF StartLock
<1>2. CASE StartFail
  BY <1>2 DEF StartFail
<1>3. CASE StartCreate
  BY <1>3 DEF StartCreate
<1>4. CASE StartRunnable
  BY <1>4 DEF StartRunnable
<1>5. CASE NativeBegin
  BY <1>5 DEF NativeBegin
<1>6. CASE NativeExit
  BY <1>6 DEF NativeExit
<1>7. ASSUME NEW j \in Joiners, Join(j) PROVE Typed'
  BY <1>7 DEF Join
<1>8. ASSUME NEW j \in Joiners, JoinWake(j) PROVE Typed'
  <2>1. joinerQty # 0
    <3>1. j \in Joining
      BY <1>8 DEF JoinWake, Joining
    <3> QED
      BY <3>1, JoiningFinite, FS_EmptySet DEF JoinersCounted, Joining
  <2> QED
    BY <1>8, <2>1 DEF JoinWake
<1>9. CASE Dtor
  BY <1>9 DEF Dtor, DtorTest
<1>10. CASE DtorWake
  BY <1>10 DEF DtorWake, DtorTest
<1>11. ASSUME NEW a \in Joiners \cup {"parent"}, SpuriousWake(a) PROVE Typed'
  BY <1>11 DEF SpuriousWake
<1> QED
  BY <1>1, <1>2, <1>3, <1>4, <1>5, <1>6, <1>7, <1>8, <1>9, <1>10, <1>11
  DEF Next

(* The count follows the joiners in and out of join. *)
LEMMA CountStep == Typed /\ JoinersCounted /\ Next => JoinersCounted'
<1> SUFFICES ASSUME Typed, JoinersCounted, Next PROVE JoinersCounted'
  OBVIOUS
<1>0. joinerQty = Cardinality(Joining) /\ (JoinersCounted' <=> joinerQty' = Cardinality(Joining'))
  BY DEF JoinersCounted, Joining
<1> USE VMThreadAssumption
<1>1. ASSUME NEW j \in Joiners, Join(j) PROVE JoinersCounted'
  <2>1. CASE state = "TERMINATED"
    <3>1. Joining' = Joining /\ joinerQty' = joinerQty
      BY <1>1, <2>1 DEF Join, Joining, At, Goto, Typed, Actors
    <3> QED
      BY <1>0, <3>1
  <2>2. CASE state # "TERMINATED"
    <3>1. Joining' = Joining \cup {j} /\ j \notin Joining
      BY <1>1, <2>2 DEF Join, Joining, At, Goto, Typed, Actors
    <3>2. joinerQty' = joinerQty + 1
      BY <1>1, <2>2 DEF Join
    <3> QED
      BY <1>0, <3>1, <3>2, JoiningFinite, FS_AddElement
  <2> QED
    BY <2>1, <2>2
<1>2. ASSUME NEW j \in Joiners, JoinWake(j) PROVE JoinersCounted'
  <2>1. CASE state # "TERMINATED"
    <3>1. Joining' = Joining /\ joinerQty' = joinerQty
      BY <1>2, <2>1 DEF JoinWake, Joining, At
    <3> QED
      BY <1>0, <3>1
  <2>2. CASE state = "TERMINATED"
    <3>1. Joining' = Joining \ {j} /\ j \in Joining
      BY <1>2, <2>2 DEF JoinWake, Joining, At, Goto, Typed, Actors
    <3>2. joinerQty' = joinerQty - 1
      BY <1>2, <2>2 DEF JoinWake
    <3> QED
      BY <1>0, <3>1, <3>2, JoiningFinite, FS_RemoveElement
  <2> QED
    BY <2>1, <2>2
<1>3. ASSUME joinerQty' = joinerQty,
             \A j \in Joiners : pc'[j] = pc[j]
      PROVE  JoinersCounted'
  BY <1>0, <1>3 DEF Joining, At
<1> USE DEF Typed, Actors, Goto
<1>4. CASE StartLock \/ StartFail \/ StartCreate \/ StartRunnable
  BY <1>3, <1>4 DEF StartLock, StartFail, StartCreate, StartRunnable
<1>5. CASE NativeBegin \/ NativeExit
  BY <1>3, <1>5 DEF NativeBegin, NativeExit
<1>6. CASE Dtor \/ DtorWake
  BY <1>3, <1>6 DEF Dtor, DtorWake, DtorTest
<1>7. ASSUME NEW a \in Joiners \cup {"parent"}, SpuriousWake(a)
      PROVE  JoinersCounted'
  BY <1>3, <1>7 DEF SpuriousWake
<1> QED
  BY <1>1, <1>2, <1>4, <1>5, <1>6, <1>7 DEF Next

(* The phases of the parent, of the native thread and of the joiners stay  *)
(* consistent with m_state, and with what the destructor has seen.         *)
LEMMA PhaseStep ==
  IInv /\ Next => PhasesAgree' /\ JoinersAgree' /\ FreedSettled'
<1> SUFFICES ASSUME IInv, Next
             PROVE  PhasesAgree' /\ JoinersAgree' /\ FreedSettled'
  OBVIOUS
<1> DEFINE Goal == PhasesAgree' /\ JoinersAgree' /\ FreedSettled'
<1>0. \A j \in Joiners : pc[j] = "joining" => joinerQty # 0
  <2> SUFFICES ASSUME NEW j \in Joiners, pc[j] = "joining"
               PROVE  joinerQty # 0
    OBVIOUS
  <2>1. j \in Joining
    BY DEF Joining, At
  <2> QED
    BY <2>1, JoiningFinite, FS_EmptySet DEF IInv, JoinersCounted, Joining
<1> USE VMThreadAssumption
    DEF IInv, Typed, PhasesAgree, JoinersAgree, FreedSettled, MustWait, At,
        Goto, Actors, JoinerLocs, ParentLocs, NativeLocs
<1>1. CASE StartLock
  BY <1>1 DEF StartLock
<1>2. CASE StartFail
  BY <1>2 DEF StartFail
<1>3. CASE StartCreate
  BY <1>3 DEF StartCreate
<1>4. CASE StartRunnable
  BY <1>4 DEF StartRunnable
<1>5. CASE NativeBegin
  BY <1>5 DEF NativeBegin
<1>6. CASE NativeExit
  BY <1>6 DEF NativeExit
<1>7. ASSUME NEW j \in Joiners, Join(j) PROVE Goal
  BY <1>7 DEF Join
<1>8. ASSUME NEW j \in Joiners, JoinWake(j) PROVE Goal
  BY <1>0, <1>8 DEF JoinWake
<1>9. CASE Dtor
  BY <1>0, <1>9 DEF Dtor, DtorTest
<1>10. CASE DtorWake
  BY <1>0, <1>10 DEF DtorWake, DtorTest
<1>11. ASSUME NEW a \in Joiners \cup {"parent"}, SpuriousWake(a) PROVE Goal
  BY <1>11 DEF SpuriousWake
<1> QED
  BY <1>1, <1>2, <1>3, <1>4, <1>5, <1>6, <1>7, <1>8, <1>9, <1>10, <1>11
  DEF Next

(* Every reachable state of a VMThread satisfies IInv. *)
THEOREM Invariance == Spec => []IInv
<1>1. IInv /\ [Next]_vars => IInv'
  <2>1. IInv /\ Next => IInv'
    BY TypedStep, CountStep, PhaseStep DEF IInv
  <2>2. IInv /\ UNCHANGED vars => IInv'
    BY DEF IInv, vars, Typed, PhasesAgree, JoinersAgree, JoinersCounted,
           FreedSettled, MustWait, At
  <2> QED
    BY <2>1, <2>2
<1> QED
  BY <1>1, InitInv, PTL DEF Spec

(* m_joinerQty never goes below zero nor above the number of joiners. *)
THEOREM TypeCorrect == Spec => []TypeOK
<1>1. IInv => TypeOK
  BY JoiningFinite DEF IInv, Typed, TypeOK, JoinersCounted, Joining
<1> QED
  BY <1>1, Invariance, PTL

(* ~VMThread returns only when neither the native thread nor any joiner    *)
(* can touch the object again, for any number of joiners.                  *)
THEOREM FreedUnused == Spec => []FreedIsUnused
<1>1. IInv => FreedIsUnused
  <2> SUFFICES ASSUME IInv, pc["parent"] = "freed"
               PROVE  /\ pc["native"] \in {"none", "exited"}
                      /\ \A j \in Joiners : pc[j] # "joining"
    BY DEF FreedIsUnused, At
  <2>1. state = "NOT_STARTED" \/ (state = "TERMINATED" /\ joinerQty = 0)
    BY DEF IInv, FreedSettled, MustWait, Typed
  <2>2. pc["native"] \in {"none", "exited"}
    BY <2>1 DEF IInv, PhasesAgree
  <2>3. CASE state = "NOT_STARTED"
    BY <2>2, <2>3 DEF IInv, JoinersAgree
  <2>4. CASE joinerQty = 0
    <3>1. Joining = {}
      BY <2>4, JoiningFinite, FS_EmptySet DEF IInv, JoinersCounted, Joining
    <3> QED
      BY <2>2, <3>1 DEF Joining, At
  <2> QED
    BY <2>1, <2>3, <2>4
<1> QED
  BY <1>1, Invariance, PTL

(* join returns only after the native thread has terminated. *)
THEOREM JoinedTerminated == Spec => []JoinedIsTerminated
<1>1. IInv => JoinedIsTerminated
  BY DEF IInv, JoinersAgree, PhasesAgree, JoinedIsTerminated, At
<1> QED
  BY <1>1, Invariance, PTL

(* The native thread runs run() only in the RUNNABLE state: start() still   *)
(* holds the monitor while it sets the state, and nothing but the native    *)
(* thread's own exit takes the state further.                               *)
THEOREM Runnable == Spec => []RunsRunnable
<1>1. IInv => RunsRunnable
  BY DEF IInv, PhasesAgree, RunsRunnable, At
<1> QED
  BY <1>1, Invariance, PTL
=============================================================================
