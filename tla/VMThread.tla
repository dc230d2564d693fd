------------------------------ MODULE VMThread ------------------------------
(***************************************************************************)
(* The life of one vmbase::VMThread (vmbase/VMThread.cpp): the parent that *)
(* starts and finally deletes it, its native thread, and threads that join *)
(* it.  All of them meet in the monitor m_joinMonitor.                     *)
(*                                                                         *)
(* A critical section is one step, except in start, which creates the      *)
(* native thread while it holds the monitor.  The client keeps the rules   *)
(* of VMThread.h: only a started thread is joined, and nobody calls join   *)
(* once the destructor was called.                                         *)
(***************************************************************************)
EXTENDS Naturals, FiniteSets

CONSTANTS
  Joiners   \* threads that call join

ASSUME VMThreadAssumption ==
  /\ IsFiniteSet(Joiners)
  /\ {"parent", "native"} \cap Joiners = {}

Actors == Joiners \cup {"parent", "native"}

VARIABLES
  state,      \* m_state
  joinerQty,  \* m_joinerQty
  monitor,    \* TRUE while start holds m_joinMonitor
  asleep,     \* threads in locker.wait() that were not notified
  pc

vars == <<state, joinerQty, monitor, asleep, pc>>

Goto(a, l) == pc' = [pc EXCEPT ![a] = l]
At(a, l)   == pc[a] = l

(* Locations of a joiner, of the parent and of the native thread. *)
JoinerLocs == {"idle", "joining", "joined"}
ParentLocs == {"new", "starting", "created", "started", "destroying", "freed"}
NativeLocs == {"none", "begin", "running", "exited"}

TypeOK ==
  /\ state \in {"NOT_STARTED", "RUNNABLE", "TERMINATED"}
  /\ joinerQty \in 0..Cardinality(Joiners)
  /\ monitor \in BOOLEAN
  /\ asleep \subseteq Joiners \cup {"parent"}
  /\ pc \in [Actors -> JoinerLocs \cup ParentLocs \cup NativeLocs]
  /\ pc["parent"] \in ParentLocs /\ pc["native"] \in NativeLocs
  /\ \A j \in Joiners : pc[j] \in JoinerLocs

Init ==
  /\ state = "NOT_STARTED"
  /\ joinerQty = 0
  /\ monitor = FALSE
  /\ asleep = {}
  /\ pc = [a \in Actors |-> CASE a = "parent" -> "new"
                              [] a = "native" -> "none"
                              [] OTHER        -> "idle"]

(***************************************************************************)
(* VMThread::start                                                         *)
(***************************************************************************)
StartLock ==
  /\ At("parent", "new") /\ ~monitor
  /\ monitor' = TRUE
  /\ Goto("parent", "starting")
  /\ UNCHANGED <<state, joinerQty, asleep>>

(* VMPI_threadCreate fails: start returns false. *)
StartFail ==
  /\ At("parent", "starting")
  /\ monitor' = FALSE
  /\ Goto("parent", "new")
  /\ UNCHANGED <<state, joinerQty, asleep>>

(* VMPI_threadCreate succeeds: the native thread exists from here on. *)
StartCreate ==
  /\ At("parent", "starting")
  /\ pc' = [pc EXCEPT !["parent"] = "created", !["native"] = "begin"]
  /\ UNCHANGED <<state, joinerQty, monitor, asleep>>

StartRunnable ==
  /\ At("parent", "created")
  /\ state' = "RUNNABLE"
  /\ monitor' = FALSE
  /\ Goto("parent", "started")
  /\ UNCHANGED <<joinerQty, asleep>>

(***************************************************************************)
(* VMThread::startInternal                                                 *)
(***************************************************************************)

(* Mutation of NativeBegin: it does not block on the parent's set-up. *)
NativeBeginUnlocked ==
  /\ At("native", "begin")
  /\ Goto("native", "running")
  /\ UNCHANGED <<state, joinerQty, monitor, asleep>>

(* Block until the parent has finished its side of the set-up, then run. *)
NativeBegin ==
  /\ At("native", "begin") /\ ~monitor
  /\ Goto("native", "running")
  /\ UNCHANGED <<state, joinerQty, monitor, asleep>>

(* Mutation of NativeExit: a single waiter is notified. *)
NativeExitNotifyOne ==
  /\ At("native", "running") /\ ~monitor
  /\ state' = "TERMINATED"
  /\ asleep' = IF asleep = {} THEN {}
               ELSE asleep \ {CHOOSE a \in asleep : TRUE}
  /\ Goto("native", "exited")
  /\ UNCHANGED <<joinerQty, monitor>>

NativeExit ==
  /\ At("native", "running") /\ ~monitor
  /\ state' = "TERMINATED"
  /\ asleep' = {}
  /\ Goto("native", "exited")
  /\ UNCHANGED <<joinerQty, monitor>>

(***************************************************************************)
(* VMThread::join                                                          *)
(***************************************************************************)

(* Mutation of Join: the joiner is not counted. *)
JoinUncounted(j) ==
  /\ At(j, "idle") /\ ~monitor
  /\ state # "NOT_STARTED" /\ pc["parent"] \notin {"destroying", "freed"}
  /\ IF state = "TERMINATED"
       THEN Goto(j, "joined") /\ UNCHANGED asleep
       ELSE /\ asleep' = asleep \cup {j}
            /\ Goto(j, "joining")
  /\ UNCHANGED <<state, joinerQty, monitor>>

Join(j) ==
  /\ At(j, "idle") /\ ~monitor
  /\ state # "NOT_STARTED" /\ pc["parent"] \notin {"destroying", "freed"}
  /\ IF state = "TERMINATED"
       THEN Goto(j, "joined") /\ UNCHANGED <<joinerQty, asleep>>
       ELSE /\ joinerQty' = joinerQty + 1
            /\ asleep' = asleep \cup {j}
            /\ Goto(j, "joining")
  /\ UNCHANGED <<state, monitor>>

(* Mutation of JoinWake: the wait is not in a loop. *)
JoinWakeOnce(j) ==
  /\ At(j, "joining") /\ j \notin asleep /\ ~monitor
  /\ joinerQty' = joinerQty - 1
  /\ Goto(j, "joined")
  /\ UNCHANGED <<state, monitor, asleep>>

(* The do-while loop around locker.wait(); nobody is notified at the end. *)
JoinWake(j) ==
  /\ At(j, "joining") /\ j \notin asleep /\ ~monitor
  /\ IF state = "TERMINATED"
       THEN /\ joinerQty' = joinerQty - 1
            /\ Goto(j, "joined")
            /\ UNCHANGED asleep
       ELSE asleep' = asleep \cup {j} /\ UNCHANGED <<joinerQty, pc>>
  /\ UNCHANGED <<state, monitor>>

(***************************************************************************)
(* VMThread::~VMThread                                                     *)
(***************************************************************************)

(* Mutation of MustWait: the joiners are not waited for. *)
MustWaitForExit == state = "RUNNABLE"

MustWait ==
  state # "NOT_STARTED" /\ (state = "RUNNABLE" \/ joinerQty # 0)

(* One evaluation of the destructor's wait condition, under the monitor. *)
DtorTest ==
  /\ IF MustWait
       THEN /\ asleep' = asleep \cup {"parent"}
            /\ Goto("parent", "destroying")
       ELSE Goto("parent", "freed") /\ UNCHANGED asleep
  /\ UNCHANGED <<state, joinerQty, monitor>>

Dtor ==
  /\ pc["parent"] \in {"new", "started"} /\ ~monitor
  /\ DtorTest

DtorWake ==
  /\ At("parent", "destroying") /\ "parent" \notin asleep /\ ~monitor
  /\ DtorTest

(* A condition variable may wake a sleeper without a notification. *)
SpuriousWake(a) ==
  /\ a \in asleep
  /\ asleep' = asleep \ {a}
  /\ UNCHANGED <<state, joinerQty, monitor, pc>>

Next ==
  \/ StartLock \/ StartFail \/ StartCreate \/ StartRunnable
  \/ NativeBegin \/ NativeExit
  \/ \E j \in Joiners : Join(j) \/ JoinWake(j)
  \/ Dtor \/ DtorWake
  \/ \E a \in Joiners \cup {"parent"} : SpuriousWake(a)

Spec == Init /\ [][Next]_vars

(* Threads are scheduled and run() returns.  Whether start, join or delete *)
(* is called is up to the client; a spurious wake-up is never promised.    *)
Fairness ==
  /\ WF_vars(StartRunnable) /\ WF_vars(NativeBegin) /\ WF_vars(NativeExit)
  /\ \A j \in Joiners : WF_vars(JoinWake(j))
  /\ WF_vars(DtorWake)

FairSpec == Spec /\ Fairness

-----------------------------------------------------------------------------
(***************************************************************************)
(* Properties.                                                             *)
(***************************************************************************)

(* ~VMThread returns only when nobody can touch the object any more: the   *)
(* native thread never existed or is past its last critical section, and   *)
(* every joiner has left join.                                             *)
FreedIsUnused ==
  At("parent", "freed") =>
    /\ pc["native"] \in {"none", "exited"}
    /\ \A j \in Joiners : ~At(j, "joining")

(* join returns only after the native thread has exited. *)
JoinedIsTerminated ==
  \A j \in Joiners : At(j, "joined") => At("native", "exited")

(* The assert of startInternal: run() starts on a RUNNABLE VMThread. *)
RunsRunnable == At("native", "running") => state = "RUNNABLE"

(* The count of the joiners is what the destructor takes it for. *)
JoinersCounted == joinerQty = Cardinality({j \in Joiners : At(j, "joining")})

(* Every joiner returns once run() has returned. *)
JoinReturns == \A j \in Joiners : At(j, "joining") ~> At(j, "joined")

(* The destructor of a VMThread returns. *)
DtorReturns == At("parent", "destroying") ~> At("parent", "freed")
=============================================================================
