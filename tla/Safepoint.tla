----------------------------- MODULE Safepoint -----------------------------
(***************************************************************************)
(* Cooperative safepoints of the VM: vmbase::SafepointManager,             *)
(* SafepointRecord and SafepointGate (vmbase/Safepoint.cpp, -inlines.h),   *)
(* the interrupt word of AvmCore through which a requester reaches running *)
(* ActionScript code, and the SCOPE_LOCK slow path that wraps a blocking   *)
(* acquire in a gate.                                                      *)
(*                                                                         *)
(* A record is a pair <<t, i>>: the i-th SafepointRecord, from the bottom, *)
(* on the stack of thread t.  The manager's linked list of records is the  *)
(* set records[m]; the order of a walk over it is left open.  A record's   *)
(* m_interruptLocation is the interrupt word of its thread's AvmCore, and  *)
(* m_isolateDesc identifies the thread: each isolate runs on one thread.   *)
(***************************************************************************)
EXTENDS Naturals, FiniteSets

CONSTANTS
  Threads,      \* threads that may enter a safepoint context
  Managers,     \* SafepointManager instances
  MaxDepth,     \* bound on the nesting of records on one stack
  MaxRaises,    \* bound on the number of raiseInterrupt calls
  StoreBuffer,  \* TRUE: a store of the interrupt handler may be delayed
  NoThread,     \* (vmpi_thread_t) 0
  NoManager     \* a NULL SafepointManager*

ASSUME SafepointAssumption ==
  /\ MaxDepth \in Nat
  /\ MaxRaises \in Nat
  /\ StoreBuffer \in BOOLEAN
  /\ NoThread \notin Threads
  /\ NoManager \notin Managers

VARIABLES
  status,       \* m_status of each record
  depth,        \* number of records on each stack; the last one is m_current
  mgr,          \* m_manager of each record
  records,      \* m_records of each manager
  owner,        \* holder of each m_requestMutex
  waiting,      \* threads asleep in locker.wait() on each m_requestMutex
  requester,    \* m_requester
  pc,           \* what each thread is executing
  goal,         \* the manager an entering thread is entering
  toVisit,      \* records the walk of a requester has not passed yet
  target,       \* the thread whose interrupt word a requester is about to CAS
  lockOwner,    \* holder of a mutex of the application (the isolate-map lock)
  interrupted,  \* AvmCore::interrupted
  pending,      \* AvmCore::pending_interrupt
  reason,       \* the local of handleInterruptToplevel
  buffered,     \* the handler's store to interrupted is not visible yet
  raising,      \* progress of a concurrent AvmCore::raiseInterrupt
  raises        \* number of raiseInterrupt calls so far

recordVars    == <<status, depth, mgr>>
managerVars   == <<records, owner, waiting, requester>>
interruptVars == <<interrupted, pending, reason, buffered, raising, raises>>
vars == <<status, depth, mgr, records, owner, waiting, requester, pc, goal,
          toVisit, target, lockOwner, interrupted, pending, reason, buffered,
          raising, raises>>

Records == Threads \X (1..MaxDepth)

SP_UNSAFE == "SP_UNSAFE"
SP_SAFE   == "SP_SAFE"

(***************************************************************************)
(* Interrupt reasons.  ScriptTimeout and ExternalInterrupt take the same   *)
(* path through all of the code modelled here and are one value.           *)
(***************************************************************************)
NotInterrupted    == "NotInterrupted"
ExternalInterrupt == "ExternalInterrupt"
SafepointPoll     == "SafepointPoll"
Reasons == {NotInterrupted, ExternalInterrupt, SafepointPoll}

(***************************************************************************)
(* Program locations.                                                      *)
(*   run       ActionScript or VM code (outside any context if depth = 0)  *)
(*   enter     enter: previous record safe, about to lock m_requestMutex   *)
(*   entering  enter: inside the critical section                          *)
(*   leaveGate leave: blocked on m_requestMutex inside a gate              *)
(*   leaving   leave: inside the critical section                          *)
(*   restore   leave: unlinked, about to make the previous record unsafe   *)
(*   safe      inside a SafepointGate, in the call it guards               *)
(*   gateExit  ~SafepointGate, or the tail of leave: holds m_requestMutex  *)
(*   lockGate  inside a gate, blocked on the application's mutex           *)
(*   requestGate  requestSafepointTask: blocked on m_requestMutex in a gate*)
(*   mark      top of the do-loop; scan, cas: the walk over the records    *)
(*   wait      in locker.wait(); spin: the busy-wait; task: task.run()     *)
(*   handle    handleInterruptToplevel: read the reason                    *)
(*   poll, pollGate, pollGateExit, polled: its SAFEPOINT_POLL              *)
(*   interrupt AvmCore::interrupt; unwind: an exception leaves the context *)
(***************************************************************************)
HoldLocs == {"leaving", "gateExit", "mark", "scan", "cas", "spin", "task",
             "pollGateExit"}
TaskLocs   == {"scan", "cas", "spin", "task"}
UnsafeLocs == {"run", "handle", "poll", "polled", "interrupt", "unwind"}
GateLocs   == {"leaveGate", "restore", "safe", "lockGate", "requestGate",
               "wait", "pollGate"}
Locs == {"enter", "entering"} \cup HoldLocs \cup UnsafeLocs \cup GateLocs

Top(t) == <<t, depth[t]>>          \* SafepointRecord::current()
Mgr(t) == mgr[Top(t)]              \* SafepointRecord::current()->m_manager
HasCurrent(t) == depth[t] > 0      \* SafepointRecord::hasCurrent()

At(t, l)   == pc[t] = l
Goto(t, l) == pc' = [pc EXCEPT ![t] = l]

(***************************************************************************)
(* The monitor m_requestMutex.  It is recursive; a gate destructor that    *)
(* relocks a mutex its thread just acquired is part of that acquisition.   *)
(***************************************************************************)
Lock(m, t)   == owner[m] = NoThread /\ owner' = [owner EXCEPT ![m] = t]
Unlock(m)    == owner' = [owner EXCEPT ![m] = NoThread]
NotifyAll(m) == waiting' = [waiting EXCEPT ![m] = {}]
SetStatus(r, s) == status' = [status EXCEPT ![r] = s]

(* Stores of t issued before a lock operation or barrier are visible. *)
Fenced(t) == ~buffered[t]

TypeOK ==
  /\ status \in [Records -> {SP_UNSAFE, SP_SAFE}]
  /\ depth \in [Threads -> 0..MaxDepth]
  /\ mgr \in [Records -> Managers \cup {NoManager}]
  /\ records \in [Managers -> SUBSET Records]
  /\ owner \in [Managers -> Threads \cup {NoThread}]
  /\ waiting \in [Managers -> SUBSET Threads]
  /\ requester \in [Managers -> Threads \cup {NoThread}]
  /\ pc \in [Threads -> Locs]
  /\ goal \in [Threads -> Managers \cup {NoManager}]
  /\ toVisit \in [Threads -> SUBSET Records]
  /\ target \in [Threads -> Threads \cup {NoThread}]
  /\ lockOwner \in Threads \cup {NoThread}
  /\ interrupted \in [Threads -> Reasons]
  /\ pending \in [Threads -> {NotInterrupted, ExternalInterrupt}]
  /\ reason \in [Threads -> Reasons]
  /\ buffered \in [Threads -> BOOLEAN]
  /\ raising \in [Threads -> {"idle", "toInterrupted", "toPending"}]
  /\ raises \in 0..MaxRaises

Init ==
  /\ status = [r \in Records |-> SP_UNSAFE]
  /\ depth = [t \in Threads |-> 0]
  /\ mgr = [r \in Records |-> NoManager]
  /\ records = [m \in Managers |-> {}]
  /\ owner = [m \in Managers |-> NoThread]
  /\ waiting = [m \in Managers |-> {}]
  /\ requester = [m \in Managers |-> NoThread]
  /\ pc = [t \in Threads |-> "run"]
  /\ goal = [t \in Threads |-> NoManager]
  /\ toVisit = [t \in Threads |-> {}]
  /\ target = [t \in Threads |-> NoThread]
  /\ lockOwner = NoThread
  /\ interrupted = [t \in Threads |-> NotInterrupted]
  /\ pending = [t \in Threads |-> NotInterrupted]
  /\ reason = [t \in Threads |-> NotInterrupted]
  /\ buffered = [t \in Threads |-> FALSE]
  /\ raising = [t \in Threads |-> "idle"]
  /\ raises = 0

-----------------------------------------------------------------------------
(***************************************************************************)
(* SafepointManager::enter                                                 *)
(***************************************************************************)

(* Mutation of EnterBegin: the previous record is left SP_UNSAFE. *)
EnterBeginPrevUnsafe(t, m) ==
  /\ At(t, "run") /\ depth[t] < MaxDepth /\ Fenced(t)
  /\ goal' = [goal EXCEPT ![t] = m]
  /\ Goto(t, "enter")
  /\ UNCHANGED <<recordVars, managerVars, toVisit, target, lockOwner,
                 interruptVars>>

(* A fresh record is SP_UNSAFE; the record below it is made safe before    *)
(* the list is touched.                                                    *)
EnterBegin(t, m) ==
  /\ At(t, "run") /\ depth[t] < MaxDepth /\ Fenced(t)
  /\ status' = IF HasCurrent(t) THEN [status EXCEPT ![Top(t)] = SP_SAFE]
                               ELSE status
  /\ goal' = [goal EXCEPT ![t] = m]
  /\ Goto(t, "enter")
  /\ UNCHANGED <<depth, mgr, managerVars, toVisit, target, lockOwner, interruptVars>>

(* Mutation of EnterLock: m_requestMutex is not taken. *)
EnterWithoutLock(t) ==
  /\ At(t, "enter")
  /\ Goto(t, "entering")
  /\ UNCHANGED <<recordVars, managerVars, goal, toVisit, target, lockOwner,
                 interruptVars>>

(* Locked without a gate: the thread is safe in the context below, and not *)
(* yet part of the new one.                                                *)
EnterLock(t) ==
  /\ At(t, "enter")
  /\ Lock(goal[t], t)
  /\ Goto(t, "entering")
  /\ UNCHANGED <<recordVars, records, waiting, requester, goal, toVisit,
                 target, lockOwner, interruptVars>>

(* Link the record, notify, unlock, setCurrent. *)
EnterPush(t) ==
  LET m == goal[t]
      r == <<t, depth[t] + 1>>
  IN  /\ At(t, "entering")
      /\ records' = [records EXCEPT ![m] = @ \cup {r}]
      /\ mgr' = [mgr EXCEPT ![r] = m]
      /\ status' = [status EXCEPT ![r] = SP_UNSAFE]
      /\ depth' = [depth EXCEPT ![t] = @ + 1]
      /\ goal' = [goal EXCEPT ![t] = NoManager]
      /\ NotifyAll(m)
      /\ Unlock(m)
      /\ Goto(t, "run")
      /\ UNCHANGED <<requester, toVisit, target, lockOwner, interruptVars>>

(***************************************************************************)
(* SafepointManager::leave, on a normal return or while an exception       *)
(* unwinds the stack.                                                      *)
(***************************************************************************)

(* MonitorLocker<IMPLICIT_SAFEPOINT>: tryLock succeeds, ... *)
LeaveTryLock(t) ==
  /\ pc[t] \in {"run", "unwind"} /\ HasCurrent(t) /\ Fenced(t)
  /\ Lock(Mgr(t), t)
  /\ Goto(t, "leaving")
  /\ UNCHANGED <<recordVars, records, waiting, requester, goal, toVisit,
                 target, lockOwner, interruptVars>>

(* ... or fails, and the thread blocks inside a gate. *)
LeaveBlock(t) ==
  /\ pc[t] \in {"run", "unwind"} /\ HasCurrent(t) /\ Fenced(t)
  /\ owner[Mgr(t)] # NoThread
  /\ SetStatus(Top(t), SP_SAFE)
  /\ Goto(t, "leaveGate")
  /\ UNCHANGED <<depth, mgr, managerVars, goal, toVisit, target, lockOwner,
                 interruptVars>>

(* A gate around a blocking acquire of m_requestMutex itself: lock, and the*)
(* destructor sets SP_UNSAFE and notifies under the same lock.             *)
LockInGate(t, from, to) ==
  /\ At(t, from)
  /\ Lock(Mgr(t), t)
  /\ SetStatus(Top(t), SP_UNSAFE)
  /\ NotifyAll(Mgr(t))
  /\ Goto(t, to)
  /\ UNCHANGED <<depth, mgr, records, requester, goal, toVisit, target, lockOwner,
                 interruptVars>>

LeaveLockInGate(t) == LockInGate(t, "leaveGate", "leaving")

(* Mutation of LeavePop: the previous record is not made unsafe again. *)
LeavePopNoRestore(t) ==
  LET m == Mgr(t)
  IN  /\ At(t, "leaving")
      /\ records' = [records EXCEPT ![m] = @ \ {Top(t)}]
      /\ mgr' = [mgr EXCEPT ![Top(t)] = NoManager]
      /\ depth' = [depth EXCEPT ![t] = @ - 1]
      /\ NotifyAll(m)
      /\ Unlock(m)
      /\ Goto(t, "run")
      /\ UNCHANGED <<status, requester, goal, toVisit, target, lockOwner,
                     interruptVars>>

(* Unlink the record, notify, unlock, setCurrent(stackPrev).  If there is a*)
(* previous record the thread goes on to make it SP_UNSAFE, which is the   *)
(* same critical section as the destructor of a gate.                      *)
LeavePop(t) ==
  LET m == Mgr(t)
  IN  /\ At(t, "leaving")
      /\ records' = [records EXCEPT ![m] = @ \ {Top(t)}]
      /\ mgr' = [mgr EXCEPT ![Top(t)] = NoManager]
      /\ depth' = [depth EXCEPT ![t] = @ - 1]
      /\ NotifyAll(m)
      /\ Unlock(m)
      /\ Goto(t, IF depth[t] = 1 THEN "run" ELSE "restore")
      /\ UNCHANGED <<status, requester, goal, toVisit, target, lockOwner,
                     interruptVars>>

(***************************************************************************)
(* SafepointGate around a call that may block (VMThread::sleep, a wait on  *)
(* another monitor), and its destructor.                                   *)
(***************************************************************************)
GateEnter(t) ==
  /\ At(t, "run") /\ HasCurrent(t) /\ Fenced(t)
  /\ SetStatus(Top(t), SP_SAFE)
  /\ Goto(t, "safe")
  /\ UNCHANGED <<depth, mgr, managerVars, goal, toVisit, target, lockOwner,
                 interruptVars>>

GateExitLock(t, from, to) ==
  /\ At(t, from)
  /\ Lock(Mgr(t), t)
  /\ Goto(t, to)
  /\ UNCHANGED <<recordVars, records, waiting, requester, goal, toVisit,
                 target, lockOwner, interruptVars>>

GateExitUnsafe(t, from, to) ==
  /\ At(t, from)
  /\ SetStatus(Top(t), SP_UNSAFE)
  /\ NotifyAll(Mgr(t))
  /\ Unlock(Mgr(t))
  /\ Goto(t, to)
  /\ UNCHANGED <<depth, mgr, records, requester, goal, toVisit, target, lockOwner,
                 interruptVars>>

(* Mutation of GateLock: ~SafepointGate does not block on m_requestMutex. *)
GateWithoutLock(t) ==
  /\ At(t, "safe")
  /\ Goto(t, "gateExit")
  /\ UNCHANGED <<recordVars, managerVars, goal, toVisit, target, lockOwner,
                 interruptVars>>

(* Mutation of LeaveRestore: it does not block on stackPrev's m_requestMutex. *)
LeaveRestoreWithoutLock(t) ==
  /\ At(t, "restore")
  /\ Goto(t, "gateExit")
  /\ UNCHANGED <<recordVars, managerVars, goal, toVisit, target, lockOwner,
                 interruptVars>>

GateLock(t)     == GateExitLock(t, "safe", "gateExit")
LeaveRestore(t) == GateExitLock(t, "restore", "gateExit")
GateLeave(t)    == GateExitUnsafe(t, "gateExit", "run")

(***************************************************************************)
(* SCOPE_LOCK on a mutex of the application.                               *)
(***************************************************************************)
MutexTryLock(t) ==
  /\ At(t, "run") /\ Fenced(t)
  /\ lockOwner = NoThread
  /\ lockOwner' = t
  /\ UNCHANGED <<recordVars, managerVars, pc, goal, toVisit, target, interruptVars>>

MutexBlock(t) ==
  /\ At(t, "run") /\ HasCurrent(t) /\ Fenced(t)
  /\ lockOwner \notin {NoThread, t}
  /\ SetStatus(Top(t), SP_SAFE)
  /\ Goto(t, "lockGate")
  /\ UNCHANGED <<depth, mgr, managerVars, goal, toVisit, target, lockOwner,
                 interruptVars>>

(* The mutex is acquired inside the gate, whose destructor may then block. *)
MutexLockInGate(t) ==
  /\ At(t, "lockGate")
  /\ lockOwner = NoThread
  /\ lockOwner' = t
  /\ Goto(t, "safe")
  /\ UNCHANGED <<recordVars, managerVars, goal, toVisit, target, interruptVars>>

MutexUnlock(t) ==
  /\ At(t, "run") /\ Fenced(t)
  /\ lockOwner = t
  /\ lockOwner' = NoThread
  /\ UNCHANGED <<recordVars, managerVars, pc, goal, toVisit, target, interruptVars>>

-----------------------------------------------------------------------------
(***************************************************************************)
(* SafepointManager::requestSafepointTask                                  *)
(***************************************************************************)
RequestTryLock(t) ==
  /\ At(t, "run") /\ HasCurrent(t) /\ Fenced(t)
  /\ Lock(Mgr(t), t)
  /\ Goto(t, "mark")
  /\ UNCHANGED <<recordVars, records, waiting, requester, goal, toVisit,
                 target, lockOwner, interruptVars>>

RequestBlock(t) ==
  /\ At(t, "run") /\ HasCurrent(t) /\ Fenced(t)
  /\ owner[Mgr(t)] # NoThread
  /\ SetStatus(Top(t), SP_SAFE)
  /\ Goto(t, "requestGate")
  /\ UNCHANGED <<depth, mgr, managerVars, goal, toVisit, target, lockOwner,
                 interruptVars>>

RequestLockInGate(t) == LockInGate(t, "requestGate", "mark")

(* Mutation of RequestMark: m_requester is not set before the walk. *)
RequestMarkSilent(t) ==
  /\ At(t, "mark")
  /\ SetStatus(Top(t), SP_SAFE)
  /\ toVisit' = [toVisit EXCEPT ![t] = records[Mgr(t)]]
  /\ Goto(t, "scan")
  /\ UNCHANGED <<depth, mgr, managerVars, goal, target, lockOwner,
                 interruptVars>>

(* Top of the do-loop: own record safe, m_requester set, walk started. *)
RequestMark(t) ==
  /\ At(t, "mark")
  /\ SetStatus(Top(t), SP_SAFE)
  /\ requester' = [requester EXCEPT ![Mgr(t)] = t]
  /\ toVisit' = [toVisit EXCEPT ![t] = records[Mgr(t)]]
  /\ Goto(t, "scan")
  /\ UNCHANGED <<depth, mgr, records, owner, waiting, goal, target,
                 lockOwner, interruptVars>>

(* A record of its own or a safe record is passed over, ... *)
ScanSkip(t, r) ==
  /\ At(t, "scan") /\ r \in toVisit[t]
  /\ r[1] = t \/ status[r] = SP_SAFE
  /\ toVisit' = [toVisit EXCEPT ![t] = @ \ {r}]
  /\ UNCHANGED <<recordVars, managerVars, pc, goal, target, lockOwner,
                 interruptVars>>

(* ... one seen SP_UNSAFE is going to be sent a SafepointPoll; by then its *)
(* thread may have become safe.                                            *)
ScanUnsafe(t, r) ==
  /\ At(t, "scan") /\ r \in toVisit[t]
  /\ r[1] # t /\ status[r] = SP_UNSAFE
  /\ toVisit' = [toVisit EXCEPT ![t] = @ \ {r}]
  /\ target' = [target EXCEPT ![t] = r[1]]
  /\ Goto(t, "cas")
  /\ UNCHANGED <<recordVars, managerVars, goal, lockOwner, interruptVars>>

(* compareAndSwap32WithBarrierPrev(0, SafepointPoll, location), unless an  *)
(* unwinding interrupt is found there.                                     *)
CasPoll(t) ==
  LET u == target[t]
  IN  /\ At(t, "cas")
      /\ interrupted[u] \in {NotInterrupted, SafepointPoll}
      /\ interrupted' = [interrupted EXCEPT ![u] = SafepointPoll]
      /\ target' = [target EXCEPT ![t] = NoThread]
      /\ Goto(t, "scan")
      /\ UNCHANGED <<recordVars, managerVars, goal, toVisit, lockOwner,
                     pending, reason, buffered, raising, raises>>

(* An unwinding interrupt: undo the marks and locker.wait(), whose gate    *)
(* makes the record safe again before the mutex is released.               *)
CasUndo(t) ==
  LET m == Mgr(t)
  IN  /\ At(t, "cas")
      /\ interrupted[target[t]] = ExternalInterrupt
      /\ requester' = [requester EXCEPT ![m] = NoThread]
      /\ waiting' = [waiting EXCEPT ![m] = @ \cup {t}]
      /\ Unlock(m)
      /\ toVisit' = [toVisit EXCEPT ![t] = {}]
      /\ target' = [target EXCEPT ![t] = NoThread]
      /\ Goto(t, "wait")
      /\ UNCHANGED <<recordVars, records, goal, lockOwner, interruptVars>>

(* Notified: reacquire, leave the gate, restart the do-loop. *)
WaitReturn(t) ==
  /\ At(t, "wait") /\ t \notin waiting[Mgr(t)]
  /\ LockInGate(t, "wait", "mark")

(* The walk is complete: start the busy-wait at the head of the list. *)
SpinBegin(t) ==
  /\ At(t, "scan") /\ toVisit[t] = {}
  /\ toVisit' = [toVisit EXCEPT ![t] = records[Mgr(t)]]
  /\ Goto(t, "spin")
  /\ UNCHANGED <<recordVars, managerVars, goal, target, lockOwner,
                 interruptVars>>

(* The busy-wait moves past a record once it reads SP_SAFE from it. *)
Spin(t, r) ==
  /\ At(t, "spin") /\ r \in toVisit[t]
  /\ status[r] = SP_SAFE
  /\ toVisit' = [toVisit EXCEPT ![t] = @ \ {r}]
  /\ UNCHANGED <<recordVars, managerVars, pc, goal, target, lockOwner,
                 interruptVars>>

(* Clear the requester's own interrupt word and start task.run(). *)
TaskRun(t) ==
  /\ At(t, "spin") /\ toVisit[t] = {}
  /\ interrupted' = [interrupted EXCEPT ![t] = NotInterrupted]
  /\ Goto(t, "task")
  /\ UNCHANGED <<recordVars, managerVars, goal, toVisit, target, lockOwner,
                 pending, reason, buffered, raising, raises>>

(* Mutation of TaskReturn: the requester's record stays SP_SAFE. *)
TaskReturnSafe(t) ==
  LET m == Mgr(t)
  IN  /\ At(t, "task")
      /\ requester' = [requester EXCEPT ![m] = NoThread]
      /\ Unlock(m)
      /\ Goto(t, "run")
      /\ UNCHANGED <<recordVars, records, waiting, goal, toVisit, target,
                     lockOwner, interruptVars>>

(* The task returns: record unsafe, m_requester reset, unlock; no notify. *)
TaskReturn(t) ==
  LET m == Mgr(t)
  IN  /\ At(t, "task")
      /\ SetStatus(Top(t), SP_UNSAFE)
      /\ requester' = [requester EXCEPT ![m] = NoThread]
      /\ Unlock(m)
      /\ Goto(t, "run")
      /\ UNCHANGED <<depth, mgr, records, waiting, goal, toVisit, target,
                     lockOwner, interruptVars>>

-----------------------------------------------------------------------------
(***************************************************************************)
(* AvmCore::handleInterruptToplevel, called from the backward branches of  *)
(* ActionScript code when the interrupt word is not zero.  All callers can *)
(* unwind: a non-interruptible method does not test the word.              *)
(***************************************************************************)

(* The value of the interrupt word as the thread itself reads it. *)
Seen(t) == IF buffered[t] THEN NotInterrupted ELSE interrupted[t]

HandleRead(t) ==
  /\ At(t, "run") /\ HasCurrent(t)
  /\ Seen(t) # NotInterrupted
  /\ reason' = [reason EXCEPT ![t] = interrupted[t]]
  /\ Goto(t, "handle")
  /\ UNCHANGED <<recordVars, managerVars, goal, toVisit, target, lockOwner,
                 interrupted, pending, buffered, raising, raises>>

(* core->interrupted = NotInterrupted; the plain store may stay in the     *)
(* store buffer across the following load of m_requester.                  *)
HandleClear(t) ==
  /\ At(t, "handle")
  /\ \/ /\ interrupted' = [interrupted EXCEPT ![t] = NotInterrupted]
        /\ UNCHANGED buffered
     \/ /\ StoreBuffer /\ reason[t] = SafepointPoll
        /\ buffered' = [buffered EXCEPT ![t] = TRUE]
        /\ UNCHANGED interrupted
  /\ reason' = [reason EXCEPT ![t] = NotInterrupted]
  /\ IF reason[t] = SafepointPoll
       THEN Goto(t, "poll") /\ UNCHANGED pending
       ELSE /\ Goto(t, "interrupt")
            /\ pending' = [pending EXCEPT ![t] = NotInterrupted]
  /\ UNCHANGED <<recordVars, managerVars, goal, toVisit, target, lockOwner,
                 raising, raises>>

(* The delayed store reaches memory. *)
StoreDrain(t) ==
  /\ buffered[t]
  /\ buffered' = [buffered EXCEPT ![t] = FALSE]
  /\ interrupted' = [interrupted EXCEPT ![t] = NotInterrupted]
  /\ UNCHANGED <<recordVars, managerVars, pc, goal, toVisit, target,
                 lockOwner, pending, reason, raising, raises>>

(* SAFEPOINT_POLL: hasRequest() is false, ... *)
PollNoRequest(t) ==
  /\ At(t, "poll")
  /\ requester[Mgr(t)] = NoThread
  /\ Goto(t, "polled")
  /\ UNCHANGED <<recordVars, managerVars, goal, toVisit, target, lockOwner,
                 interruptVars>>

(* ... or true, and the thread passes through a gate. *)
PollRequest(t) ==
  /\ At(t, "poll")
  /\ requester[Mgr(t)] # NoThread /\ Fenced(t)
  /\ SetStatus(Top(t), SP_SAFE)
  /\ Goto(t, "pollGate")
  /\ UNCHANGED <<depth, mgr, managerVars, goal, toVisit, target, lockOwner,
                 interruptVars>>

PollGateLock(t)  == GateExitLock(t, "pollGate", "pollGateExit")
PollGateLeave(t) == GateExitUnsafe(t, "pollGateExit", "polled")

(* Mutation of PollDone: the interrupt word is moved into pending_interrupt. *)
PollDonePends(t) ==
  /\ At(t, "polled")
  /\ Goto(t, IF pending[t] = NotInterrupted THEN "run" ELSE "interrupt")
  /\ pending' = [pending EXCEPT ![t] = interrupted[t]]
  /\ UNCHANGED <<recordVars, managerVars, goal, toVisit, target, lockOwner,
                 interrupted, reason, buffered, raising, raises>>

(* After the poll: act on an interrupt that was raised meanwhile. *)
PollDone(t) ==
  /\ At(t, "polled")
  /\ Goto(t, IF pending[t] = NotInterrupted THEN "run" ELSE "interrupt")
  /\ pending' = [pending EXCEPT ![t] = NotInterrupted]
  /\ UNCHANGED <<recordVars, managerVars, goal, toVisit, target, lockOwner,
                 interrupted, reason, buffered, raising, raises>>

(* AvmCore::interrupt is implemented by the host and throws.  The script   *)
(* catches the exception and goes on, or it leaves the safepoint context.  *)
Interrupt(t) ==
  /\ At(t, "interrupt")
  /\ \E l \in {"run", "unwind"} : Goto(t, l)
  /\ UNCHANGED <<recordVars, managerVars, goal, toVisit, target, lockOwner,
                 interruptVars>>

(***************************************************************************)
(* AvmCore::raiseInterrupt on the core of thread t, called from a timer or *)
(* from another isolate: the test of the word and the store are two steps. *)
(***************************************************************************)
RaiseTest(t) ==
  /\ raising[t] = "idle" /\ raises < MaxRaises
  /\ raising' = [raising EXCEPT ![t] = IF interrupted[t] = SafepointPoll
                                         THEN "toPending"
                                         ELSE "toInterrupted"]
  /\ raises' = raises + 1
  /\ UNCHANGED <<recordVars, managerVars, pc, goal, toVisit, target,
                 lockOwner, interrupted, pending, reason, buffered>>

RaiseStore(t) ==
  /\ \/ /\ raising[t] = "toPending"
        /\ pending' = [pending EXCEPT ![t] = ExternalInterrupt]
        /\ UNCHANGED interrupted
     \/ /\ raising[t] = "toInterrupted"
        /\ interrupted' = [interrupted EXCEPT ![t] = ExternalInterrupt]
        /\ UNCHANGED pending
  /\ raising' = [raising EXCEPT ![t] = "idle"]
  /\ UNCHANGED <<recordVars, managerVars, pc, goal, toVisit, target,
                 lockOwner, reason, buffered, raises>>

-----------------------------------------------------------------------------
(* Steps a thread takes without waiting for a decision of the program. *)
Step(t) ==
  \/ EnterLock(t) \/ EnterPush(t)
  \/ LeaveLockInGate(t) \/ LeavePop(t) \/ LeaveRestore(t)
  \/ GateLeave(t) \/ MutexLockInGate(t)
  \/ RequestLockInGate(t) \/ RequestMark(t)
  \/ \E r \in Records : ScanSkip(t, r) \/ ScanUnsafe(t, r) \/ Spin(t, r)
  \/ CasPoll(t) \/ CasUndo(t) \/ WaitReturn(t) \/ SpinBegin(t)
  \/ TaskRun(t) \/ TaskReturn(t)
  \/ HandleClear(t) \/ PollNoRequest(t) \/ PollRequest(t)
  \/ PollGateLock(t) \/ PollGateLeave(t) \/ PollDone(t) \/ Interrupt(t)

(* Steps the program may choose to take or not. *)
Choice(t) ==
  \/ \E m \in Managers : EnterBegin(t, m)
  \/ LeaveTryLock(t) \/ LeaveBlock(t)
  \/ GateEnter(t) \/ GateLock(t)
  \/ MutexTryLock(t) \/ MutexBlock(t) \/ MutexUnlock(t)
  \/ RequestTryLock(t) \/ RequestBlock(t)

Act(t) ==
  \/ Step(t) \/ Choice(t) \/ HandleRead(t) \/ StoreDrain(t)
  \/ RaiseTest(t) \/ RaiseStore(t)

Next == \E t \in Threads : Act(t)

Spec == Init /\ [][Next]_vars

(***************************************************************************)
(* Every thread is scheduled, ActionScript code tests the interrupt word   *)
(* on every backward branch, an unwinding exception reaches leave, a store *)
(* reaches memory; a thread that was notified is not starved on the mutex  *)
(* for ever.  Nothing forces running code to enter a gate, to make a       *)
(* request or to leave, and a blocking call may never return.              *)
(***************************************************************************)
Fairness ==
  \A t \in Threads :
    /\ WF_vars(Step(t))
    /\ WF_vars(HandleRead(t))
    /\ WF_vars(At(t, "unwind") /\ (LeaveTryLock(t) \/ LeaveBlock(t)))
    /\ WF_vars(StoreDrain(t))
    /\ WF_vars(RaiseStore(t))
    /\ SF_vars(WaitReturn(t))

FairSpec == Spec /\ Fairness

-----------------------------------------------------------------------------
(***************************************************************************)
(* Properties.                                                             *)
(***************************************************************************)

(* u executes code of context m that a task of m must not run beside. *)
Executing(u, m) ==
  HasCurrent(u) /\ Mgr(u) = m /\ pc[u] \in UnsafeLocs \cup {"task"}

(* requestSafepointTask: while a thread runs its task no other thread      *)
(* executes code of the same context, and no other task of it runs.        *)
StopTheWorld ==
  \A t, u \in Threads :
    At(t, "task") /\ u # t => ~Executing(u, Mgr(t))

(* enter and leave: a record that is not top-most on its thread's stack is *)
(* SP_SAFE, at every moment, also between the steps of enter and leave.    *)
NestedRecordsSafe ==
  \A t \in Threads : \A i \in 1..MaxDepth :
    i < depth[t] => status[<<t, i>>] = SP_SAFE

(* The asserts of SafepointGate's constructor and of ~SafepointRecord: a   *)
(* thread that may open a gate, and a record that is unlinked, is          *)
(* SP_UNSAFE; a thread that is blocked anywhere is SP_SAFE, so it never    *)
(* holds up a requester.                                                   *)
StatusMatchesLocation ==
  \A t \in Threads : HasCurrent(t) =>
    /\ pc[t] \in UnsafeLocs \cup {"leaving", "mark"}
         => status[Top(t)] = SP_UNSAFE
    /\ pc[t] \in GateLocs \cup {"enter", "entering"} \cup TaskLocs
         => status[Top(t)] = SP_SAFE

(* No thread enters or leaves a context, and no record of it turns unsafe, *)
(* while one requester has a task pending or running there.                *)
FrozenWhileRequested ==
  [][\A m \in Managers :
       requester[m] # NoThread /\ requester'[m] = requester[m]
         => /\ records'[m] = records[m]
            /\ \A r \in records[m] :
                 status[r] = SP_SAFE => status'[r] = SP_SAFE]_vars

(* A thread that has serialized its request runs its task eventually. *)
RequestRuns == \A t \in Threads : At(t, "mark") ~> At(t, "task")

(* The contract of a context, in terms of the records and locations.       *)
ExecutingIn ==
  [m \in Managers |->
     {t \in Threads : HasCurrent(t) /\ Mgr(t) = m /\ pc[t] \in UnsafeLocs}]
TasksIn ==
  [m \in Managers |-> {t \in Threads : HasCurrent(t) /\ Mgr(t) = m /\ At(t, "task")}]

Contract == INSTANCE SafepointContract WITH executing <- ExecutingIn, tasks <- TasksIn

(* Every step of the managers, seen from the code that uses them, is one   *)
(* the contract allows: a task starts only when its context has stopped,   *)
(* nobody resumes before it returns, and its thread then goes on.          *)
MeetsContract == Contract!Spec

(* An interrupt was raised against the core of t and not acted on yet. *)
InterruptDue(t) ==
  ExternalInterrupt \in {interrupted[t], pending[t], reason[t]}

(* An interrupt raised against a core stays due until its thread calls     *)
(* AvmCore::interrupt: no other code path clears it.                       *)
InterruptNotLost ==
  [][\A t \in Threads : InterruptDue(t) /\ ~InterruptDue(t)'
                           => pc'[t] = "interrupt"]_vars
=============================================================================
