--------------------------- MODULE MutexCondition ---------------------------
(***************************************************************************)
(* One ActionScript Mutex and one Condition on it, shared by the workers   *)
(* of an aggregate (core/ConcurrencyGlue.cpp), and the interruptible waits *)
(* both are built from (Isolate::InterruptibleState, core/Isolate.cpp).    *)
(*                                                                         *)
(* An InterruptibleState is a monitor with a FIFO list of wait records and *)
(* two counters.  User code wakes its waiters with notify and notifyAll;   *)
(* terminating a worker wakes all of them with signal, and those that are  *)
(* not the target go back to sleep.  Such a "signal cycle" lasts until     *)
(* m_signaledWaiters is zero, and notify, notifyAll and signal poll until  *)
(* the cycle before them is over.                                          *)
(*                                                                         *)
(* A section between acquiring a monitor and releasing or waiting on it is *)
(* one step.  The one section that blocks inside is Condition.wait, which  *)
(* holds the monitor of the condition while it notifies the waiters of the *)
(* mutex: condOwner is the thread in it.                                   *)
(***************************************************************************)
EXTENDS Naturals, Sequences, FiniteSets, Functions

CONSTANTS
  Workers,       \* worker threads, one isolate each
  Killers,       \* threads that terminate a worker
  Calls,         \* the calls the workers' programs make, and "spurious"
                 \* when a wait may end for no reason
  MaxRecursion,  \* bound on m_recursionCount and on the depth of m_mutex
  None

Actors == Workers \cup Killers
States == {"mutex", "cond"}

ASSUME MutexConditionAssumption ==
  /\ IsFiniteSet(Actors) /\ Workers \cap Killers = {}
  /\ None \notin Actors \cup States
  /\ MaxRecursion \in Nat \ {0}
  /\ Calls \subseteq {"lock", "tryLock", "reTryLock", "unlock", "wait",
                      "timedWait", "notify", "notifyAll", "spurious"}

VARIABLES
  owner,            \* m_ownerThreadID of the mutex
  recursion,        \* m_recursionCount
  osHolder,         \* thread that holds m_mutex, a recursive OS mutex
  osCount,          \* and how many times it holds it
  list,             \* m_head..m_tail of each state: threads with a record
  signaled,         \* threads whose record is marked signaled
  waiterCount,      \* m_waiterCount of each state
  signaledWaiters,  \* m_signaledWaiters of each state
  waitSet,          \* threads asleep in the monitor of each state
  condOwner,        \* holder of the condition's monitor between steps
  iso,              \* holder of each isolate's m_interruptibleStateMutex
  active,           \* m_interruptibleState of each isolate
  interrupted,      \* m_interrupted of each isolate
  pc,
  op,               \* the loop a worker is in: lock, wait, head, relock
  next,             \* where it goes when it has left the state
  timed,            \* its wait has a timeout
  result,           \* m_monitor.wait returned because of the timeout
  saved,            \* saved_recursionCount of Condition.wait
  target            \* the worker a killer terminates

mutexVars == <<owner, recursion, osHolder, osCount>>
stateVars == <<list, signaled, waiterCount, signaledWaiters, waitSet, condOwner>>
isoVars   == <<iso, active, interrupted>>
localVars == <<op, next, timed, result, saved, target>>
vars == <<mutexVars, stateVars, isoVars, localVars, pc>>

(* The state a worker has entered. *)
At(t) == IF op[t] \in {"wait", "head"} THEN "cond" ELSE "mutex"

WorkerLocs == {"run", "try", "enter", "monitor", "release", "waiting", "leave",
               "unlock", "notify", "notifyAll", "dying", "finalize", "dead"}
KillerLocs == {"idle", "interrupt", "set", "releaseActive", "signal", "done"}

TypeOK ==
  /\ owner \in Workers \cup {None} /\ osHolder \in Workers \cup {None}
  /\ recursion \in 0..MaxRecursion /\ osCount \in 0..MaxRecursion
  /\ list \in [States -> Seq(Workers)]
  /\ signaled \subseteq Workers
  /\ waiterCount \in [States -> 0..Cardinality(Workers)]
  /\ signaledWaiters \in [States -> 0..Cardinality(Workers)]
  /\ waitSet \in [States -> SUBSET Actors]
  /\ condOwner \in Workers \cup {None}
  /\ iso \in [Workers -> Actors \cup {None}]
  /\ active \in [Workers -> States \cup {None}]
  /\ interrupted \in [Workers -> BOOLEAN]
  /\ pc \in [Actors -> WorkerLocs \cup KillerLocs]
  /\ op \in [Workers -> {"lock", "wait", "head", "relock"}]
  /\ next \in [Workers -> {"run", "dying", "enter"}]
  /\ timed \in [Workers -> BOOLEAN] /\ result \in [Workers -> BOOLEAN]
  /\ saved \in [Workers -> 0..MaxRecursion]
  /\ target \in [Killers -> Workers \cup {None}]

Init ==
  /\ owner = None /\ recursion = 0 /\ osHolder = None /\ osCount = 0
  /\ list = [s \in States |-> <<>>]
  /\ signaled = {}
  /\ waiterCount = [s \in States |-> 0]
  /\ signaledWaiters = [s \in States |-> 0]
  /\ waitSet = [s \in States |-> {}]
  /\ condOwner = None
  /\ iso = [t \in Workers |-> None]
  /\ active = [t \in Workers |-> None]
  /\ interrupted = [t \in Workers |-> FALSE]
  /\ pc = [a \in Actors |-> IF a \in Workers THEN "run" ELSE "idle"]
  /\ op = [t \in Workers |-> "lock"]
  /\ next = [t \in Workers |-> "run"]
  /\ timed = [t \in Workers |-> FALSE]
  /\ result = [t \in Workers |-> FALSE]
  /\ saved = [t \in Workers |-> 0]
  /\ target = [k \in Killers |-> None]

Goto(a, l) == pc' = [pc EXCEPT ![a] = l]

(* The monitor of a state is free. *)
MonitorFree(s) == s = "cond" => condOwner = None

(* VMPI_recursiveMutexTryLock succeeds; VMPI_recursiveMutexUnlock. *)
CanTryLock(t) == osHolder \in {None, t}
OsUnlock ==
  /\ osCount' = osCount - 1
  /\ osHolder' = IF osCount = 1 THEN None ELSE osHolder

(* The bound on both depths, kept by the programs. *)
MayLock(t) ==
  /\ owner = t => recursion < MaxRecursion
  /\ osHolder = t => osCount < MaxRecursion

(* lockAcquired, with the count the caller leaves. *)
Acquire(t, count) ==
  /\ osHolder' = t /\ osCount' = osCount + 1
  /\ owner' = t /\ recursion' = count

(***************************************************************************)
(* InterruptibleState::notifyAll, notify and signal share the loop that    *)
(* polls until the signal cycle is over, with timed waits of 0 ms.         *)
(***************************************************************************)
Notifies(a) ==
  CASE pc[a] \in {"release", "unlock", "finalize"} -> "mutex"
    [] pc[a] \in {"notify", "notifyAll"}           -> "cond"
    [] pc[a] = "signal"                            -> active[target[a]]
    [] OTHER                                       -> None

InCycle(s) == signaledWaiters[s] > 0

Poll(a) ==
  LET s == Notifies(a) IN
  /\ s # None /\ MonitorFree(s) /\ InCycle(s) /\ a \notin waitSet[s]
  /\ waitSet' = [waitSet EXCEPT ![s] = @ \cup {a}]
  /\ UNCHANGED <<mutexVars, list, signaled, waiterCount, signaledWaiters,
                 condOwner, isoVars, localVars, pc>>

PollAgain(a) ==
  LET s == Notifies(a) IN
  /\ s # None /\ a \in waitSet[s]
  /\ waitSet' = [waitSet EXCEPT ![s] = @ \ {a}]
  /\ UNCHANGED <<mutexVars, list, signaled, waiterCount, signaledWaiters,
                 condOwner, isoVars, localVars, pc>>

(* Past the polling loop, with the monitor held. *)
MayNotify(a) ==
  LET s == Notifies(a) IN
  /\ s # None /\ MonitorFree(s) /\ ~InCycle(s) /\ a \notin waitSet[s]

(***************************************************************************)
(* The program of a worker.                                                *)
(***************************************************************************)

(* MutexObject::State::lock. *)
Lock(t) ==
  /\ "lock" \in Calls /\ pc[t] = "run" /\ MayLock(t)
  /\ op' = [op EXCEPT ![t] = "lock"]
  /\ Goto(t, "enter")
  /\ UNCHANGED <<mutexVars, stateVars, isoVars, next, timed, result, saved, target>>

(* MutexObject::State::tryLock reads the waiter count without the monitor. *)
TryLock(t) ==
  /\ pc[t] = "run" /\ MayLock(t)
  /\ (IF owner = t THEN "reTryLock" ELSE "tryLock") \in Calls
  /\ waiterCount["mutex"] = 0
  /\ Goto(t, "try")
  /\ UNCHANGED <<mutexVars, stateVars, isoVars, localVars>>

TryLockOs(t) ==
  /\ pc[t] = "try"
  /\ IF CanTryLock(t) THEN Acquire(t, recursion + 1) ELSE UNCHANGED mutexVars
  /\ Goto(t, "run")
  /\ UNCHANGED <<stateVars, isoVars, localVars>>

(* Mutation of Unlock: the owner is not reset. *)
UnlockKeepsOwner(t) ==
  /\ "unlock" \in Calls /\ pc[t] = "run" /\ owner = t
  /\ recursion' = recursion - 1
  /\ IF recursion = 1 THEN OsUnlock /\ Goto(t, "unlock")
                      ELSE UNCHANGED <<osHolder, osCount, pc>>
  /\ UNCHANGED <<owner, stateVars, isoVars, localVars>>

(* MutexObject::State::unlock up to its notifyAll. *)
Unlock(t) ==
  /\ "unlock" \in Calls /\ pc[t] = "run" /\ owner = t
  /\ recursion' = recursion - 1
  /\ IF recursion = 1 THEN owner' = None /\ OsUnlock /\ Goto(t, "unlock")
                      ELSE UNCHANGED <<owner, osHolder, osCount, pc>>
  /\ UNCHANGED <<stateVars, isoVars, localVars>>

(* ConditionObject::State::wait, before its first Enter. *)
Wait(t) ==
  /\ pc[t] = "run" /\ owner = t
  /\ \E timeout \in BOOLEAN :
       /\ (IF timeout THEN "timedWait" ELSE "wait") \in Calls
       /\ timed' = [timed EXCEPT ![t] = timeout]
  /\ owner' = None /\ recursion' = 0
  /\ saved' = [saved EXCEPT ![t] = recursion]
  /\ op' = [op EXCEPT ![t] = "wait"]
  /\ Goto(t, "enter")
  /\ UNCHANGED <<osHolder, osCount, stateVars, isoVars, next, result, target>>

(* ConditionObject::notify and notifyAll. *)
Notify(t) ==
  /\ pc[t] = "run" /\ owner = t
  /\ \E call \in {"notify", "notifyAll"} : call \in Calls /\ Goto(t, call)
  /\ UNCHANGED <<mutexVars, stateVars, isoVars, localVars>>

(* The interrupt reaches a worker that is running: the exception unwinds   *)
(* its program and its core is deleted.                                    *)
Die(t) ==
  /\ pc[t] = "run" /\ interrupted[t]
  /\ Goto(t, "dying")
  /\ UNCHANGED <<mutexVars, stateVars, isoVars, localVars>>

(* ~MutexObject unlocks a mutex that the thread owns, all levels of it. *)
Finalize(t) ==
  /\ pc[t] = "dying"
  /\ IF owner = t
     THEN owner' = None /\ recursion' = 0 /\ OsUnlock /\ Goto(t, "finalize")
     ELSE UNCHANGED mutexVars /\ Goto(t, "dead")
  /\ UNCHANGED <<stateVars, isoVars, localVars>>

(***************************************************************************)
(* InterruptibleState::Enter                                               *)
(***************************************************************************)

(* Mutation of EnterIsolate: the second Enter of Condition.wait does not   *)
(* set the active state.                                                   *)
EnterIsolateOnce(t) ==
  /\ pc[t] = "enter" /\ iso[t] = None
  /\ iso' = [iso EXCEPT ![t] = t]
  /\ active' = [active EXCEPT ![t] = IF op[t] = "relock" THEN None ELSE At(t)]
  /\ Goto(t, "monitor")
  /\ UNCHANGED <<mutexVars, stateVars, interrupted, localVars>>

(* ActiveInterruptibleStateHelper sets the isolate's active state and      *)
(* keeps the isolate's mutex until the monitor is acquired.                *)
EnterIsolate(t) ==
  /\ pc[t] = "enter" /\ iso[t] = None
  /\ iso' = [iso EXCEPT ![t] = t]
  /\ active' = [active EXCEPT ![t] = At(t)]
  /\ Goto(t, "monitor")
  /\ UNCHANGED <<mutexVars, stateVars, interrupted, localVars>>

(* The list q without the record of t: a walk from the head unlinks it.    *)
Unlink(q, t) ==
  LET i == CHOOSE j \in DOMAIN q : q[j] = t
  IN  SubSeq(q, 1, i - 1) \o SubSeq(q, i + 1, Len(q))

(* ~Enter takes the record out of the list q and releases the monitor. *)
Leave(t, q, to) ==
  /\ list' = [list EXCEPT ![At(t)] = Unlink(q, t)]
  /\ next' = [next EXCEPT ![t] = to]
  /\ Goto(t, "leave")

(* ~ActiveInterruptibleStateHelper, and on to the next part of the call. *)
LeaveIsolate(t) ==
  /\ pc[t] = "leave" /\ iso[t] = None
  /\ active' = [active EXCEPT ![t] = None]
  /\ op' = [op EXCEPT ![t] = IF next[t] = "enter" THEN "relock" ELSE "lock"]
  /\ timed' = [timed EXCEPT ![t] = FALSE]
  /\ next' = [next EXCEPT ![t] = "run"]
  /\ result' = [result EXCEPT ![t] = FALSE]
  /\ saved' = [saved EXCEPT ![t] = IF next[t] = "enter" THEN @ ELSE 0]
  /\ Goto(t, next[t])
  /\ UNCHANGED <<mutexVars, stateVars, iso, interrupted, target>>

(* Enter::wait when the worker is not interrupted; the record is in q and  *)
(* count is the waiter count without this worker.                          *)
Sleep(t, q, count) ==
  /\ list' = [list EXCEPT ![At(t)] = q]
  /\ waiterCount' = [waiterCount EXCEPT ![At(t)] = count + 1]
  /\ waitSet' = [waitSet EXCEPT ![At(t)] = @ \cup {t}]
  /\ result' = [result EXCEPT ![t] = FALSE]
  /\ Goto(t, "waiting")

NoSleep(t, count) ==
  /\ waiterCount' = [waiterCount EXCEPT ![At(t)] = count]
  /\ UNCHANGED <<waitSet, result>>

(* Mutation of LockTurn: Condition.wait does not restore the count. *)
LockTurnOnce(t, q, count) ==
  LET mine == Head(q) = t /\ CanTryLock(t) IN
  /\ \/ mine /\ Acquire(t, 1) /\ Leave(t, q, "run") /\ NoSleep(t, count)
     \/ /\ ~mine /\ interrupted[t]
        /\ Leave(t, q, "dying") /\ NoSleep(t, count)
        /\ UNCHANGED mutexVars
     \/ /\ ~mine /\ ~interrupted[t]
        /\ Sleep(t, q, count)
        /\ UNCHANGED <<mutexVars, next>>
  /\ UNCHANGED <<op, timed>>

(* One turn of the loop that acquires the mutex, in lock and in the second *)
(* half of Condition.wait: the lock is for the head of the list.           *)
LockTurn(t, q, count) ==
  LET mine == Head(q) = t /\ CanTryLock(t) IN
  /\ \/ /\ mine
        /\ Acquire(t, IF op[t] = "lock" THEN 1 ELSE saved[t])
        /\ Leave(t, q, "run") /\ NoSleep(t, count)
     \/ /\ ~mine /\ interrupted[t]
        /\ Leave(t, q, "dying") /\ NoSleep(t, count)
        /\ UNCHANGED mutexVars
     \/ /\ ~mine /\ ~interrupted[t]
        /\ Sleep(t, q, count)
        /\ UNCHANGED <<mutexVars, next>>
  /\ UNCHANGED <<op, timed>>

EnterMutex(t) ==
  LET q == Append(list["mutex"], t) IN
  /\ pc[t] = "monitor" /\ At(t) = "mutex"
  /\ iso' = [iso EXCEPT ![t] = None]
  /\ IF op[t] = "lock" /\ owner = t
     THEN /\ recursion' = recursion + 1
          /\ Leave(t, q, "run")
          /\ UNCHANGED <<owner, osHolder, osCount, waiterCount, waitSet, result,
                         op, timed>>
     ELSE LockTurn(t, q, waiterCount["mutex"])
  /\ UNCHANGED <<signaled, signaledWaiters, condOwner, active, interrupted,
                 saved, target>>

(* Condition.wait has its record in the list, and releases the mutex.  It  *)
(* keeps the monitor of the condition until it falls asleep.               *)
EnterCondition(t) ==
  /\ pc[t] = "monitor" /\ At(t) = "cond" /\ condOwner = None
  /\ iso' = [iso EXCEPT ![t] = None]
  /\ list' = [list EXCEPT !["cond"] = Append(@, t)]
  /\ OsUnlock
  /\ condOwner' = t
  /\ Goto(t, "release")
  /\ UNCHANGED <<owner, recursion, signaled, waiterCount, signaledWaiters,
                 waitSet, active, interrupted, localVars>>

(* Mutation of ReleaseAndWait: the waiters of the mutex are not notified. *)
ReleaseSilently(t) ==
  /\ pc[t] = "release" /\ MayNotify(t)
  /\ condOwner' = None
  /\ IF interrupted[t]
     THEN Leave(t, list["cond"], "dying") /\ UNCHANGED <<waitSet, waiterCount, result>>
     ELSE /\ waitSet' = [waitSet EXCEPT !["cond"] = @ \cup {t}]
          /\ waiterCount' = [waiterCount EXCEPT !["cond"] = @ + 1]
          /\ result' = [result EXCEPT ![t] = FALSE]
          /\ Goto(t, "waiting")
          /\ UNCHANGED <<list, next>>
  /\ UNCHANGED <<mutexVars, signaled, signaledWaiters, isoVars, op, timed, saved,
                 target>>

(* It notifies the waiters of the mutex and calls Enter::wait. *)
ReleaseAndWait(t) ==
  /\ pc[t] = "release" /\ MayNotify(t)
  /\ condOwner' = None
  /\ IF interrupted[t]
     THEN /\ waitSet' = [waitSet EXCEPT !["mutex"] = {}]
          /\ Leave(t, list["cond"], "dying")
          /\ UNCHANGED <<waiterCount, result>>
     ELSE /\ waitSet' = [waitSet EXCEPT !["mutex"] = {}, !["cond"] = @ \cup {t}]
          /\ waiterCount' = [waiterCount EXCEPT !["cond"] = @ + 1]
          /\ result' = [result EXCEPT ![t] = FALSE]
          /\ Goto(t, "waiting")
          /\ UNCHANGED <<list, next>>
  /\ UNCHANGED <<mutexVars, signaled, signaledWaiters, isoVars, op, timed, saved,
                 target>>

(***************************************************************************)
(* The rest of Enter::wait, when m_monitor.wait has returned.              *)
(***************************************************************************)
Woken(t) == pc[t] = "waiting" /\ t \notin waitSet[At(t)] /\ MonitorFree(At(t))

(* Mutations of EndCycle: a wait that expired while it was signalled does  *)
(* not count down; every wait counts down.                                 *)
EndCycleUnlessExpired(t) ==
  /\ signaled' = signaled \ {t}
  /\ signaledWaiters' =
       [signaledWaiters EXCEPT
          ![At(t)] = IF t \in signaled /\ ~result[t] THEN @ - 1 ELSE @]

EndCycleAlways(t) ==
  /\ signaled' = signaled \ {t}
  /\ signaledWaiters' = [signaledWaiters EXCEPT ![At(t)] = @ - 1]

(* Mutation of EndCycle: a thread that leaves interrupted does not answer. *)
EndCycleUnlessInterrupted(t) ==
  IF interrupted[t] THEN UNCHANGED <<signaled, signaledWaiters>>
  ELSE /\ signaled' = signaled \ {t}
       /\ signaledWaiters' =
            [signaledWaiters EXCEPT ![At(t)] = IF t \in signaled THEN @ - 1 ELSE @]

(* A marked record ends its part of the signal cycle. *)
EndCycle(t) ==
  /\ signaled' = signaled \ {t}
  /\ signaledWaiters' =
       [signaledWaiters EXCEPT ![At(t)] = IF t \in signaled THEN @ - 1 ELSE @]

continueWait(t) == t \in signaled /\ ~interrupted[t] /\ ~result[t]

WakeInterrupted(t) ==
  /\ Woken(t) /\ interrupted[t]
  /\ EndCycle(t)
  /\ Leave(t, list[At(t)], "dying") /\ NoSleep(t, waiterCount[At(t)] - 1)
  /\ UNCHANGED <<mutexVars, condOwner, isoVars, op, timed, saved, target>>

(* Signalled for another worker: back to the wait, for the time left. *)
WakeSignaled(t) ==
  /\ Woken(t) /\ continueWait(t)
  /\ EndCycle(t)
  /\ waitSet' = [waitSet EXCEPT ![At(t)] = @ \cup {t}]
  /\ UNCHANGED <<mutexVars, list, waiterCount, condOwner, isoVars, localVars, pc>>

(* The wait is over; with a timeout, the time may be up by now. *)
Waited(t, timeout) ==
  /\ Woken(t) /\ ~interrupted[t]
  /\ IF continueWait(t) THEN timed[t] /\ timeout ELSE timeout = result[t]

WakeToLock(t) ==
  /\ At(t) = "mutex" /\ Waited(t, FALSE)
  /\ EndCycle(t)
  /\ LockTurn(t, list["mutex"], waiterCount["mutex"] - 1)
  /\ UNCHANGED <<condOwner, isoVars, saved, target>>

(* Condition.wait leaves the condition after a timeout, and otherwise when *)
(* its record is the first; until then it waits 1 ms at a time.            *)
WakeFromCondition(t) ==
  /\ At(t) = "cond"
  /\ \E timeout \in BOOLEAN :
       /\ Waited(t, timeout)
       /\ IF (op[t] = "wait" /\ timeout) \/ Head(list["cond"]) = t
          THEN /\ Leave(t, list["cond"], "enter")
               /\ NoSleep(t, waiterCount["cond"] - 1)
               /\ UNCHANGED <<op, timed>>
          ELSE /\ op' = [op EXCEPT ![t] = "head"]
               /\ timed' = [timed EXCEPT ![t] = TRUE]
               /\ Sleep(t, list["cond"], waiterCount["cond"] - 1)
               /\ UNCHANGED next
  /\ EndCycle(t)
  /\ UNCHANGED <<mutexVars, condOwner, isoVars, saved, target>>

(* A timed wait expires, and a wait may end with no reason. *)
Expire(t) ==
  /\ pc[t] = "waiting" /\ timed[t] /\ t \in waitSet[At(t)]
  /\ waitSet' = [waitSet EXCEPT ![At(t)] = @ \ {t}]
  /\ result' = [result EXCEPT ![t] = TRUE]
  /\ UNCHANGED <<mutexVars, list, signaled, waiterCount, signaledWaiters,
                 condOwner, isoVars, op, next, timed, saved, target, pc>>

SpuriousWakeup(t) ==
  /\ "spurious" \in Calls
  /\ pc[t] = "waiting" /\ t \in waitSet[At(t)]
  /\ waitSet' = [waitSet EXCEPT ![At(t)] = @ \ {t}]
  /\ UNCHANGED <<mutexVars, list, signaled, waiterCount, signaledWaiters,
                 condOwner, isoVars, localVars, pc>>

(***************************************************************************)
(* The ends of unlock, notify and notifyAll.                               *)
(***************************************************************************)
NotifyAll(t) ==
  /\ pc[t] \in {"unlock", "finalize", "notifyAll"} /\ MayNotify(t)
  /\ waitSet' = [waitSet EXCEPT ![Notifies(t)] = {}]
  /\ Goto(t, IF pc[t] = "finalize" THEN "dead" ELSE "run")
  /\ UNCHANGED <<mutexVars, list, signaled, waiterCount, signaledWaiters,
                 condOwner, isoVars, localVars>>

NotifyOne(t) ==
  /\ pc[t] = "notify" /\ MayNotify(t)
  /\ IF waitSet["cond"] = {} THEN UNCHANGED waitSet
     ELSE \E a \in waitSet["cond"] : waitSet' = [waitSet EXCEPT !["cond"] = @ \ {a}]
  /\ Goto(t, "run")
  /\ UNCHANGED <<mutexVars, list, signaled, waiterCount, signaledWaiters,
                 condOwner, isoVars, localVars>>

(***************************************************************************)
(* Terminating a worker: Aggregate::setIsolateAsInterrupted, and later     *)
(* Isolate::signalInterruptibleState.                                      *)
(***************************************************************************)
Terminate(k) ==
  /\ pc[k] = "idle"
  /\ \E t \in Workers : target' = [target EXCEPT ![k] = t]
  /\ Goto(k, "interrupt")
  /\ UNCHANGED <<mutexVars, stateVars, isoVars, op, next, timed, result, saved>>

LockIsolate(k) ==
  /\ pc[k] \in {"interrupt", "releaseActive"} /\ iso[target[k]] = None
  /\ iso' = [iso EXCEPT ![target[k]] = k]
  /\ Goto(k, IF pc[k] = "interrupt" THEN "set" ELSE "signal")
  /\ UNCHANGED <<mutexVars, stateVars, active, interrupted, localVars>>

SetInterrupted(k) ==
  /\ pc[k] = "set" /\ MonitorFree(active[target[k]])
  /\ interrupted' = [interrupted EXCEPT ![target[k]] = TRUE]
  /\ iso' = [iso EXCEPT ![target[k]] = None]
  /\ Goto(k, "releaseActive")
  /\ UNCHANGED <<mutexVars, stateVars, active, localVars>>

(* InterruptibleState::signal marks every record and wakes every waiter. *)
Signal(k) ==
  LET s == active[target[k]] IN
  /\ pc[k] = "signal"
  /\ \/ /\ s = None
        /\ UNCHANGED <<signaled, signaledWaiters, waitSet>>
     \/ /\ MayNotify(k)
        /\ IF waiterCount[s] > 0
           THEN /\ signaledWaiters' = [signaledWaiters EXCEPT ![s] = waiterCount[s]]
                /\ signaled' = signaled \cup Range(list[s])
                /\ waitSet' = [waitSet EXCEPT ![s] = {}]
           ELSE UNCHANGED <<signaled, signaledWaiters, waitSet>>
  /\ iso' = [iso EXCEPT ![target[k]] = None]
  /\ Goto(k, "done")
  /\ UNCHANGED <<mutexVars, list, waiterCount, condOwner, active, interrupted,
                 localVars>>

(***************************************************************************)
(* What a program does, and what the runtime does once it has been called. *)
(***************************************************************************)
Program(t) ==
  Lock(t) \/ TryLock(t) \/ Unlock(t) \/ Wait(t) \/ Notify(t)

WorkerStep(t) ==
  \/ TryLockOs(t) \/ Die(t) \/ Finalize(t)
  \/ EnterIsolate(t) \/ LeaveIsolate(t)
  \/ EnterMutex(t) \/ EnterCondition(t) \/ ReleaseAndWait(t)
  \/ WakeInterrupted(t) \/ WakeSignaled(t) \/ WakeToLock(t) \/ WakeFromCondition(t)
  \/ NotifyAll(t) \/ NotifyOne(t)

KillerStep(k) == LockIsolate(k) \/ SetInterrupted(k) \/ Signal(k)

Next ==
  \/ \E t \in Workers : \/ Program(t) \/ WorkerStep(t)
                        \/ Expire(t) \/ SpuriousWakeup(t)
  \/ \E k \in Killers : Terminate(k) \/ KillerStep(k)
  \/ \E a \in Actors : Poll(a) \/ PollAgain(a)

Spec == Init /\ [][Next]_vars

(* A called operation goes on, and a thread that competes for a monitor or *)
(* a mutex gets it in the end: the OS schedules its threads.  A timed wait *)
(* ends.  Programs may stop calling at any time.                           *)
Fairness ==
  /\ \A t \in Workers : SF_vars(WorkerStep(t)) /\ WF_vars(Expire(t))
  /\ \A k \in Killers : SF_vars(KillerStep(k))
  /\ \A a \in Actors : WF_vars(PollAgain(a))

FairSpec == Spec /\ Fairness

(***************************************************************************)
(* Properties                                                              *)
(***************************************************************************)

(* The worker that owns the mutex holds the OS mutex under it, and the     *)
(* count is zero exactly when nobody owns the mutex: lock, tryLock, unlock *)
(* and both halves of Condition.wait keep the three fields together.       *)
Ownership ==
  /\ owner # None => osHolder = owner
  /\ owner = None <=> recursion = 0
  /\ osHolder = None <=> osCount = 0

(* m_signaledWaiters counts the marked records that are still to answer,   *)
(* and m_waiterCount the records of a state, but for the one of the thread *)
(* that holds the monitor (Enter::wait, signal).  A thread whose record    *)
(* was marked does not sleep through the cycle, which would stop every     *)
(* later notify, notifyAll and signal.                                     *)
CycleAccounting ==
  \A s \in States :
    /\ signaledWaiters[s] = Cardinality(signaled \cap Range(list[s]))
    /\ waiterCount[s] = Cardinality(Range(list[s]) \ (IF s = "cond" THEN {condOwner} ELSE {}))
    /\ signaled \cap waitSet[s] = {}

(* What the programs see: the levels a worker gave up are its own again    *)
(* from the step that acquires the mutex for it.                           *)
GivenUp ==
  [t \in Workers |-> IF pc[t] = "leave" /\ next[t] = "run" THEN 0 ELSE saved[t]]

Contract == INSTANCE MutexContract
              WITH holder <- owner, levels <- recursion, givenUp <- GivenUp,
                   terminated <- {t \in Workers : interrupted[t]}

(* Whatever the workers call and whenever they are terminated, every step  *)
(* is one the contract allows: nobody takes a mutex that is owned, wait    *)
(* gives up all levels and returns with as many, a worker that was not     *)
(* told to exit neither loses the mutex nor leaves wait without it.        *)
MeetsContract == Contract!Spec

(* A signal cycle ends, so that notify, notifyAll and signal do not poll   *)
(* for ever, timed waits that expire during it included.                   *)
SignalCycleEnds == \A s \in States : InCycle(s) ~> ~InCycle(s)

(* A terminated worker does not stay blocked in lock or Condition.wait. *)
TerminatedUnblocks ==
  \A t \in Workers : (interrupted[t] /\ pc[t] = "waiting") ~> pc[t] # "waiting"

(* Waiting workers do not stay asleep behind a mutex that is free. *)
FreeMutexIsTaken ==
  (osHolder = None /\ list["mutex"] # <<>>) ~> (osHolder # None \/ list["mutex"] = <<>>)

(* The same while no worker is terminated: then no wakeup of unlock or of  *)
(* Condition.wait is lost.                                                 *)
FreeMutexIsTakenUnlessTerminated ==
  ([](\A t \in Workers : ~interrupted[t])) => FreeMutexIsTaken

(* "You must call the unlock() method as many times as the number of lock  *)
(* requests to release ownership of the mutex" (core/concurrent.as): once  *)
(* its count is zero nobody holds the OS mutex.                            *)
UnlockReleases ==
  \A t \in Workers :
    osHolder = t => owner = t \/ (op[t] = "wait" /\ pc[t] \in {"enter", "monitor"})

(* "ownership of the mutex will be returned to the next worker (if any)    *)
(* that's waiting on this condition" (Condition.notify): a worker that was *)
(* notified does not stay behind the ones that were not.                   *)
NotifiedReturns ==
  \A t \in Workers : (op[t] = "head" /\ osHolder = None) ~> op[t] # "head"
=============================================================================
