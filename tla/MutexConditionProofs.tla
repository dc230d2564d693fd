------------------------ MODULE MutexConditionProofs ------------------------
(***************************************************************************)
(* Proofs about MutexCondition for any finite sets of workers and of       *)
(* threads that terminate them, any choice of calls and any depth of       *)
(* recursion.                                                              *)
(***************************************************************************)
EXTENDS MutexCondition, SequenceTheorems, FiniteSetTheorems, TLAPS

(* Where a worker may be in each loop, and the locations of each role. *)
Loops ==
  /\ \A t \in Workers :
       /\ pc[t] \in WorkerLocs
       /\ pc[t] \notin {"enter", "monitor", "release", "waiting", "leave"}
            => op[t] = "lock"
       /\ pc[t] \in {"enter", "monitor"} => op[t] # "head"
       /\ pc[t] = "release" => op[t] = "wait"
       /\ next[t] = "enter" => pc[t] = "leave" /\ op[t] \in {"wait", "head"}
  /\ \A k \in Killers :
       pc[k] \in KillerLocs /\ (pc[k] # "idle" => target[k] \in Workers)

(* A worker that may still acquire the mutex has room for one more level.  *)
Depths ==
  \A t \in Workers :
    (\/ pc[t] = "try"
     \/ pc[t] \in {"enter", "monitor"} /\ op[t] \in {"lock", "relock"}
     \/ pc[t] \in {"release", "waiting"}
     \/ pc[t] = "leave" /\ op[t] \in {"wait", "head"}) => MayLock(t)

(* Condition.wait keeps the OS mutex until its record is in the list, the  *)
(* count it has to restore, and no ownership until it locks again.         *)
WaitHolds ==
  \A t \in Workers :
    /\ pc[t] \in {"enter", "monitor"} /\ op[t] = "wait" => osHolder = t
    /\ op[t] # "lock" => saved[t] >= 1
    /\ op[t] # "lock" /\ owner = t => op[t] = "relock" /\ pc[t] = "leave"

NoDuplicates(q) == \A i, j \in DOMAIN q : q[i] = q[j] => i = j

(* A worker whose record is in the list of a state. *)
In(t, s) == pc[t] \in {"waiting", "release"} /\ At(t) = s

(* A state's list holds the record of each worker in it, once. *)
Listed ==
  \A s \in States :
    NoDuplicates(list[s]) /\ Range(list[s]) = {t \in Workers : In(t, s)}

(* Who may sleep in a monitor: a waiter, or a worker that polls. *)
Asleep(t, s) ==
  \/ pc[t] = "waiting" /\ At(t) = s
  \/ pc[t] \in {"release", "unlock", "finalize"} /\ s = "mutex"
  \/ pc[t] \in {"notify", "notifyAll"} /\ s = "cond"

Sleepers == \A s \in States : \A t \in waitSet[s] \cap Workers : Asleep(t, s)

(* The monitor of the condition is held inside Condition.wait only, and a  *)
(* marked record is that of a waiter.                                      *)
Holders ==
  /\ \A t \in Workers : condOwner = t <=> pc[t] = "release"
  /\ \A t \in signaled : pc[t] = "waiting"

(* Types, with counters that are only known to be numbers. *)
Typed ==
  /\ owner \in Workers \cup {None} /\ osHolder \in Workers \cup {None}
  /\ recursion \in 0..MaxRecursion /\ osCount \in 0..MaxRecursion
  /\ list \in [States -> Seq(Workers)]
  /\ signaled \subseteq Workers
  /\ waiterCount \in [States -> Int] /\ signaledWaiters \in [States -> Int]
  /\ waitSet \in [States -> SUBSET Actors]
  /\ condOwner \in Workers \cup {None}
  /\ iso \in [Workers -> Actors \cup {None}]
  /\ active \in [Workers -> States \cup {None}]
  /\ interrupted \in [Workers -> BOOLEAN]
  /\ pc \in [Actors -> WorkerLocs \cup KillerLocs]
  /\ op \in [Workers -> {"lock", "wait", "head", "relock"}]
  /\ next \in [Workers -> {"run", "dying", "enter"}]
  /\ timed \in [Workers -> BOOLEAN] /\ result \in [Workers -> BOOLEAN]
  /\ saved \in [Workers -> 0..MaxRecursion]
  /\ target \in [Killers -> Workers \cup {None}]

IInv ==
  Typed /\ Ownership /\ CycleAccounting
        /\ Loops /\ Depths /\ WaitHolds /\ Listed /\ Sleepers /\ Holders

(* A new record at the tail of a list. *)
LEMMA AppendOnce ==
  ASSUME NEW S, NEW q \in Seq(S), NEW t \in S, NoDuplicates(q), t \notin Range(q)
  PROVE  /\ Append(q, t) \in Seq(S)
         /\ NoDuplicates(Append(q, t))
         /\ Range(Append(q, t)) = Range(q) \cup {t}
<1> DEFINE r == Append(q, t)
<1>1. /\ r \in Seq(S) /\ Len(r) = Len(q) + 1 /\ Len(q) \in Nat
      /\ DOMAIN r = 1..Len(r) /\ DOMAIN q = 1..Len(q)
      /\ \A i \in 1..Len(q) : r[i] = q[i]
      /\ r[Len(q) + 1] = t
  BY AppendProperties, LenProperties
<1>2. \A i \in DOMAIN q : q[i] # t
  BY DEF Range
<1> HIDE DEF r
<1>3. NoDuplicates(r)
  BY <1>1, <1>2 DEF NoDuplicates
<1>4. ASSUME NEW x PROVE x \in Range(r) <=> x \in Range(q) \cup {t}
  BY <1>1 DEF Range
<1> QED
  BY <1>1, <1>3, <1>4 DEF r

(* ~Enter takes one record out, and the order of the others stays. *)
LEMMA UnlinkOne ==
  ASSUME NEW S, NEW q \in Seq(S), NEW t \in Range(q), NoDuplicates(q)
  PROVE  /\ Unlink(q, t) \in Seq(S)
         /\ NoDuplicates(Unlink(q, t))
         /\ Range(Unlink(q, t)) = Range(q) \ {t}
<1> DEFINE n == Len(q)
           i == CHOOSE j \in DOMAIN q : q[j] = t
           a == SubSeq(q, 1, i - 1)
           b == SubSeq(q, i + 1, n)
           r == a \o b
<1>1. n \in Nat /\ DOMAIN q = 1..n /\ \A j \in 1..n : q[j] \in S
  BY LenProperties, ElementOfSeq
<1>2. i \in 1..n /\ q[i] = t
  BY <1>1 DEF Range
<1>3. Unlink(q, t) = r
  BY DEF Unlink
<1> HIDE DEF n, i
<1>4. /\ a \in Seq(S) /\ Len(a) = i - 1
      /\ \A j \in 1..(i - 1) : a[j] = q[j]
  <2>1. 1 \in Int /\ i - 1 \in Int /\ \A j \in 1..(i - 1) : q[j] \in S
    BY <1>1, <1>2
  <2> QED
    BY <2>1, <1>2, SubSeqProperties
<1>5. /\ b \in Seq(S) /\ Len(b) = n - i
      /\ \A j \in 1..(n - i) : b[j] = q[i + j]
  <2>1. i + 1 \in Int /\ n \in Int /\ \A j \in (i + 1)..n : q[j] \in S
    BY <1>1, <1>2
  <2> QED
    BY <2>1, <1>1, <1>2, SubSeqProperties
<1> HIDE DEF a, b
<1> DEFINE from(j) == IF j < i THEN j ELSE j + 1
<1>6. /\ r \in Seq(S) /\ Len(r) = n - 1
      /\ \A j \in 1..(n - 1) : r[j] = q[from(j)]
  <2>1. /\ r \in Seq(S) /\ Len(r) = Len(a) + Len(b)
        /\ \A j \in 1..Len(a) + Len(b) :
             r[j] = IF j <= Len(a) THEN a[j] ELSE b[j - Len(a)]
    BY <1>4, <1>5, ConcatProperties
  <2> QED
    BY <2>1, <1>1, <1>2, <1>4, <1>5
<1>7. DOMAIN r = 1..(n - 1)
  BY <1>6, LenProperties
<1>8. /\ \A j \in 1..(n - 1) : from(j) \in (1..n) \ {i}
      /\ \A j, k \in 1..(n - 1) : from(j) = from(k) => j = k
      /\ \A k \in (1..n) \ {i} : \E j \in 1..(n - 1) : from(j) = k
  <2>1. ASSUME NEW k \in (1..n) \ {i}
        PROVE  \E j \in 1..(n - 1) : from(j) = k
    <3>1. CASE k < i
      BY <3>1, <1>1, <1>2
    <3>2. CASE k > i
      <4>1. k - 1 \in 1..(n - 1) /\ from(k - 1) = k
        BY <3>2, <1>1, <1>2
      <4> QED
        BY <4>1
    <3> QED
      BY <3>1, <3>2, <1>1, <1>2
  <2> QED
    BY <2>1, <1>1, <1>2
<1>9. \A j, k \in 1..n : q[j] = q[k] => j = k
  BY <1>1 DEF NoDuplicates
<1> HIDE DEF r, from
<1>10. NoDuplicates(r)
  <2> SUFFICES ASSUME NEW j \in 1..(n - 1), NEW k \in 1..(n - 1), r[j] = r[k]
               PROVE  j = k
    BY <1>7 DEF NoDuplicates
  <2>1. from(j) \in 1..n /\ from(k) \in 1..n /\ q[from(j)] = q[from(k)]
    BY <1>6, <1>8
  <2> QED
    BY <2>1, <1>8, <1>9
<1>11. Range(r) = {r[j] : j \in 1..(n - 1)} /\ Range(q) = {q[j] : j \in 1..n}
  BY <1>1, <1>7 DEF Range
<1>12. ASSUME NEW x PROVE x \in Range(r) <=> x \in Range(q) \ {t}
  <2>1. ASSUME NEW j \in 1..(n - 1), x = r[j] PROVE x \in Range(q) \ {t}
    <3>1. from(j) \in 1..n /\ from(j) # i /\ x = q[from(j)]
      BY <2>1, <1>6, <1>8
    <3> QED
      BY <3>1, <1>2, <1>9, <1>11
  <2>2. ASSUME NEW k \in 1..n, x = q[k], x # t PROVE x \in Range(r)
    <3>1. PICK j \in 1..(n - 1) : from(j) = k
      BY <2>2, <1>2, <1>8
    <3> QED
      BY <3>1, <2>2, <1>6, <1>11
  <2> QED
    BY <2>1, <2>2, <1>11
<1> QED
  BY <1>3, <1>6, <1>10, <1>12

(* The list of a worker that is in it, with and without its record. *)
LEMMA Inside ==
  ASSUME Typed, Listed, NEW t \in Workers, pc[t] \in {"waiting", "release"}
  PROVE  LET q == list[At(t)] IN
         /\ q \in Seq(Workers) /\ NoDuplicates(q) /\ t \in Range(q)
         /\ Unlink(q, t) \in Seq(Workers) /\ NoDuplicates(Unlink(q, t))
         /\ Range(Unlink(q, t)) = Range(q) \ {t}
<1>1. At(t) \in States
  BY DEF At, States
<1>2. /\ list[At(t)] \in Seq(Workers) /\ NoDuplicates(list[At(t)])
      /\ t \in Range(list[At(t)])
  BY <1>1 DEF Typed, Listed, In
<1> QED
  BY <1>2, UnlinkOne

(* And of one that enters. *)
LEMMA Entering ==
  ASSUME Typed, Listed, NEW t \in Workers, pc[t] \notin {"waiting", "release"}
  PROVE  LET q == Append(list[At(t)], t) IN
         /\ list[At(t)] \in Seq(Workers)
         /\ q \in Seq(Workers) /\ NoDuplicates(q)
         /\ t \notin Range(list[At(t)]) /\ Range(q) = Range(list[At(t)]) \cup {t}
         /\ Unlink(q, t) \in Seq(Workers) /\ NoDuplicates(Unlink(q, t))
         /\ Range(Unlink(q, t)) = Range(list[At(t)])
<1> DEFINE q == Append(list[At(t)], t)
<1>1. At(t) \in States
  BY DEF At, States
<1>2. /\ list[At(t)] \in Seq(Workers) /\ NoDuplicates(list[At(t)])
      /\ t \notin Range(list[At(t)])
  BY <1>1 DEF Typed, Listed, In
<1>3. /\ q \in Seq(Workers) /\ NoDuplicates(q)
      /\ Range(q) = Range(list[At(t)]) \cup {t}
  BY <1>2, AppendOnce
<1> HIDE DEF q
<1>4. t \in Range(q)
  BY <1>3
<1>5. /\ Unlink(q, t) \in Seq(Workers) /\ NoDuplicates(Unlink(q, t))
      /\ Range(Unlink(q, t)) = Range(q) \ {t}
  BY <1>3, <1>4, UnlinkOne
<1>6. Range(Unlink(q, t)) = Range(list[At(t)])
  BY <1>2, <1>3, <1>5
<1> QED
  BY <1>2, <1>3, <1>5, <1>6 DEF q

(* The constants' types, and that no name of a thread is None. *)
LEMMA Threads ==
  /\ MaxRecursion \in Nat /\ MaxRecursion >= 1
  /\ Workers \subseteq Actors /\ Killers \subseteq Actors
  /\ \A t \in Actors : t # None
  /\ \A t \in Workers : t \notin Killers
  /\ States = {"mutex", "cond"} /\ \A s \in States : s # None
BY MutexConditionAssumption DEF Actors, States

(* A thread that holds the OS mutex may give up a level of it. *)
LEMMA OsUnlockTyped ==
  ASSUME Typed, Ownership, osHolder # None, OsUnlock
  PROVE  osHolder' \in Workers \cup {None} /\ osCount' \in 0..MaxRecursion
BY Threads DEF Typed, Ownership, OsUnlock

(* Where there is room for a level, taking the mutex keeps the bounds. *)
LEMMA AcquireTyped ==
  ASSUME Typed, Ownership, NEW t \in Workers, MayLock(t), CanTryLock(t),
         NEW count \in 0..MaxRecursion, Acquire(t, count)
  PROVE  /\ owner' \in Workers \cup {None} /\ osHolder' \in Workers \cup {None}
         /\ recursion' \in 0..MaxRecursion /\ osCount' \in 0..MaxRecursion
BY Threads DEF Typed, Ownership, MayLock, CanTryLock, Acquire

(* The parts of an action on a state keep the types of what they change. *)
LEMMA LeaveTyped ==
  ASSUME Typed, NEW t \in Workers, NEW q, Unlink(q, t) \in Seq(Workers),
         NEW to \in {"run", "dying", "enter"}, Leave(t, q, to)
  PROVE  /\ list' \in [States -> Seq(Workers)]
         /\ next' \in [Workers -> {"run", "dying", "enter"}]
         /\ pc' \in [Actors -> WorkerLocs \cup KillerLocs]
<1>1. list' \in [States -> Seq(Workers)]
  BY DEF Typed, Leave
<1>2. next' \in [Workers -> {"run", "dying", "enter"}]
  BY DEF Typed, Leave
<1>3. pc' \in [Actors -> WorkerLocs \cup KillerLocs]
  BY Threads DEF Typed, Leave, Goto, WorkerLocs
<1> QED
  BY <1>1, <1>2, <1>3

LEMMA SleepTyped ==
  ASSUME Typed, NEW t \in Workers, NEW q \in Seq(Workers), NEW count \in Int,
         Sleep(t, q, count)
  PROVE  /\ list' \in [States -> Seq(Workers)]
         /\ waiterCount' \in [States -> Int]
         /\ waitSet' \in [States -> SUBSET Actors]
         /\ pc' \in [Actors -> WorkerLocs \cup KillerLocs]
         /\ result' \in [Workers -> BOOLEAN]
<1>1. list' \in [States -> Seq(Workers)]
  BY DEF Typed, Sleep
<1>2. waiterCount' \in [States -> Int]
  <2>1. count + 1 \in Int
    OBVIOUS
  <2> QED
    BY <2>1 DEF Typed, Sleep
<1>3. waitSet' \in [States -> SUBSET Actors]
  <2>1. t \in Actors
    BY Threads
  <2> QED
    BY <2>1 DEF Typed, Sleep
<1>4. pc' \in [Actors -> WorkerLocs \cup KillerLocs]
  BY Threads DEF Typed, Sleep, Goto, WorkerLocs
<1>5. result' \in [Workers -> BOOLEAN]
  BY DEF Typed, Sleep
<1> QED
  BY <1>1, <1>2, <1>3, <1>4, <1>5

LEMMA NoSleepTyped ==
  ASSUME Typed, NEW t \in Workers, NEW count \in Int, NoSleep(t, count)
  PROVE  /\ waiterCount' \in [States -> Int]
         /\ waitSet' \in [States -> SUBSET Actors]
         /\ result' \in [Workers -> BOOLEAN]
BY DEF Typed, NoSleep

LEMMA EndCycleTyped ==
  ASSUME Typed, NEW t \in Workers, EndCycle(t)
  PROVE  signaled' \subseteq Workers /\ signaledWaiters' \in [States -> Int]
<1>1. signaledWaiters[At(t)] - 1 \in Int /\ signaledWaiters[At(t)] \in Int
  BY DEF Typed, At, States
<1>2. signaledWaiters' \in [States -> Int]
  BY <1>1 DEF Typed, EndCycle
<1> QED
  BY <1>2 DEF Typed, EndCycle

(* A turn of the loop that acquires the mutex keeps the types. *)
LEMMA LockTurnTyped ==
  ASSUME Typed, Ownership, NEW t \in Workers, MayLock(t),
         NEW q \in Seq(Workers), Unlink(q, t) \in Seq(Workers), NEW count \in Int,
         LockTurn(t, q, count)
  PROVE  /\ owner' \in Workers \cup {None} /\ osHolder' \in Workers \cup {None}
         /\ recursion' \in 0..MaxRecursion /\ osCount' \in 0..MaxRecursion
         /\ list' \in [States -> Seq(Workers)]
         /\ waiterCount' \in [States -> Int]
         /\ waitSet' \in [States -> SUBSET Actors]
         /\ pc' \in [Actors -> WorkerLocs \cup KillerLocs]
         /\ next' \in [Workers -> {"run", "dying", "enter"}]
         /\ result' \in [Workers -> BOOLEAN]
         /\ op' = op /\ timed' = timed
<1>0. UNCHANGED <<op, timed>>
  BY DEF LockTurn
<1>1. CASE Head(q) = t /\ CanTryLock(t)
  <2>1. /\ Acquire(t, IF op[t] = "lock" THEN 1 ELSE saved[t])
        /\ Leave(t, q, "run") /\ NoSleep(t, count)
    BY <1>1 DEF LockTurn
  <2>2. (IF op[t] = "lock" THEN 1 ELSE saved[t]) \in 0..MaxRecursion
    BY Threads DEF Typed
  <2> QED
    BY <1>0, <1>1, <2>1, <2>2, AcquireTyped, LeaveTyped, NoSleepTyped
<1>2. CASE ~(Head(q) = t /\ CanTryLock(t)) /\ interrupted[t]
  <2>1. Leave(t, q, "dying") /\ NoSleep(t, count) /\ UNCHANGED mutexVars
    BY <1>2 DEF LockTurn
  <2> QED
    BY <1>0, <2>1, LeaveTyped, NoSleepTyped DEF mutexVars, Typed
<1>3. CASE ~(Head(q) = t /\ CanTryLock(t)) /\ ~interrupted[t]
  <2>1. Sleep(t, q, count) /\ UNCHANGED mutexVars /\ next' = next
    BY <1>3 DEF LockTurn
  <2> QED
    BY <1>0, <2>1, SleepTyped DEF mutexVars, Typed
<1> QED
  BY <1>1, <1>2, <1>3

(* What signal does to a state with waiters, once the cycle before is over. *)
Signals(s) ==
  /\ MonitorFree(s) /\ ~InCycle(s) /\ waiterCount[s] > 0
  /\ signaledWaiters' = [signaledWaiters EXCEPT ![s] = waiterCount[s]]
  /\ signaled' = signaled \cup Range(list[s])
  /\ waitSet' = [waitSet EXCEPT ![s] = {}]

LEMMA SignalEffect ==
  ASSUME Typed, Loops, NEW k \in Killers, Signal(k)
  PROVE  \/ UNCHANGED <<signaled, signaledWaiters, waitSet>>
         \/ \E s \in States : Signals(s)
<1> DEFINE s == active[target[k]]
<1>1. s \in States \cup {None}
  BY DEF Signal, Loops, Typed
<1>2. CASE UNCHANGED <<signaled, signaledWaiters, waitSet>>
  BY <1>2
<1>3. CASE MayNotify(k) /\ ~UNCHANGED <<signaled, signaledWaiters, waitSet>>
  <2>1. Notifies(k) = s
    BY DEF Notifies, Signal
  <2>2. s \in States /\ MonitorFree(s) /\ ~InCycle(s)
    BY <1>1, <1>3, <2>1 DEF MayNotify
  <2>3. Signals(s)
    BY <1>3, <2>2 DEF Signal, Signals
  <2> QED
    BY <2>2, <2>3
<1> QED
  BY <1>2, <1>3 DEF Signal

(* Every step keeps the types. *)
LEMMA TypedStep ==
  ASSUME IInv, Next PROVE Typed'
<1>0. Typed /\ Ownership /\ Loops /\ Depths /\ WaitHolds /\ Listed
  BY DEF IInv
<1>a. \A t \in Workers, l \in WorkerLocs :
        Goto(t, l) => pc' \in [Actors -> WorkerLocs \cup KillerLocs]
  BY <1>0, Threads DEF Typed, Goto
<1>b. \A k \in Killers, l \in KillerLocs :
        Goto(k, l) => pc' \in [Actors -> WorkerLocs \cup KillerLocs]
  BY <1>0, Threads DEF Typed, Goto
<1> USE <1>0, Threads DEF mutexVars, stateVars, isoVars, localVars
<1>1. ASSUME NEW t \in Workers, Lock(t) PROVE Typed'
  BY <1>1, <1>a DEF Lock, Typed, WorkerLocs
<1>2. ASSUME NEW t \in Workers, TryLock(t) PROVE Typed'
  BY <1>2, <1>a DEF TryLock, Typed, WorkerLocs
<1>3. ASSUME NEW t \in Workers, TryLockOs(t) PROVE Typed'
  <2>1. pc' \in [Actors -> WorkerLocs \cup KillerLocs]
    BY <1>3, <1>a DEF TryLockOs, WorkerLocs
  <2>2. CASE CanTryLock(t)
    <3>1. MayLock(t) /\ recursion + 1 \in 0..MaxRecursion
      BY <1>3, <2>2 DEF TryLockOs, Depths, MayLock, CanTryLock, Ownership, Typed
    <3>2. Acquire(t, recursion + 1)
      BY <1>3, <2>2 DEF TryLockOs
    <3> QED
      BY <1>3, <2>1, <2>2, <3>1, <3>2, AcquireTyped DEF TryLockOs, Typed
  <2>3. CASE ~CanTryLock(t)
    BY <1>3, <2>1, <2>3 DEF TryLockOs, Typed
  <2> QED
    BY <2>2, <2>3
<1>4. ASSUME NEW t \in Workers, Unlock(t) PROVE Typed'
  <2>1. pc' \in [Actors -> WorkerLocs \cup KillerLocs]
    BY <1>4, <1>a DEF Unlock, WorkerLocs, Typed
  <2>2. recursion' \in 0..MaxRecursion /\ osHolder # None
    BY <1>4 DEF Unlock, Ownership, Typed
  <2>3. /\ owner' \in Workers \cup {None} /\ osHolder' \in Workers \cup {None}
        /\ osCount' \in 0..MaxRecursion
    BY <1>4, <2>2, OsUnlockTyped DEF Unlock, Typed
  <2> QED
    BY <1>4, <2>1, <2>2, <2>3 DEF Unlock, Typed
<1>5. ASSUME NEW t \in Workers, Wait(t) PROVE Typed'
  <2>1. PICK timeout \in BOOLEAN : timed' = [timed EXCEPT ![t] = timeout]
    BY <1>5 DEF Wait
  <2>2. pc' \in [Actors -> WorkerLocs \cup KillerLocs]
    BY <1>5, <1>a DEF Wait, WorkerLocs
  <2>3. saved' \in [Workers -> 0..MaxRecursion] /\ recursion' \in 0..MaxRecursion
    BY <1>5 DEF Wait, Typed
  <2>4. timed' \in [Workers -> BOOLEAN] /\ op' \in [Workers -> {"lock", "wait", "head", "relock"}]
    BY <1>5, <2>1 DEF Wait, Typed
  <2>5. UNCHANGED <<osHolder, osCount, stateVars, isoVars, next, result, target>> /\ owner' = None
    BY <1>5 DEF Wait
  <2> QED
    BY <2>2, <2>3, <2>4, <2>5 DEF Typed
<1>6. ASSUME NEW t \in Workers, Notify(t) PROVE Typed'
  <2>1. pc' \in [Actors -> WorkerLocs \cup KillerLocs]
    BY <1>6, <1>a DEF Notify, WorkerLocs
  <2> QED
    BY <1>6, <2>1 DEF Notify, Typed
<1>7. ASSUME NEW t \in Workers, Die(t) PROVE Typed'
  BY <1>7, <1>a DEF Die, Typed, WorkerLocs
<1>8. ASSUME NEW t \in Workers, Finalize(t) PROVE Typed'
  <2>1. pc' \in [Actors -> WorkerLocs \cup KillerLocs]
    BY <1>8, <1>a DEF Finalize, WorkerLocs
  <2>2. /\ owner' \in Workers \cup {None} /\ osHolder' \in Workers \cup {None}
        /\ recursion' \in 0..MaxRecursion /\ osCount' \in 0..MaxRecursion
    BY <1>8, OsUnlockTyped DEF Finalize, Ownership, Typed
  <2> QED
    BY <1>8, <2>1, <2>2 DEF Finalize, Typed
<1>9. ASSUME NEW t \in Workers, EnterIsolate(t) PROVE Typed'
  BY <1>9, <1>a DEF EnterIsolate, At, Typed, WorkerLocs
<1>10. ASSUME NEW t \in Workers, LeaveIsolate(t) PROVE Typed'
  <2>1. pc' \in [Actors -> WorkerLocs \cup KillerLocs]
    <3>1. next[t] \in WorkerLocs /\ Goto(t, next[t])
      BY <1>10 DEF LeaveIsolate, WorkerLocs, Typed
    <3> QED
      BY <3>1, <1>a
  <2>2. /\ op' \in [Workers -> {"lock", "wait", "head", "relock"}]
        /\ saved' \in [Workers -> 0..MaxRecursion]
    BY <1>10 DEF LeaveIsolate, Typed
  <2> QED
    BY <1>10, <2>1, <2>2 DEF LeaveIsolate, Typed
<1>11. ASSUME NEW t \in Workers, EnterMutex(t) PROVE Typed'
  <2> DEFINE q == Append(list["mutex"], t)
  <2>1. At(t) = "mutex" /\ pc[t] = "monitor" /\ op[t] \in {"lock", "relock"}
    BY <1>11 DEF EnterMutex, Loops, At, Typed
  <2>2. q \in Seq(Workers) /\ Unlink(q, t) \in Seq(Workers)
    BY <2>1, Entering
  <2>3. MayLock(t) /\ waiterCount["mutex"] \in Int
    BY <2>1 DEF Depths, Typed, States
  <2> HIDE DEF q
  <2>4. CASE op[t] = "lock" /\ owner = t
    <3>1. /\ Leave(t, q, "run") /\ recursion' = recursion + 1
          /\ recursion + 1 \in 0..MaxRecursion
      BY <1>11, <2>3, <2>4 DEF EnterMutex, MayLock, q, Typed
    <3>2. /\ list' \in [States -> Seq(Workers)]
          /\ next' \in [Workers -> {"run", "dying", "enter"}]
          /\ pc' \in [Actors -> WorkerLocs \cup KillerLocs]
      BY <2>2, <3>1, LeaveTyped
    <3> QED
      BY <1>11, <2>4, <3>1, <3>2 DEF EnterMutex, Typed
  <2>5. CASE ~(op[t] = "lock" /\ owner = t)
    <3>1. LockTurn(t, q, waiterCount["mutex"])
      BY <1>11, <2>5 DEF EnterMutex, q
    <3>2. /\ iso' = [iso EXCEPT ![t] = None]
          /\ UNCHANGED <<signaled, signaledWaiters, condOwner, active, interrupted,
                         saved, target>>
      BY <1>11 DEF EnterMutex
    <3> QED
      BY <2>2, <2>3, <3>1, <3>2, LockTurnTyped DEF Typed
  <2> QED
    BY <2>4, <2>5
<1>12. ASSUME NEW t \in Workers, EnterCondition(t) PROVE Typed'
  <2>1. At(t) = "cond" /\ pc[t] = "monitor" /\ osHolder # None
    BY <1>12 DEF EnterCondition, At, WaitHolds, Loops, Typed
  <2>2. list' \in [States -> Seq(Workers)]
    BY <1>12, <2>1, Entering DEF EnterCondition, Typed
  <2>3. osHolder' \in Workers \cup {None} /\ osCount' \in 0..MaxRecursion
    BY <1>12, <2>1, OsUnlockTyped DEF EnterCondition
  <2> QED
    BY <1>12, <2>2, <2>3, <1>a DEF EnterCondition, Typed, WorkerLocs
<1>13. ASSUME NEW t \in Workers, ReleaseAndWait(t) PROVE Typed'
  <2>1. At(t) = "cond" /\ Unlink(list["cond"], t) \in Seq(Workers)
    BY <1>13, Inside DEF ReleaseAndWait, Loops, At
  <2>2. waitSet' \in [States -> SUBSET Actors]
    BY <1>13 DEF ReleaseAndWait, Typed
  <2>3. CASE interrupted[t]
    <3>1. Leave(t, list["cond"], "dying") /\ UNCHANGED <<waiterCount, result>>
      BY <1>13, <2>3 DEF ReleaseAndWait
    <3> QED
      BY <1>13, <2>1, <2>2, <3>1, LeaveTyped DEF ReleaseAndWait, Typed
  <2>4. CASE ~interrupted[t]
    <3>1. waiterCount["cond"] + 1 \in Int
      BY DEF Typed, States
    <3>2. waiterCount' = [waiterCount EXCEPT !["cond"] = waiterCount["cond"] + 1]
      BY <1>13, <2>4 DEF ReleaseAndWait
    <3>3. waiterCount' \in [States -> Int]
      BY <3>1, <3>2 DEF Typed
    <3>4. pc' \in [Actors -> WorkerLocs \cup KillerLocs]
      BY <1>13, <2>4, <1>a DEF ReleaseAndWait, WorkerLocs
    <3> QED
      BY <1>13, <2>2, <2>4, <3>3, <3>4 DEF ReleaseAndWait, Typed
  <2> QED
    BY <2>3, <2>4
<1>14. ASSUME NEW t \in Workers, WakeInterrupted(t) PROVE Typed'
  <2>1. Unlink(list[At(t)], t) \in Seq(Workers) /\ waiterCount[At(t)] - 1 \in Int
    BY <1>14, Inside DEF WakeInterrupted, Woken, Typed, At, States
  <2> QED
    BY <1>14, <2>1, LeaveTyped, NoSleepTyped, EndCycleTyped
    DEF WakeInterrupted, Typed
<1>15. ASSUME NEW t \in Workers, WakeSignaled(t) PROVE Typed'
  <2>1. waitSet' \in [States -> SUBSET Actors]
    BY <1>15 DEF WakeSignaled, Typed
  <2> QED
    BY <1>15, <2>1, EndCycleTyped DEF WakeSignaled, Typed
<1>16. ASSUME NEW t \in Workers, WakeToLock(t) PROVE Typed'
  <2>1. pc[t] = "waiting" /\ At(t) = "mutex" /\ MayLock(t)
    BY <1>16 DEF WakeToLock, Waited, Woken, Depths
  <2>2. /\ list["mutex"] \in Seq(Workers) /\ Unlink(list["mutex"], t) \in Seq(Workers)
        /\ waiterCount["mutex"] - 1 \in Int
    BY <2>1, Inside DEF Typed, States
  <2>3. /\ LockTurn(t, list["mutex"], waiterCount["mutex"] - 1) /\ EndCycle(t)
        /\ UNCHANGED <<condOwner, isoVars, saved, target>>
    BY <1>16 DEF WakeToLock
  <2> QED
    BY <2>1, <2>2, <2>3, LockTurnTyped, EndCycleTyped DEF Typed
<1>17. ASSUME NEW t \in Workers, WakeFromCondition(t) PROVE Typed'
  <2>1. pc[t] = "waiting" /\ At(t) = "cond"
    BY <1>17 DEF WakeFromCondition, Waited, Woken
  <2>2. /\ list["cond"] \in Seq(Workers) /\ Unlink(list["cond"], t) \in Seq(Workers)
        /\ waiterCount["cond"] - 1 \in Int
    BY <2>1, Inside DEF Typed, States
  <2>3. EndCycle(t) /\ UNCHANGED <<mutexVars, condOwner, isoVars, saved, target>>
    BY <1>17 DEF WakeFromCondition
  <2>4. CASE /\ Leave(t, list["cond"], "enter")
             /\ NoSleep(t, waiterCount["cond"] - 1)
             /\ UNCHANGED <<op, timed>>
    BY <2>2, <2>3, <2>4, LeaveTyped, NoSleepTyped, EndCycleTyped DEF Typed
  <2>5. CASE /\ op' = [op EXCEPT ![t] = "head"]
             /\ timed' = [timed EXCEPT ![t] = TRUE]
             /\ Sleep(t, list["cond"], waiterCount["cond"] - 1)
             /\ UNCHANGED next
    BY <2>2, <2>3, <2>5, SleepTyped, EndCycleTyped DEF Typed
  <2> QED
    BY <1>17, <2>4, <2>5 DEF WakeFromCondition
<1>18. ASSUME NEW t \in Workers, NotifyAll(t) PROVE Typed'
  <2>1. pc' \in [Actors -> WorkerLocs \cup KillerLocs]
    BY <1>18, <1>a DEF NotifyAll, WorkerLocs
  <2> QED
    BY <1>18, <2>1 DEF NotifyAll, Typed
<1>19. ASSUME NEW t \in Workers, NotifyOne(t) PROVE Typed'
  <2>1. pc' \in [Actors -> WorkerLocs \cup KillerLocs]
    BY <1>19, <1>a DEF NotifyOne, WorkerLocs
  <2> QED
    BY <1>19, <2>1 DEF NotifyOne, Typed
<1>20. ASSUME NEW t \in Workers, Expire(t) PROVE Typed'
  BY <1>20 DEF Expire, Typed
<1>21. ASSUME NEW t \in Workers, SpuriousWakeup(t) PROVE Typed'
  BY <1>21 DEF SpuriousWakeup, Typed
<1>22. ASSUME NEW k \in Killers, Terminate(k) PROVE Typed'
  BY <1>22, <1>b DEF Terminate, Typed, KillerLocs
<1>23. ASSUME NEW k \in Killers, LockIsolate(k) PROVE Typed'
  <2>1. pc' \in [Actors -> WorkerLocs \cup KillerLocs]
    BY <1>23, <1>b DEF LockIsolate, KillerLocs
  <2> QED
    BY <1>23, <2>1 DEF LockIsolate, Typed
<1>24. ASSUME NEW k \in Killers, SetInterrupted(k) PROVE Typed'
  BY <1>24, <1>b DEF SetInterrupted, Typed, KillerLocs
<1>25. ASSUME NEW k \in Killers, Signal(k) PROVE Typed'
  <2>1. pc' \in [Actors -> WorkerLocs \cup KillerLocs]
    BY <1>25, <1>b DEF Signal, KillerLocs
  <2>2. \A s \in States : Range(list[s]) \subseteq Workers
    BY RangeOfSeq DEF Typed
  <2>4. ASSUME NEW s \in States, Signals(s)
        PROVE  /\ signaled' \subseteq Workers
               /\ signaledWaiters' \in [States -> Int]
               /\ waitSet' \in [States -> SUBSET Actors]
    BY <2>2, <2>4 DEF Signals, Typed
  <2>5. /\ signaled' \subseteq Workers
        /\ signaledWaiters' \in [States -> Int]
        /\ waitSet' \in [States -> SUBSET Actors]
    BY <1>25, <2>4, SignalEffect DEF Typed
  <2>6. iso' \in [Workers -> Actors \cup {None}]
    BY <1>25 DEF Signal, Typed
  <2>7. UNCHANGED <<mutexVars, list, waiterCount, condOwner, active, interrupted,
                    localVars>>
    BY <1>25 DEF Signal
  <2> QED
    BY <2>1, <2>4, <2>5, <2>6, <2>7 DEF Typed
<1>26. ASSUME NEW a \in Actors, Poll(a) \/ PollAgain(a) PROVE Typed'
  BY <1>26 DEF Poll, PollAgain, Typed
<1> QED
  BY <1>1, <1>2, <1>3, <1>4, <1>5, <1>6, <1>7, <1>8, <1>9, <1>10, <1>11, <1>12,
     <1>13, <1>14, <1>15, <1>16, <1>17, <1>18, <1>19, <1>20, <1>21, <1>22, <1>23,
     <1>24, <1>25, <1>26
  DEF Next, Program, WorkerStep, KillerStep

(* Every step keeps the threads at the locations of their roles and loops. *)
LEMMA LoopsStep ==
  ASSUME Typed, Loops, Next PROVE Loops'
<1> USE Threads DEF Typed, Loops, Goto, localVars, WorkerLocs, KillerLocs
<1>1. ASSUME NEW t \in Workers, Lock(t) PROVE Loops'
  BY <1>1 DEF Lock
<1>2. ASSUME NEW t \in Workers, TryLock(t) PROVE Loops'
  BY <1>2 DEF TryLock
<1>3. ASSUME NEW t \in Workers, TryLockOs(t) PROVE Loops'
  BY <1>3 DEF TryLockOs
<1>4. ASSUME NEW t \in Workers, Unlock(t) PROVE Loops'
  <2>1. CASE pc' = pc
    BY <1>4, <2>1 DEF Unlock
  <2>2. CASE Goto(t, "unlock")
    BY <1>4, <2>2 DEF Unlock
  <2> QED
    BY <1>4, <2>1, <2>2 DEF Unlock
<1>5. ASSUME NEW t \in Workers, Wait(t) PROVE Loops'
  BY <1>5 DEF Wait
<1>6. ASSUME NEW t \in Workers, Notify(t) PROVE Loops'
  BY <1>6 DEF Notify
<1>7. ASSUME NEW t \in Workers, Die(t) PROVE Loops'
  BY <1>7 DEF Die
<1>8. ASSUME NEW t \in Workers, Finalize(t) PROVE Loops'
  BY <1>8 DEF Finalize
<1>9. ASSUME NEW t \in Workers, EnterIsolate(t) PROVE Loops'
  BY <1>9 DEF EnterIsolate
<1>10. ASSUME NEW t \in Workers, LeaveIsolate(t) PROVE Loops'
  BY <1>10 DEF LeaveIsolate
<1>11. ASSUME NEW t \in Workers, EnterMutex(t) PROVE Loops'
  BY <1>11 DEF EnterMutex, LockTurn, Leave, Sleep, At
<1>12. ASSUME NEW t \in Workers, EnterCondition(t) PROVE Loops'
  BY <1>12 DEF EnterCondition, At
<1>13. ASSUME NEW t \in Workers, ReleaseAndWait(t) PROVE Loops'
  BY <1>13 DEF ReleaseAndWait, Leave
<1>14. ASSUME NEW t \in Workers, WakeInterrupted(t) PROVE Loops'
  BY <1>14 DEF WakeInterrupted, Leave, Woken
<1>15. ASSUME NEW t \in Workers, WakeSignaled(t) PROVE Loops'
  BY <1>15 DEF WakeSignaled, Woken
<1>16. ASSUME NEW t \in Workers, WakeToLock(t) PROVE Loops'
  BY <1>16 DEF WakeToLock, LockTurn, Leave, Sleep, Waited, Woken, At
<1>17. ASSUME NEW t \in Workers, WakeFromCondition(t) PROVE Loops'
  <2>1. /\ pc[t] = "waiting" /\ op[t] \in {"wait", "head"}
        /\ UNCHANGED target
    BY <1>17 DEF WakeFromCondition, Waited, Woken, At
  <2>2. CASE Leave(t, list["cond"], "enter") /\ UNCHANGED <<op, timed>>
    BY <2>1, <2>2 DEF Leave
  <2>3. CASE /\ op' = [op EXCEPT ![t] = "head"]
             /\ Sleep(t, list["cond"], waiterCount["cond"] - 1)
             /\ UNCHANGED next
    BY <2>1, <2>3 DEF Sleep
  <2> QED
    BY <1>17, <2>2, <2>3 DEF WakeFromCondition
<1>18. ASSUME NEW t \in Workers, NotifyAll(t) PROVE Loops'
  BY <1>18 DEF NotifyAll
<1>19. ASSUME NEW t \in Workers, NotifyOne(t) PROVE Loops'
  BY <1>19 DEF NotifyOne
<1>20. ASSUME NEW t \in Workers, Expire(t) PROVE Loops'
  BY <1>20 DEF Expire
<1>21. ASSUME NEW t \in Workers, SpuriousWakeup(t) PROVE Loops'
  BY <1>21 DEF SpuriousWakeup
<1>22. ASSUME NEW k \in Killers, Terminate(k) PROVE Loops'
  BY <1>22 DEF Terminate
<1>23. ASSUME NEW k \in Killers, LockIsolate(k) PROVE Loops'
  BY <1>23 DEF LockIsolate
<1>24. ASSUME NEW k \in Killers, SetInterrupted(k) PROVE Loops'
  BY <1>24 DEF SetInterrupted
<1>25. ASSUME NEW k \in Killers, Signal(k) PROVE Loops'
  BY <1>25 DEF Signal
<1>26. ASSUME NEW a \in Actors, Poll(a) PROVE Loops'
  BY <1>26 DEF Poll
<1>27. ASSUME NEW a \in Actors, PollAgain(a) PROVE Loops'
  BY <1>27 DEF PollAgain
<1> QED
  BY <1>1, <1>2, <1>3, <1>4, <1>5, <1>6, <1>7, <1>8, <1>9, <1>10, <1>11,
     <1>12, <1>13, <1>14, <1>15, <1>16, <1>17, <1>18, <1>19, <1>20, <1>21,
     <1>22, <1>23, <1>24, <1>25, <1>26, <1>27
  DEF Next, Program, WorkerStep, KillerStep

(* Every step keeps the owner, the count and the OS mutex together. *)
LEMMA OwnershipStep ==
  ASSUME Typed, Loops, WaitHolds, Ownership, Next PROVE Ownership'
<1> USE Threads DEF Ownership, Typed, Loops, WaitHolds, mutexVars
<1>1. ASSUME NEW t \in Workers, Lock(t) PROVE Ownership'
  BY <1>1 DEF Lock
<1>2. ASSUME NEW t \in Workers, TryLock(t) PROVE Ownership'
  BY <1>2 DEF TryLock
<1>3. ASSUME NEW t \in Workers, TryLockOs(t) PROVE Ownership'
  BY <1>3 DEF TryLockOs, Acquire, CanTryLock, Depths, MayLock
<1>4. ASSUME NEW t \in Workers, Unlock(t) PROVE Ownership'
  BY <1>4 DEF Unlock, OsUnlock
<1>5. ASSUME NEW t \in Workers, Wait(t) PROVE Ownership'
  BY <1>5 DEF Wait
<1>6. ASSUME NEW t \in Workers, Notify(t) PROVE Ownership'
  BY <1>6 DEF Notify
<1>7. ASSUME NEW t \in Workers, Die(t) PROVE Ownership'
  BY <1>7 DEF Die
<1>8. ASSUME NEW t \in Workers, Finalize(t) PROVE Ownership'
  BY <1>8 DEF Finalize, OsUnlock
<1>9. ASSUME NEW t \in Workers, EnterIsolate(t) PROVE Ownership'
  BY <1>9 DEF EnterIsolate
<1>10. ASSUME NEW t \in Workers, LeaveIsolate(t) PROVE Ownership'
  BY <1>10 DEF LeaveIsolate
<1>11. ASSUME NEW t \in Workers, EnterMutex(t) PROVE Ownership'
  BY <1>11 DEF EnterMutex, LockTurn, Acquire, CanTryLock, At
<1>12. ASSUME NEW t \in Workers, EnterCondition(t) PROVE Ownership'
  <2>1. op[t] = "wait" /\ pc[t] = "monitor"
    BY <1>12 DEF EnterCondition, At
  <2>2. osHolder = t /\ owner # t
    BY <2>1
  <2>3. owner = None /\ recursion = 0 /\ osCount \in Nat /\ osCount # 0
    BY <2>2
  <2> QED
    BY <1>12, <2>2, <2>3 DEF EnterCondition, OsUnlock
<1>13. ASSUME NEW t \in Workers, ReleaseAndWait(t) PROVE Ownership'
  BY <1>13 DEF ReleaseAndWait
<1>14. ASSUME NEW t \in Workers, WakeInterrupted(t) PROVE Ownership'
  BY <1>14 DEF WakeInterrupted
<1>15. ASSUME NEW t \in Workers, WakeSignaled(t) PROVE Ownership'
  BY <1>15 DEF WakeSignaled
<1>16. ASSUME NEW t \in Workers, WakeToLock(t) PROVE Ownership'
  BY <1>16 DEF WakeToLock, LockTurn, Acquire, CanTryLock, Waited, Woken, At
<1>17. ASSUME NEW t \in Workers, WakeFromCondition(t) PROVE Ownership'
  BY <1>17 DEF WakeFromCondition
<1>18. ASSUME NEW t \in Workers, NotifyAll(t) PROVE Ownership'
  BY <1>18 DEF NotifyAll
<1>19. ASSUME NEW t \in Workers, NotifyOne(t) PROVE Ownership'
  BY <1>19 DEF NotifyOne
<1>20. ASSUME NEW t \in Workers, Expire(t) PROVE Ownership'
  BY <1>20 DEF Expire
<1>21. ASSUME NEW t \in Workers, SpuriousWakeup(t) PROVE Ownership'
  BY <1>21 DEF SpuriousWakeup
<1>22. ASSUME NEW k \in Killers, Terminate(k) PROVE Ownership'
  BY <1>22 DEF Terminate
<1>23. ASSUME NEW k \in Killers, LockIsolate(k) PROVE Ownership'
  BY <1>23 DEF LockIsolate
<1>24. ASSUME NEW k \in Killers, SetInterrupted(k) PROVE Ownership'
  BY <1>24 DEF SetInterrupted
<1>25. ASSUME NEW k \in Killers, Signal(k) PROVE Ownership'
  BY <1>25 DEF Signal
<1>26. ASSUME NEW a \in Actors, Poll(a) PROVE Ownership'
  BY <1>26 DEF Poll
<1>27. ASSUME NEW a \in Actors, PollAgain(a) PROVE Ownership'
  BY <1>27 DEF PollAgain
<1> QED
  BY <1>1, <1>2, <1>3, <1>4, <1>5, <1>6, <1>7, <1>8, <1>9, <1>10, <1>11,
     <1>12, <1>13, <1>14, <1>15, <1>16, <1>17, <1>18, <1>19, <1>20, <1>21,
     <1>22, <1>23, <1>24, <1>25, <1>26, <1>27
  DEF Next, Program, WorkerStep, KillerStep

(* Every step keeps what Condition.wait holds and what it has to restore. *)
LEMMA WaitHoldsStep ==
  ASSUME Typed, Loops, WaitHolds, Ownership, Next PROVE WaitHolds'
<1> USE Threads DEF Ownership, Typed, Loops, WaitHolds, mutexVars, localVars, Goto
<1>1. ASSUME NEW t \in Workers, Lock(t) PROVE WaitHolds'
  BY <1>1 DEF Lock
<1>2. ASSUME NEW t \in Workers, TryLock(t) PROVE WaitHolds'
  BY <1>2 DEF TryLock
<1>3. ASSUME NEW t \in Workers, TryLockOs(t) PROVE WaitHolds'
  BY <1>3 DEF TryLockOs, Acquire, CanTryLock
<1>4. ASSUME NEW t \in Workers, Unlock(t) PROVE WaitHolds'
  <2>1. osHolder = t /\ op[t] = "lock" /\ owner' \in {owner, None}
    BY <1>4 DEF Unlock
  <2>2. \A u \in Workers \ {t} : osHolder # u /\ pc'[u] = pc[u]
    BY <1>4, <2>1 DEF Unlock
  <2>3. pc'[t] \notin {"enter", "monitor"} /\ UNCHANGED <<op, saved>>
    BY <1>4 DEF Unlock
  <2>4. \A u \in Workers : owner' = u => owner = u
    BY <2>1
  <2> QED
    BY <2>1, <2>2, <2>3, <2>4
<1>5. ASSUME NEW t \in Workers, Wait(t) PROVE WaitHolds'
  BY <1>5 DEF Wait
<1>6. ASSUME NEW t \in Workers, Notify(t) PROVE WaitHolds'
  BY <1>6 DEF Notify
<1>7. ASSUME NEW t \in Workers, Die(t) PROVE WaitHolds'
  BY <1>7 DEF Die
<1>8. ASSUME NEW t \in Workers, Finalize(t) PROVE WaitHolds'
  <2>1. op[t] = "lock" /\ owner' \in {owner, None} /\ UNCHANGED <<op, saved>>
    BY <1>8 DEF Finalize
  <2>2. osHolder' = osHolder \/ osHolder = t
    BY <1>8 DEF Finalize
  <2>3. \A u \in Workers : pc'[u] = IF u = t THEN pc'[t] ELSE pc[u]
    BY <1>8 DEF Finalize
  <2>4. pc'[t] \in {"finalize", "dead"}
    BY <1>8 DEF Finalize
  <2> QED
    BY <2>1, <2>2, <2>3, <2>4
<1>9. ASSUME NEW t \in Workers, EnterIsolate(t) PROVE WaitHolds'
  BY <1>9 DEF EnterIsolate
<1>10. ASSUME NEW t \in Workers, LeaveIsolate(t) PROVE WaitHolds'
  BY <1>10 DEF LeaveIsolate
<1>11. ASSUME NEW t \in Workers, EnterMutex(t) PROVE WaitHolds'
  BY <1>11 DEF EnterMutex, LockTurn, Acquire, CanTryLock, Leave, Sleep, At
<1>12. ASSUME NEW t \in Workers, EnterCondition(t) PROVE WaitHolds'
  BY <1>12 DEF EnterCondition, OsUnlock, At
<1>13. ASSUME NEW t \in Workers, ReleaseAndWait(t) PROVE WaitHolds'
  BY <1>13 DEF ReleaseAndWait, Leave
<1>14. ASSUME NEW t \in Workers, WakeInterrupted(t) PROVE WaitHolds'
  BY <1>14 DEF WakeInterrupted, Leave, Woken
<1>15. ASSUME NEW t \in Workers, WakeSignaled(t) PROVE WaitHolds'
  BY <1>15 DEF WakeSignaled
<1>16. ASSUME NEW t \in Workers, WakeToLock(t) PROVE WaitHolds'
  BY <1>16 DEF WakeToLock, LockTurn, Acquire, CanTryLock, Leave, Sleep, Waited, Woken, At
<1>17. ASSUME NEW t \in Workers, WakeFromCondition(t) PROVE WaitHolds'
  BY <1>17 DEF WakeFromCondition, Leave, Sleep, Waited, Woken, At
<1>18. ASSUME NEW t \in Workers, NotifyAll(t) PROVE WaitHolds'
  BY <1>18 DEF NotifyAll
<1>19. ASSUME NEW t \in Workers, NotifyOne(t) PROVE WaitHolds'
  BY <1>19 DEF NotifyOne
<1>20. ASSUME NEW t \in Workers, Expire(t) PROVE WaitHolds'
  BY <1>20 DEF Expire
<1>21. ASSUME NEW t \in Workers, SpuriousWakeup(t) PROVE WaitHolds'
  BY <1>21 DEF SpuriousWakeup
<1>22. ASSUME NEW k \in Killers, Terminate(k) PROVE WaitHolds'
  BY <1>22 DEF Terminate
<1>23. ASSUME NEW k \in Killers, LockIsolate(k) PROVE WaitHolds'
  BY <1>23 DEF LockIsolate
<1>24. ASSUME NEW k \in Killers, SetInterrupted(k) PROVE WaitHolds'
  BY <1>24 DEF SetInterrupted
<1>25. ASSUME NEW k \in Killers, Signal(k) PROVE WaitHolds'
  BY <1>25 DEF Signal
<1>26. ASSUME NEW a \in Actors, Poll(a) PROVE WaitHolds'
  BY <1>26 DEF Poll
<1>27. ASSUME NEW a \in Actors, PollAgain(a) PROVE WaitHolds'
  BY <1>27 DEF PollAgain
<1> QED
  BY <1>1, <1>2, <1>3, <1>4, <1>5, <1>6, <1>7, <1>8, <1>9, <1>10, <1>11,
     <1>12, <1>13, <1>14, <1>15, <1>16, <1>17, <1>18, <1>19, <1>20, <1>21,
     <1>22, <1>23, <1>24, <1>25, <1>26, <1>27
  DEF Next, Program, WorkerStep, KillerStep

(* Every step keeps room for the levels still to be acquired. *)
LEMMA DepthsStep ==
  ASSUME Typed, Loops, WaitHolds, Ownership, Depths, Next PROVE Depths'
<1> USE Threads DEF Ownership, Typed, Loops, WaitHolds, Depths, MayLock, mutexVars, localVars, Goto
<1>1. ASSUME NEW t \in Workers, Lock(t) PROVE Depths'
  BY <1>1 DEF Lock
<1>2. ASSUME NEW t \in Workers, TryLock(t) PROVE Depths'
  BY <1>2 DEF TryLock
<1>3. ASSUME NEW t \in Workers, TryLockOs(t) PROVE Depths'
  BY <1>3 DEF TryLockOs, Acquire, CanTryLock
<1>4. ASSUME NEW t \in Workers, Unlock(t) PROVE Depths'
  BY <1>4 DEF Unlock, OsUnlock
<1>5. ASSUME NEW t \in Workers, Wait(t) PROVE Depths'
  BY <1>5 DEF Wait
<1>6. ASSUME NEW t \in Workers, Notify(t) PROVE Depths'
  BY <1>6 DEF Notify
<1>7. ASSUME NEW t \in Workers, Die(t) PROVE Depths'
  BY <1>7 DEF Die
<1>8. ASSUME NEW t \in Workers, Finalize(t) PROVE Depths'
  BY <1>8 DEF Finalize, OsUnlock
<1>9. ASSUME NEW t \in Workers, EnterIsolate(t) PROVE Depths'
  BY <1>9 DEF EnterIsolate
<1>10. ASSUME NEW t \in Workers, LeaveIsolate(t) PROVE Depths'
  BY <1>10 DEF LeaveIsolate
<1>11. ASSUME NEW t \in Workers, EnterMutex(t) PROVE Depths'
  BY <1>11 DEF EnterMutex, LockTurn, Acquire, CanTryLock, Leave, Sleep, At
<1>12. ASSUME NEW t \in Workers, EnterCondition(t) PROVE Depths'
  BY <1>12 DEF EnterCondition, OsUnlock, At
<1>13. ASSUME NEW t \in Workers, ReleaseAndWait(t) PROVE Depths'
  BY <1>13 DEF ReleaseAndWait, Leave
<1>14. ASSUME NEW t \in Workers, WakeInterrupted(t) PROVE Depths'
  BY <1>14 DEF WakeInterrupted, Leave, Woken
<1>15. ASSUME NEW t \in Workers, WakeSignaled(t) PROVE Depths'
  BY <1>15 DEF WakeSignaled
<1>16. ASSUME NEW t \in Workers, WakeToLock(t) PROVE Depths'
  BY <1>16 DEF WakeToLock, LockTurn, Acquire, CanTryLock, Leave, Sleep, Waited, Woken, At
<1>17. ASSUME NEW t \in Workers, WakeFromCondition(t) PROVE Depths'
  BY <1>17 DEF WakeFromCondition, Leave, Sleep, Waited, Woken, At
<1>18. ASSUME NEW t \in Workers, NotifyAll(t) PROVE Depths'
  BY <1>18 DEF NotifyAll
<1>19. ASSUME NEW t \in Workers, NotifyOne(t) PROVE Depths'
  BY <1>19 DEF NotifyOne
<1>20. ASSUME NEW t \in Workers, Expire(t) PROVE Depths'
  BY <1>20 DEF Expire
<1>21. ASSUME NEW t \in Workers, SpuriousWakeup(t) PROVE Depths'
  BY <1>21 DEF SpuriousWakeup
<1>22. ASSUME NEW k \in Killers, Terminate(k) PROVE Depths'
  BY <1>22 DEF Terminate
<1>23. ASSUME NEW k \in Killers, LockIsolate(k) PROVE Depths'
  BY <1>23 DEF LockIsolate
<1>24. ASSUME NEW k \in Killers, SetInterrupted(k) PROVE Depths'
  BY <1>24 DEF SetInterrupted
<1>25. ASSUME NEW k \in Killers, Signal(k) PROVE Depths'
  BY <1>25 DEF Signal
<1>26. ASSUME NEW a \in Actors, Poll(a) PROVE Depths'
  BY <1>26 DEF Poll
<1>27. ASSUME NEW a \in Actors, PollAgain(a) PROVE Depths'
  BY <1>27 DEF PollAgain
<1> QED
  BY <1>1, <1>2, <1>3, <1>4, <1>5, <1>6, <1>7, <1>8, <1>9, <1>10, <1>11,
     <1>12, <1>13, <1>14, <1>15, <1>16, <1>17, <1>18, <1>19, <1>20, <1>21,
     <1>22, <1>23, <1>24, <1>25, <1>26, <1>27
  DEF Next, Program, WorkerStep, KillerStep

(* The list of one state changes with the workers in that state. *)
LEMMA ListedChange ==
  ASSUME Typed, Listed, NEW s \in States, NEW q \in Seq(Workers), NoDuplicates(q),
         list' = [list EXCEPT ![s] = q],
         \A u \in Workers : In(u, s)' <=> u \in Range(q),
         \A u \in Workers, r \in States \ {s} : In(u, r)' <=> In(u, r)
  PROVE  Listed'
<1> SUFFICES ASSUME NEW r \in States
             PROVE  /\ NoDuplicates(list'[r])
                    /\ Range(list'[r]) = {u \in Workers : In(u, r)'}
  BY DEF Listed
<1>1. CASE r = s
  <2>1. list'[r] = q /\ Range(q) \subseteq Workers
    BY <1>1, RangeOfSeq DEF Typed
  <2> QED
    BY <1>1, <2>1
<1>2. CASE r # s
  <2>1. list'[r] = list[r] /\ NoDuplicates(list[r])
        /\ Range(list[r]) = {u \in Workers : In(u, r)}
    BY <1>2 DEF Typed, Listed
  <2>2. \A u \in Workers : In(u, r)' <=> In(u, r)
    BY <1>2
  <2> QED
    BY <2>1, <2>2
<1> QED
  BY <1>1, <1>2

(* A step that moves no worker into or out of a state. *)
LEMMA ListedSame ==
  ASSUME Listed, list' = list,
         \A u \in Workers, s \in States : In(u, s)' <=> In(u, s)
  PROVE  Listed'
BY DEF Listed

(* ~Enter: the worker leaves the state it was in. *)
LEMMA ListedLeave ==
  ASSUME Typed, Listed, NEW t \in Workers, NEW s \in States, In(t, s),
         NEW to, Leave(t, list[s], to),
         \A u \in Workers \ {t} : op'[u] = op[u]
  PROVE  Listed'
<1>1. /\ Unlink(list[s], t) \in Seq(Workers) /\ NoDuplicates(Unlink(list[s], t))
      /\ Range(Unlink(list[s], t)) = Range(list[s]) \ {t}
      /\ list' = [list EXCEPT ![s] = Unlink(list[s], t)]
  BY Inside DEF Leave, In
<1>2. \A u \in Workers : pc'[u] = IF u = t THEN "leave" ELSE pc[u]
  BY Threads DEF Leave, Goto, Typed
<1>3. \A u \in Workers, r \in States : In(u, r)' <=> u # t /\ In(u, r)
  BY <1>2 DEF In, At
<1>4. Range(list[s]) = {u \in Workers : In(u, s)}
  BY DEF Listed
<1>5. \A u \in Workers : In(u, s)' <=> u \in Range(Unlink(list[s], t))
  BY <1>1, <1>3, <1>4
<1>6. \A u \in Workers, r \in States \ {s} : In(u, r)' <=> In(u, r)
  BY <1>3 DEF In
<1> QED
  BY <1>1, <1>5, <1>6, ListedChange

(* ~Enter in the step that entered. *)
LEMMA ListedThrough ==
  ASSUME Typed, Listed, NEW t \in Workers, pc[t] = "monitor",
         NEW s \in States, At(t) = s,
         NEW to, Leave(t, Append(list[s], t), to), \A u \in Workers : op'[u] = op[u]
  PROVE  Listed'
<1> DEFINE q == Unlink(Append(list[s], t), t)
<1>1. /\ q \in Seq(Workers) /\ NoDuplicates(q) /\ Range(q) = Range(list[s])
      /\ list' = [list EXCEPT ![s] = q]
  BY Entering DEF Leave
<1> HIDE DEF q
<1>2. \A u \in Workers : pc'[u] = IF u = t THEN "leave" ELSE pc[u]
  BY Threads DEF Leave, Goto, Typed
<1>3. \A u \in Workers, r \in States : In(u, r)' <=> In(u, r)
  BY <1>2 DEF In, At
<1>4. Range(list[s]) = {u \in Workers : In(u, s)}
  BY DEF Listed
<1> QED
  BY <1>1, <1>3, <1>4, ListedChange

(* A worker enters and its record stays. *)
LEMMA ListedEnter ==
  ASSUME Typed, Listed, NEW t \in Workers, pc[t] = "monitor",
         NEW s \in States, At(t) = s,
         list' = [list EXCEPT ![s] = Append(list[s], t)],
         NEW l \in {"waiting", "release"}, Goto(t, l),
         \A u \in Workers : op'[u] = op[u]
  PROVE  Listed'
<1> DEFINE q == Append(list[s], t)
<1>1. /\ q \in Seq(Workers) /\ NoDuplicates(q) /\ Range(q) = Range(list[s]) \cup {t}
      /\ list' = [list EXCEPT ![s] = q]
  BY Entering
<1> HIDE DEF q
<1>2. \A u \in Workers : pc'[u] = IF u = t THEN l ELSE pc[u]
  BY Threads DEF Goto, Typed
<1>3. \A u \in Workers, r \in States :
        In(u, r)' <=> IF u = t THEN r = s ELSE In(u, r)
  BY <1>2 DEF In, At
<1>4. Range(list[s]) = {u \in Workers : In(u, s)}
  BY DEF Listed
<1>5. \A u \in Workers : In(u, s)' <=> u \in Range(q)
  BY <1>1, <1>3, <1>4
<1>6. \A u \in Workers, r \in States \ {s} : In(u, r)' <=> In(u, r)
  BY <1>3 DEF In
<1> QED
  BY <1>1, <1>5, <1>6, ListedChange

(* A worker falls asleep again with its record where it was. *)
LEMMA ListedStay ==
  ASSUME Typed, Listed, NEW t \in Workers, NEW s \in States, In(t, s),
         list' = [list EXCEPT ![s] = list[s]], Goto(t, "waiting"),
         \A u \in Workers : At(u)' = At(u)
  PROVE  Listed'
<1>1. list' = list
  BY DEF Typed
<1>2. \A u \in Workers : pc'[u] = IF u = t THEN "waiting" ELSE pc[u]
  BY Threads DEF Goto, Typed
<1>3. \A u \in Workers, r \in States : In(u, r)' <=> In(u, r)
  BY <1>2 DEF In
<1> QED
  BY <1>1, <1>3, ListedSame

(* Every step keeps the lists. *)
LEMMA ListedStep ==
  ASSUME Typed, Loops, Listed, Next PROVE Listed'
<1> USE Threads DEF localVars, stateVars
<1>1. ASSUME NEW t \in Workers, Lock(t) PROVE Listed'
  BY <1>1, ListedSame DEF Lock, In, At, Typed, Loops, Goto
<1>2. ASSUME NEW t \in Workers, TryLock(t) PROVE Listed'
  BY <1>2, ListedSame DEF TryLock, In, At, Typed, Loops, Goto
<1>3. ASSUME NEW t \in Workers, TryLockOs(t) PROVE Listed'
  BY <1>3, ListedSame DEF TryLockOs, In, At, Typed, Loops, Goto
<1>4. ASSUME NEW t \in Workers, Unlock(t) PROVE Listed'
  BY <1>4, ListedSame DEF Unlock, In, At, Typed, Loops, Goto
<1>5. ASSUME NEW t \in Workers, Wait(t) PROVE Listed'
  BY <1>5, ListedSame DEF Wait, In, At, Typed, Loops, Goto
<1>6. ASSUME NEW t \in Workers, Notify(t) PROVE Listed'
  BY <1>6, ListedSame DEF Notify, In, At, Typed, Loops, Goto
<1>7. ASSUME NEW t \in Workers, Die(t) PROVE Listed'
  BY <1>7, ListedSame DEF Die, In, At, Typed, Loops, Goto
<1>8. ASSUME NEW t \in Workers, Finalize(t) PROVE Listed'
  BY <1>8, ListedSame DEF Finalize, In, At, Typed, Loops, Goto
<1>9. ASSUME NEW t \in Workers, EnterIsolate(t) PROVE Listed'
  BY <1>9, ListedSame DEF EnterIsolate, In, At, Typed, Loops, Goto
<1>10. ASSUME NEW t \in Workers, LeaveIsolate(t) PROVE Listed'
  BY <1>10, ListedSame DEF LeaveIsolate, In, At, Typed, Loops, Goto
<1>11. ASSUME NEW t \in Workers, EnterMutex(t) PROVE Listed'
  <2>1. /\ pc[t] = "monitor" /\ At(t) = "mutex" /\ "mutex" \in States
        /\ UNCHANGED op
    BY <1>11 DEF EnterMutex, LockTurn, States
  <2>2. CASE \E to : Leave(t, Append(list["mutex"], t), to)
    BY <2>1, <2>2, ListedThrough
  <2>3. CASE Sleep(t, Append(list["mutex"], t), waiterCount["mutex"])
    BY <2>1, <2>3, ListedEnter DEF Sleep
  <2> QED
    BY <1>11, <2>2, <2>3 DEF EnterMutex, LockTurn
<1>12. ASSUME NEW t \in Workers, EnterCondition(t) PROVE Listed'
  <2>1. /\ pc[t] = "monitor" /\ At(t) = "cond" /\ "cond" \in States
        /\ UNCHANGED op
    BY <1>12 DEF EnterCondition, States
  <2> QED
    BY <1>12, <2>1, ListedEnter DEF EnterCondition
<1>13. ASSUME NEW t \in Workers, ReleaseAndWait(t) PROVE Listed'
  <2>1. In(t, "cond") /\ "cond" \in States /\ UNCHANGED op
    BY <1>13 DEF ReleaseAndWait, Loops, In, At, States
  <2>2. CASE Leave(t, list["cond"], "dying")
    BY <2>1, <2>2, ListedLeave
  <2>3. CASE Goto(t, "waiting") /\ list' = list
    <3>1. list' = [list EXCEPT !["cond"] = list["cond"]]
      BY <2>3 DEF Typed
    <3> QED
      BY <2>1, <2>3, <3>1, ListedStay DEF At
  <2> QED
    BY <1>13, <2>2, <2>3 DEF ReleaseAndWait
<1>14. ASSUME NEW t \in Workers, WakeInterrupted(t) PROVE Listed'
  <2>1. In(t, At(t)) /\ At(t) \in States /\ UNCHANGED op
    BY <1>14 DEF WakeInterrupted, Woken, In, At, States
  <2>2. PICK s \in States : s = At(t)
    BY <2>1
  <2> QED
    BY <1>14, <2>1, <2>2, ListedLeave DEF WakeInterrupted
<1>15. ASSUME NEW t \in Workers, WakeSignaled(t) PROVE Listed'
  BY <1>15, ListedSame DEF WakeSignaled, In, At, Typed, Loops, Goto
<1>16. ASSUME NEW t \in Workers, WakeToLock(t) PROVE Listed'
  <2>1. In(t, "mutex") /\ "mutex" \in States /\ UNCHANGED op
    BY <1>16 DEF WakeToLock, LockTurn, Waited, Woken, In, States
  <2>2. CASE \E to : Leave(t, list["mutex"], to)
    BY <2>1, <2>2, ListedLeave
  <2>3. CASE Sleep(t, list["mutex"], waiterCount["mutex"] - 1)
    <3>1. list' = [list EXCEPT !["mutex"] = list["mutex"]] /\ Goto(t, "waiting")
      BY <2>1, <2>3 DEF Sleep, In
    <3> QED
      BY <2>1, <3>1, ListedStay DEF At
  <2> QED
    BY <1>16, <2>2, <2>3 DEF WakeToLock, LockTurn
<1>17. ASSUME NEW t \in Workers, WakeFromCondition(t) PROVE Listed'
  <2>1. In(t, "cond") /\ "cond" \in States
    BY <1>17 DEF WakeFromCondition, Waited, Woken, In, States
  <2>2. CASE Leave(t, list["cond"], "enter") /\ UNCHANGED op
    BY <2>1, <2>2, ListedLeave
  <2>3. CASE /\ Sleep(t, list["cond"], waiterCount["cond"] - 1)
             /\ op' = [op EXCEPT ![t] = "head"]
    <3>1. list' = [list EXCEPT !["cond"] = list["cond"]] /\ Goto(t, "waiting")
      BY <2>1, <2>3 DEF Sleep, In
    <3>2. \A u \in Workers : At(u)' = At(u)
      BY <2>1, <2>3 DEF At, In, Typed
    <3> QED
      BY <2>1, <3>1, <3>2, ListedStay
  <2> QED
    BY <1>17, <2>2, <2>3 DEF WakeFromCondition
<1>18. ASSUME NEW t \in Workers, NotifyAll(t) PROVE Listed'
  BY <1>18, ListedSame DEF NotifyAll, In, At, Typed, Loops, Goto
<1>19. ASSUME NEW t \in Workers, NotifyOne(t) PROVE Listed'
  BY <1>19, ListedSame DEF NotifyOne, In, At, Typed, Loops, Goto
<1>20. ASSUME NEW t \in Workers, Expire(t) PROVE Listed'
  BY <1>20, ListedSame DEF Expire, In, At, Typed, Loops, Goto
<1>21. ASSUME NEW t \in Workers, SpuriousWakeup(t) PROVE Listed'
  BY <1>21, ListedSame DEF SpuriousWakeup, In, At, Typed, Loops, Goto
<1>22. ASSUME NEW k \in Killers, Terminate(k) PROVE Listed'
  BY <1>22, ListedSame DEF Terminate, In, At, Typed, Loops, Goto
<1>23. ASSUME NEW k \in Killers, LockIsolate(k) PROVE Listed'
  BY <1>23, ListedSame DEF LockIsolate, In, At, Typed, Loops, Goto
<1>24. ASSUME NEW k \in Killers, SetInterrupted(k) PROVE Listed'
  BY <1>24, ListedSame DEF SetInterrupted, In, At, Typed, Loops, Goto
<1>25. ASSUME NEW k \in Killers, Signal(k) PROVE Listed'
  BY <1>25, ListedSame DEF Signal, In, At, Typed, Loops, Goto
<1>26. ASSUME NEW a \in Actors, Poll(a) PROVE Listed'
  BY <1>26, ListedSame DEF Poll, In, At, Typed, Loops, Goto
<1>27. ASSUME NEW a \in Actors, PollAgain(a) PROVE Listed'
  BY <1>27, ListedSame DEF PollAgain, In, At, Typed, Loops, Goto
<1> QED
  BY <1>1, <1>2, <1>3, <1>4, <1>5, <1>6, <1>7, <1>8, <1>9, <1>10, <1>11,
     <1>12, <1>13, <1>14, <1>15, <1>16, <1>17, <1>18, <1>19, <1>20, <1>21,
     <1>22, <1>23, <1>24, <1>25, <1>26, <1>27
  DEF Next, Program, WorkerStep, KillerStep

(* Every step keeps the holder of the condition and the marked records. *)
LEMMA HoldersStep ==
  ASSUME Typed, Loops, Listed, Holders, Next PROVE Holders'
<1> USE Threads DEF Typed, Holders, Goto, stateVars
<1>1. ASSUME NEW t \in Workers, Lock(t) PROVE Holders'
  BY <1>1 DEF Lock
<1>2. ASSUME NEW t \in Workers, TryLock(t) PROVE Holders'
  BY <1>2 DEF TryLock
<1>3. ASSUME NEW t \in Workers, TryLockOs(t) PROVE Holders'
  BY <1>3 DEF TryLockOs
<1>4. ASSUME NEW t \in Workers, Unlock(t) PROVE Holders'
  BY <1>4 DEF Unlock
<1>5. ASSUME NEW t \in Workers, Wait(t) PROVE Holders'
  BY <1>5 DEF Wait
<1>6. ASSUME NEW t \in Workers, Notify(t) PROVE Holders'
  BY <1>6 DEF Notify
<1>7. ASSUME NEW t \in Workers, Die(t) PROVE Holders'
  BY <1>7 DEF Die
<1>8. ASSUME NEW t \in Workers, Finalize(t) PROVE Holders'
  BY <1>8 DEF Finalize
<1>9. ASSUME NEW t \in Workers, EnterIsolate(t) PROVE Holders'
  BY <1>9 DEF EnterIsolate
<1>10. ASSUME NEW t \in Workers, LeaveIsolate(t) PROVE Holders'
  BY <1>10 DEF LeaveIsolate
<1>11. ASSUME NEW t \in Workers, EnterMutex(t) PROVE Holders'
  BY <1>11 DEF EnterMutex, LockTurn, Leave, Sleep
<1>12. ASSUME NEW t \in Workers, EnterCondition(t) PROVE Holders'
  BY <1>12 DEF EnterCondition
<1>13. ASSUME NEW t \in Workers, ReleaseAndWait(t) PROVE Holders'
  <2>1. CASE Leave(t, list["cond"], "dying")
    BY <1>13, <2>1 DEF ReleaseAndWait, Leave
  <2>2. CASE Goto(t, "waiting")
    BY <1>13, <2>2 DEF ReleaseAndWait
  <2> QED
    BY <1>13, <2>1, <2>2 DEF ReleaseAndWait
<1>14. ASSUME NEW t \in Workers, WakeInterrupted(t) PROVE Holders'
  BY <1>14 DEF WakeInterrupted, Leave, Woken, EndCycle
<1>15. ASSUME NEW t \in Workers, WakeSignaled(t) PROVE Holders'
  BY <1>15 DEF WakeSignaled, EndCycle
<1>16. ASSUME NEW t \in Workers, WakeToLock(t) PROVE Holders'
  BY <1>16 DEF WakeToLock, LockTurn, Leave, Sleep, EndCycle, Waited, Woken
<1>17. ASSUME NEW t \in Workers, WakeFromCondition(t) PROVE Holders'
  BY <1>17 DEF WakeFromCondition, Leave, Sleep, Waited, Woken, EndCycle
<1>18. ASSUME NEW t \in Workers, NotifyAll(t) PROVE Holders'
  BY <1>18 DEF NotifyAll
<1>19. ASSUME NEW t \in Workers, NotifyOne(t) PROVE Holders'
  BY <1>19 DEF NotifyOne
<1>20. ASSUME NEW t \in Workers, Expire(t) PROVE Holders'
  BY <1>20 DEF Expire
<1>21. ASSUME NEW t \in Workers, SpuriousWakeup(t) PROVE Holders'
  BY <1>21 DEF SpuriousWakeup
<1>22. ASSUME NEW k \in Killers, Terminate(k) PROVE Holders'
  BY <1>22 DEF Terminate
<1>23. ASSUME NEW k \in Killers, LockIsolate(k) PROVE Holders'
  BY <1>23 DEF LockIsolate
<1>24. ASSUME NEW k \in Killers, SetInterrupted(k) PROVE Holders'
  BY <1>24 DEF SetInterrupted
<1>25. ASSUME NEW k \in Killers, Signal(k) PROVE Holders'
  <2>1. UNCHANGED condOwner /\ \A u \in Workers : pc'[u] = pc[u]
    BY <1>25 DEF Signal
  <2>2. CASE UNCHANGED signaled
    BY <2>1, <2>2
  <2>3. ASSUME NEW s \in States, Signals(s) PROVE Holders'
    <3>1. ASSUME NEW u \in Range(list[s]) PROVE pc[u] = "waiting"
      <4>1. u \in Workers /\ In(u, s)
        BY <3>1 DEF Listed
      <4>2. ASSUME pc[u] = "release" PROVE FALSE
        BY <2>3, <4>1, <4>2 DEF Signals, MonitorFree, In, At, Loops
      <4> QED
        BY <4>1, <4>2 DEF In
    <3>2. signaled' = signaled \cup Range(list[s]) /\ Range(list[s]) \subseteq Workers
      BY <2>3 DEF Signals, Listed
    <3> QED
      BY <2>1, <3>1, <3>2
  <2> QED
    BY <1>25, <2>2, <2>3, SignalEffect
<1>26. ASSUME NEW a \in Actors, Poll(a) PROVE Holders'
  BY <1>26 DEF Poll
<1>27. ASSUME NEW a \in Actors, PollAgain(a) PROVE Holders'
  BY <1>27 DEF PollAgain
<1> QED
  BY <1>1, <1>2, <1>3, <1>4, <1>5, <1>6, <1>7, <1>8, <1>9, <1>10, <1>11,
     <1>12, <1>13, <1>14, <1>15, <1>16, <1>17, <1>18, <1>19, <1>20, <1>21,
     <1>22, <1>23, <1>24, <1>25, <1>26, <1>27
  DEF Next, Program, WorkerStep, KillerStep

(* A step of a worker that puts no other one to sleep. *)
LEMMA SleepersChange ==
  ASSUME Sleepers, NEW t \in Workers,
         \A u \in Workers \ {t} : pc'[u] = pc[u] /\ op'[u] = op[u],
         \A s \in States : waitSet'[s] \subseteq waitSet[s] \cup {t},
         \A s \in States : t \in waitSet'[s] => Asleep(t, s)'
  PROVE  Sleepers'
<1> SUFFICES ASSUME NEW s \in States, NEW u \in waitSet'[s] \cap Workers
             PROVE  Asleep(u, s)'
  BY DEF Sleepers
<1>1. CASE u = t
  BY <1>1
<1>2. CASE u # t
  <2>1. Asleep(u, s)
    BY <1>2 DEF Sleepers
  <2> QED
    BY <1>2, <2>1 DEF Asleep, At
<1> QED
  BY <1>1, <1>2

(* Every step keeps who may sleep in a monitor. *)
LEMMA SleepersStep ==
  ASSUME Typed, Loops, Sleepers, Next PROVE Sleepers'
<1> USE Threads DEF Typed, Loops, Sleepers, Asleep, Goto, At, stateVars, localVars
<1>1. ASSUME NEW t \in Workers, Lock(t) PROVE Sleepers'
  BY <1>1 DEF Lock
<1>2. ASSUME NEW t \in Workers, TryLock(t) PROVE Sleepers'
  BY <1>2 DEF TryLock
<1>3. ASSUME NEW t \in Workers, TryLockOs(t) PROVE Sleepers'
  BY <1>3 DEF TryLockOs
<1>4. ASSUME NEW t \in Workers, Unlock(t) PROVE Sleepers'
  <2>1. \A s \in States : t \notin waitSet[s]
    BY <1>4 DEF Unlock
  <2>2. UNCHANGED <<waitSet, op>> /\ \A u \in Workers \ {t} : pc'[u] = pc[u]
    BY <1>4 DEF Unlock
  <2> QED
    BY <2>1, <2>2, SleepersChange
<1>5. ASSUME NEW t \in Workers, Wait(t) PROVE Sleepers'
  BY <1>5 DEF Wait
<1>6. ASSUME NEW t \in Workers, Notify(t) PROVE Sleepers'
  BY <1>6 DEF Notify
<1>7. ASSUME NEW t \in Workers, Die(t) PROVE Sleepers'
  BY <1>7 DEF Die
<1>8. ASSUME NEW t \in Workers, Finalize(t) PROVE Sleepers'
  <2>1. \A s \in States : t \notin waitSet[s]
    BY <1>8 DEF Finalize
  <2>2. UNCHANGED <<waitSet, op>> /\ \A u \in Workers \ {t} : pc'[u] = pc[u]
    BY <1>8 DEF Finalize
  <2> QED
    BY <2>1, <2>2, SleepersChange
<1>9. ASSUME NEW t \in Workers, EnterIsolate(t) PROVE Sleepers'
  BY <1>9 DEF EnterIsolate
<1>10. ASSUME NEW t \in Workers, LeaveIsolate(t) PROVE Sleepers'
  BY <1>10 DEF LeaveIsolate
<1>11. ASSUME NEW t \in Workers, EnterMutex(t) PROVE Sleepers'
  <2>1. /\ At(t) = "mutex" /\ \A s \in States : t \notin waitSet[s]
        /\ UNCHANGED op
    BY <1>11 DEF EnterMutex, LockTurn
  <2>2. CASE /\ UNCHANGED waitSet
             /\ \E to : Leave(t, Append(list["mutex"], t), to)
    <3>1. \A u \in Workers \ {t} : pc'[u] = pc[u]
      BY <2>2 DEF Leave
    <3> QED
      BY <2>1, <2>2, <3>1, SleepersChange
  <2>3. CASE Sleep(t, Append(list["mutex"], t), waiterCount["mutex"])
    <3>1. /\ pc' = [pc EXCEPT ![t] = "waiting"]
          /\ waitSet' = [waitSet EXCEPT !["mutex"] = waitSet["mutex"] \cup {t}]
      BY <2>1, <2>3 DEF Sleep
    <3> QED
      BY <2>1, <3>1, SleepersChange DEF States
  <2> QED
    BY <1>11, <2>2, <2>3 DEF EnterMutex, LockTurn, NoSleep
<1>12. ASSUME NEW t \in Workers, EnterCondition(t) PROVE Sleepers'
  BY <1>12 DEF EnterCondition
<1>13. ASSUME NEW t \in Workers, ReleaseAndWait(t) PROVE Sleepers'
  <2>1. /\ At(t) = "cond" /\ \A s \in States : t \notin waitSet[s]
        /\ UNCHANGED op
    BY <1>13 DEF ReleaseAndWait, MayNotify, Notifies
  <2>2. CASE /\ waitSet' = [waitSet EXCEPT !["mutex"] = {}]
             /\ Leave(t, list["cond"], "dying")
    <3>1. \A u \in Workers \ {t} : pc'[u] = pc[u]
      BY <2>2 DEF Leave
    <3>2. \A s \in States : waitSet'[s] \subseteq waitSet[s]
      BY <2>2
    <3> QED
      BY <2>1, <3>1, <3>2, SleepersChange
  <2>3. CASE /\ waitSet' = [waitSet EXCEPT !["mutex"] = {}, !["cond"] = @ \cup {t}]
             /\ Goto(t, "waiting")
    <3>1. waitSet'["mutex"] = {} /\ waitSet'["cond"] = waitSet["cond"] \cup {t}
      BY <2>3 DEF States
    <3>2. \A s \in States : waitSet'[s] \subseteq waitSet[s] \cup {t}
      BY <3>1 DEF States
    <3>3. \A s \in States : t \in waitSet'[s] => Asleep(t, s)'
      BY <2>1, <2>3, <3>1 DEF States
    <3> QED
      BY <2>1, <2>3, <3>2, <3>3, SleepersChange
  <2> QED
    BY <1>13, <2>2, <2>3 DEF ReleaseAndWait
<1>14. ASSUME NEW t \in Workers, WakeInterrupted(t) PROVE Sleepers'
  BY <1>14 DEF WakeInterrupted, Leave, NoSleep, Woken
<1>15. ASSUME NEW t \in Workers, WakeSignaled(t) PROVE Sleepers'
  BY <1>15 DEF WakeSignaled, Woken
<1>16. ASSUME NEW t \in Workers, WakeToLock(t) PROVE Sleepers'
  <2>1. /\ At(t) = "mutex" /\ \A s \in States : t \notin waitSet[s]
        /\ UNCHANGED op
    BY <1>16 DEF WakeToLock, LockTurn, Waited, Woken
  <2>2. CASE /\ UNCHANGED waitSet /\ \E to : Leave(t, list["mutex"], to)
    <3>1. \A u \in Workers \ {t} : pc'[u] = pc[u]
      BY <2>2 DEF Leave
    <3> QED
      BY <2>1, <2>2, <3>1, SleepersChange
  <2>3. CASE Sleep(t, list["mutex"], waiterCount["mutex"] - 1)
    <3>1. /\ pc' = [pc EXCEPT ![t] = "waiting"]
          /\ waitSet' = [waitSet EXCEPT !["mutex"] = waitSet["mutex"] \cup {t}]
      BY <2>1, <2>3 DEF Sleep
    <3> QED
      BY <2>1, <3>1, SleepersChange DEF States
  <2> QED
    BY <1>16, <2>2, <2>3 DEF WakeToLock, LockTurn, NoSleep
<1>17. ASSUME NEW t \in Workers, WakeFromCondition(t) PROVE Sleepers'
  <2>1. At(t) = "cond" /\ \A s \in States : t \notin waitSet[s]
    BY <1>17 DEF WakeFromCondition, Waited, Woken
  <2>2. CASE Leave(t, list["cond"], "enter") /\ UNCHANGED <<waitSet, op>>
    <3>1. \A u \in Workers \ {t} : pc'[u] = pc[u]
      BY <2>2 DEF Leave
    <3>2. \A s \in States : waitSet'[s] \subseteq waitSet[s] \cup {t} /\ t \notin waitSet'[s]
      BY <2>1, <2>2
    <3>3. \A u \in Workers \ {t} : op'[u] = op[u]
      BY <2>2
    <3> QED
      BY <3>1, <3>2, <3>3, SleepersChange
  <2>3. CASE /\ Sleep(t, list["cond"], waiterCount["cond"] - 1)
             /\ op' = [op EXCEPT ![t] = "head"]
    <3>1. /\ pc' = [pc EXCEPT ![t] = "waiting"]
          /\ waitSet' = [waitSet EXCEPT !["cond"] = waitSet["cond"] \cup {t}]
      BY <2>1, <2>3 DEF Sleep
    <3> QED
      BY <2>1, <2>3, <3>1, SleepersChange DEF States
  <2> QED
    BY <1>17, <2>2, <2>3 DEF WakeFromCondition, NoSleep
<1>18. ASSUME NEW t \in Workers, NotifyAll(t) PROVE Sleepers'
  BY <1>18 DEF NotifyAll, MayNotify, Notifies
<1>19. ASSUME NEW t \in Workers, NotifyOne(t) PROVE Sleepers'
  BY <1>19 DEF NotifyOne, MayNotify, Notifies
<1>20. ASSUME NEW t \in Workers, Expire(t) PROVE Sleepers'
  BY <1>20 DEF Expire
<1>21. ASSUME NEW t \in Workers, SpuriousWakeup(t) PROVE Sleepers'
  BY <1>21 DEF SpuriousWakeup
<1>22. ASSUME NEW k \in Killers, Terminate(k) PROVE Sleepers'
  BY <1>22 DEF Terminate
<1>23. ASSUME NEW k \in Killers, LockIsolate(k) PROVE Sleepers'
  BY <1>23 DEF LockIsolate
<1>24. ASSUME NEW k \in Killers, SetInterrupted(k) PROVE Sleepers'
  BY <1>24 DEF SetInterrupted
<1>25. ASSUME NEW k \in Killers, Signal(k) PROVE Sleepers'
  <2>1. UNCHANGED op /\ \A u \in Workers : pc'[u] = pc[u]
    BY <1>25 DEF Signal
  <2>2. \A s \in States : waitSet'[s] \subseteq waitSet[s]
    <3>1. CASE UNCHANGED waitSet
      BY <3>1
    <3>2. ASSUME NEW s \in States, Signals(s)
          PROVE  \A r \in States : waitSet'[r] \subseteq waitSet[r]
      BY <3>2 DEF Signals
    <3> QED
      BY <1>25, <3>1, <3>2, SignalEffect
  <2> QED
    BY <2>1, <2>2
<1>26. ASSUME NEW a \in Actors, Poll(a) PROVE Sleepers'
  <2>1. CASE a \in Workers
    <3>1. PICK s \in States :
            /\ Asleep(a, s) /\ waitSet' = [waitSet EXCEPT ![s] = @ \cup {a}]
      BY <1>26, <2>1 DEF Poll, States, Notifies, WorkerLocs
    <3>2. UNCHANGED <<pc, op>>
      BY <1>26 DEF Poll
    <3> QED
      BY <2>1, <3>1, <3>2, SleepersChange
  <2>2. CASE a \notin Workers
    <3>1. \A s \in States : waitSet'[s] \cap Workers = waitSet[s] \cap Workers
      BY <1>26, <2>2 DEF Poll
    <3> QED
      BY <1>26, <3>1 DEF Poll
  <2> QED
    BY <2>1, <2>2
<1>27. ASSUME NEW a \in Actors, PollAgain(a) PROVE Sleepers'
  BY <1>27 DEF PollAgain, Notifies
<1> QED
  BY <1>1, <1>2, <1>3, <1>4, <1>5, <1>6, <1>7, <1>8, <1>9, <1>10, <1>11,
     <1>12, <1>13, <1>14, <1>15, <1>16, <1>17, <1>18, <1>19, <1>20, <1>21,
     <1>22, <1>23, <1>24, <1>25, <1>26, <1>27
  DEF Next, Program, WorkerStep, KillerStep

(* The workers in a state are finitely many, and in no other state. *)
LEMMA Members ==
  ASSUME Typed, Listed, NEW s \in States
  PROVE  /\ IsFiniteSet(Range(list[s])) /\ Range(list[s]) \subseteq Workers
         /\ \A t \in Workers : t \in Range(list[s]) <=> In(t, s)
         /\ \A r \in States \ {s} : Range(list[s]) \cap Range(list[r]) = {}
<1>1. IsFiniteSet(Workers)
  BY MutexConditionAssumption, FS_Subset DEF Actors
<1>2. Range(list[s]) = {t \in Workers : In(t, s)}
  BY DEF Listed
<1>3. IsFiniteSet(Range(list[s]))
  BY <1>1, <1>2, FS_Subset
<1>4. \A r \in States \ {s} : Range(list[r]) = {t \in Workers : In(t, r)}
  BY DEF Listed
<1> QED
  BY <1>2, <1>3, <1>4 DEF In

(* Counting out one member of a finite set, and counting one in. *)
LEMMA CountOut ==
  ASSUME NEW S, IsFiniteSet(S), NEW x \in S
  PROVE  Cardinality(S \ {x}) = Cardinality(S) - 1 /\ Cardinality(S) \in Nat
BY FS_RemoveElement, FS_CardinalityType

LEMMA CountIn ==
  ASSUME NEW S, IsFiniteSet(S), NEW x, x \notin S
  PROVE  Cardinality(S \cup {x}) = Cardinality(S) + 1 /\ Cardinality(S) \in Nat
BY FS_AddElement, FS_CardinalityType

(* What the waiter count of a state leaves out. *)
Holder(s) == IF s = "cond" THEN {condOwner} ELSE {}

(* A step that keeps the lists, the counters and the marks. *)
LEMMA AccountSame ==
  ASSUME CycleAccounting,
         UNCHANGED <<list, signaled, waiterCount, signaledWaiters, condOwner>>,
         \A s \in States : signaled \cap waitSet'[s] = {}
  PROVE  CycleAccounting'
BY DEF CycleAccounting

(* A step on one state. *)
LEMMA AccountChange ==
  ASSUME CycleAccounting, NEW s \in States,
         signaledWaiters'[s] = Cardinality(signaled' \cap Range(list'[s])),
         waiterCount'[s] = Cardinality(Range(list'[s]) \ Holder(s)'),
         \A r \in States : signaled' \cap waitSet'[r] = {},
         \A r \in States \ {s} :
           /\ list'[r] = list[r] /\ Holder(r)' = Holder(r)
           /\ signaledWaiters'[r] = signaledWaiters[r]
           /\ waiterCount'[r] = waiterCount[r]
           /\ signaled' \cap Range(list[r]) = signaled \cap Range(list[r])
  PROVE  CycleAccounting'
<1> SUFFICES ASSUME NEW r \in States
             PROVE  /\ signaledWaiters'[r] = Cardinality(signaled' \cap Range(list'[r]))
                    /\ waiterCount'[r] = Cardinality(Range(list'[r]) \ Holder(r)')
                    /\ signaled' \cap waitSet'[r] = {}
  BY DEF CycleAccounting, Holder
<1>1. CASE r = s
  BY <1>1
<1>2. CASE r # s
  <2>1. /\ signaledWaiters[r] = Cardinality(signaled \cap Range(list[r]))
        /\ waiterCount[r] = Cardinality(Range(list[r]) \ Holder(r))
    BY DEF CycleAccounting, Holder
  <2>2. r \in States \ {s}
    BY <1>2
  <2>3. /\ list'[r] = list[r] /\ Holder(r)' = Holder(r)
        /\ signaledWaiters'[r] = signaledWaiters[r]
        /\ waiterCount'[r] = waiterCount[r]
        /\ signaled' \cap Range(list[r]) = signaled \cap Range(list[r])
    BY <2>2
  <2> QED
    BY <2>1, <2>3
<1> QED
  BY <1>1, <1>2

(* ~Enter takes its own worker out of the list, and no other one. *)
LEMMA LeaveRange ==
  ASSUME Typed, Listed, NEW t \in Workers, NEW s \in States, In(t, s),
         NEW to, Leave(t, list[s], to)
  PROVE  /\ Range(list'[s]) = Range(list[s]) \ {t}
         /\ \A r \in States \ {s} : list'[r] = list[r]
BY Inside DEF Leave, In, Typed

(* A waiter that returns from the monitor answers its mark; it leaves the  *)
(* list and the waiter count together, or stays in both.                   *)
LEMMA AccountWake ==
  ASSUME IInv, NEW t \in Workers, NEW s \in States, In(t, s), pc[t] = "waiting",
         MonitorFree(s), EndCycle(t), UNCHANGED condOwner,
         \/ /\ Range(list'[s]) = Range(list[s]) \ {t}
            /\ waiterCount'[s] = waiterCount[s] - 1
         \/ /\ list'[s] = list[s] /\ waiterCount'[s] = waiterCount[s],
         \A r \in States \ {s} : list'[r] = list[r] /\ waiterCount'[r] = waiterCount[r],
         \A r \in States : waitSet'[r] \subseteq waitSet[r] \cup {t}
  PROVE  CycleAccounting'
<1> DEFINE R == Range(list[s])
<1>1. /\ IsFiniteSet(R) /\ R \subseteq Workers /\ t \in R
      /\ \A r \in States \ {s} : R \cap Range(list[r]) = {}
  BY Members DEF IInv
<1>2. /\ signaledWaiters[s] = Cardinality(signaled \cap R)
      /\ waiterCount[s] = Cardinality(R \ Holder(s))
      /\ \A r \in States : signaled \cap waitSet[r] = {}
  BY DEF IInv, CycleAccounting, Holder
<1>3. /\ signaled' = signaled \ {t}
      /\ signaledWaiters' = [signaledWaiters EXCEPT
                               ![s] = IF t \in signaled THEN @ - 1 ELSE @]
      /\ signaledWaiters \in [States -> Int]
  BY DEF EndCycle, In, IInv, Typed
<1>4. R \ Holder(s) = R /\ R \ {t} = (R \ {t}) \ Holder(s)' /\ R = R \ Holder(s)'
  BY <1>1, Threads DEF MonitorFree, Holder
<1> HIDE DEF R
<1>5. waiterCount'[s] = Cardinality(Range(list'[s]) \ Holder(s)')
  <2>1. waiterCount[s] = Cardinality(R)
    BY <1>2, <1>4
  <2>2. CASE Range(list'[s]) = R \ {t} /\ waiterCount'[s] = waiterCount[s] - 1
    <3>1. Cardinality(R \ {t}) = Cardinality(R) - 1
      BY <1>1, CountOut
    <3>2. Range(list'[s]) \ Holder(s)' = R \ {t}
      BY <1>4, <2>2
    <3> QED
      BY <2>1, <2>2, <3>1, <3>2
  <2>3. CASE list'[s] = list[s] /\ waiterCount'[s] = waiterCount[s]
    BY <1>4, <2>1, <2>3 DEF R
  <2> QED
    BY <2>2, <2>3 DEF R
<1>6. signaledWaiters'[s] = Cardinality(signaled' \cap Range(list'[s]))
  <2>1. signaled' \cap Range(list'[s]) = (signaled \cap R) \ {t}
    BY <1>3 DEF R
  <2>2. IsFiniteSet(signaled \cap R)
    BY <1>1, FS_Subset
  <2>3. Cardinality((signaled \cap R) \ {t}) =
          IF t \in signaled THEN Cardinality(signaled \cap R) - 1
                            ELSE Cardinality(signaled \cap R)
    BY <1>1, <2>2, FS_RemoveElement
  <2>4. signaledWaiters'[s] =
          IF t \in signaled THEN signaledWaiters[s] - 1 ELSE signaledWaiters[s]
    BY <1>3
  <2> QED
    BY <1>2, <2>1, <2>3, <2>4
<1>7. \A r \in States : signaled' \cap waitSet'[r] = {}
  BY <1>2, <1>3
<1>8. \A r \in States \ {s} :
        /\ list'[r] = list[r] /\ Holder(r)' = Holder(r)
        /\ signaledWaiters'[r] = signaledWaiters[r]
        /\ waiterCount'[r] = waiterCount[r]
        /\ signaled' \cap Range(list[r]) = signaled \cap Range(list[r])
  BY <1>1, <1>3 DEF Holder
<1> QED
  BY <1>5, <1>6, <1>7, <1>8, AccountChange DEF IInv

(* signal marks the records that it counts. *)
LEMMA AccountSignal ==
  ASSUME IInv, NEW s \in States, Signals(s), UNCHANGED <<list, waiterCount, condOwner>>
  PROVE  CycleAccounting'
<1> DEFINE R == Range(list[s])
<1>1. /\ IsFiniteSet(R) /\ R \subseteq Workers
      /\ \A r \in States \ {s} : R \cap Range(list[r]) = {}
      /\ \A t \in Workers : t \in R <=> In(t, s)
  BY Members DEF IInv
<1>2. /\ waiterCount[s] = Cardinality(R \ Holder(s))
      /\ \A r \in States : signaled \cap waitSet[r] = {}
  BY DEF IInv, CycleAccounting, Holder
<1>3. R \ Holder(s) = R
  BY <1>1, Threads DEF Signals, MonitorFree, Holder
<1>4. \A t \in R : t \in Workers /\ pc[t] = "waiting" /\ At(t) = s
  <2> SUFFICES ASSUME NEW t \in R, pc[t] = "release" PROVE FALSE
    BY <1>1 DEF In
  <2>1. t \in Workers /\ condOwner = t /\ s = "cond"
    BY <1>1 DEF IInv, Holders, Loops, In, At
  <2> QED
    BY <2>1, Threads DEF Signals, MonitorFree
<1>5. \A r \in States : (signaled \cup R) \cap waitSet'[r] = {}
  <2>1. ASSUME NEW r \in States \ {s}, NEW t \in R, t \in waitSet[r] PROVE FALSE
    BY <1>4, <2>1 DEF IInv, Sleepers, Asleep
  <2> QED
    BY <1>2, <2>1 DEF Signals, IInv, Typed
<1>6. signaledWaiters'[s] = Cardinality(signaled' \cap Range(list'[s]))
  <2>1. signaled' \cap Range(list'[s]) = R
    BY DEF Signals
  <2> QED
    BY <1>2, <1>3, <2>1 DEF Signals, IInv, Typed
<1>7. waiterCount'[s] = Cardinality(Range(list'[s]) \ Holder(s)')
  BY <1>2 DEF Holder
<1>8. \A r \in States \ {s} :
        /\ list'[r] = list[r] /\ Holder(r)' = Holder(r)
        /\ signaledWaiters'[r] = signaledWaiters[r]
        /\ waiterCount'[r] = waiterCount[r]
        /\ signaled' \cap Range(list[r]) = signaled \cap Range(list[r])
  BY <1>1 DEF Holder, Signals
<1> HIDE DEF R
<1>9. \A r \in States : signaled' \cap waitSet'[r] = {}
  BY <1>5 DEF Signals, R
<1> QED
  BY <1>6, <1>7, <1>8, <1>9, AccountChange DEF IInv

(* Every step keeps the accounts of signal cycles and waiters. *)
LEMMA AccountStep ==
  ASSUME IInv, Next PROVE CycleAccounting'
<1>0. /\ Typed /\ CycleAccounting /\ Listed /\ Loops /\ Holders /\ Sleepers
      /\ \A s \in States : signaled \cap waitSet[s] = {}
      /\ waitSet \in [States -> SUBSET Actors]
  BY DEF IInv, CycleAccounting, Typed
<1> USE DEF stateVars
<1>1. ASSUME NEW t \in Workers, Lock(t) PROVE CycleAccounting'
  BY <1>1, AccountSame, <1>0 DEF Lock
<1>2. ASSUME NEW t \in Workers, TryLock(t) PROVE CycleAccounting'
  BY <1>2, AccountSame, <1>0 DEF TryLock
<1>3. ASSUME NEW t \in Workers, TryLockOs(t) PROVE CycleAccounting'
  BY <1>3, AccountSame, <1>0 DEF TryLockOs
<1>4. ASSUME NEW t \in Workers, Unlock(t) PROVE CycleAccounting'
  BY <1>4, AccountSame, <1>0 DEF Unlock
<1>5. ASSUME NEW t \in Workers, Wait(t) PROVE CycleAccounting'
  BY <1>5, AccountSame, <1>0 DEF Wait
<1>6. ASSUME NEW t \in Workers, Notify(t) PROVE CycleAccounting'
  BY <1>6, AccountSame, <1>0 DEF Notify
<1>7. ASSUME NEW t \in Workers, Die(t) PROVE CycleAccounting'
  BY <1>7, AccountSame, <1>0 DEF Die
<1>8. ASSUME NEW t \in Workers, Finalize(t) PROVE CycleAccounting'
  BY <1>8, AccountSame, <1>0 DEF Finalize
<1>9. ASSUME NEW t \in Workers, EnterIsolate(t) PROVE CycleAccounting'
  BY <1>9, AccountSame, <1>0 DEF EnterIsolate
<1>10. ASSUME NEW t \in Workers, LeaveIsolate(t) PROVE CycleAccounting'
  BY <1>10, AccountSame, <1>0 DEF LeaveIsolate
<1>11. ASSUME NEW t \in Workers, EnterMutex(t) PROVE CycleAccounting'
  <2> DEFINE q == Append(list["mutex"], t)
  <2>1. /\ pc[t] = "monitor" /\ At(t) = "mutex" /\ "mutex" \in States
        /\ UNCHANGED <<signaled, signaledWaiters, condOwner>>
    BY <1>11 DEF EnterMutex, States
  <2>2. /\ t \notin signaled /\ t \notin Range(list["mutex"])
        /\ Range(q) = Range(list["mutex"]) \cup {t}
        /\ Range(Unlink(q, t)) = Range(list["mutex"])
    BY <1>0, <2>1, Entering DEF Holders
  <2>3. /\ IsFiniteSet(Range(list["mutex"])) /\ waiterCount["mutex"] \in Int
        /\ signaledWaiters["mutex"] = Cardinality(signaled \cap Range(list["mutex"]))
        /\ waiterCount["mutex"] = Cardinality(Range(list["mutex"]))
    <3>1. waiterCount["mutex"] = Cardinality(Range(list["mutex"]) \ {})
      BY <1>0, <2>1 DEF CycleAccounting
    <3>2. Range(list["mutex"]) \ {} = Range(list["mutex"])
      OBVIOUS
    <3>3. signaledWaiters["mutex"] = Cardinality(signaled \cap Range(list["mutex"]))
      BY <1>0, <2>1 DEF CycleAccounting
    <3>4. waiterCount["mutex"] \in Int
      BY <1>0, <2>1 DEF Typed
    <3>5. IsFiniteSet(Range(list["mutex"]))
      BY <1>0, <2>1, Members
    <3> QED
      BY <3>1, <3>2, <3>3, <3>4, <3>5
  <2> HIDE DEF q
  <2>4. ASSUME NEW to, Leave(t, q, to), UNCHANGED <<waiterCount, waitSet>>
        PROVE  CycleAccounting'
    <3>1. list' = [list EXCEPT !["mutex"] = Unlink(q, t)]
      BY <2>1, <2>4 DEF Leave
    <3>2. list'["mutex"] = Unlink(q, t) /\ \A r \in States \ {"mutex"} : list'[r] = list[r]
      BY <1>0, <2>1, <3>1 DEF Typed
    <3>3. waiterCount'["mutex"] = Cardinality(Range(list'["mutex"]) \ Holder("mutex")')
      BY <2>2, <2>3, <2>4, <3>2 DEF Holder
    <3> QED
      BY <1>0, <2>1, <2>2, <2>3, <2>4, <3>2, <3>3, AccountChange DEF Holder
  <2>5. ASSUME Sleep(t, q, waiterCount["mutex"]) PROVE CycleAccounting'
    <3>1. /\ list' = [list EXCEPT !["mutex"] = q]
          /\ waiterCount' = [waiterCount EXCEPT !["mutex"] = waiterCount["mutex"] + 1]
          /\ waitSet' = [waitSet EXCEPT !["mutex"] = @ \cup {t}]
      BY <2>1, <2>5 DEF Sleep
    <3>2. /\ list'["mutex"] = q /\ waiterCount'["mutex"] = waiterCount["mutex"] + 1
          /\ \A r \in States \ {"mutex"} :
               list'[r] = list[r] /\ waiterCount'[r] = waiterCount[r]
      BY <1>0, <2>1, <3>1 DEF Typed
    <3>3. waiterCount'["mutex"] = Cardinality(Range(list'["mutex"]) \ Holder("mutex")')
      BY <2>2, <2>3, <3>2, CountIn DEF Holder
    <3>4. signaled \cap Range(q) = signaled \cap Range(list["mutex"])
      BY <2>2
    <3>5. \A r \in States : signaled \cap waitSet'[r] = {}
      BY <1>0, <2>2, <3>1 DEF Typed
    <3> QED
      BY <1>0, <2>1, <2>3, <3>2, <3>3, <3>4, <3>5, AccountChange DEF Holder
  <2>6. CASE op[t] = "lock" /\ owner = t
    BY <1>11, <2>4, <2>6 DEF EnterMutex, q
  <2>7. CASE ~(op[t] = "lock" /\ owner = t)
    <3>1. LockTurn(t, q, waiterCount["mutex"])
      BY <1>11, <2>7 DEF EnterMutex, q
    <3>2. ASSUME NoSleep(t, waiterCount["mutex"]) PROVE UNCHANGED <<waiterCount, waitSet>>
      BY <1>0, <2>1, <3>2 DEF NoSleep, Typed
    <3>3. CASE Head(q) = t /\ CanTryLock(t)
      <4>1. Leave(t, q, "run") /\ NoSleep(t, waiterCount["mutex"])
        BY <3>1, <3>3 DEF LockTurn
      <4> QED
        BY <2>4, <3>2, <4>1
    <3>4. CASE ~(Head(q) = t /\ CanTryLock(t)) /\ interrupted[t]
      <4>1. Leave(t, q, "dying") /\ NoSleep(t, waiterCount["mutex"])
        BY <3>1, <3>4 DEF LockTurn
      <4> QED
        BY <2>4, <3>2, <4>1
    <3>5. CASE ~(Head(q) = t /\ CanTryLock(t)) /\ ~interrupted[t]
      BY <2>5, <3>1, <3>5 DEF LockTurn
    <3> QED
      BY <3>3, <3>4, <3>5
  <2> QED
    BY <2>6, <2>7
<1>12. ASSUME NEW t \in Workers, EnterCondition(t) PROVE CycleAccounting'
  <2> DEFINE q == Append(list["cond"], t)
  <2>1. /\ pc[t] = "monitor" /\ At(t) = "cond" /\ "cond" \in States
        /\ condOwner = None /\ condOwner' = t /\ list' = [list EXCEPT !["cond"] = q]
        /\ UNCHANGED <<signaled, signaledWaiters, waiterCount, waitSet>>
    BY <1>12 DEF EnterCondition, States
  <2>2. /\ t \notin signaled /\ t \notin Range(list["cond"])
        /\ Range(q) = Range(list["cond"]) \cup {t}
    BY <1>0, <2>1, Entering DEF Holders
  <2>3. /\ Range(list["cond"]) \subseteq Workers
        /\ signaledWaiters["cond"] = Cardinality(signaled \cap Range(list["cond"]))
        /\ waiterCount["cond"] = Cardinality(Range(list["cond"]) \ {None})
    BY <1>0, <2>1, Members DEF CycleAccounting
  <2> HIDE DEF q
  <2>4. list'["cond"] = q /\ \A r \in States \ {"cond"} : list'[r] = list[r]
    BY <1>0, <2>1 DEF Typed
  <2>5. Range(list'["cond"]) \ Holder("cond")' = Range(list["cond"]) \ {None}
    BY <2>1, <2>2, <2>3, <2>4, Threads DEF Holder
  <2>6. signaled \cap Range(q) = signaled \cap Range(list["cond"])
    BY <2>2
  <2> QED
    BY <1>0, <2>1, <2>3, <2>4, <2>5, <2>6, AccountChange DEF Holder
<1>13. ASSUME NEW t \in Workers, ReleaseAndWait(t) PROVE CycleAccounting'
  <2>1. /\ In(t, "cond") /\ pc[t] = "release" /\ "cond" \in States
        /\ condOwner = t /\ condOwner' = None /\ t \notin signaled
        /\ UNCHANGED <<signaled, signaledWaiters>>
    BY <1>13, <1>0 DEF ReleaseAndWait, Loops, Holders, In, At, States
  <2>2. /\ Range(list["cond"]) \subseteq Workers /\ t \in Range(list["cond"])
        /\ IsFiniteSet(Range(list["cond"])) /\ waiterCount["cond"] \in Int
        /\ signaledWaiters["cond"] = Cardinality(signaled \cap Range(list["cond"]))
        /\ waiterCount["cond"] = Cardinality(Range(list["cond"]) \ {t})
    BY <1>0, <2>1, Members DEF CycleAccounting, Typed
  <2>3. CASE interrupted[t]
    <3>1. Leave(t, list["cond"], "dying") /\ UNCHANGED waiterCount
      BY <1>13, <2>3 DEF ReleaseAndWait
    <3>2. /\ Range(list'["cond"]) = Range(list["cond"]) \ {t}
          /\ \A r \in States \ {"cond"} : list'[r] = list[r]
      BY <1>0, <2>1, <3>1, LeaveRange
    <3>3. \A r \in States : signaled \cap waitSet'[r] = {}
      BY <1>13, <1>0, <2>3 DEF ReleaseAndWait, Typed
    <3>4. /\ Range(list'["cond"]) \ Holder("cond")' = Range(list["cond"]) \ {t}
          /\ signaled \cap Range(list'["cond"]) = signaled \cap Range(list["cond"])
      BY <2>1, <2>2, <3>2, Threads DEF Holder
    <3> QED
      BY <1>0, <2>1, <2>2, <3>1, <3>2, <3>3, <3>4, AccountChange DEF Holder
  <2>4. CASE ~interrupted[t]
    <3>1. /\ waitSet' = [waitSet EXCEPT !["mutex"] = {}, !["cond"] = @ \cup {t}]
          /\ waiterCount' = [waiterCount EXCEPT !["cond"] = waiterCount["cond"] + 1]
          /\ UNCHANGED list
      BY <1>13, <2>4 DEF ReleaseAndWait
    <3>2. /\ waiterCount'["cond"] = waiterCount["cond"] + 1
          /\ \A r \in States \ {"cond"} : waiterCount'[r] = waiterCount[r]
      BY <1>0, <2>1, <3>1 DEF Typed
    <3>3. \A r \in States : waitSet'[r] \subseteq waitSet[r] \cup {t}
      BY <1>0, <3>1 DEF Typed
    <3>4. \A r \in States : signaled \cap waitSet'[r] = {}
      BY <1>0, <2>1, <3>3
    <3>5. waiterCount'["cond"] = Cardinality(Range(list["cond"]))
      BY <2>2, <3>2, CountOut
    <3>6. Range(list'["cond"]) \ Holder("cond")' = Range(list["cond"])
      BY <2>1, <2>2, <3>1, Threads DEF Holder
    <3> QED
      BY <1>0, <2>1, <2>2, <3>1, <3>2, <3>4, <3>5, <3>6, AccountChange DEF Holder
  <2> QED
    BY <2>3, <2>4
<1>14. ASSUME NEW t \in Workers, WakeInterrupted(t) PROVE CycleAccounting'
  <2>1. PICK s \in States : s = At(t)
    BY DEF At, States
  <2>2. /\ pc[t] = "waiting" /\ In(t, s) /\ MonitorFree(s) /\ EndCycle(t)
        /\ Leave(t, list[s], "dying") /\ NoSleep(t, waiterCount[s] - 1)
        /\ UNCHANGED condOwner
    BY <1>14, <2>1 DEF WakeInterrupted, Woken, In
  <2>3. /\ Range(list'[s]) = Range(list[s]) \ {t}
        /\ \A r \in States \ {s} : list'[r] = list[r]
    BY <1>0, <2>2, LeaveRange
  <2>4. /\ waiterCount' = [waiterCount EXCEPT ![s] = waiterCount[s] - 1]
        /\ UNCHANGED waitSet
    BY <2>1, <2>2 DEF NoSleep
  <2>5. /\ waiterCount'[s] = waiterCount[s] - 1
        /\ \A r \in States \ {s} : waiterCount'[r] = waiterCount[r]
    BY <1>0, <2>4 DEF Typed
  <2> QED
    BY <2>2, <2>3, <2>4, <2>5, AccountWake
<1>15. ASSUME NEW t \in Workers, WakeSignaled(t) PROVE CycleAccounting'
  <2>1. PICK s \in States : s = At(t)
    BY DEF At, States
  <2>2. /\ pc[t] = "waiting" /\ In(t, s) /\ MonitorFree(s) /\ EndCycle(t)
        /\ UNCHANGED <<list, waiterCount, condOwner>>
        /\ waitSet' = [waitSet EXCEPT ![s] = @ \cup {t}]
    BY <1>15, <2>1 DEF WakeSignaled, Woken, In
  <2> QED
    BY <1>0, <2>2, AccountWake DEF Typed
<1>16. ASSUME NEW t \in Workers, WakeToLock(t) PROVE CycleAccounting'
  <2>1. /\ pc[t] = "waiting" /\ In(t, "mutex") /\ MonitorFree("mutex") /\ EndCycle(t)
        /\ "mutex" \in States /\ UNCHANGED condOwner
    BY <1>16 DEF WakeToLock, Waited, Woken, In, States
  <2>2. ASSUME NEW to, Leave(t, list["mutex"], to), NoSleep(t, waiterCount["mutex"] - 1)
        PROVE  CycleAccounting'
    <3>1. /\ Range(list'["mutex"]) = Range(list["mutex"]) \ {t}
          /\ \A r \in States \ {"mutex"} : list'[r] = list[r]
      BY <1>0, <2>1, <2>2, LeaveRange
    <3>2. /\ waiterCount' = [waiterCount EXCEPT !["mutex"] = waiterCount["mutex"] - 1]
          /\ UNCHANGED waitSet
      BY <2>1, <2>2 DEF NoSleep, In
    <3>3. /\ waiterCount'["mutex"] = waiterCount["mutex"] - 1
          /\ \A r \in States \ {"mutex"} : waiterCount'[r] = waiterCount[r]
      BY <1>0, <2>1, <3>2 DEF Typed
    <3> QED
      BY <2>1, <3>1, <3>2, <3>3, AccountWake
  <2>3. ASSUME Sleep(t, list["mutex"], waiterCount["mutex"] - 1) PROVE CycleAccounting'
    <3>1. /\ list' = [list EXCEPT !["mutex"] = list["mutex"]]
          /\ waiterCount' = [waiterCount EXCEPT !["mutex"] = waiterCount["mutex"] - 1 + 1]
          /\ waitSet' = [waitSet EXCEPT !["mutex"] = @ \cup {t}]
      BY <2>1, <2>3 DEF Sleep, In
    <3>2. waiterCount["mutex"] \in Int /\ waiterCount["mutex"] - 1 + 1 = waiterCount["mutex"]
      BY <1>0, <2>1 DEF Typed
    <3>3. UNCHANGED <<list, waiterCount>>
      BY <1>0, <3>1, <3>2 DEF Typed
    <3> QED
      BY <1>0, <2>1, <3>1, <3>3, AccountWake DEF Typed
  <2> QED
    BY <1>16, <2>2, <2>3 DEF WakeToLock, LockTurn
<1>17. ASSUME NEW t \in Workers, WakeFromCondition(t) PROVE CycleAccounting'
  <2>1. /\ pc[t] = "waiting" /\ In(t, "cond") /\ MonitorFree("cond") /\ EndCycle(t)
        /\ "cond" \in States /\ UNCHANGED condOwner
    BY <1>17 DEF WakeFromCondition, Waited, Woken, In, States
  <2>2. ASSUME NEW to, Leave(t, list["cond"], to), NoSleep(t, waiterCount["cond"] - 1)
        PROVE  CycleAccounting'
    <3>1. /\ Range(list'["cond"]) = Range(list["cond"]) \ {t}
          /\ \A r \in States \ {"cond"} : list'[r] = list[r]
      BY <1>0, <2>1, <2>2, LeaveRange
    <3>2. /\ waiterCount' = [waiterCount EXCEPT !["cond"] = waiterCount["cond"] - 1]
          /\ UNCHANGED waitSet
      BY <2>1, <2>2 DEF NoSleep, In
    <3>3. /\ waiterCount'["cond"] = waiterCount["cond"] - 1
          /\ \A r \in States \ {"cond"} : waiterCount'[r] = waiterCount[r]
      BY <1>0, <2>1, <3>2 DEF Typed
    <3> QED
      BY <2>1, <3>1, <3>2, <3>3, AccountWake
  <2>3. ASSUME Sleep(t, list["cond"], waiterCount["cond"] - 1) PROVE CycleAccounting'
    <3>1. /\ list' = [list EXCEPT !["cond"] = list["cond"]]
          /\ waiterCount' = [waiterCount EXCEPT !["cond"] = waiterCount["cond"] - 1 + 1]
          /\ waitSet' = [waitSet EXCEPT !["cond"] = @ \cup {t}]
      BY <2>1, <2>3 DEF Sleep, In
    <3>2. waiterCount["cond"] \in Int /\ waiterCount["cond"] - 1 + 1 = waiterCount["cond"]
      BY <1>0, <2>1 DEF Typed
    <3>3. UNCHANGED <<list, waiterCount>>
      BY <1>0, <3>1, <3>2 DEF Typed
    <3> QED
      BY <1>0, <2>1, <3>1, <3>3, AccountWake DEF Typed
  <2> QED
    BY <1>17, <2>2, <2>3 DEF WakeFromCondition
<1>18. ASSUME NEW t \in Workers, NotifyAll(t) PROVE CycleAccounting'
  <2>1. \A s \in States : waitSet'[s] \subseteq waitSet[s]
    BY <1>18, <1>0 DEF NotifyAll
  <2>2. \A s \in States : signaled \cap waitSet'[s] = {}
    BY <1>0, <2>1
  <2> QED
    BY <1>18, <1>0, <2>2, AccountSame DEF NotifyAll
<1>19. ASSUME NEW t \in Workers, NotifyOne(t) PROVE CycleAccounting'
  <2>1. \A s \in States : waitSet'[s] \subseteq waitSet[s]
    BY <1>19, <1>0 DEF NotifyOne
  <2>2. \A s \in States : signaled \cap waitSet'[s] = {}
    BY <1>0, <2>1
  <2> QED
    BY <1>19, <1>0, <2>2, AccountSame DEF NotifyOne
<1>20. ASSUME NEW t \in Workers, Expire(t) PROVE CycleAccounting'
  <2>1. \A s \in States : waitSet'[s] \subseteq waitSet[s]
    BY <1>20, <1>0 DEF Expire
  <2>2. \A s \in States : signaled \cap waitSet'[s] = {}
    BY <1>0, <2>1
  <2> QED
    BY <1>20, <1>0, <2>2, AccountSame DEF Expire
<1>21. ASSUME NEW t \in Workers, SpuriousWakeup(t) PROVE CycleAccounting'
  <2>1. \A s \in States : waitSet'[s] \subseteq waitSet[s]
    BY <1>21, <1>0 DEF SpuriousWakeup
  <2>2. \A s \in States : signaled \cap waitSet'[s] = {}
    BY <1>0, <2>1
  <2> QED
    BY <1>21, <1>0, <2>2, AccountSame DEF SpuriousWakeup
<1>22. ASSUME NEW k \in Killers, Terminate(k) PROVE CycleAccounting'
  BY <1>22, AccountSame, <1>0 DEF Terminate
<1>23. ASSUME NEW k \in Killers, LockIsolate(k) PROVE CycleAccounting'
  BY <1>23, AccountSame, <1>0 DEF LockIsolate
<1>24. ASSUME NEW k \in Killers, SetInterrupted(k) PROVE CycleAccounting'
  BY <1>24, AccountSame, <1>0 DEF SetInterrupted
<1>25. ASSUME NEW k \in Killers, Signal(k) PROVE CycleAccounting'
  <2>1. UNCHANGED <<list, waiterCount, condOwner>>
    BY <1>25 DEF Signal
  <2> QED
    BY <1>25, <1>0, <2>1, SignalEffect, AccountSame, AccountSignal
<1>26. ASSUME NEW a \in Actors, Poll(a) PROVE CycleAccounting'
  <2>1. a \notin signaled
    BY <1>26, <1>0, Threads DEF Poll, Notifies, Holders, Loops
  <2>2. \A s \in States : waitSet'[s] \subseteq waitSet[s] \cup {a}
    BY <1>26, <1>0 DEF Poll
  <2>3. \A s \in States : signaled \cap waitSet'[s] = {}
    BY <1>0, <2>1, <2>2
  <2> QED
    BY <1>26, <1>0, <2>3, AccountSame DEF Poll
<1>27. ASSUME NEW a \in Actors, PollAgain(a) PROVE CycleAccounting'
  <2>1. \A s \in States : waitSet'[s] \subseteq waitSet[s]
    BY <1>27, <1>0 DEF PollAgain
  <2>2. \A s \in States : signaled \cap waitSet'[s] = {}
    BY <1>0, <2>1
  <2> QED
    BY <1>27, <1>0, <2>2, AccountSame DEF PollAgain
<1> QED
  BY <1>1, <1>2, <1>3, <1>4, <1>5, <1>6, <1>7, <1>8, <1>9, <1>10, <1>11,
     <1>12, <1>13, <1>14, <1>15, <1>16, <1>17, <1>18, <1>19, <1>20, <1>21,
     <1>22, <1>23, <1>24, <1>25, <1>26, <1>27
  DEF Next, Program, WorkerStep, KillerStep

(* A fresh mutex and condition: no owner, no record, no signal cycle. *)
LEMMA InitInv == Init => IInv
<1> SUFFICES ASSUME Init PROVE IInv
  OBVIOUS
<1> USE Threads DEF Init
<1>1. Typed
  BY EmptySeq DEF Typed, WorkerLocs, KillerLocs
<1>2. Ownership /\ Loops /\ Depths /\ WaitHolds /\ Sleepers /\ Holders
  BY DEF Ownership, Loops, Depths, WaitHolds, Sleepers, Holders, WorkerLocs, KillerLocs
<1>3. \A s \in States : Range(list[s]) = {}
  BY DEF Range
<1>4. Listed
  BY <1>3 DEF Listed, In, NoDuplicates
<1>5. CycleAccounting
  <2>1. Cardinality({}) = 0
    BY FS_EmptySet
  <2>2. \A s \in States : /\ signaled \cap Range(list[s]) = {}
                          /\ Range(list[s]) \ Holder(s) = {}
    BY <1>3
  <2> QED
    BY <1>3, <2>1, <2>2 DEF CycleAccounting, Holder
<1> QED
  BY <1>1, <1>2, <1>4, <1>5 DEF IInv

(* Every reachable state of a mutex and its condition satisfies IInv. *)
THEOREM Invariance == Spec => []IInv
<1>1. IInv /\ [Next]_vars => IInv'
  <2>1. IInv /\ Next => IInv'
    BY TypedStep, OwnershipStep, AccountStep, LoopsStep, DepthsStep, WaitHoldsStep,
       ListedStep, SleepersStep, HoldersStep DEF IInv
  <2>2. IInv /\ UNCHANGED vars => IInv'
    <3> SUFFICES ASSUME IInv, UNCHANGED vars PROVE IInv'
      OBVIOUS
    <3> USE DEF IInv, vars, mutexVars, stateVars, isoVars, localVars
    <3>1. Typed' /\ Ownership' /\ CycleAccounting'
      BY DEF Typed, Ownership, CycleAccounting
    <3>2. Loops' /\ Depths' /\ WaitHolds' /\ Holders'
      BY DEF Loops, Depths, WaitHolds, Holders, MayLock
    <3>3. Listed' /\ Sleepers'
      BY DEF Listed, Sleepers, In, Asleep, At
    <3> QED
      BY <3>1, <3>2, <3>3
  <2> QED
    BY <2>1, <2>2
<1> QED
  BY <1>1, InitInv, PTL DEF Spec

(* A set of workers has at most as many members as there are workers. *)
LEMMA AtMostWorkers ==
  ASSUME NEW S \in SUBSET Workers
  PROVE  Cardinality(S) \in 0..Cardinality(Workers)
<1>1. IsFiniteSet(Workers)
  BY MutexConditionAssumption, FS_Subset DEF Actors
<1>2. Cardinality(S) <= Cardinality(Workers) /\ IsFiniteSet(S)
  BY <1>1, FS_Subset
<1> QED
  BY <1>1, <1>2, FS_CardinalityType

(* The counters of the two states never leave 0..Cardinality(Workers), and *)
(* the depths stay within MaxRecursion.                                    *)
THEOREM TypeCorrect == Spec => []TypeOK
<1>1. IInv => TypeOK
  <2> SUFFICES ASSUME IInv PROVE TypeOK
    OBVIOUS
  <2>1. Typed /\ Listed /\ CycleAccounting
    BY DEF IInv
  <2>2. ASSUME NEW s \in States
        PROVE  /\ waiterCount[s] \in 0..Cardinality(Workers)
               /\ signaledWaiters[s] \in 0..Cardinality(Workers)
    <3>1. Range(list[s]) \subseteq Workers
      BY <2>1, Members
    <3>2. /\ signaledWaiters[s] = Cardinality(signaled \cap Range(list[s]))
          /\ waiterCount[s] = Cardinality(Range(list[s]) \ Holder(s))
      BY <2>1 DEF CycleAccounting, Holder
    <3>3. /\ signaled \cap Range(list[s]) \in SUBSET Workers
          /\ Range(list[s]) \ Holder(s) \in SUBSET Workers
      BY <3>1
    <3> QED
      BY <3>2, <3>3, AtMostWorkers
  <2>3. /\ waiterCount \in [States -> 0..Cardinality(Workers)]
        /\ signaledWaiters \in [States -> 0..Cardinality(Workers)]
    BY <2>1, <2>2 DEF Typed
  <2> QED
    BY <2>1, <2>3 DEF Typed, TypeOK
<1> QED
  BY <1>1, Invariance, PTL

(* The owner of the mutex holds the OS mutex, and the recursion count is   *)
(* zero exactly when the mutex is free, whatever the workers call and      *)
(* whenever they are terminated.                                           *)
THEOREM OwnershipHolds == Spec => []Ownership
<1>1. IInv => Ownership
  BY DEF IInv
<1> QED
  BY <1>1, Invariance, PTL

(* The counters of notify, notifyAll and signal agree with the lists, and  *)
(* no signalled waiter sleeps through the signal cycle it has to end.      *)
THEOREM CycleAccountingHolds == Spec => []CycleAccounting
<1>1. IInv => CycleAccounting
  BY DEF IInv
<1> QED
  BY <1>1, Invariance, PTL

(***************************************************************************)
(* The contract.                                                           *)
(***************************************************************************)

(* A worker outside Condition.wait has no count to restore, one that       *)
(* sleeps does not own the mutex, and only a terminated one unwinds.       *)
Unwinding ==
  \A t \in Workers :
    /\ op[t] = "lock" => saved[t] = 0
    /\ pc[t] = "waiting" => owner # t
    /\ pc[t] = "dying" \/ (pc[t] = "leave" /\ next[t] = "dying") => interrupted[t]

(* A step of t within lock or wait. *)
LEMMA UnwindingChange ==
  ASSUME Typed, Unwinding, NEW t \in Workers, UNCHANGED <<saved, interrupted, op>>,
         \A u \in Workers \ {t} : pc'[u] = pc[u] /\ next'[u] = next[u],
         \/ owner' = owner /\ (pc'[t] = "waiting" => owner # t)
         \/ owner' = t /\ pc'[t] # "waiting",
         pc'[t] = "waiting" \/ (pc'[t] = "leave" /\ (next'[t] = "dying" => interrupted[t]))
  PROVE  Unwinding'
BY DEF Unwinding

(* Every step keeps what the contract's mapping rests on. *)
LEMMA UnwindingStep ==
  ASSUME Typed, Loops, WaitHolds, Unwinding, Next PROVE Unwinding'
<1> USE Threads DEF Typed, Loops, WaitHolds, Unwinding, mutexVars, isoVars, localVars, Goto
<1>1. ASSUME NEW t \in Workers, Lock(t) PROVE Unwinding'
  BY <1>1 DEF Lock
<1>2. ASSUME NEW t \in Workers, TryLock(t) PROVE Unwinding'
  BY <1>2 DEF TryLock
<1>3. ASSUME NEW t \in Workers, TryLockOs(t) PROVE Unwinding'
  BY <1>3 DEF TryLockOs, Acquire, CanTryLock
<1>4. ASSUME NEW t \in Workers, Unlock(t) PROVE Unwinding'
  BY <1>4 DEF Unlock, OsUnlock
<1>5. ASSUME NEW t \in Workers, Wait(t) PROVE Unwinding'
  BY <1>5 DEF Wait
<1>6. ASSUME NEW t \in Workers, Notify(t) PROVE Unwinding'
  BY <1>6 DEF Notify
<1>7. ASSUME NEW t \in Workers, Die(t) PROVE Unwinding'
  BY <1>7 DEF Die
<1>8. ASSUME NEW t \in Workers, Finalize(t) PROVE Unwinding'
  BY <1>8 DEF Finalize, OsUnlock
<1>9. ASSUME NEW t \in Workers, EnterIsolate(t) PROVE Unwinding'
  BY <1>9 DEF EnterIsolate
<1>10. ASSUME NEW t \in Workers, LeaveIsolate(t) PROVE Unwinding'
  BY <1>10 DEF LeaveIsolate
<1>11. ASSUME NEW t \in Workers, EnterMutex(t) PROVE Unwinding'
  <2>1. pc[t] = "monitor" /\ op[t] \in {"lock", "relock"} /\ UNCHANGED <<saved, interrupted, op>>
    BY <1>11 DEF EnterMutex, LockTurn, At
  <2>2. \A u \in Workers \ {t} : pc'[u] = pc[u] /\ next'[u] = next[u]
    BY <1>11 DEF EnterMutex, LockTurn, Leave, Sleep
  <2>3. \/ owner' = owner /\ (pc'[t] = "waiting" => owner # t)
        \/ owner' = t /\ pc'[t] # "waiting"
    BY <1>11, <2>1 DEF EnterMutex, LockTurn, Acquire, Leave, Sleep
  <2>4. pc'[t] = "waiting" \/ (pc'[t] = "leave" /\ (next'[t] = "dying" => interrupted[t]))
    BY <1>11, <2>1 DEF EnterMutex, LockTurn, Leave, Sleep
  <2> QED
    BY <2>1, <2>2, <2>3, <2>4, UnwindingChange
<1>12. ASSUME NEW t \in Workers, EnterCondition(t) PROVE Unwinding'
  BY <1>12 DEF EnterCondition, At
<1>13. ASSUME NEW t \in Workers, ReleaseAndWait(t) PROVE Unwinding'
  <2>1. pc[t] = "release" /\ op[t] = "wait" /\ UNCHANGED <<saved, interrupted, op>>
    BY <1>13 DEF ReleaseAndWait
  <2>2. \A u \in Workers \ {t} : pc'[u] = pc[u] /\ next'[u] = next[u]
    BY <1>13 DEF ReleaseAndWait, Leave
  <2>3. owner' = owner /\ owner # t
    BY <1>13, <2>1 DEF ReleaseAndWait
  <2>4. pc'[t] = "waiting" \/ (pc'[t] = "leave" /\ (next'[t] = "dying" => interrupted[t]))
    BY <1>13, <2>1 DEF ReleaseAndWait, Leave
  <2> QED
    BY <2>1, <2>2, <2>3, <2>4, UnwindingChange
<1>14. ASSUME NEW t \in Workers, WakeInterrupted(t) PROVE Unwinding'
  BY <1>14 DEF WakeInterrupted, Leave, Woken
<1>15. ASSUME NEW t \in Workers, WakeSignaled(t) PROVE Unwinding'
  BY <1>15 DEF WakeSignaled
<1>16. ASSUME NEW t \in Workers, WakeToLock(t) PROVE Unwinding'
  <2>1. pc[t] = "waiting" /\ op[t] \in {"lock", "relock"} /\ UNCHANGED <<saved, interrupted, op>>
    BY <1>16 DEF WakeToLock, LockTurn, Waited, Woken, At
  <2>2. \A u \in Workers \ {t} : pc'[u] = pc[u] /\ next'[u] = next[u]
    BY <1>16 DEF WakeToLock, LockTurn, Leave, Sleep
  <2>3. \/ owner' = owner /\ (pc'[t] = "waiting" => owner # t)
        \/ owner' = t /\ pc'[t] # "waiting"
    BY <1>16, <2>1 DEF WakeToLock, LockTurn, Acquire, Leave, Sleep
  <2>4. pc'[t] = "waiting" \/ (pc'[t] = "leave" /\ (next'[t] = "dying" => interrupted[t]))
    BY <1>16, <2>1 DEF WakeToLock, LockTurn, Leave, Sleep
  <2> QED
    BY <2>1, <2>2, <2>3, <2>4, UnwindingChange
<1>17. ASSUME NEW t \in Workers, WakeFromCondition(t) PROVE Unwinding'
  BY <1>17 DEF WakeFromCondition, Leave, Sleep, Waited, Woken, At
<1>18. ASSUME NEW t \in Workers, NotifyAll(t) PROVE Unwinding'
  BY <1>18 DEF NotifyAll
<1>19. ASSUME NEW t \in Workers, NotifyOne(t) PROVE Unwinding'
  BY <1>19 DEF NotifyOne
<1>20. ASSUME NEW t \in Workers, Expire(t) PROVE Unwinding'
  BY <1>20 DEF Expire
<1>21. ASSUME NEW t \in Workers, SpuriousWakeup(t) PROVE Unwinding'
  BY <1>21 DEF SpuriousWakeup
<1>22. ASSUME NEW k \in Killers, Terminate(k) PROVE Unwinding'
  BY <1>22 DEF Terminate
<1>23. ASSUME NEW k \in Killers, LockIsolate(k) PROVE Unwinding'
  BY <1>23 DEF LockIsolate
<1>24. ASSUME NEW k \in Killers, SetInterrupted(k) PROVE Unwinding'
  BY <1>24 DEF SetInterrupted
<1>25. ASSUME NEW k \in Killers, Signal(k) PROVE Unwinding'
  BY <1>25 DEF Signal
<1>26. ASSUME NEW a \in Actors, Poll(a) PROVE Unwinding'
  BY <1>26 DEF Poll
<1>27. ASSUME NEW a \in Actors, PollAgain(a) PROVE Unwinding'
  BY <1>27 DEF PollAgain
<1> QED
  BY <1>1, <1>2, <1>3, <1>4, <1>5, <1>6, <1>7, <1>8, <1>9, <1>10, <1>11,
     <1>12, <1>13, <1>14, <1>15, <1>16, <1>17, <1>18, <1>19, <1>20, <1>21,
     <1>22, <1>23, <1>24, <1>25, <1>26, <1>27
  DEF Next, Program, WorkerStep, KillerStep

THEOREM UnwindingHolds == Spec => []Unwinding
<1>1. Init => Unwinding
  BY Threads DEF Init, Unwinding
<1>2. IInv /\ Unwinding /\ [Next]_vars => Unwinding'
  <2>1. ASSUME IInv, Unwinding, UNCHANGED vars PROVE Unwinding'
    BY <2>1 DEF Unwinding, vars, mutexVars, isoVars, localVars
  <2> QED
    BY <2>1, UnwindingStep DEF IInv
<1> QED
  BY <1>1, <1>2, Invariance, PTL DEF Spec

(* The mutex is acquired, and the call returns. *)
Returned(t) == pc[t] = "leave" /\ next[t] = "run"

(* A step that programs cannot see. *)
LEMMA UnseenSame ==
  ASSUME UNCHANGED <<owner, recursion, saved, interrupted>>,
         \A t \in Workers : Returned(t)' <=> Returned(t)
  PROVE  [Contract!Next]_(Contract!vars)
<1>1. GivenUp' = GivenUp
  BY DEF GivenUp, Returned
<1> QED
  BY <1>1 DEF Contract!vars

(* A turn of the loop that acquires the mutex takes one that is free, with *)
(* one level or those of the wait, or programs do not see it.              *)
LEMMA LockTurnMeets ==
  ASSUME IInv, Unwinding, NEW t \in Workers, NEW q, NEW count, LockTurn(t, q, count),
         pc[t] \in {"monitor", "waiting"}, op[t] \in {"lock", "relock"}, owner # t,
         UNCHANGED <<saved, interrupted>>
  PROVE  [Contract!Next]_(Contract!vars)
<1> USE Threads DEF IInv, Typed, Goto, mutexVars
<1>1. CASE Head(q) = t /\ CanTryLock(t)
  <2>1. owner = None /\ recursion = 0
    BY <1>1 DEF Ownership, CanTryLock
  <2>2. /\ owner' = t /\ recursion' = IF op[t] = "relock" THEN saved[t] ELSE 1
        /\ pc' = [pc EXCEPT ![t] = "leave"] /\ next' = [next EXCEPT ![t] = "run"]
    BY <1>1 DEF LockTurn, Acquire, Leave
  <2>3. GivenUp[t] = saved[t] /\ GivenUp' = [GivenUp EXCEPT ![t] = 0]
    BY <2>2 DEF GivenUp
  <2>4. CASE op[t] = "lock"
    <3>1. GivenUp[t] = 0 /\ GivenUp' = GivenUp
      BY <2>3, <2>4 DEF Unwinding, GivenUp
    <3>2. Contract!Acquire(t)
      BY <2>1, <2>2, <2>4, <3>1 DEF Contract!Acquire
    <3> QED
      BY <3>2 DEF Contract!Next
  <2>5. CASE op[t] = "relock"
    <3>1. saved[t] \in Nat /\ saved[t] > 0
      <4>1. WaitHolds /\ MaxRecursion \in Nat /\ saved \in [Workers -> 0..MaxRecursion]
        BY Threads
      <4>2. op[t] # "lock" => saved[t] >= 1
        BY <4>1 DEF WaitHolds
      <4> QED
        BY ONLY <4>1, <4>2, <2>5, t \in Workers
    <3>2. Contract!Return(t)
      BY <2>1, <2>2, <2>3, <2>5, <3>1 DEF Contract!Return
    <3> QED
      BY <3>2 DEF Contract!Next
  <2> QED
    BY <2>4, <2>5
<1>2. CASE ~(Head(q) = t /\ CanTryLock(t))
  <2>1. UNCHANGED <<owner, recursion>> /\ \A u \in Workers \ {t} : pc'[u] = pc[u] /\ next'[u] = next[u]
    BY <1>2 DEF LockTurn, Leave, Sleep
  <2>2. ~Returned(t)' /\ ~Returned(t)
    BY <1>2 DEF LockTurn, Leave, Sleep, Returned
  <2> QED
    BY <2>1, <2>2, UnseenSame DEF Returned
<1> QED
  BY <1>1, <1>2

(* Every step is one of the contract's, or none. *)
LEMMA ContractStep ==
  ASSUME IInv, Unwinding, Next PROVE [Contract!Next]_(Contract!vars)
<1> USE Threads DEF IInv, Typed, Returned, Goto, mutexVars, isoVars, localVars
<1>1. ASSUME NEW t \in Workers, Lock(t) PROVE [Contract!Next]_(Contract!vars)
  BY <1>1, UnseenSame DEF Lock
<1>2. ASSUME NEW t \in Workers, TryLock(t) PROVE [Contract!Next]_(Contract!vars)
  BY <1>2, UnseenSame DEF TryLock
<1>3. ASSUME NEW t \in Workers, TryLockOs(t) PROVE [Contract!Next]_(Contract!vars)
  <2>1. pc[t] = "try" /\ pc' = [pc EXCEPT ![t] = "run"] /\ UNCHANGED <<next, saved, interrupted>>
    BY <1>3 DEF TryLockOs
  <2>2. CASE CanTryLock(t)
    <3>1. owner \in {None, t} /\ ~Returned(t)
      BY <2>1, <2>2 DEF CanTryLock, Ownership
    <3>2. owner' = t /\ recursion' = recursion + 1
      BY <1>3, <2>2 DEF TryLockOs, Acquire
    <3>3. saved[t] = 0
      BY <2>1 DEF Loops, Unwinding
    <3>4. GivenUp[t] = 0 /\ GivenUp' = GivenUp
      BY <2>1, <3>3 DEF GivenUp
    <3>5. Contract!Acquire(t)
      BY <2>1, <3>1, <3>2, <3>4 DEF Contract!Acquire
    <3> QED
      BY <3>5 DEF Contract!Next
  <2>3. CASE ~CanTryLock(t)
    BY <1>3, <2>1, <2>3, UnseenSame DEF TryLockOs
  <2> QED
    BY <2>2, <2>3
<1>4. ASSUME NEW t \in Workers, Unlock(t) PROVE [Contract!Next]_(Contract!vars)
  <2>1. /\ owner = t /\ recursion' = recursion - 1
        /\ owner' = IF recursion = 1 THEN None ELSE t
        /\ pc[t] = "run" /\ pc' \in {pc, [pc EXCEPT ![t] = "unlock"]}
        /\ UNCHANGED <<next, saved, interrupted>>
    BY <1>4 DEF Unlock
  <2>2. GivenUp' = GivenUp
    BY <2>1 DEF GivenUp
  <2>3. Contract!Release(t)
    BY <2>1, <2>2 DEF Contract!Release
  <2> QED
    BY <2>3 DEF Contract!Next
<1>5. ASSUME NEW t \in Workers, Wait(t) PROVE [Contract!Next]_(Contract!vars)
  <2>1. /\ owner = t /\ owner' = None /\ recursion' = 0
        /\ saved' = [saved EXCEPT ![t] = recursion]
        /\ pc' = [pc EXCEPT ![t] = "enter"]
        /\ UNCHANGED <<next, interrupted>>
    BY <1>5 DEF Wait
  <2>2. GivenUp' = [GivenUp EXCEPT ![t] = recursion]
    BY <2>1 DEF GivenUp
  <2>3. Contract!Wait(t)
    BY <2>1, <2>2 DEF Contract!Wait
  <2> QED
    BY <2>3 DEF Contract!Next
<1>6. ASSUME NEW t \in Workers, Notify(t) PROVE [Contract!Next]_(Contract!vars)
  BY <1>6, UnseenSame DEF Notify
<1>7. ASSUME NEW t \in Workers, Die(t) PROVE [Contract!Next]_(Contract!vars)
  BY <1>7, UnseenSame DEF Die
<1>8. ASSUME NEW t \in Workers, Finalize(t) PROVE [Contract!Next]_(Contract!vars)
  <2>1. /\ pc[t] = "dying" /\ UNCHANGED <<next, saved, interrupted>>
        /\ pc' = [pc EXCEPT ![t] = IF owner = t THEN "finalize" ELSE "dead"]
    BY <1>8 DEF Finalize
  <2>2. CASE owner = t
    <3>1. owner' = None /\ recursion' = 0 /\ interrupted[t]
      BY <1>8, <2>1, <2>2 DEF Finalize, Unwinding
    <3>2. GivenUp' = GivenUp
      BY <2>1 DEF GivenUp
    <3>3. Contract!Exit(t)
      BY <2>1, <2>2, <3>1, <3>2 DEF Contract!Exit
    <3> QED
      BY <3>3 DEF Contract!Next
  <2>3. CASE owner # t
    BY <1>8, <2>1, <2>3, UnseenSame DEF Finalize
  <2> QED
    BY <2>2, <2>3
<1>9. ASSUME NEW t \in Workers, EnterIsolate(t) PROVE [Contract!Next]_(Contract!vars)
  BY <1>9, UnseenSame DEF EnterIsolate
<1>10. ASSUME NEW t \in Workers, LeaveIsolate(t) PROVE [Contract!Next]_(Contract!vars)
  <2>1. /\ pc[t] = "leave" /\ UNCHANGED <<owner, recursion, interrupted>>
        /\ pc' = [pc EXCEPT ![t] = next[t]] /\ next' = [next EXCEPT ![t] = "run"]
        /\ saved' = [saved EXCEPT ![t] = IF next[t] = "enter" THEN @ ELSE 0]
    BY <1>10 DEF LeaveIsolate
  <2>2. GivenUp' = [GivenUp EXCEPT ![t] = IF next[t] = "dying" THEN 0 ELSE @]
    BY <2>1 DEF GivenUp
  <2>3. CASE next[t] = "dying" /\ saved[t] > 0
    <3>1. interrupted[t] /\ GivenUp[t] > 0
      BY <2>1, <2>3 DEF Unwinding, GivenUp
    <3>2. Contract!Abandon(t)
      BY <2>1, <2>2, <2>3, <3>1 DEF Contract!Abandon
    <3> QED
      BY <3>2 DEF Contract!Next
  <2>4. CASE ~(next[t] = "dying" /\ saved[t] > 0)
    <3>1. GivenUp' = GivenUp
      BY <2>1, <2>2, <2>4 DEF GivenUp
    <3> QED
      BY <2>1, <3>1 DEF Contract!vars
  <2> QED
    BY <2>3, <2>4
<1>11. ASSUME NEW t \in Workers, EnterMutex(t) PROVE [Contract!Next]_(Contract!vars)
  <2>1. pc[t] = "monitor" /\ op[t] \in {"lock", "relock"} /\ UNCHANGED <<saved, interrupted>>
    BY <1>11 DEF EnterMutex, At
  <2>2. CASE op[t] = "lock" /\ owner = t
    <3>1. /\ owner' = t /\ recursion' = recursion + 1
          /\ pc' = [pc EXCEPT ![t] = "leave"] /\ next' = [next EXCEPT ![t] = "run"]
      BY <1>11, <2>2 DEF EnterMutex, Leave
    <3>2. GivenUp[t] = 0 /\ GivenUp' = GivenUp
      BY <2>1, <2>2, <3>1 DEF GivenUp, Unwinding
    <3>3. Contract!Acquire(t)
      BY <2>1, <2>2, <3>1, <3>2 DEF Contract!Acquire
    <3> QED
      BY <3>3 DEF Contract!Next
  <2>3. CASE ~(op[t] = "lock" /\ owner = t)
    <3>1. LockTurn(t, Append(list["mutex"], t), waiterCount["mutex"])
      BY <1>11, <2>3 DEF EnterMutex
    <3>2. owner # t
      BY <2>1, <2>3 DEF WaitHolds
    <3> QED
      BY <2>1, <3>1, <3>2, LockTurnMeets
  <2> QED
    BY <2>2, <2>3
<1>12. ASSUME NEW t \in Workers, EnterCondition(t) PROVE [Contract!Next]_(Contract!vars)
  BY <1>12, UnseenSame DEF EnterCondition, At
<1>13. ASSUME NEW t \in Workers, ReleaseAndWait(t) PROVE [Contract!Next]_(Contract!vars)
  BY <1>13, UnseenSame DEF ReleaseAndWait, Leave
<1>14. ASSUME NEW t \in Workers, WakeInterrupted(t) PROVE [Contract!Next]_(Contract!vars)
  BY <1>14, UnseenSame DEF WakeInterrupted, Leave, Woken
<1>15. ASSUME NEW t \in Workers, WakeSignaled(t) PROVE [Contract!Next]_(Contract!vars)
  BY <1>15, UnseenSame DEF WakeSignaled
<1>16. ASSUME NEW t \in Workers, WakeToLock(t) PROVE [Contract!Next]_(Contract!vars)
  <2>1. /\ LockTurn(t, list["mutex"], waiterCount["mutex"] - 1)
        /\ pc[t] = "waiting" /\ op[t] \in {"lock", "relock"}
        /\ UNCHANGED <<saved, interrupted>>
    BY <1>16 DEF WakeToLock, Waited, Woken, At
  <2>2. owner # t
    BY <2>1 DEF Unwinding
  <2> QED
    BY <2>1, <2>2, LockTurnMeets
<1>17. ASSUME NEW t \in Workers, WakeFromCondition(t) PROVE [Contract!Next]_(Contract!vars)
  BY <1>17, UnseenSame DEF WakeFromCondition, Leave, Sleep, Waited, Woken, At
<1>18. ASSUME NEW t \in Workers, NotifyAll(t) PROVE [Contract!Next]_(Contract!vars)
  BY <1>18, UnseenSame DEF NotifyAll
<1>19. ASSUME NEW t \in Workers, NotifyOne(t) PROVE [Contract!Next]_(Contract!vars)
  BY <1>19, UnseenSame DEF NotifyOne
<1>20. ASSUME NEW t \in Workers, Expire(t) PROVE [Contract!Next]_(Contract!vars)
  BY <1>20, UnseenSame DEF Expire
<1>21. ASSUME NEW t \in Workers, SpuriousWakeup(t) PROVE [Contract!Next]_(Contract!vars)
  BY <1>21, UnseenSame DEF SpuriousWakeup
<1>22. ASSUME NEW k \in Killers, Terminate(k) PROVE [Contract!Next]_(Contract!vars)
  BY <1>22, UnseenSame DEF Terminate
<1>23. ASSUME NEW k \in Killers, LockIsolate(k) PROVE [Contract!Next]_(Contract!vars)
  BY <1>23, UnseenSame DEF LockIsolate
<1>24. ASSUME NEW k \in Killers, SetInterrupted(k) PROVE [Contract!Next]_(Contract!vars)
  <2>1. PICK u \in Workers : u = target[k]
    BY <1>24 DEF SetInterrupted, Loops
  <2>2. /\ UNCHANGED <<owner, recursion, saved, next>>
        /\ interrupted' = [interrupted EXCEPT ![u] = TRUE]
        /\ \A v \in Workers : pc'[v] = pc[v]
    BY <1>24, <2>1 DEF SetInterrupted
  <2>3. GivenUp' = GivenUp
    BY <2>2 DEF GivenUp
  <2> DEFINE T == {v \in Workers : interrupted[v]}
  <2>4. T' = T \cup {u}
    BY <2>2
  <2>5. Contract!Terminate(u)
    BY <2>2, <2>3, <2>4 DEF Contract!Terminate
  <2> QED
    BY <2>5 DEF Contract!Next
<1>25. ASSUME NEW k \in Killers, Signal(k) PROVE [Contract!Next]_(Contract!vars)
  BY <1>25, UnseenSame DEF Signal
<1>26. ASSUME NEW a \in Actors, Poll(a) PROVE [Contract!Next]_(Contract!vars)
  BY <1>26, UnseenSame DEF Poll
<1>27. ASSUME NEW a \in Actors, PollAgain(a) PROVE [Contract!Next]_(Contract!vars)
  BY <1>27, UnseenSame DEF PollAgain
<1> QED
  BY <1>1, <1>2, <1>3, <1>4, <1>5, <1>6, <1>7, <1>8, <1>9, <1>10, <1>11,
     <1>12, <1>13, <1>14, <1>15, <1>16, <1>17, <1>18, <1>19, <1>20, <1>21,
     <1>22, <1>23, <1>24, <1>25, <1>26, <1>27
  DEF Next, Program, WorkerStep, KillerStep

(* Mutex and Condition implement MutexContract: the owner alone has the    *)
(* mutex and as many levels as it asked for, Condition.wait gives up all   *)
(* of them and returns with the same number, and only a worker that was    *)
(* told to exit loses the mutex or leaves wait without it.                 *)
THEOREM Refinement == Spec => MeetsContract
<1>1. Init => Contract!Init
  <2> SUFFICES ASSUME Init PROVE Contract!Init
    OBVIOUS
  <2>1. GivenUp = [t \in Workers |-> 0] /\ {t \in Workers : interrupted[t]} = {}
    BY DEF Init, GivenUp
  <2> QED
    BY <2>1 DEF Init, Contract!Init
<1>2. IInv /\ Unwinding /\ [Next]_vars => [Contract!Next]_(Contract!vars)
  <2>1. ASSUME UNCHANGED vars PROVE [Contract!Next]_(Contract!vars)
    BY <2>1, UnseenSame DEF vars, mutexVars, isoVars, localVars, Returned
  <2> QED
    BY <2>1, ContractStep
<1> QED
  BY <1>1, <1>2, Invariance, UnwindingHolds, PTL DEF Spec, MeetsContract, Contract!Spec
=============================================================================
