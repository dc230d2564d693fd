-------------------------- MODULE SafepointProofs --------------------------
(***************************************************************************)
(* Proofs about Safepoint for any set of threads and managers, any depth   *)
(* of nesting and any number of interrupts.                                *)
(***************************************************************************)
EXTENDS Safepoint, TLAPS

(* An entering thread knows its goal and has room for one more record; a   *)
(* thread anywhere else than in plain code is in some context.             *)
StackDepth ==
  \A t \in Threads :
    /\ pc[t] \in {"enter", "entering"} => goal[t] \in Managers /\ depth[t] < MaxDepth
    /\ pc[t] \notin {"run", "enter", "entering"} => depth[t] > 0

(* The linked lists of the managers are exactly the records on the stacks. *)
ListsMatchStacks ==
  \A t \in Threads : \A i \in 1..MaxDepth :
    /\ i <= depth[t] <=> mgr[<<t, i>>] # NoManager
    /\ \A m \in Managers : <<t, i>> \in records[m] <=> mgr[<<t, i>>] = m

(* m_requestMutex of m is held by the thread inside a critical section of m,*)
(* and m_requester is the owner that has marked its request.               *)
Holds(t, m) ==
  \/ pc[t] = "entering" /\ goal[t] = m
  \/ pc[t] \in HoldLocs /\ Mgr(t) = m

OwnerInside ==
  \A m \in Managers : \A t \in Threads :
    /\ owner[m] = t <=> Holds(t, m)
    /\ requester[m] = t <=> pc[t] \in TaskLocs /\ Mgr(t) = m

(* The status of a current record follows from what its thread executes. *)
StatusFollowsPc ==
  \A t \in Threads : depth[t] > 0 =>
    status[Top(t)] = IF pc[t] \in UnsafeLocs \cup {"leaving", "mark"}
                       THEN SP_UNSAFE ELSE SP_SAFE

(* What the busy-wait has passed stays safe until the task returns. *)
PassedIsSafe ==
  \A t \in Threads : pc[t] \in {"spin", "task"} =>
    \A r \in records[Mgr(t)] :
      status[r] = SP_SAFE \/ (pc[t] = "spin" /\ r \in toVisit[t])

IInv ==
  /\ TypeOK /\ StackDepth /\ ListsMatchStacks /\ OwnerInside
  /\ NestedRecordsSafe /\ StatusFollowsPc /\ PassedIsSafe

(* The body of FrozenWhileRequested. *)
Frozen ==
  \A m \in Managers :
    requester[m] # NoThread /\ requester'[m] = requester[m]
      => /\ records'[m] = records[m]
         /\ \A r \in records[m] : status[r] = SP_SAFE => status'[r] = SP_SAFE

(* A thread that has a context has a record in that context's list. *)
LEMMA CurrentRecord ==
  ASSUME TypeOK, ListsMatchStacks, NEW t \in Threads, depth[t] > 0
  PROVE  /\ depth[t] \in 1..MaxDepth
         /\ Top(t) \in Records /\ Mgr(t) \in Managers
         /\ Top(t) \in records[Mgr(t)]
<1>1. depth[t] \in 1..MaxDepth
  BY SafepointAssumption DEF TypeOK
<1>2. mgr[<<t, depth[t]>>] # NoManager
  BY <1>1 DEF ListsMatchStacks
<1>3. Top(t) \in Records /\ Mgr(t) \in Managers
  BY <1>1, <1>2 DEF Top, Mgr, Records, TypeOK
<1> QED
  BY <1>1, <1>3 DEF ListsMatchStacks, Top, Mgr

(* Acquiring a free m_requestMutex keeps OwnerInside. *)
LEMMA AcquireOwner ==
  ASSUME TypeOK, OwnerInside, NEW t \in Threads, NEW m \in Managers,
         Mgr(t) = m, owner[m] = NoThread,
         pc[t] \notin HoldLocs \cup {"entering"},
         NEW to \in {"leaving", "gateExit", "mark", "pollGateExit"},
         owner' = [owner EXCEPT ![m] = t],
         pc' = [pc EXCEPT ![t] = to],
         UNCHANGED <<depth, mgr, goal, requester>>
  PROVE  OwnerInside'
<1> SUFFICES ASSUME NEW n \in Managers, NEW u \in Threads
             PROVE  /\ owner'[n] = u <=> Holds(u, n)'
                    /\ requester'[n] = u
                         <=> pc'[u] \in TaskLocs /\ Mgr(u)' = n
  BY DEF OwnerInside
<1>1. /\ owner[n] = u <=> Holds(u, n)
      /\ requester[n] = u <=> pc[u] \in TaskLocs /\ Mgr(u) = n
  BY DEF OwnerInside
<1>2. Mgr(u)' = Mgr(u)
  BY DEF Mgr, Top
<1>3. ~Holds(u, m)
  BY SafepointAssumption DEF OwnerInside
<1>4. CASE u = t
  BY <1>1, <1>2, <1>3, <1>4, SafepointAssumption
  DEF TypeOK, Holds, HoldLocs, TaskLocs
<1>5. CASE u # t
  BY <1>1, <1>2, <1>3, <1>5, SafepointAssumption
  DEF TypeOK, Holds, HoldLocs, TaskLocs
<1> QED
  BY <1>4, <1>5

(* A thread that holds m_requestMutex of m excludes a busy-wait on m by    *)
(* another thread: making a record of m unsafe, or adding one, is harmless.*)
LEMMA PassedStable ==
  ASSUME TypeOK, OwnerInside, PassedIsSafe,
         NEW t \in Threads, NEW m \in Managers, NEW r \in Records,
         NEW to \in Locs \ {"spin", "task"},
         \A u \in Threads \ {t} : owner[m] # u,
         pc' = [pc EXCEPT ![t] = to],
         \A q \in Records : q # r => status'[q] = status[q],
         \A n \in Managers : \A q \in records'[n] :
            q \in Records /\ (q = r => n = m) /\ (q # r => q \in records[n]),
         \A u \in Threads \ {t} :
            pc[u] \in HoldLocs => Mgr(u)' = Mgr(u) /\ Mgr(u) \in Managers,
         toVisit' = toVisit
  PROVE  PassedIsSafe'
<1> SUFFICES ASSUME NEW u \in Threads, pc'[u] \in {"spin", "task"},
                    NEW q \in records'[Mgr(u)']
             PROVE  status'[q] = SP_SAFE
                      \/ (pc'[u] = "spin" /\ q \in toVisit'[u])
  BY DEF PassedIsSafe
<1>1. u # t /\ pc'[u] = pc[u]
  BY DEF TypeOK, Locs
<1>2. Mgr(u)' = Mgr(u) /\ Mgr(u) \in Managers
  BY <1>1 DEF HoldLocs
<1>3. owner[Mgr(u)] = u
  BY <1>1, <1>2 DEF OwnerInside, Holds, HoldLocs
<1>4. q # r /\ q \in Records
  BY <1>1, <1>2, <1>3
<1> QED
  BY <1>1, <1>2, <1>4 DEF PassedIsSafe

(* Type correctness is kept by every step. *)
LEMMA TypeStep ==
  ASSUME TypeOK, StackDepth, ListsMatchStacks, NEW t \in Threads, Act(t)
  PROVE  TypeOK'
<1> USE SafepointAssumption
<1> USE DEF TypeOK, StackDepth, recordVars, managerVars, At, Goto, Lock,
    Unlock, NotifyAll, SetStatus, Fenced, HasCurrent, Top, Mgr, Records,
    SP_SAFE, SP_UNSAFE, interruptVars, Reasons, NotInterrupted,
    ExternalInterrupt, SafepointPoll, Locs, HoldLocs, TaskLocs, UnsafeLocs,
    GateLocs
<1>c. depth[t] > 0 => /\ depth[t] \in 1..MaxDepth
                      /\ Top(t) \in Records /\ Mgr(t) \in Managers
                      /\ Top(t) \in records[Mgr(t)]
  BY CurrentRecord
<1>1. ASSUME NEW m \in Managers, EnterBegin(t, m) PROVE TypeOK'
  BY <1>1, <1>c DEF EnterBegin
<1>2. CASE EnterLock(t)
  BY <1>2, <1>c DEF EnterLock
<1>3. CASE EnterPush(t)
  BY <1>3, <1>c DEF EnterPush
<1>4. CASE LeaveTryLock(t)
  BY <1>4, <1>c DEF LeaveTryLock
<1>5. CASE LeaveBlock(t)
  BY <1>5, <1>c DEF LeaveBlock
<1>6. CASE LeaveLockInGate(t)
  BY <1>6, <1>c DEF LeaveLockInGate, LockInGate
<1>7. CASE LeavePop(t)
  <2>1. depth[t] \in 1..MaxDepth
    BY <1>7, <1>c DEF LeavePop
  <2>2. depth' \in [Threads -> 0..MaxDepth]
    BY <1>7, <2>1 DEF LeavePop
  <2>3. pc' \in [Threads -> Locs]
    BY <1>7 DEF LeavePop
  <2> QED
    BY <1>7, <2>2, <2>3 DEF LeavePop
<1>8. CASE LeaveRestore(t)
  BY <1>8, <1>c DEF LeaveRestore, GateExitLock
<1>9. CASE GateEnter(t)
  BY <1>9, <1>c DEF GateEnter
<1>10. CASE GateLock(t)
  BY <1>10, <1>c DEF GateLock, GateExitLock
<1>11. CASE GateLeave(t)
  BY <1>11, <1>c DEF GateLeave, GateExitUnsafe
<1>12. CASE MutexTryLock(t)
  BY <1>12, <1>c DEF MutexTryLock
<1>13. CASE MutexBlock(t)
  BY <1>13, <1>c DEF MutexBlock
<1>14. CASE MutexLockInGate(t)
  BY <1>14, <1>c DEF MutexLockInGate
<1>15. CASE MutexUnlock(t)
  BY <1>15, <1>c DEF MutexUnlock
<1>16. CASE RequestTryLock(t)
  BY <1>16, <1>c DEF RequestTryLock
<1>17. CASE RequestBlock(t)
  BY <1>17, <1>c DEF RequestBlock
<1>18. CASE RequestLockInGate(t)
  BY <1>18, <1>c DEF RequestLockInGate, LockInGate
<1>19. CASE RequestMark(t)
  BY <1>19, <1>c DEF RequestMark
<1>20. ASSUME NEW r \in Records, ScanSkip(t, r) PROVE TypeOK'
  BY <1>20, <1>c DEF ScanSkip
<1>21. ASSUME NEW r \in Records, ScanUnsafe(t, r) PROVE TypeOK'
  BY <1>21, <1>c DEF ScanUnsafe
<1>22. CASE CasPoll(t)
  BY <1>22, <1>c DEF CasPoll
<1>23. CASE CasUndo(t)
  BY <1>23, <1>c DEF CasUndo
<1>24. CASE WaitReturn(t)
  BY <1>24, <1>c DEF WaitReturn, LockInGate
<1>25. CASE SpinBegin(t)
  BY <1>25, <1>c DEF SpinBegin
<1>26. ASSUME NEW r \in Records, Spin(t, r) PROVE TypeOK'
  BY <1>26, <1>c DEF Spin
<1>27. CASE TaskRun(t)
  BY <1>27, <1>c DEF TaskRun
<1>28. CASE TaskReturn(t)
  BY <1>28, <1>c DEF TaskReturn
<1>29. CASE HandleRead(t)
  BY <1>29, <1>c DEF HandleRead, Seen
<1>30. CASE HandleClear(t)
  <2>1. interrupted' \in [Threads -> Reasons]
    BY <1>30 DEF HandleClear
  <2>3. buffered' \in [Threads -> BOOLEAN]
    <3>1. CASE UNCHANGED buffered
      BY <3>1
    <3>2. CASE buffered' = [buffered EXCEPT ![t] = TRUE]
      BY <3>2
    <3> QED
      BY <1>30, <3>1, <3>2 DEF HandleClear
  <2>2. /\ pc' \in [Threads -> Locs]
        /\ pending' \in [Threads -> {NotInterrupted, ExternalInterrupt}]
    BY <1>30 DEF HandleClear
  <2> QED
    BY <1>30, <2>1, <2>2, <2>3 DEF HandleClear
<1>31. CASE StoreDrain(t)
  BY <1>31, <1>c DEF StoreDrain
<1>32. CASE PollNoRequest(t)
  BY <1>32, <1>c DEF PollNoRequest
<1>33. CASE PollRequest(t)
  BY <1>33, <1>c DEF PollRequest
<1>34. CASE PollGateLock(t)
  BY <1>34, <1>c DEF PollGateLock, GateExitLock
<1>35. CASE PollGateLeave(t)
  BY <1>35, <1>c DEF PollGateLeave, GateExitUnsafe
<1>36. CASE PollDone(t)
  BY <1>36, <1>c DEF PollDone
<1>37. CASE Interrupt(t)
  BY <1>37, <1>c DEF Interrupt
<1>38. CASE RaiseTest(t)
  BY <1>38, <1>c DEF RaiseTest
<1>39. CASE RaiseStore(t)
  <2>1. interrupted' \in [Threads -> Reasons]
    BY <1>39 DEF RaiseStore
  <2>2. pending' \in [Threads -> {NotInterrupted, ExternalInterrupt}]
    BY <1>39 DEF RaiseStore
  <2> QED
    BY <1>39, <2>1, <2>2 DEF RaiseStore
<1> QED
  BY <1>1, <1>2, <1>3, <1>4, <1>5, <1>6, <1>7, <1>8, <1>9, <1>10, <1>11,
     <1>12, <1>13, <1>14, <1>15, <1>16, <1>17, <1>18, <1>19, <1>20, <1>21,
     <1>22, <1>23, <1>24, <1>25, <1>26, <1>27, <1>28, <1>29, <1>30, <1>31,
     <1>32, <1>33, <1>34, <1>35, <1>36, <1>37, <1>38, <1>39 DEF Act, Step, Choice

(* StackDepth is kept by every step. *)
LEMMA StackDepthStep ==
  ASSUME TypeOK, StackDepth, NEW t \in Threads, Act(t)
  PROVE  StackDepth'
<1> USE SafepointAssumption
<1> USE DEF TypeOK, StackDepth, recordVars, managerVars, At, Goto, Lock,
    Unlock, NotifyAll, SetStatus, Fenced, HasCurrent, interruptVars, Top, Mgr,
    Locs, HoldLocs, TaskLocs, UnsafeLocs, GateLocs
<1>1. ASSUME NEW m \in Managers, EnterBegin(t, m) PROVE StackDepth'
  BY <1>1 DEF EnterBegin
<1>2. CASE EnterLock(t)
  BY <1>2 DEF EnterLock
<1>3. CASE EnterPush(t)
  BY <1>3 DEF EnterPush
<1>4. CASE LeaveTryLock(t)
  BY <1>4 DEF LeaveTryLock
<1>5. CASE LeaveBlock(t)
  BY <1>5 DEF LeaveBlock
<1>6. CASE LeaveLockInGate(t)
  BY <1>6 DEF LeaveLockInGate, LockInGate
<1>7. CASE LeavePop(t)
  BY <1>7 DEF LeavePop
<1>8. CASE LeaveRestore(t)
  BY <1>8 DEF LeaveRestore, GateExitLock
<1>9. CASE GateEnter(t)
  BY <1>9 DEF GateEnter
<1>10. CASE GateLock(t)
  BY <1>10 DEF GateLock, GateExitLock
<1>11. CASE GateLeave(t)
  BY <1>11 DEF GateLeave, GateExitUnsafe
<1>12. CASE MutexTryLock(t)
  BY <1>12 DEF MutexTryLock
<1>13. CASE MutexBlock(t)
  BY <1>13 DEF MutexBlock
<1>14. CASE MutexLockInGate(t)
  BY <1>14 DEF MutexLockInGate
<1>15. CASE MutexUnlock(t)
  BY <1>15 DEF MutexUnlock
<1>16. CASE RequestTryLock(t)
  BY <1>16 DEF RequestTryLock
<1>17. CASE RequestBlock(t)
  BY <1>17 DEF RequestBlock
<1>18. CASE RequestLockInGate(t)
  BY <1>18 DEF RequestLockInGate, LockInGate
<1>19. CASE RequestMark(t)
  BY <1>19 DEF RequestMark
<1>20. ASSUME NEW r \in Records, ScanSkip(t, r) PROVE StackDepth'
  BY <1>20 DEF ScanSkip
<1>21. ASSUME NEW r \in Records, ScanUnsafe(t, r) PROVE StackDepth'
  BY <1>21 DEF ScanUnsafe
<1>22. CASE CasPoll(t)
  BY <1>22 DEF CasPoll
<1>23. CASE CasUndo(t)
  BY <1>23 DEF CasUndo
<1>24. CASE WaitReturn(t)
  BY <1>24 DEF WaitReturn, LockInGate
<1>25. CASE SpinBegin(t)
  BY <1>25 DEF SpinBegin
<1>26. ASSUME NEW r \in Records, Spin(t, r) PROVE StackDepth'
  BY <1>26 DEF Spin
<1>27. CASE TaskRun(t)
  BY <1>27 DEF TaskRun
<1>28. CASE TaskReturn(t)
  BY <1>28 DEF TaskReturn
<1>29. CASE HandleRead(t)
  BY <1>29 DEF HandleRead, Seen
<1>30. CASE HandleClear(t)
  <2>1. PICK l \in {"poll", "interrupt"} : pc' = [pc EXCEPT ![t] = l]
    BY <1>30 DEF HandleClear
  <2> QED
    BY <1>30, <2>1 DEF HandleClear
<1>31. CASE StoreDrain(t)
  BY <1>31 DEF StoreDrain
<1>32. CASE PollNoRequest(t)
  BY <1>32 DEF PollNoRequest
<1>33. CASE PollRequest(t)
  BY <1>33 DEF PollRequest
<1>34. CASE PollGateLock(t)
  BY <1>34 DEF PollGateLock, GateExitLock
<1>35. CASE PollGateLeave(t)
  BY <1>35 DEF PollGateLeave, GateExitUnsafe
<1>36. CASE PollDone(t)
  BY <1>36 DEF PollDone
<1>37. CASE Interrupt(t)
  BY <1>37 DEF Interrupt
<1>38. CASE RaiseTest(t)
  BY <1>38 DEF RaiseTest
<1>39. CASE RaiseStore(t)
  BY <1>39 DEF RaiseStore
<1> QED
  BY <1>1, <1>2, <1>3, <1>4, <1>5, <1>6, <1>7, <1>8, <1>9, <1>10, <1>11,
     <1>12, <1>13, <1>14, <1>15, <1>16, <1>17, <1>18, <1>19, <1>20, <1>21,
     <1>22, <1>23, <1>24, <1>25, <1>26, <1>27, <1>28, <1>29, <1>30, <1>31,
     <1>32, <1>33, <1>34, <1>35, <1>36, <1>37, <1>38, <1>39 DEF Act, Step, Choice

(* Only enter and leave change the lists and the stacks. *)
LEMMA ListsStep ==
  ASSUME TypeOK, StackDepth, ListsMatchStacks, NEW t \in Threads, Act(t)
  PROVE  ListsMatchStacks'
<1> USE SafepointAssumption
<1>1. CASE EnterPush(t)
  <2> DEFINE m == goal[t]
  <2> DEFINE r == <<t, depth[t] + 1>>
  <2>1. m \in Managers /\ depth[t] + 1 \in 1..MaxDepth /\ r \in Records
    BY <1>1 DEF EnterPush, At, StackDepth, TypeOK, Records
  <2>2. /\ records' = [records EXCEPT ![m] = @ \cup {r}]
        /\ mgr' = [mgr EXCEPT ![r] = m]
        /\ depth' = [depth EXCEPT ![t] = depth[t] + 1]
    BY <1>1 DEF EnterPush
  <2> HIDE DEF m
  <2> SUFFICES ASSUME NEW u \in Threads, NEW i \in 1..MaxDepth
               PROVE  /\ i <= depth'[u] <=> mgr'[<<u, i>>] # NoManager
                      /\ \A n \in Managers :
                           <<u, i>> \in records'[n] <=> mgr'[<<u, i>>] = n
    BY DEF ListsMatchStacks
  <2>3. /\ i <= depth[u] <=> mgr[<<u, i>>] # NoManager
        /\ \A n \in Managers : <<u, i>> \in records[n] <=> mgr[<<u, i>>] = n
    BY DEF ListsMatchStacks
  <2>4. <<u, i>> \in Records
    BY DEF Records
  <2>5. CASE <<u, i>> = r
    <3>1. u = t /\ i = depth[t] + 1
      BY <2>5
    <3>2. ~(i <= depth[u])
      BY <3>1 DEF TypeOK
    <3>3. \A n \in Managers : <<u, i>> \notin records[n]
      BY <2>3, <3>2
    <3>4. mgr'[<<u, i>>] = m /\ depth'[u] = depth[t] + 1
      BY <2>1, <2>2, <2>5, <3>1 DEF TypeOK
    <3>5. \A n \in Managers : <<u, i>> \in records'[n] <=> n = m
      BY <2>1, <2>2, <2>5, <3>3 DEF TypeOK
    <3> QED
      BY <2>1, <3>1, <3>4, <3>5
  <2>6. CASE <<u, i>> # r
    <3>1. mgr'[<<u, i>>] = mgr[<<u, i>>]
      BY <2>2, <2>4, <2>6 DEF TypeOK
    <3>2. \A n \in Managers : <<u, i>> \in records'[n] <=> <<u, i>> \in records[n]
      BY <2>1, <2>2, <2>6 DEF TypeOK
    <3>3. i <= depth'[u] <=> i <= depth[u]
      <4>1. u = t => i # depth[t] + 1
        BY <2>6
      <4>2. depth'[u] = IF u = t THEN depth[t] + 1 ELSE depth[u]
        BY <2>2 DEF TypeOK
      <4>3. depth[u] \in Nat /\ i \in Nat
        BY DEF TypeOK
      <4> QED
        BY <4>1, <4>2, <4>3
    <3> QED
      BY <2>3, <3>1, <3>2, <3>3
  <2> QED
    BY <2>5, <2>6
<1>2. CASE LeavePop(t)
  <2> DEFINE m == Mgr(t)
  <2> DEFINE r == <<t, depth[t]>>
  <2>1. m \in Managers /\ depth[t] \in 1..MaxDepth /\ r \in Records
    BY <1>2, CurrentRecord DEF LeavePop, At, StackDepth, Top
  <2>2. /\ records' = [records EXCEPT ![m] = @ \ {r}]
        /\ mgr' = [mgr EXCEPT ![r] = NoManager]
        /\ depth' = [depth EXCEPT ![t] = depth[t] - 1]
        /\ mgr[r] = m
    BY <1>2 DEF LeavePop, Top, Mgr
  <2> HIDE DEF m
  <2> SUFFICES ASSUME NEW u \in Threads, NEW i \in 1..MaxDepth
               PROVE  /\ i <= depth'[u] <=> mgr'[<<u, i>>] # NoManager
                      /\ \A n \in Managers :
                           <<u, i>> \in records'[n] <=> mgr'[<<u, i>>] = n
    BY DEF ListsMatchStacks
  <2>3. /\ i <= depth[u] <=> mgr[<<u, i>>] # NoManager
        /\ \A n \in Managers : <<u, i>> \in records[n] <=> mgr[<<u, i>>] = n
    BY DEF ListsMatchStacks
  <2>4. <<u, i>> \in Records
    BY DEF Records
  <2>5. CASE <<u, i>> = r
    <3>1. u = t /\ i = depth[t]
      BY <2>5
    <3>2. mgr'[<<u, i>>] = NoManager /\ depth'[u] = depth[t] - 1
      BY <2>1, <2>2, <2>5, <3>1 DEF TypeOK
    <3>3. \A n \in Managers : <<u, i>> \notin records'[n]
      BY <2>1, <2>2, <2>3, <2>5 DEF TypeOK
    <3> QED
      BY <2>1, <3>1, <3>2, <3>3
  <2>6. CASE <<u, i>> # r
    <3>1. mgr'[<<u, i>>] = mgr[<<u, i>>]
      BY <2>2, <2>4, <2>6 DEF TypeOK
    <3>2. \A n \in Managers : <<u, i>> \in records'[n] <=> <<u, i>> \in records[n]
      BY <2>1, <2>2, <2>6 DEF TypeOK
    <3>3. i <= depth'[u] <=> i <= depth[u]
      <4>1. u = t => i # depth[t]
        BY <2>6
      <4>2. depth'[u] = IF u = t THEN depth[t] - 1 ELSE depth[u]
        BY <2>2 DEF TypeOK
      <4>3. depth[u] \in Nat /\ i \in Nat
        BY DEF TypeOK
      <4> QED
        BY <4>1, <4>2, <4>3
    <3> QED
      BY <2>3, <3>1, <3>2, <3>3
  <2> QED
    BY <2>5, <2>6
<1>3. CASE UNCHANGED <<depth, mgr, records>>
  BY <1>3 DEF ListsMatchStacks
<1> QED
  BY <1>1, <1>2, <1>3 DEF Act, Step, Choice, recordVars, managerVars,
     EnterBegin, EnterLock, LeaveTryLock, LeaveBlock, LeaveLockInGate,
     LockInGate, LeaveRestore, GateExitLock, GateEnter, GateLock, GateLeave,
     GateExitUnsafe, MutexTryLock, MutexBlock, MutexLockInGate, MutexUnlock,
     RequestTryLock, RequestBlock, RequestLockInGate, RequestMark, ScanSkip,
     ScanUnsafe, CasPoll, CasUndo, WaitReturn, SpinBegin, Spin, TaskRun,
     TaskReturn, HandleRead, HandleClear, StoreDrain, PollNoRequest,
     PollRequest, PollGateLock, PollGateLeave, PollDone, Interrupt, RaiseTest,
     RaiseStore

(* Locking, marking and unlocking follow the program locations. *)
LEMMA OwnerStep ==
  ASSUME TypeOK, StackDepth, ListsMatchStacks, OwnerInside, NEW t \in Threads,
         Act(t)
  PROVE  OwnerInside'
<1> USE SafepointAssumption
<1> USE DEF TypeOK, StackDepth, OwnerInside, recordVars, managerVars, At,
    Goto, Lock, Unlock, NotifyAll, SetStatus, Fenced, HasCurrent, Top, Mgr,
    Records, Holds, Locs, HoldLocs, TaskLocs, UnsafeLocs, GateLocs
<1>c. depth[t] > 0 => /\ depth[t] \in 1..MaxDepth
                      /\ Top(t) \in Records /\ Mgr(t) \in Managers
                      /\ Top(t) \in records[Mgr(t)]
  BY CurrentRecord
<1>1. ASSUME NEW m \in Managers, EnterBegin(t, m) PROVE OwnerInside'
  BY <1>1, <1>c DEF EnterBegin
<1>2. CASE EnterLock(t)
  BY <1>2, <1>c DEF EnterLock
<1>3. CASE EnterPush(t)
  <2>0. pc[t] = "entering" /\ goal[t] \in Managers /\ depth[t] + 1 \in 1..MaxDepth
    BY <1>3 DEF EnterPush
  <2>1. Holds(t, goal[t]) /\ owner[goal[t]] = t
    BY <2>0
  <2> SUFFICES ASSUME NEW n \in Managers, NEW u \in Threads
               PROVE  /\ owner'[n] = u <=> Holds(u, n)'
                      /\ requester'[n] = u
                           <=> pc'[u] \in TaskLocs /\ Mgr(u)' = n
    OBVIOUS
  <2>2. /\ owner[n] = u <=> Holds(u, n)
        /\ requester[n] = u <=> pc[u] \in TaskLocs /\ Mgr(u) = n
    OBVIOUS
  <2>3. CASE u = t
    BY <1>3, <2>0, <2>1, <2>2, <2>3 DEF EnterPush
  <2>4. CASE u # t
    <3>1. Top(u) # <<t, depth[t] + 1>> /\ depth'[u] = depth[u]
      BY <1>3, <2>4 DEF EnterPush
    <3>2. depth[u] > 0 => Mgr(u)' = Mgr(u)
      BY <1>3, <3>1, CurrentRecord DEF EnterPush
    <3>3. Holds(u, n)' <=> Holds(u, n)
      BY <1>3, <2>4, <3>2 DEF EnterPush
    <3>4. owner'[n] = u <=> owner[n] = u
      BY <1>3, <2>0, <2>1, <2>4 DEF EnterPush
    <3> QED
      BY <1>3, <2>2, <2>4, <3>2, <3>3, <3>4 DEF EnterPush
  <2> QED
    BY <2>3, <2>4
<1>4. CASE LeaveTryLock(t)
  <2>1. /\ Mgr(t) \in Managers /\ owner[Mgr(t)] = NoThread
        /\ owner' = [owner EXCEPT ![Mgr(t)] = t]
        /\ pc[t] \notin HoldLocs \cup {"entering"}
        /\ pc' = [pc EXCEPT ![t] = "leaving"]
        /\ UNCHANGED <<depth, mgr, goal, requester>>
    BY <1>4, <1>c DEF LeaveTryLock
  <2> HIDE DEF TypeOK, OwnerInside, Mgr, HoldLocs
  <2> QED
    BY <2>1, AcquireOwner
<1>5. CASE LeaveBlock(t)
  BY <1>5, <1>c DEF LeaveBlock
<1>6. CASE LeaveLockInGate(t)
  <2>1. /\ Mgr(t) \in Managers /\ owner[Mgr(t)] = NoThread
        /\ owner' = [owner EXCEPT ![Mgr(t)] = t]
        /\ pc[t] \notin HoldLocs \cup {"entering"}
        /\ pc' = [pc EXCEPT ![t] = "leaving"]
        /\ UNCHANGED <<depth, mgr, goal, requester>>
    BY <1>6, <1>c DEF LeaveLockInGate, LockInGate
  <2> HIDE DEF TypeOK, OwnerInside, Mgr, HoldLocs
  <2> QED
    BY <2>1, AcquireOwner
<1>7. CASE LeavePop(t)
  BY <1>7, <1>c DEF LeavePop
<1>8. CASE LeaveRestore(t)
  <2>1. /\ Mgr(t) \in Managers /\ owner[Mgr(t)] = NoThread
        /\ owner' = [owner EXCEPT ![Mgr(t)] = t]
        /\ pc[t] \notin HoldLocs \cup {"entering"}
        /\ pc' = [pc EXCEPT ![t] = "gateExit"]
        /\ UNCHANGED <<depth, mgr, goal, requester>>
    BY <1>8, <1>c DEF LeaveRestore, GateExitLock
  <2> HIDE DEF TypeOK, OwnerInside, Mgr, HoldLocs
  <2> QED
    BY <2>1, AcquireOwner
<1>9. CASE GateEnter(t)
  BY <1>9, <1>c DEF GateEnter
<1>10. CASE GateLock(t)
  <2>1. /\ Mgr(t) \in Managers /\ owner[Mgr(t)] = NoThread
        /\ owner' = [owner EXCEPT ![Mgr(t)] = t]
        /\ pc[t] \notin HoldLocs \cup {"entering"}
        /\ pc' = [pc EXCEPT ![t] = "gateExit"]
        /\ UNCHANGED <<depth, mgr, goal, requester>>
    BY <1>10, <1>c DEF GateLock, GateExitLock
  <2> HIDE DEF TypeOK, OwnerInside, Mgr, HoldLocs
  <2> QED
    BY <2>1, AcquireOwner
<1>11. CASE GateLeave(t)
  BY <1>11, <1>c DEF GateLeave, GateExitUnsafe
<1>12. CASE MutexTryLock(t)
  BY <1>12, <1>c DEF MutexTryLock
<1>13. CASE MutexBlock(t)
  BY <1>13, <1>c DEF MutexBlock
<1>14. CASE MutexLockInGate(t)
  BY <1>14, <1>c DEF MutexLockInGate
<1>15. CASE MutexUnlock(t)
  BY <1>15, <1>c DEF MutexUnlock
<1>16. CASE RequestTryLock(t)
  <2>1. /\ Mgr(t) \in Managers /\ owner[Mgr(t)] = NoThread
        /\ owner' = [owner EXCEPT ![Mgr(t)] = t]
        /\ pc[t] \notin HoldLocs \cup {"entering"}
        /\ pc' = [pc EXCEPT ![t] = "mark"]
        /\ UNCHANGED <<depth, mgr, goal, requester>>
    BY <1>16, <1>c DEF RequestTryLock
  <2> HIDE DEF TypeOK, OwnerInside, Mgr, HoldLocs
  <2> QED
    BY <2>1, AcquireOwner
<1>17. CASE RequestBlock(t)
  BY <1>17, <1>c DEF RequestBlock
<1>18. CASE RequestLockInGate(t)
  <2>1. /\ Mgr(t) \in Managers /\ owner[Mgr(t)] = NoThread
        /\ owner' = [owner EXCEPT ![Mgr(t)] = t]
        /\ pc[t] \notin HoldLocs \cup {"entering"}
        /\ pc' = [pc EXCEPT ![t] = "mark"]
        /\ UNCHANGED <<depth, mgr, goal, requester>>
    BY <1>18, <1>c DEF RequestLockInGate, LockInGate
  <2> HIDE DEF TypeOK, OwnerInside, Mgr, HoldLocs
  <2> QED
    BY <2>1, AcquireOwner
<1>19. CASE RequestMark(t)
  BY <1>19, <1>c DEF RequestMark
<1>20. ASSUME NEW r \in Records, ScanSkip(t, r) PROVE OwnerInside'
  BY <1>20, <1>c DEF ScanSkip
<1>21. ASSUME NEW r \in Records, ScanUnsafe(t, r) PROVE OwnerInside'
  BY <1>21, <1>c DEF ScanUnsafe
<1>22. CASE CasPoll(t)
  BY <1>22, <1>c DEF CasPoll
<1>23. CASE CasUndo(t)
  BY <1>23, <1>c DEF CasUndo
<1>24. CASE WaitReturn(t)
  <2>1. /\ Mgr(t) \in Managers /\ owner[Mgr(t)] = NoThread
        /\ owner' = [owner EXCEPT ![Mgr(t)] = t]
        /\ pc[t] \notin HoldLocs \cup {"entering"}
        /\ pc' = [pc EXCEPT ![t] = "mark"]
        /\ UNCHANGED <<depth, mgr, goal, requester>>
    BY <1>24, <1>c DEF WaitReturn, LockInGate
  <2> HIDE DEF TypeOK, OwnerInside, Mgr, HoldLocs
  <2> QED
    BY <2>1, AcquireOwner
<1>25. CASE SpinBegin(t)
  BY <1>25, <1>c DEF SpinBegin
<1>26. ASSUME NEW r \in Records, Spin(t, r) PROVE OwnerInside'
  BY <1>26, <1>c DEF Spin
<1>27. CASE TaskRun(t)
  BY <1>27, <1>c DEF TaskRun
<1>28. CASE TaskReturn(t)
  BY <1>28, <1>c DEF TaskReturn
<1>29. CASE HandleRead(t)
  BY <1>29, <1>c DEF HandleRead, Seen
<1>30. CASE HandleClear(t)
  <2>1. PICK l \in {"poll", "interrupt"} : pc' = [pc EXCEPT ![t] = l]
    BY <1>30 DEF HandleClear
  <2> QED
    BY <1>30, <2>1 DEF HandleClear
<1>31. CASE StoreDrain(t)
  BY <1>31, <1>c DEF StoreDrain
<1>32. CASE PollNoRequest(t)
  BY <1>32, <1>c DEF PollNoRequest
<1>33. CASE PollRequest(t)
  BY <1>33, <1>c DEF PollRequest
<1>34. CASE PollGateLock(t)
  <2>1. /\ Mgr(t) \in Managers /\ owner[Mgr(t)] = NoThread
        /\ owner' = [owner EXCEPT ![Mgr(t)] = t]
        /\ pc[t] \notin HoldLocs \cup {"entering"}
        /\ pc' = [pc EXCEPT ![t] = "pollGateExit"]
        /\ UNCHANGED <<depth, mgr, goal, requester>>
    BY <1>34, <1>c DEF PollGateLock, GateExitLock
  <2> HIDE DEF TypeOK, OwnerInside, Mgr, HoldLocs
  <2> QED
    BY <2>1, AcquireOwner
<1>35. CASE PollGateLeave(t)
  BY <1>35, <1>c DEF PollGateLeave, GateExitUnsafe
<1>36. CASE PollDone(t)
  BY <1>36, <1>c DEF PollDone
<1>37. CASE Interrupt(t)
  BY <1>37, <1>c DEF Interrupt
<1>38. CASE RaiseTest(t)
  BY <1>38, <1>c DEF RaiseTest
<1>39. CASE RaiseStore(t)
  BY <1>39, <1>c DEF RaiseStore
<1> QED
  BY <1>1, <1>2, <1>3, <1>4, <1>5, <1>6, <1>7, <1>8, <1>9, <1>10, <1>11,
     <1>12, <1>13, <1>14, <1>15, <1>16, <1>17, <1>18, <1>19, <1>20, <1>21,
     <1>22, <1>23, <1>24, <1>25, <1>26, <1>27, <1>28, <1>29, <1>30, <1>31,
     <1>32, <1>33, <1>34, <1>35, <1>36, <1>37, <1>38, <1>39 DEF Act, Step, Choice

(* Records below the top stay safe. *)
LEMMA NestedStep ==
  ASSUME TypeOK, StackDepth, StatusFollowsPc, NestedRecordsSafe,
         NEW t \in Threads, Act(t)
  PROVE  NestedRecordsSafe'
<1> USE SafepointAssumption
<1> USE DEF TypeOK, StackDepth, StatusFollowsPc, NestedRecordsSafe,
    recordVars, managerVars, At, Goto, Lock, Unlock, NotifyAll, SetStatus,
    Fenced, HasCurrent, Top, Mgr, Records, SP_SAFE, SP_UNSAFE, UnsafeLocs
<1>1. ASSUME NEW m \in Managers, EnterBegin(t, m) PROVE NestedRecordsSafe'
  BY <1>1 DEF EnterBegin
<1>2. CASE EnterLock(t)
  BY <1>2 DEF EnterLock
<1>3. CASE EnterPush(t)
  <2>1. depth[t] + 1 \in 1..MaxDepth
    BY <1>3 DEF EnterPush
  <2>5. depth[t] > 0 => status[<<t, depth[t]>>] = SP_SAFE
    BY <1>3 DEF EnterPush
  <2>6. \A u \in Threads :
          depth'[u] = IF u = t THEN depth[t] + 1 ELSE depth[u]
    BY <1>3 DEF EnterPush
  <2> SUFFICES ASSUME NEW u \in Threads, NEW i \in 1..MaxDepth, i < depth'[u]
               PROVE  status'[<<u, i>>] = SP_SAFE
    OBVIOUS
  <2>2. <<u, i>> # <<t, depth[t] + 1>>
    BY <2>1, <2>6
  <2>3. status'[<<u, i>>] = status[<<u, i>>]
    BY <1>3, <2>2 DEF EnterPush
  <2>4. i < depth[u] \/ (u = t /\ i = depth[t])
    <3>1. depth[t] \in Nat /\ depth[u] \in Nat /\ i \in Nat
      OBVIOUS
    <3>2. i < IF u = t THEN depth[t] + 1 ELSE depth[u]
      BY <2>6
    <3> HIDE DEF TypeOK, StackDepth, StatusFollowsPc, NestedRecordsSafe
    <3> QED
      BY <3>1, <3>2
  <2> QED
    BY <2>3, <2>4, <2>5
<1>4. CASE LeaveTryLock(t)
  BY <1>4 DEF LeaveTryLock
<1>5. CASE LeaveBlock(t)
  BY <1>5 DEF LeaveBlock
<1>6. CASE LeaveLockInGate(t)
  BY <1>6 DEF LeaveLockInGate, LockInGate
<1>7. CASE LeavePop(t)
  BY <1>7 DEF LeavePop
<1>8. CASE LeaveRestore(t)
  BY <1>8 DEF LeaveRestore, GateExitLock
<1>9. CASE GateEnter(t)
  BY <1>9 DEF GateEnter
<1>10. CASE GateLock(t)
  BY <1>10 DEF GateLock, GateExitLock
<1>11. CASE GateLeave(t)
  BY <1>11 DEF GateLeave, GateExitUnsafe
<1>12. CASE MutexTryLock(t)
  BY <1>12 DEF MutexTryLock
<1>13. CASE MutexBlock(t)
  BY <1>13 DEF MutexBlock
<1>14. CASE MutexLockInGate(t)
  BY <1>14 DEF MutexLockInGate
<1>15. CASE MutexUnlock(t)
  BY <1>15 DEF MutexUnlock
<1>16. CASE RequestTryLock(t)
  BY <1>16 DEF RequestTryLock
<1>17. CASE RequestBlock(t)
  BY <1>17 DEF RequestBlock
<1>18. CASE RequestLockInGate(t)
  BY <1>18 DEF RequestLockInGate, LockInGate
<1>19. CASE RequestMark(t)
  BY <1>19 DEF RequestMark
<1>20. ASSUME NEW r \in Records, ScanSkip(t, r) PROVE NestedRecordsSafe'
  BY <1>20 DEF ScanSkip
<1>21. ASSUME NEW r \in Records, ScanUnsafe(t, r) PROVE NestedRecordsSafe'
  BY <1>21 DEF ScanUnsafe
<1>22. CASE CasPoll(t)
  BY <1>22 DEF CasPoll
<1>23. CASE CasUndo(t)
  BY <1>23 DEF CasUndo
<1>24. CASE WaitReturn(t)
  BY <1>24 DEF WaitReturn, LockInGate
<1>25. CASE SpinBegin(t)
  BY <1>25 DEF SpinBegin
<1>26. ASSUME NEW r \in Records, Spin(t, r) PROVE NestedRecordsSafe'
  BY <1>26 DEF Spin
<1>27. CASE TaskRun(t)
  BY <1>27 DEF TaskRun
<1>28. CASE TaskReturn(t)
  BY <1>28 DEF TaskReturn
<1>29. CASE HandleRead(t)
  BY <1>29 DEF HandleRead, Seen
<1>30. CASE HandleClear(t)
  BY <1>30 DEF HandleClear
<1>31. CASE StoreDrain(t)
  BY <1>31 DEF StoreDrain
<1>32. CASE PollNoRequest(t)
  BY <1>32 DEF PollNoRequest
<1>33. CASE PollRequest(t)
  BY <1>33 DEF PollRequest
<1>34. CASE PollGateLock(t)
  BY <1>34 DEF PollGateLock, GateExitLock
<1>35. CASE PollGateLeave(t)
  BY <1>35 DEF PollGateLeave, GateExitUnsafe
<1>36. CASE PollDone(t)
  BY <1>36 DEF PollDone
<1>37. CASE Interrupt(t)
  BY <1>37 DEF Interrupt
<1>38. CASE RaiseTest(t)
  BY <1>38 DEF RaiseTest
<1>39. CASE RaiseStore(t)
  BY <1>39 DEF RaiseStore
<1> QED
  BY <1>1, <1>2, <1>3, <1>4, <1>5, <1>6, <1>7, <1>8, <1>9, <1>10, <1>11,
     <1>12, <1>13, <1>14, <1>15, <1>16, <1>17, <1>18, <1>19, <1>20, <1>21,
     <1>22, <1>23, <1>24, <1>25, <1>26, <1>27, <1>28, <1>29, <1>30, <1>31,
     <1>32, <1>33, <1>34, <1>35, <1>36, <1>37, <1>38, <1>39 DEF Act, Step, Choice

(* The status of a current record follows its thread's location. *)
LEMMA StatusStep ==
  ASSUME TypeOK, StackDepth, StatusFollowsPc, NestedRecordsSafe,
         NEW t \in Threads, Act(t)
  PROVE  StatusFollowsPc'
<1> USE SafepointAssumption
<1> USE DEF TypeOK, StackDepth, StatusFollowsPc, NestedRecordsSafe,
    recordVars, managerVars, At, Goto, Lock, Unlock, NotifyAll, SetStatus,
    Fenced, HasCurrent, Top, Mgr, Records, SP_SAFE, SP_UNSAFE, Locs, HoldLocs,
    TaskLocs, UnsafeLocs, GateLocs
<1>1. ASSUME NEW m \in Managers, EnterBegin(t, m) PROVE StatusFollowsPc'
  BY <1>1 DEF EnterBegin
<1>2. CASE EnterLock(t)
  BY <1>2 DEF EnterLock
<1>3. CASE EnterPush(t)
  BY <1>3 DEF EnterPush
<1>4. CASE LeaveTryLock(t)
  BY <1>4 DEF LeaveTryLock
<1>5. CASE LeaveBlock(t)
  BY <1>5 DEF LeaveBlock
<1>6. CASE LeaveLockInGate(t)
  BY <1>6 DEF LeaveLockInGate, LockInGate
<1>7. CASE LeavePop(t)
  BY <1>7 DEF LeavePop
<1>8. CASE LeaveRestore(t)
  BY <1>8 DEF LeaveRestore, GateExitLock
<1>9. CASE GateEnter(t)
  BY <1>9 DEF GateEnter
<1>10. CASE GateLock(t)
  BY <1>10 DEF GateLock, GateExitLock
<1>11. CASE GateLeave(t)
  BY <1>11 DEF GateLeave, GateExitUnsafe
<1>12. CASE MutexTryLock(t)
  BY <1>12 DEF MutexTryLock
<1>13. CASE MutexBlock(t)
  BY <1>13 DEF MutexBlock
<1>14. CASE MutexLockInGate(t)
  BY <1>14 DEF MutexLockInGate
<1>15. CASE MutexUnlock(t)
  BY <1>15 DEF MutexUnlock
<1>16. CASE RequestTryLock(t)
  BY <1>16 DEF RequestTryLock
<1>17. CASE RequestBlock(t)
  BY <1>17 DEF RequestBlock
<1>18. CASE RequestLockInGate(t)
  BY <1>18 DEF RequestLockInGate, LockInGate
<1>19. CASE RequestMark(t)
  BY <1>19 DEF RequestMark
<1>20. ASSUME NEW r \in Records, ScanSkip(t, r) PROVE StatusFollowsPc'
  BY <1>20 DEF ScanSkip
<1>21. ASSUME NEW r \in Records, ScanUnsafe(t, r) PROVE StatusFollowsPc'
  BY <1>21 DEF ScanUnsafe
<1>22. CASE CasPoll(t)
  BY <1>22 DEF CasPoll
<1>23. CASE CasUndo(t)
  BY <1>23 DEF CasUndo
<1>24. CASE WaitReturn(t)
  BY <1>24 DEF WaitReturn, LockInGate
<1>25. CASE SpinBegin(t)
  BY <1>25 DEF SpinBegin
<1>26. ASSUME NEW r \in Records, Spin(t, r) PROVE StatusFollowsPc'
  BY <1>26 DEF Spin
<1>27. CASE TaskRun(t)
  BY <1>27 DEF TaskRun
<1>28. CASE TaskReturn(t)
  BY <1>28 DEF TaskReturn
<1>29. CASE HandleRead(t)
  BY <1>29 DEF HandleRead, Seen
<1>30. CASE HandleClear(t)
  BY <1>30 DEF HandleClear
<1>31. CASE StoreDrain(t)
  BY <1>31 DEF StoreDrain
<1>32. CASE PollNoRequest(t)
  BY <1>32 DEF PollNoRequest
<1>33. CASE PollRequest(t)
  BY <1>33 DEF PollRequest
<1>34. CASE PollGateLock(t)
  BY <1>34 DEF PollGateLock, GateExitLock
<1>35. CASE PollGateLeave(t)
  BY <1>35 DEF PollGateLeave, GateExitUnsafe
<1>36. CASE PollDone(t)
  BY <1>36 DEF PollDone
<1>37. CASE Interrupt(t)
  BY <1>37 DEF Interrupt
<1>38. CASE RaiseTest(t)
  BY <1>38 DEF RaiseTest
<1>39. CASE RaiseStore(t)
  BY <1>39 DEF RaiseStore
<1> QED
  BY <1>1, <1>2, <1>3, <1>4, <1>5, <1>6, <1>7, <1>8, <1>9, <1>10, <1>11,
     <1>12, <1>13, <1>14, <1>15, <1>16, <1>17, <1>18, <1>19, <1>20, <1>21,
     <1>22, <1>23, <1>24, <1>25, <1>26, <1>27, <1>28, <1>29, <1>30, <1>31,
     <1>32, <1>33, <1>34, <1>35, <1>36, <1>37, <1>38, <1>39 DEF Act, Step, Choice

(* The same for a thread that makes its own current record unsafe. *)
LEMMA Restored ==
  ASSUME TypeOK, StackDepth, ListsMatchStacks, OwnerInside, PassedIsSafe,
         NEW t \in Threads, NEW to \in Locs \ {"spin", "task"},
         Mgr(t) \in Managers, Top(t) \in Records,
         owner[Mgr(t)] \in {NoThread, t},
         status' = [status EXCEPT ![Top(t)] = SP_UNSAFE],
         pc' = [pc EXCEPT ![t] = to],
         UNCHANGED <<depth, mgr, records, toVisit>>
  PROVE  PassedIsSafe'
<1>1. \A u \in Threads \ {t} : owner[Mgr(t)] # u
  BY SafepointAssumption
<1>2. \A q \in Records : q # Top(t) => status'[q] = status[q]
  BY DEF TypeOK
<1>3. \A n \in Managers : \A q \in records'[n] :
        q \in Records /\ (q = Top(t) => n = Mgr(t)) /\ (q # Top(t) => q \in records[n])
  <2> SUFFICES ASSUME NEW n \in Managers, NEW q \in records[n]
               PROVE  q \in Records /\ (q = Top(t) => n = Mgr(t))
    OBVIOUS
  <2>1. q \in Records
    BY DEF TypeOK
  <2>2. depth[t] \in 1..MaxDepth
    BY DEF Top, Records
  <2>3. Top(t) \in records[n] => mgr[Top(t)] = n
    BY <2>2 DEF ListsMatchStacks, Top
  <2> QED
    BY <2>1, <2>3 DEF Mgr
<1>4. \A u \in Threads \ {t} :
        pc[u] \in HoldLocs => Mgr(u)' = Mgr(u) /\ Mgr(u) \in Managers
  <2> SUFFICES ASSUME NEW u \in Threads \ {t}, pc[u] \in HoldLocs
               PROVE  Mgr(u)' = Mgr(u) /\ Mgr(u) \in Managers
    OBVIOUS
  <2>1. depth[u] > 0
    BY DEF StackDepth, HoldLocs
  <2> QED
    BY <2>1, CurrentRecord DEF Mgr, Top
<1> QED
  BY <1>1, <1>2, <1>3, <1>4, PassedStable

(* Pushing a record happens under the mutex: nobody busy-waits there. *)
LEMMA PushPassed ==
  ASSUME TypeOK, StackDepth, ListsMatchStacks, OwnerInside, PassedIsSafe,
         NEW t \in Threads, EnterPush(t)
  PROVE  PassedIsSafe'
<1>0. /\ pc[t] = "entering" /\ goal[t] \in Managers
      /\ depth[t] + 1 \in 1..MaxDepth
  BY SafepointAssumption DEF EnterPush, At, StackDepth, TypeOK
<1>1. PICK m \in Managers : m = goal[t]
  BY <1>0
<1>2. PICK q \in Records : q = <<t, depth[t] + 1>>
  BY <1>0 DEF Records
<1>3. /\ status' = [status EXCEPT ![q] = SP_UNSAFE]
      /\ mgr' = [mgr EXCEPT ![q] = m]
      /\ records' = [records EXCEPT ![m] = records[m] \cup {q}]
      /\ depth' = [depth EXCEPT ![t] = depth[t] + 1]
  BY <1>1, <1>2 DEF EnterPush
<1>4. pc' = [pc EXCEPT ![t] = "run"] /\ toVisit' = toVisit
  BY DEF EnterPush, Goto
<1>5. \A u \in Threads \ {t} : owner[m] # u
  BY <1>0, <1>1 DEF OwnerInside, Holds
<1>6. \A u \in Threads \ {t} :
        pc[u] \in HoldLocs => Mgr(u)' = Mgr(u) /\ Mgr(u) \in Managers
  <2> SUFFICES ASSUME NEW u \in Threads \ {t}, pc[u] \in HoldLocs
               PROVE  Mgr(u)' = Mgr(u) /\ Mgr(u) \in Managers
    OBVIOUS
  <2>1. depth[u] > 0 /\ depth'[u] = depth[u]
    BY <1>3 DEF StackDepth, HoldLocs, TypeOK
  <2>2. Mgr(u) \in Managers /\ Top(u) \in Records
    BY <2>1, CurrentRecord
  <2> QED
    BY <1>2, <1>3, <2>1, <2>2 DEF TypeOK, Mgr, Top
<1>7. \A n \in Managers : \A p \in records'[n] :
        p \in Records /\ (p = q => n = m) /\ (p # q => p \in records[n])
  <2>1. \A n \in Managers : q \notin records[n]
    BY <1>0, <1>2, SafepointAssumption DEF ListsMatchStacks, TypeOK
  <2>2. \A n \in Managers : records[n] \subseteq Records
    BY DEF TypeOK
  <2>3. \A n \in Managers : \A p \in records'[n] :
          p \in records[n] \/ (n = m /\ p = q)
    BY <1>3 DEF TypeOK
  <2> QED
    BY <2>1, <2>2, <2>3
<1>8. \A p \in Records : p # q => status'[p] = status[p]
  BY <1>3 DEF TypeOK
<1> SUFFICES ASSUME NEW u \in Threads, pc'[u] \in {"spin", "task"},
                    NEW p \in records'[Mgr(u)']
             PROVE  status'[p] = SP_SAFE
                      \/ (pc'[u] = "spin" /\ p \in toVisit'[u])
  BY DEF PassedIsSafe
<1>9. u # t /\ pc'[u] = pc[u]
  BY <1>4 DEF TypeOK
<1>10. Mgr(u)' = Mgr(u) /\ Mgr(u) \in Managers
  BY <1>6, <1>9 DEF HoldLocs
<1>11. owner[Mgr(u)] = u
  BY <1>9, <1>10 DEF OwnerInside, Holds, HoldLocs
<1>12. Mgr(u) # m
  BY <1>5, <1>9, <1>11
<1>13. p \in Records /\ p # q /\ p \in records[Mgr(u)]
  BY <1>7, <1>10, <1>12
<1>14. status'[p] = status[p]
  BY <1>8, <1>13
<1> QED
  BY <1>4, <1>9, <1>10, <1>13, <1>14 DEF PassedIsSafe

(* What the busy-wait has passed stays safe. *)
LEMMA PassedStep ==
  ASSUME TypeOK, StackDepth, ListsMatchStacks, OwnerInside, PassedIsSafe,
         NEW t \in Threads, Act(t)
  PROVE  PassedIsSafe'
<1> USE SafepointAssumption
<1> USE DEF TypeOK, StackDepth, OwnerInside, PassedIsSafe, recordVars,
    managerVars, At, Goto, Lock, Unlock, NotifyAll, SetStatus, Fenced,
    HasCurrent, Top, Mgr, Records, Holds, SP_SAFE, SP_UNSAFE, Locs, HoldLocs,
    TaskLocs, UnsafeLocs, GateLocs
<1>c. depth[t] > 0 => /\ depth[t] \in 1..MaxDepth
                      /\ Top(t) \in Records /\ Mgr(t) \in Managers
                      /\ Top(t) \in records[Mgr(t)]
  BY CurrentRecord
<1>1. ASSUME NEW m \in Managers, EnterBegin(t, m) PROVE PassedIsSafe'
  BY <1>1, <1>c DEF EnterBegin
<1>2. CASE EnterLock(t)
  BY <1>2, <1>c DEF EnterLock
<1>3. CASE EnterPush(t)
  BY <1>3, PushPassed
<1>4. CASE LeaveTryLock(t)
  BY <1>4, <1>c DEF LeaveTryLock
<1>5. CASE LeaveBlock(t)
  BY <1>5, <1>c DEF LeaveBlock
<1>6. CASE LeaveLockInGate(t)
  <2>1. pc[t] \in Locs \ UnsafeLocs /\ Mgr(t) \in Managers /\ Top(t) \in Records
    BY <1>6, <1>c DEF LeaveLockInGate, LockInGate
  <2>2. /\ status' = [status EXCEPT ![Top(t)] = SP_UNSAFE]
        /\ pc' = [pc EXCEPT ![t] = "leaving"] /\ "leaving" \in Locs \ {"spin", "task"}
        /\ UNCHANGED <<depth, mgr, records, toVisit>>
    BY <1>6 DEF LeaveLockInGate, LockInGate
  <2>3. owner[Mgr(t)] = NoThread
    BY <1>6, <2>1 DEF LeaveLockInGate, LockInGate
  <2> HIDE DEF TypeOK, OwnerInside, PassedIsSafe, Mgr, Top, Records, Locs
  <2> QED
    BY <2>1, <2>2, <2>3, Restored
<1>7. CASE LeavePop(t)
  BY <1>7, <1>c DEF LeavePop
<1>8. CASE LeaveRestore(t)
  BY <1>8, <1>c DEF LeaveRestore, GateExitLock
<1>9. CASE GateEnter(t)
  BY <1>9, <1>c DEF GateEnter
<1>10. CASE GateLock(t)
  BY <1>10, <1>c DEF GateLock, GateExitLock
<1>11. CASE GateLeave(t)
  <2>1. pc[t] \in Locs \ UnsafeLocs /\ Mgr(t) \in Managers /\ Top(t) \in Records
    BY <1>11, <1>c DEF GateLeave, GateExitUnsafe
  <2>2. /\ status' = [status EXCEPT ![Top(t)] = SP_UNSAFE]
        /\ pc' = [pc EXCEPT ![t] = "run"] /\ "run" \in Locs \ {"spin", "task"}
        /\ UNCHANGED <<depth, mgr, records, toVisit>>
    BY <1>11 DEF GateLeave, GateExitUnsafe
  <2>3. owner[Mgr(t)] = t
    BY <1>11, <2>1 DEF GateLeave, GateExitUnsafe
  <2> HIDE DEF TypeOK, OwnerInside, PassedIsSafe, Mgr, Top, Records, Locs
  <2> QED
    BY <2>1, <2>2, <2>3, Restored
<1>12. CASE MutexTryLock(t)
  BY <1>12, <1>c DEF MutexTryLock
<1>13. CASE MutexBlock(t)
  BY <1>13, <1>c DEF MutexBlock
<1>14. CASE MutexLockInGate(t)
  BY <1>14, <1>c DEF MutexLockInGate
<1>15. CASE MutexUnlock(t)
  BY <1>15, <1>c DEF MutexUnlock
<1>16. CASE RequestTryLock(t)
  BY <1>16, <1>c DEF RequestTryLock
<1>17. CASE RequestBlock(t)
  BY <1>17, <1>c DEF RequestBlock
<1>18. CASE RequestLockInGate(t)
  <2>1. pc[t] \in Locs \ UnsafeLocs /\ Mgr(t) \in Managers /\ Top(t) \in Records
    BY <1>18, <1>c DEF RequestLockInGate, LockInGate
  <2>2. /\ status' = [status EXCEPT ![Top(t)] = SP_UNSAFE]
        /\ pc' = [pc EXCEPT ![t] = "mark"] /\ "mark" \in Locs \ {"spin", "task"}
        /\ UNCHANGED <<depth, mgr, records, toVisit>>
    BY <1>18 DEF RequestLockInGate, LockInGate
  <2>3. owner[Mgr(t)] = NoThread
    BY <1>18, <2>1 DEF RequestLockInGate, LockInGate
  <2> HIDE DEF TypeOK, OwnerInside, PassedIsSafe, Mgr, Top, Records, Locs
  <2> QED
    BY <2>1, <2>2, <2>3, Restored
<1>19. CASE RequestMark(t)
  BY <1>19, <1>c DEF RequestMark
<1>20. ASSUME NEW r \in Records, ScanSkip(t, r) PROVE PassedIsSafe'
  BY <1>20, <1>c DEF ScanSkip
<1>21. ASSUME NEW r \in Records, ScanUnsafe(t, r) PROVE PassedIsSafe'
  BY <1>21, <1>c DEF ScanUnsafe
<1>22. CASE CasPoll(t)
  BY <1>22, <1>c DEF CasPoll
<1>23. CASE CasUndo(t)
  BY <1>23, <1>c DEF CasUndo
<1>24. CASE WaitReturn(t)
  <2>1. pc[t] \in Locs \ UnsafeLocs /\ Mgr(t) \in Managers /\ Top(t) \in Records
    BY <1>24, <1>c DEF WaitReturn, LockInGate
  <2>2. /\ status' = [status EXCEPT ![Top(t)] = SP_UNSAFE]
        /\ pc' = [pc EXCEPT ![t] = "mark"] /\ "mark" \in Locs \ {"spin", "task"}
        /\ UNCHANGED <<depth, mgr, records, toVisit>>
    BY <1>24 DEF WaitReturn, LockInGate
  <2>3. owner[Mgr(t)] = NoThread
    BY <1>24, <2>1 DEF WaitReturn, LockInGate
  <2> HIDE DEF TypeOK, OwnerInside, PassedIsSafe, Mgr, Top, Records, Locs
  <2> QED
    BY <2>1, <2>2, <2>3, Restored
<1>25. CASE SpinBegin(t)
  <2>1. Mgr(t) \in Managers
    BY <1>25, <1>c DEF SpinBegin
  <2> QED
    BY <1>25, <2>1 DEF SpinBegin
<1>26. ASSUME NEW r \in Records, Spin(t, r) PROVE PassedIsSafe'
  BY <1>26, <1>c DEF Spin
<1>27. CASE TaskRun(t)
  BY <1>27, <1>c DEF TaskRun
<1>28. CASE TaskReturn(t)
  <2>1. pc[t] \in Locs \ UnsafeLocs /\ Mgr(t) \in Managers /\ Top(t) \in Records
    BY <1>28, <1>c DEF TaskReturn
  <2>2. /\ status' = [status EXCEPT ![Top(t)] = SP_UNSAFE]
        /\ pc' = [pc EXCEPT ![t] = "run"] /\ "run" \in Locs \ {"spin", "task"}
        /\ UNCHANGED <<depth, mgr, records, toVisit>>
    BY <1>28 DEF TaskReturn
  <2>3. owner[Mgr(t)] = t
    BY <1>28, <2>1 DEF TaskReturn
  <2> HIDE DEF TypeOK, OwnerInside, PassedIsSafe, Mgr, Top, Records, Locs
  <2> QED
    BY <2>1, <2>2, <2>3, Restored
<1>29. CASE HandleRead(t)
  BY <1>29, <1>c DEF HandleRead, Seen
<1>30. CASE HandleClear(t)
  BY <1>30, <1>c DEF HandleClear
<1>31. CASE StoreDrain(t)
  BY <1>31, <1>c DEF StoreDrain
<1>32. CASE PollNoRequest(t)
  BY <1>32, <1>c DEF PollNoRequest
<1>33. CASE PollRequest(t)
  BY <1>33, <1>c DEF PollRequest
<1>34. CASE PollGateLock(t)
  BY <1>34, <1>c DEF PollGateLock, GateExitLock
<1>35. CASE PollGateLeave(t)
  <2>1. pc[t] \in Locs \ UnsafeLocs /\ Mgr(t) \in Managers /\ Top(t) \in Records
    BY <1>35, <1>c DEF PollGateLeave, GateExitUnsafe
  <2>2. /\ status' = [status EXCEPT ![Top(t)] = SP_UNSAFE]
        /\ pc' = [pc EXCEPT ![t] = "polled"] /\ "polled" \in Locs \ {"spin", "task"}
        /\ UNCHANGED <<depth, mgr, records, toVisit>>
    BY <1>35 DEF PollGateLeave, GateExitUnsafe
  <2>3. owner[Mgr(t)] = t
    BY <1>35, <2>1 DEF PollGateLeave, GateExitUnsafe
  <2> HIDE DEF TypeOK, OwnerInside, PassedIsSafe, Mgr, Top, Records, Locs
  <2> QED
    BY <2>1, <2>2, <2>3, Restored
<1>36. CASE PollDone(t)
  BY <1>36, <1>c DEF PollDone
<1>37. CASE Interrupt(t)
  BY <1>37, <1>c DEF Interrupt
<1>38. CASE RaiseTest(t)
  BY <1>38, <1>c DEF RaiseTest
<1>39. CASE RaiseStore(t)
  BY <1>39, <1>c DEF RaiseStore
<1> QED
  BY <1>1, <1>2, <1>3, <1>4, <1>5, <1>6, <1>7, <1>8, <1>9, <1>10, <1>11,
     <1>12, <1>13, <1>14, <1>15, <1>16, <1>17, <1>18, <1>19, <1>20, <1>21,
     <1>22, <1>23, <1>24, <1>25, <1>26, <1>27, <1>28, <1>29, <1>30, <1>31,
     <1>32, <1>33, <1>34, <1>35, <1>36, <1>37, <1>38, <1>39 DEF Act, Step, Choice

(* What FrozenWhileRequested says of one step: every step that adds or     *)
(* removes a record, or makes one unsafe, holds the mutex of its manager   *)
(* outside of a request, or ends its own request.                          *)
LEMMA FrozenStep ==
  ASSUME TypeOK, StackDepth, ListsMatchStacks, OwnerInside, NEW t \in Threads,
         Act(t)
  PROVE  Frozen
<1> USE SafepointAssumption
<1> USE DEF Frozen, TypeOK, StackDepth, OwnerInside, recordVars, managerVars,
    At, Goto, Lock, Unlock, NotifyAll, SetStatus, Fenced, HasCurrent, Top,
    Mgr, Records, Holds, SP_SAFE, SP_UNSAFE, Locs, HoldLocs, TaskLocs,
    UnsafeLocs, GateLocs
<1>c. depth[t] > 0 => /\ depth[t] \in 1..MaxDepth
                      /\ Top(t) \in Records /\ Mgr(t) \in Managers
                      /\ Top(t) \in records[Mgr(t)]
  BY CurrentRecord
<1>f. \A m \in Managers : requester[m] # NoThread =>
        /\ owner[m] = requester[m]
        /\ pc[requester[m]] \in TaskLocs /\ Mgr(requester[m]) = m
  <2> SUFFICES ASSUME NEW m \in Managers, requester[m] \in Threads
               PROVE  /\ owner[m] = requester[m]
                      /\ pc[requester[m]] \in TaskLocs /\ Mgr(requester[m]) = m
    OBVIOUS
  <2>1. pc[requester[m]] \in TaskLocs /\ Mgr(requester[m]) = m
    OBVIOUS
  <2> QED
    BY <2>1
<1>h. \A m \in Managers : owner[m] = t /\ pc[t] \notin TaskLocs
                              => requester[m] = NoThread
  <2> SUFFICES ASSUME NEW m \in Managers, owner[m] = t,
                      requester[m] # NoThread
               PROVE  pc[t] \in TaskLocs
    OBVIOUS
  <2>1. owner[m] = requester[m] /\ pc[requester[m]] \in TaskLocs
    BY <1>f
  <2> HIDE DEF TypeOK, OwnerInside, StackDepth, TaskLocs
  <2> QED
    BY <2>1
<1>g. \A m \in Managers : depth[t] > 0 /\ Top(t) \in records[m] => Mgr(t) = m
  BY <1>c DEF ListsMatchStacks
<1>1. ASSUME NEW m \in Managers, EnterBegin(t, m) PROVE Frozen
  BY <1>1, <1>c DEF EnterBegin
<1>2. CASE EnterLock(t)
  BY <1>2, <1>c DEF EnterLock
<1>3. CASE EnterPush(t)
  <2>1. /\ pc[t] = "entering" /\ goal[t] \in Managers
        /\ depth[t] + 1 \in 1..MaxDepth
    BY <1>3 DEF EnterPush
  <2>0. owner[goal[t]] = t
    BY <2>1
  <2>2. requester[goal[t]] = NoThread
    BY <2>0, <2>1, <1>h
  <2>3. \A m \in Managers : <<t, depth[t] + 1>> \notin records[m]
    BY <2>1 DEF ListsMatchStacks
  <2>4. \A m \in Managers \ {goal[t]} : records'[m] = records[m]
    BY <1>3 DEF EnterPush
  <2>5. \A r \in Records : r # <<t, depth[t] + 1>> => status'[r] = status[r]
    BY <1>3 DEF EnterPush
  <2>6. \A m \in Managers : records[m] \subseteq Records
    OBVIOUS
  <2> HIDE DEF Mgr, Top, Records, OwnerInside, TypeOK, StackDepth
  <2> QED
    BY <2>2, <2>3, <2>4, <2>5, <2>6
<1>4. CASE LeaveTryLock(t)
  BY <1>4, <1>c DEF LeaveTryLock
<1>5. CASE LeaveBlock(t)
  BY <1>5, <1>c DEF LeaveBlock
<1>6. CASE LeaveLockInGate(t)
  <2>1. Mgr(t) \in Managers /\ Top(t) \in Records
    BY <1>6, <1>c DEF LeaveLockInGate, LockInGate
  <2>2. ~(requester[Mgr(t)] # NoThread /\ requester'[Mgr(t)] = requester[Mgr(t)])
    BY <1>6, <1>f, <2>1 DEF LeaveLockInGate, LockInGate
  <2>3. \A m \in Managers \ {Mgr(t)} : Top(t) \notin records[m]
    BY <1>6, <1>c, <1>g DEF LeaveLockInGate, LockInGate
  <2>4. /\ records' = records
        /\ \A r \in Records : r # Top(t) => status'[r] = status[r]
    BY <1>6 DEF LeaveLockInGate, LockInGate
  <2> HIDE DEF Mgr, Top, Records, OwnerInside
  <2> QED
    BY <2>1, <2>2, <2>3, <2>4
<1>7. CASE LeavePop(t)
  <2>1. Mgr(t) \in Managers /\ pc[t] = "leaving" /\ status' = status
    BY <1>7, <1>c DEF LeavePop
  <2>0. owner[Mgr(t)] = t
    BY <2>1
  <2>2. requester[Mgr(t)] = NoThread
    BY <2>0, <2>1, <1>h
  <2>3. \A m \in Managers \ {Mgr(t)} : records'[m] = records[m]
    BY <1>7 DEF LeavePop
  <2> QED
    BY <2>1, <2>2, <2>3
<1>8. CASE LeaveRestore(t)
  BY <1>8, <1>c DEF LeaveRestore, GateExitLock
<1>9. CASE GateEnter(t)
  BY <1>9, <1>c DEF GateEnter
<1>10. CASE GateLock(t)
  BY <1>10, <1>c DEF GateLock, GateExitLock
<1>11. CASE GateLeave(t)
  <2>1. Mgr(t) \in Managers /\ Top(t) \in Records
    BY <1>11, <1>c DEF GateLeave, GateExitUnsafe
  <2>0. pc[t] \in HoldLocs \ TaskLocs
    BY <1>11 DEF GateLeave, GateExitUnsafe
  <2>5. owner[Mgr(t)] = t
    BY <2>0, <2>1
  <2>2. ~(requester[Mgr(t)] # NoThread /\ requester'[Mgr(t)] = requester[Mgr(t)])
    BY <1>11, <1>h, <2>0, <2>1, <2>5 DEF GateLeave, GateExitUnsafe
  <2>3. \A m \in Managers \ {Mgr(t)} : Top(t) \notin records[m]
    BY <1>11, <1>c, <1>g DEF GateLeave, GateExitUnsafe
  <2>4. /\ records' = records
        /\ \A r \in Records : r # Top(t) => status'[r] = status[r]
    BY <1>11 DEF GateLeave, GateExitUnsafe
  <2> HIDE DEF Mgr, Top, Records, OwnerInside
  <2> QED
    BY <2>1, <2>2, <2>3, <2>4
<1>12. CASE MutexTryLock(t)
  BY <1>12, <1>c DEF MutexTryLock
<1>13. CASE MutexBlock(t)
  BY <1>13, <1>c DEF MutexBlock
<1>14. CASE MutexLockInGate(t)
  BY <1>14, <1>c DEF MutexLockInGate
<1>15. CASE MutexUnlock(t)
  BY <1>15, <1>c DEF MutexUnlock
<1>16. CASE RequestTryLock(t)
  BY <1>16, <1>c DEF RequestTryLock
<1>17. CASE RequestBlock(t)
  BY <1>17, <1>c DEF RequestBlock
<1>18. CASE RequestLockInGate(t)
  <2>1. Mgr(t) \in Managers /\ Top(t) \in Records
    BY <1>18, <1>c DEF RequestLockInGate, LockInGate
  <2>2. ~(requester[Mgr(t)] # NoThread /\ requester'[Mgr(t)] = requester[Mgr(t)])
    BY <1>18, <1>f, <2>1 DEF RequestLockInGate, LockInGate
  <2>3. \A m \in Managers \ {Mgr(t)} : Top(t) \notin records[m]
    BY <1>18, <1>c, <1>g DEF RequestLockInGate, LockInGate
  <2>4. /\ records' = records
        /\ \A r \in Records : r # Top(t) => status'[r] = status[r]
    BY <1>18 DEF RequestLockInGate, LockInGate
  <2> HIDE DEF Mgr, Top, Records, OwnerInside
  <2> QED
    BY <2>1, <2>2, <2>3, <2>4
<1>19. CASE RequestMark(t)
  BY <1>19, <1>c DEF RequestMark
<1>20. ASSUME NEW r \in Records, ScanSkip(t, r) PROVE Frozen
  BY <1>20, <1>c DEF ScanSkip
<1>21. ASSUME NEW r \in Records, ScanUnsafe(t, r) PROVE Frozen
  BY <1>21, <1>c DEF ScanUnsafe
<1>22. CASE CasPoll(t)
  BY <1>22, <1>c DEF CasPoll
<1>23. CASE CasUndo(t)
  BY <1>23, <1>c DEF CasUndo
<1>24. CASE WaitReturn(t)
  <2>1. Mgr(t) \in Managers /\ Top(t) \in Records
    BY <1>24, <1>c DEF WaitReturn, LockInGate
  <2>2. ~(requester[Mgr(t)] # NoThread /\ requester'[Mgr(t)] = requester[Mgr(t)])
    BY <1>24, <1>f, <2>1 DEF WaitReturn, LockInGate
  <2>3. \A m \in Managers \ {Mgr(t)} : Top(t) \notin records[m]
    BY <1>24, <1>c, <1>g DEF WaitReturn, LockInGate
  <2>4. /\ records' = records
        /\ \A r \in Records : r # Top(t) => status'[r] = status[r]
    BY <1>24 DEF WaitReturn, LockInGate
  <2> HIDE DEF Mgr, Top, Records, OwnerInside
  <2> QED
    BY <2>1, <2>2, <2>3, <2>4
<1>25. CASE SpinBegin(t)
  BY <1>25, <1>c DEF SpinBegin
<1>26. ASSUME NEW r \in Records, Spin(t, r) PROVE Frozen
  BY <1>26, <1>c DEF Spin
<1>27. CASE TaskRun(t)
  BY <1>27, <1>c DEF TaskRun
<1>28. CASE TaskReturn(t)
  <2>1. Mgr(t) \in Managers /\ Top(t) \in Records
    BY <1>28, <1>c DEF TaskReturn
  <2>2. ~(requester[Mgr(t)] # NoThread /\ requester'[Mgr(t)] = requester[Mgr(t)])
    BY <1>28, <1>f, <2>1 DEF TaskReturn
  <2>3. \A m \in Managers \ {Mgr(t)} : Top(t) \notin records[m]
    BY <1>28, <1>c, <1>g DEF TaskReturn
  <2>4. /\ records' = records
        /\ \A r \in Records : r # Top(t) => status'[r] = status[r]
    BY <1>28 DEF TaskReturn
  <2> HIDE DEF Mgr, Top, Records, OwnerInside
  <2> QED
    BY <2>1, <2>2, <2>3, <2>4
<1>29. CASE HandleRead(t)
  BY <1>29, <1>c DEF HandleRead, Seen
<1>30. CASE HandleClear(t)
  BY <1>30, <1>c DEF HandleClear
<1>31. CASE StoreDrain(t)
  BY <1>31, <1>c DEF StoreDrain
<1>32. CASE PollNoRequest(t)
  BY <1>32, <1>c DEF PollNoRequest
<1>33. CASE PollRequest(t)
  BY <1>33, <1>c DEF PollRequest
<1>34. CASE PollGateLock(t)
  BY <1>34, <1>c DEF PollGateLock, GateExitLock
<1>35. CASE PollGateLeave(t)
  <2>1. Mgr(t) \in Managers /\ Top(t) \in Records
    BY <1>35, <1>c DEF PollGateLeave, GateExitUnsafe
  <2>0. pc[t] \in HoldLocs \ TaskLocs
    BY <1>35 DEF PollGateLeave, GateExitUnsafe
  <2>5. owner[Mgr(t)] = t
    BY <2>0, <2>1
  <2>2. ~(requester[Mgr(t)] # NoThread /\ requester'[Mgr(t)] = requester[Mgr(t)])
    BY <1>35, <1>h, <2>0, <2>1, <2>5 DEF PollGateLeave, GateExitUnsafe
  <2>3. \A m \in Managers \ {Mgr(t)} : Top(t) \notin records[m]
    BY <1>35, <1>c, <1>g DEF PollGateLeave, GateExitUnsafe
  <2>4. /\ records' = records
        /\ \A r \in Records : r # Top(t) => status'[r] = status[r]
    BY <1>35 DEF PollGateLeave, GateExitUnsafe
  <2> HIDE DEF Mgr, Top, Records, OwnerInside
  <2> QED
    BY <2>1, <2>2, <2>3, <2>4
<1>36. CASE PollDone(t)
  BY <1>36, <1>c DEF PollDone
<1>37. CASE Interrupt(t)
  BY <1>37, <1>c DEF Interrupt
<1>38. CASE RaiseTest(t)
  BY <1>38, <1>c DEF RaiseTest
<1>39. CASE RaiseStore(t)
  BY <1>39, <1>c DEF RaiseStore
<1> QED
  BY <1>1, <1>2, <1>3, <1>4, <1>5, <1>6, <1>7, <1>8, <1>9, <1>10, <1>11,
     <1>12, <1>13, <1>14, <1>15, <1>16, <1>17, <1>18, <1>19, <1>20, <1>21,
     <1>22, <1>23, <1>24, <1>25, <1>26, <1>27, <1>28, <1>29, <1>30, <1>31,
     <1>32, <1>33, <1>34, <1>35, <1>36, <1>37, <1>38, <1>39 DEF Act, Step, Choice

-----------------------------------------------------------------------------
(* The initial state satisfies the inductive invariant. *)
LEMMA InitInv == Init => IInv
<1> SUFFICES ASSUME Init PROVE IInv
  OBVIOUS
<1> USE SafepointAssumption DEF Init
<1>1. TypeOK
  BY DEF TypeOK, Locs, UnsafeLocs, Reasons, NotInterrupted, ExternalInterrupt
<1>2. StackDepth
  BY DEF StackDepth
<1>3. ListsMatchStacks
  BY DEF ListsMatchStacks, Records
<1>4. OwnerInside
  BY DEF OwnerInside, Holds, HoldLocs, TaskLocs
<1>5. NestedRecordsSafe
  BY DEF NestedRecordsSafe
<1>6. StatusFollowsPc
  BY DEF StatusFollowsPc
<1>7. PassedIsSafe
  BY DEF PassedIsSafe
<1> QED
  BY <1>1, <1>2, <1>3, <1>4, <1>5, <1>6, <1>7 DEF IInv

(* Every step of every thread keeps the inductive invariant. *)
LEMMA NextInv == IInv /\ [Next]_vars => IInv'
<1> SUFFICES ASSUME IInv, [Next]_vars PROVE IInv'
  OBVIOUS
<1>1. ASSUME NEW t \in Threads, Act(t) PROVE IInv'
  BY <1>1, TypeStep, StackDepthStep, ListsStep, OwnerStep, NestedStep,
     StatusStep, PassedStep DEF IInv
<1>2. CASE UNCHANGED vars
  <2> USE <1>2 DEF vars, IInv
  <2>1. TypeOK'
    BY DEF TypeOK
  <2>2. StackDepth'
    BY DEF StackDepth
  <2>3. ListsMatchStacks'
    BY DEF ListsMatchStacks
  <2>4. OwnerInside'
    BY DEF OwnerInside, Holds, Mgr, Top
  <2>5. NestedRecordsSafe'
    BY DEF NestedRecordsSafe
  <2>6. StatusFollowsPc'
    BY DEF StatusFollowsPc, Top
  <2>7. PassedIsSafe'
    BY DEF PassedIsSafe, Mgr, Top
  <2> QED
    BY <2>1, <2>2, <2>3, <2>4, <2>5, <2>6, <2>7
<1> QED
  BY <1>1, <1>2 DEF Next

(* Every reachable state of the safepoint protocol satisfies IInv. *)
THEOREM Invariance == Spec => []IInv
<1> QED
  BY InitInv, NextInv, PTL DEF Spec

(* Every variable keeps its type, in particular m_requester and the        *)
(* interrupt words hold only values the code stores there.                 *)
THEOREM TypeCorrect == Spec => []TypeOK
<1>1. IInv => TypeOK
  BY DEF IInv
<1> QED
  BY <1>1, Invariance, PTL

(* requestSafepointTask: while task.run() executes no other thread runs    *)
(* code of the same context, however many threads, contexts and nested     *)
(* records there are.                                                      *)
THEOREM StopTheWorldHolds == Spec => []StopTheWorld
<1>1. IInv => StopTheWorld
  <2> SUFFICES ASSUME IInv, NEW t \in Threads, NEW u \in Threads,
                      pc[t] = "task", u # t, Executing(u, Mgr(t))
               PROVE  FALSE
    BY DEF StopTheWorld, At
  <2> USE DEF IInv
  <2>1. depth[t] > 0 /\ depth[u] > 0 /\ Mgr(u) = Mgr(t)
    BY DEF StackDepth, Executing, HasCurrent
  <2>2. Mgr(t) \in Managers /\ Top(u) \in records[Mgr(t)]
    BY <2>1, CurrentRecord
  <2>3. owner[Mgr(t)] = t
    BY <2>2 DEF OwnerInside, Holds, HoldLocs
  <2>4. CASE pc[u] = "task"
    <3>1. owner[Mgr(t)] = u
      BY <2>1, <2>2, <2>4 DEF OwnerInside, Holds, HoldLocs
    <3> QED
      BY <2>3, <3>1
  <2>5. CASE pc[u] \in UnsafeLocs
    <3>1. status[Top(u)] = SP_UNSAFE
      BY <2>1, <2>5 DEF StatusFollowsPc
    <3>2. status[Top(u)] = SP_SAFE
      BY <2>2 DEF PassedIsSafe
    <3> QED
      BY <3>1, <3>2 DEF SP_SAFE, SP_UNSAFE
  <2> QED
    BY <2>4, <2>5 DEF Executing
<1> QED
  BY <1>1, Invariance, PTL

(* enter and leave: a record that is not top-most on its stack is SP_SAFE, *)
(* whatever the depth of nesting.                                          *)
THEOREM NestedSafe == Spec => []NestedRecordsSafe
<1>1. IInv => NestedRecordsSafe
  BY DEF IInv
<1> QED
  BY <1>1, Invariance, PTL

(* The asserts of ~SafepointRecord and SafepointGate on m_status hold, and *)
(* a thread that is blocked is SP_SAFE.                                    *)
THEOREM StatusCorrect == Spec => []StatusMatchesLocation
<1>1. IInv => StatusMatchesLocation
  BY DEF IInv, StatusFollowsPc, StatusMatchesLocation, HasCurrent,
     UnsafeLocs, GateLocs, TaskLocs
<1> QED
  BY <1>1, Invariance, PTL

(* While m_requester stands, the manager's list does not change and no     *)
(* safe record of it turns unsafe.                                         *)
THEOREM FrozenHolds == Spec => FrozenWhileRequested
<1>1. IInv /\ [Next]_vars => [Frozen]_vars
  <2> SUFFICES ASSUME IInv, NEW t \in Threads, Act(t) PROVE Frozen
    BY DEF Next
  <2> QED
    BY FrozenStep DEF IInv
<1>2. [Frozen]_vars <=>
      [\A m \in Managers :
         requester[m] # NoThread /\ requester'[m] = requester[m]
           => /\ records'[m] = records[m]
              /\ \A r \in records[m] :
                   status[r] = SP_SAFE => status'[r] = SP_SAFE]_vars
  BY DEF Frozen
<1> QED
  BY <1>1, <1>2, Invariance, PTL DEF Spec, FrozenWhileRequested
=============================================================================
