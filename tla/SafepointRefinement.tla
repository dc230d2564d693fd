------------------------- MODULE SafepointRefinement -------------------------
(***************************************************************************)
(* The safepoint managers implement SafepointContract, for any set of      *)
(* threads and managers, any depth of nesting and any number of            *)
(* interrupts.                                                             *)
(***************************************************************************)
EXTENDS SafepointProofs

(* What a step of t does to the locations and the stacks. *)
Moves(t) ==
  /\ \A u \in Threads \ {t} : /\ pc'[u] = pc[u] /\ depth'[u] = depth[u]
                              /\ depth[u] > 0 => Mgr(u)' = Mgr(u)
  /\ pc[t] \notin {"entering", "leaving"} => UNCHANGED <<depth, mgr>>
  /\ pc[t] \in {"entering", "leaving"} \cup UnsafeLocs => pc'[t] # "task"
  /\ pc[t] = "task" => pc'[t] \in {"task", "run"}

(* Only the stack and location of the thread that takes a step change. *)
LEMMA MovesStep ==
  ASSUME TypeOK, StackDepth, NEW t \in Threads, Act(t)
  PROVE  Moves(t)
<1> USE SafepointAssumption
<1> USE DEF Moves, TypeOK, StackDepth, recordVars, At, Goto, HasCurrent, Top, Mgr,
    UnsafeLocs
<1>1. ASSUME NEW m \in Managers, EnterBegin(t, m) PROVE Moves(t)
  BY <1>1 DEF EnterBegin
<1>2. CASE EnterPush(t)
  <2>1. /\ pc[t] = "entering" /\ pc' = [pc EXCEPT ![t] = "run"]
        /\ depth' = [depth EXCEPT ![t] = @ + 1]
        /\ mgr' = [mgr EXCEPT ![<<t, depth[t] + 1>>] = goal[t]]
    BY <1>2 DEF EnterPush
  <2>2. ASSUME NEW u \in Threads \ {t}
        PROVE  /\ pc'[u] = pc[u] /\ depth'[u] = depth[u]
               /\ depth[u] > 0 => Mgr(u)' = Mgr(u)
    <3>1. pc'[u] = pc[u] /\ depth'[u] = depth[u]
      BY <2>1
    <3>2. ASSUME depth[u] > 0 PROVE mgr'[<<u, depth[u]>>] = mgr[<<u, depth[u]>>]
      <4>1. <<u, depth[u]>> # <<t, depth[t] + 1>>
        OBVIOUS
      <4>2. <<u, depth[u]>> \in DOMAIN mgr
        BY <3>2 DEF Records
      <4> HIDE DEF TypeOK, StackDepth
      <4> QED
        BY <2>1, <4>1, <4>2
    <3> QED
      BY <3>1, <3>2
  <2> QED
    BY <2>1, <2>2
<1>3. CASE LeavePop(t)
  <2>1. /\ pc[t] = "leaving"
        /\ pc' = [pc EXCEPT ![t] = IF depth[t] = 1 THEN "run" ELSE "restore"]
        /\ depth' = [depth EXCEPT ![t] = @ - 1]
        /\ mgr' = [mgr EXCEPT ![<<t, depth[t]>>] = NoManager]
    BY <1>3 DEF LeavePop
  <2>2. ASSUME NEW u \in Threads \ {t}
        PROVE  /\ pc'[u] = pc[u] /\ depth'[u] = depth[u]
               /\ depth[u] > 0 => Mgr(u)' = Mgr(u)
    <3>1. pc'[u] = pc[u] /\ depth'[u] = depth[u]
      BY <2>1
    <3>2. ASSUME depth[u] > 0 PROVE mgr'[<<u, depth[u]>>] = mgr[<<u, depth[u]>>]
      <4>1. <<u, depth[u]>> # <<t, depth[t]>>
        OBVIOUS
      <4>2. <<u, depth[u]>> \in DOMAIN mgr
        BY <3>2 DEF Records
      <4> HIDE DEF TypeOK, StackDepth
      <4> QED
        BY <2>1, <4>1, <4>2
    <3> QED
      BY <3>1, <3>2
  <2> QED
    BY <2>1, <2>2
<1>4. CASE EnterLock(t)
  BY <1>4 DEF EnterLock
<1>5. CASE LeaveTryLock(t)
  BY <1>5 DEF LeaveTryLock
<1>6. CASE LeaveBlock(t)
  BY <1>6 DEF LeaveBlock
<1>7. CASE GateEnter(t)
  BY <1>7 DEF GateEnter
<1>8. CASE MutexTryLock(t)
  BY <1>8 DEF MutexTryLock
<1>9. CASE MutexBlock(t)
  BY <1>9 DEF MutexBlock
<1>10. CASE MutexLockInGate(t)
  BY <1>10 DEF MutexLockInGate
<1>11. CASE MutexUnlock(t)
  BY <1>11 DEF MutexUnlock
<1>12. CASE RequestTryLock(t)
  BY <1>12 DEF RequestTryLock
<1>13. CASE RequestBlock(t)
  BY <1>13 DEF RequestBlock
<1>14. CASE RequestMark(t)
  BY <1>14 DEF RequestMark
<1>15. CASE CasPoll(t)
  BY <1>15 DEF CasPoll
<1>16. CASE CasUndo(t)
  BY <1>16 DEF CasUndo
<1>17. CASE SpinBegin(t)
  BY <1>17 DEF SpinBegin
<1>18. CASE TaskRun(t)
  BY <1>18 DEF TaskRun
<1>19. CASE TaskReturn(t)
  BY <1>19 DEF TaskReturn
<1>20. CASE HandleRead(t)
  BY <1>20 DEF HandleRead
<1>21. CASE HandleClear(t)
  BY <1>21 DEF HandleClear
<1>22. CASE StoreDrain(t)
  BY <1>22 DEF StoreDrain
<1>23. CASE PollNoRequest(t)
  BY <1>23 DEF PollNoRequest
<1>24. CASE PollRequest(t)
  BY <1>24 DEF PollRequest
<1>25. CASE PollDone(t)
  BY <1>25 DEF PollDone
<1>26. CASE Interrupt(t)
  BY <1>26 DEF Interrupt
<1>27. CASE RaiseTest(t)
  BY <1>27 DEF RaiseTest
<1>28. CASE RaiseStore(t)
  BY <1>28 DEF RaiseStore
<1>29. ASSUME NEW r \in Records, ScanSkip(t, r) \/ ScanUnsafe(t, r) \/ Spin(t, r) PROVE Moves(t)
  BY <1>29 DEF ScanSkip, ScanUnsafe, Spin
<1>30. CASE LeaveLockInGate(t)
  BY <1>30 DEF LeaveLockInGate, LockInGate
<1>31. CASE RequestLockInGate(t)
  BY <1>31 DEF RequestLockInGate, LockInGate
<1>32. CASE WaitReturn(t)
  BY <1>32 DEF WaitReturn, LockInGate
<1>33. CASE LeaveRestore(t)
  BY <1>33 DEF LeaveRestore, GateExitLock
<1>34. CASE GateLock(t)
  BY <1>34 DEF GateLock, GateExitLock
<1>35. CASE PollGateLock(t)
  BY <1>35 DEF PollGateLock, GateExitLock
<1>36. CASE GateLeave(t)
  BY <1>36 DEF GateLeave, GateExitUnsafe
<1>37. CASE PollGateLeave(t)
  BY <1>37 DEF PollGateLeave, GateExitUnsafe
<1> QED
  BY <1>1, <1>2, <1>3, <1>4, <1>5, <1>6, <1>7, <1>8, <1>9, <1>10, <1>11,
     <1>12, <1>13, <1>14, <1>15, <1>16, <1>17, <1>18, <1>19, <1>20, <1>21,
     <1>22, <1>23, <1>24, <1>25, <1>26, <1>27, <1>28, <1>29, <1>30, <1>31,
     <1>32, <1>33, <1>34, <1>35, <1>36, <1>37
     DEF Act, Step, Choice

(* The contract of the code after a step, by what the thread was doing.    *)
LEMMA ContractStep ==
  ASSUME IInv, IInv', StopTheWorld', NEW t \in Threads, Act(t)
  PROVE  [Contract!Next]_(Contract!vars)
<1> DEFINE E(m) == {u \in Threads : HasCurrent(u) /\ Mgr(u) = m /\ pc[u] \in UnsafeLocs}
<1> DEFINE K(m) == {u \in Threads : HasCurrent(u) /\ Mgr(u) = m /\ At(u, "task")}
<1>1. Moves(t)
  BY MovesStep DEF IInv
<1>2. /\ ExecutingIn = [m \in Managers |-> E(m)]
      /\ TasksIn = [m \in Managers |-> K(m)]
      /\ ExecutingIn' = [m \in Managers |-> E(m)']
      /\ TasksIn' = [m \in Managers |-> K(m)']
  BY DEF ExecutingIn, TasksIn
<1>3. ASSUME NEW m \in Managers, NEW u \in Threads, u # t
      PROVE  /\ u \in E(m)' <=> u \in E(m)
             /\ u \in K(m)' <=> u \in K(m)
  BY <1>1, <1>3 DEF Moves, HasCurrent, At
<1>4. ASSUME NEW m \in Managers, t \in E(m)' \/ t \in K(m)', NEW u \in Threads, u # t
      PROVE  u \notin K(m)
  <2>1. Executing(t, m)'
    BY <1>4 DEF Executing, HasCurrent, At
  <2>2. ASSUME u \in K(m)' PROVE FALSE
    BY <2>1, <2>2, <1>4 DEF StopTheWorld, At
  <2> QED
    BY <2>2, <1>3, <1>4
<1>5. ASSUME NEW m \in Managers, t \in K(m)', NEW u \in Threads, u # t
      PROVE  u \notin E(m)
  <2>1. pc'[t] = "task" /\ Mgr(t)' = m
    BY <1>5 DEF At
  <2>2. ASSUME u \in E(m)' PROVE FALSE
    BY <2>1, <2>2, <1>5 DEF StopTheWorld, At, Executing, HasCurrent
  <2> QED
    BY <2>2, <1>3, <1>5
<1>6. CASE \E m \in Managers : t \in E(m)
  <2> PICK m \in Managers : t \in E(m)
    BY <1>6
  <2>1. /\ pc[t] \in UnsafeLocs /\ depth[t] > 0 /\ Mgr(t) = m /\ pc'[t] # "task"
        /\ UNCHANGED <<depth, mgr>>
    BY <1>1 DEF Moves, HasCurrent, UnsafeLocs
  <2>2. \A n \in Managers : t \notin K(n) /\ t \notin K(n)' /\ (n # m => t \notin E(n) /\ t \notin E(n)')
    BY <2>1 DEF At, UnsafeLocs, Mgr, Top
  <2>3. TasksIn' = TasksIn
    <3>1. \A n \in Managers : K(n)' = K(n)
      BY <1>3, <2>2
    <3> QED
      BY <1>2, <3>1
  <2>4. \A n \in Managers : n # m => E(n)' = E(n)
    BY <1>3, <2>2
  <2>5. CASE t \in E(m)'
    <3>1. E(m)' = E(m)
      BY <1>3, <2>5
    <3>2. ExecutingIn' = ExecutingIn
      BY <1>2, <2>4, <3>1
    <3> QED
      BY <2>3, <3>2 DEF Contract!vars
  <2>6. CASE t \notin E(m)'
    <3>1. E(m)' = E(m) \ {t}
      BY <1>3, <2>6
    <3>2. ExecutingIn' = [ExecutingIn EXCEPT ![m] = @ \ {t}]
      BY <1>2, <2>4, <3>1
    <3>3. Contract!Pause(t, m)
      BY <2>3, <3>2 DEF Contract!Pause
    <3> QED
      BY <3>3 DEF Contract!Next
  <2> QED
    BY <2>5, <2>6
<1>7. CASE \E m \in Managers : t \in K(m)
  <2> PICK m \in Managers : t \in K(m)
    BY <1>7
  <2>1. /\ pc[t] = "task" /\ depth[t] > 0 /\ Mgr(t) = m /\ pc'[t] \in {"task", "run"}
        /\ UNCHANGED <<depth, mgr>>
    BY <1>1 DEF Moves, HasCurrent, At
  <2>2. /\ \A n \in Managers : t \notin E(n)
        /\ \A n \in Managers : n # m => t \notin K(n) /\ t \notin K(n)' /\ t \notin E(n)'
    BY <2>1 DEF UnsafeLocs, Mgr, Top, At
  <2>3. \A n \in Managers : n # m => E(n)' = E(n) /\ K(n)' = K(n)
    BY <1>3, <2>2
  <2>4. CASE pc'[t] = "task"
    <3>1. t \in K(m)' /\ t \notin E(m)'
      BY <2>1, <2>4 DEF At, HasCurrent, Mgr, Top, UnsafeLocs
    <3>2. E(m)' = E(m) /\ K(m)' = K(m)
      BY <1>3, <2>2, <3>1
    <3>3. ExecutingIn' = ExecutingIn /\ TasksIn' = TasksIn
      BY <1>2, <2>3, <3>2
    <3> QED
      BY <3>3 DEF Contract!vars
  <2>5. CASE pc'[t] = "run"
    <3>1. t \notin K(m)' /\ t \in E(m)'
      BY <2>1, <2>5 DEF At, HasCurrent, Mgr, Top, UnsafeLocs
    <3>2. \A u \in Threads : u # t => u \notin K(m)
      BY <1>4, <3>1
    <3>3. E(m)' = E(m) \cup {t} /\ K(m)' = {} /\ K(m) = {t}
      BY <1>3, <3>1, <3>2
    <3>4. ExecutingIn' = [ExecutingIn EXCEPT ![m] = @ \cup {t}]
      BY <1>2, <2>3, <3>3
    <3>5. TasksIn' = [TasksIn EXCEPT ![m] = {}]
      BY <1>2, <2>3, <3>3
    <3>6. TasksIn[m] = {t}
      BY <1>2, <3>3
    <3>7. Contract!EndTask(t, m)
      BY <3>4, <3>5, <3>6 DEF Contract!EndTask
    <3> QED
      BY <3>7 DEF Contract!Next
  <2> QED
    BY <2>1, <2>4, <2>5
<1>8. CASE \A m \in Managers : t \notin E(m) /\ t \notin K(m)
  <2>1. CASE \A m \in Managers : t \notin E(m)' /\ t \notin K(m)'
    <3>1. \A m \in Managers : E(m)' = E(m) /\ K(m)' = K(m)
      BY <1>3, <1>8, <2>1
    <3>2. ExecutingIn' = ExecutingIn /\ TasksIn' = TasksIn
      BY <1>2, <3>1
    <3> QED
      BY <3>2 DEF Contract!vars
  <2>2. ASSUME NEW m \in Managers, t \in E(m)' PROVE Contract!Next
    <3>1. \A n \in Managers : t \notin K(n)' /\ (n # m => t \notin E(n)')
      BY <2>2 DEF At, UnsafeLocs
    <3>2. K(m) = {}
      BY <1>4, <1>8, <2>2
    <3>3. /\ \A n \in Managers : K(n)' = K(n)
          /\ \A n \in Managers : n # m => E(n)' = E(n)
          /\ E(m)' = E(m) \cup {t}
      BY <1>3, <1>8, <2>2, <3>1
    <3>4. /\ ExecutingIn' = [ExecutingIn EXCEPT ![m] = @ \cup {t}]
          /\ TasksIn' = TasksIn
          /\ TasksIn[m] = {}
      BY <1>2, <3>2, <3>3
    <3>5. Contract!Resume(t, m)
      BY <3>4 DEF Contract!Resume
    <3> QED
      BY <3>5 DEF Contract!Next
  <2>3. ASSUME NEW m \in Managers, t \in K(m)' PROVE Contract!Next
    <3>1. \A n \in Managers : t \notin E(n)' /\ (n # m => t \notin K(n)')
      BY <2>3 DEF At, UnsafeLocs
    <3>2. K(m) = {} /\ E(m) = {}
      BY <1>4, <1>5, <1>8, <2>3
    <3>3. /\ \A n \in Managers : E(n)' = E(n)
          /\ \A n \in Managers : n # m => K(n)' = K(n)
          /\ K(m)' = {t}
      BY <1>3, <1>8, <2>3, <3>1, <3>2
    <3>4. /\ TasksIn' = [TasksIn EXCEPT ![m] = {t}]
          /\ ExecutingIn' = ExecutingIn
          /\ TasksIn[m] = {} /\ ExecutingIn[m] = {}
      BY <1>2, <3>2, <3>3
    <3>5. Contract!BeginTask(t, m)
      BY <3>4 DEF Contract!BeginTask
    <3> QED
      BY <3>5 DEF Contract!Next
  <2> QED
    BY <2>1, <2>2, <2>3
<1> QED
  BY <1>6, <1>7, <1>8

(* SafepointManager implements its contract: the initial state maps to the *)
(* initial state, and every step to a step of the contract or to none.     *)
THEOREM Refinement == Spec => MeetsContract
<1>1. Init => Contract!Init
  <2> SUFFICES ASSUME Init PROVE Contract!Init
    OBVIOUS
  <2>1. \A t \in Threads : ~HasCurrent(t)
    BY DEF Init, HasCurrent
  <2> QED
    BY <2>1 DEF Contract!Init, ExecutingIn, TasksIn
<1>2. IInv /\ IInv' /\ StopTheWorld' /\ [Next]_vars => [Contract!Next]_(Contract!vars)
  <2> SUFFICES ASSUME IInv, IInv', StopTheWorld', [Next]_vars
               PROVE  [Contract!Next]_(Contract!vars)
    OBVIOUS
  <2>1. ASSUME NEW t \in Threads, Act(t) PROVE [Contract!Next]_(Contract!vars)
    BY <2>1, ContractStep
  <2>2. CASE UNCHANGED vars
    BY <2>2 DEF vars, Contract!vars, ExecutingIn, TasksIn, HasCurrent, Mgr, Top, At
  <2> QED
    BY <2>1, <2>2 DEF Next
<1> QED
  BY <1>1, <1>2, Invariance, StopTheWorldHolds, PTL DEF Spec, MeetsContract, Contract!Spec
=============================================================================
