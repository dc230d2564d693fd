-------------------------- MODULE AggregateProofs --------------------------
(***************************************************************************)
(* Proofs about Aggregate for any finite set of workers, any number of     *)
(* scripts and any number of terminations.                                 *)
(***************************************************************************)
EXTENDS Aggregate, FiniteSetTheorems, TLAPS

Active == {i \in Isolates : state[i] \notin Inactive \cup {NONE}}

(* Types, without the bound on the count. *)
Typed ==
  /\ state \in [Isolates -> 0..9]
  /\ intr \in [Isolates -> BOOLEAN]
  /\ core \in [Isolates -> {"null", "live", "deleted"}]
  /\ word \in [Isolates -> BOOLEAN]
  /\ inMap \subseteq Isolates
  /\ parent \in [Isolates -> Isolates \cup {None}]
  /\ threads \subseteq Workers /\ toJoin \subseteq Workers
  /\ count \in Int
  /\ inShutdown \in BOOLEAN
  /\ toStart \in [Isolates -> Workers \cup {None}]
  /\ blobs \in [Isolates -> 0..Blobs]
  /\ terminates \in 0..MaxTerminates
  /\ pc \in [Isolates -> Locs]

(* A script is left wherever the isolate has not run its last one. *)
BlobsLeft ==
  \A i \in Isolates :
    pc[i] \in {"none", "run", "begin", "doRun", "setup", "toRunning", "check",
               "script"} => blobs[i] >= 1

(* An isolate that was not started has no thread. *)
NewUnstarted ==
  \A i \in Isolates :
    state[i] \in {NONE, NEW_} => At(i, "none") /\ i \notin threads

(* What is terminated is interrupted, so shutdown passes over it. *)
TerminatedInterrupted ==
  \A i \in Isolates : state[i] = TERMINATED => intr[i]

(* Between internalStart's checks and the spawn only shutdown touches the  *)
(* worker, and no other isolate starts it.                                 *)
StartOnce ==
  \A i \in Isolates : toStart[i] # None =>
    /\ At(toStart[i], "none") /\ toStart[i] \notin threads
    /\ state[toStart[i]] \in {NEW_, TERMINATED}
    /\ parent[toStart[i]] \in {i, None}
    /\ \A j \in Isolates : toStart[j] = toStart[i] => j = i

IInv ==
  Typed /\ NeverOvercounted /\ BlobsLeft /\ NewUnstarted
        /\ TerminatedInterrupted /\ StartOnce /\ FailedNeverRuns

(* The active isolates are finitely many, hence counted by a number. *)
LEMMA ActiveFinite ==
  /\ IsFiniteSet(Isolates) /\ Cardinality(Isolates) \in Nat
  /\ IsFiniteSet(Active) /\ Cardinality(Active) \in Nat
  /\ Cardinality(Active) <= Cardinality(Isolates)
<1>1. IsFiniteSet(Isolates)
  BY AggregateAssumption, FS_AddElement DEF Isolates
<1>2. Active \subseteq Isolates
  BY DEF Active
<1> QED
  BY <1>1, <1>2, FS_Subset, FS_CardinalityType

(* stateTransition counts out at least what leaves the active set. *)
LEMMA TransitionCounted ==
  ASSUME Typed, NeverOvercounted, NEW i \in Isolates, NEW to \in 1..9,
         stateTransition(i, to)
  PROVE  NeverOvercounted'
<1>0. count \in Int /\ count <= Cardinality(Active)
      /\ (count' <= Cardinality(Active') => NeverOvercounted')
  BY DEF Typed, NeverOvercounted, Active
<1>a. IsFiniteSet(Active') /\ Cardinality(Active') \in Nat
  <2>1. Active' \subseteq Isolates
    BY DEF Active
  <2> QED
    BY <2>1, ActiveFinite, FS_Subset, FS_CardinalityType
<1>b. state' = [state EXCEPT ![i] = to] /\ state \in [Isolates -> 0..9]
  BY DEF stateTransition, Typed
<1>1. CASE to \in Inactive
  <2>1. count' = count - 1
    BY <1>1 DEF stateTransition
  <2>2. Active \ {i} \subseteq Active'
    BY <1>b DEF Active
  <2>3. Cardinality(Active \ {i}) <= Cardinality(Active')
    BY <2>2, <1>a, FS_Subset
  <2>4. Cardinality(Active \ {i}) = IF i \in Active THEN Cardinality(Active) - 1
                                                   ELSE Cardinality(Active)
    BY ActiveFinite, FS_RemoveElement
  <2>5. Cardinality(Active \ {i}) \in Nat
    BY ActiveFinite, FS_RemoveElement, FS_CardinalityType
  <2> QED
    BY <1>0, <1>a, <2>1, <2>3, <2>4, <2>5, ActiveFinite
<1>2. CASE to \notin Inactive
  <2>1. count' = count
    BY <1>2 DEF stateTransition
  <2>2. Active \subseteq Active'
    BY <1>b, <1>2 DEF Active, NONE
  <2>3. Cardinality(Active) <= Cardinality(Active')
    BY <2>2, <1>a, FS_Subset
  <2> QED
    BY <1>0, <1>a, <2>1, <2>3, ActiveFinite
<1> QED
  BY <1>1, <1>2

(* A step that keeps the states and the count keeps the property. *)
LEMMA SameCounted ==
  ASSUME NeverOvercounted, UNCHANGED <<state, count>>
  PROVE  NeverOvercounted'
BY DEF NeverOvercounted

(* newIsolate counts in the isolate it makes active. *)
LEMMA NewCounted ==
  ASSUME Typed, NeverOvercounted, NEW i \in Isolates, NEW w \in Workers,
         NewIsolate(i, w)
  PROVE  NeverOvercounted'
<1>0. count \in Int /\ count <= Cardinality(Active)
      /\ (count' <= Cardinality(Active') => NeverOvercounted')
  BY DEF Typed, NeverOvercounted, Active
<1>1. Active' = Active \cup {w} /\ w \notin Active
  BY DEF NewIsolate, Active, Typed, Isolates, NONE, NEW_, TERMINATED, FAILED,
         EXCEPTION, Inactive
<1>2. count' = count + 1
  BY DEF NewIsolate
<1>3. Cardinality(Active \cup {w}) = IF w \in Active THEN Cardinality(Active)
                                                 ELSE Cardinality(Active) + 1
  BY ActiveFinite, FS_AddElement
<1> QED
  BY <1>0, <1>1, <1>2, <1>3, ActiveFinite

(* requestAggregateExit counts out each isolate that never started. *)
LEMMA ExitCounted ==
  ASSUME Typed, NeverOvercounted, requestAggregateExit
  PROVE  NeverOvercounted'
<1> DEFINE hit   == {i \in inMap : ~intr[i]}
           never == {i \in hit : state[i] <= CANSTART}
           live  == {i \in hit : state[i] > CANSTART /\ state[i] < FAILED}
<1>0. count \in Int /\ count <= Cardinality(Active)
      /\ (count' <= Cardinality(Active') => NeverOvercounted')
  BY DEF Typed, NeverOvercounted, Active
<1>a. IsFiniteSet(Active') /\ Cardinality(Active') \in Nat
  <2>1. Active' \subseteq Isolates
    BY DEF Active
  <2> QED
    BY <2>1, ActiveFinite, FS_Subset, FS_CardinalityType
<1>1. never \subseteq Isolates
  BY DEF Typed
<1>2. IsFiniteSet(never) /\ Cardinality(never) \in Nat
  BY <1>1, ActiveFinite, FS_Subset, FS_CardinalityType
<1>3. count' = count - Cardinality(never)
  BY DEF requestAggregateExit
<1>4. Active \ never \subseteq Active'
  BY DEF requestAggregateExit, Active, Typed, NONE, TERMINATED, FAILED,
         EXCEPTION, FINISHING, Inactive
<1>5. Cardinality(Active \ never) <= Cardinality(Active')
  BY <1>4, <1>a, FS_Subset
<1>6. /\ Cardinality(Active \cap never) <= Cardinality(never)
      /\ Cardinality(Active \cap never) \in Nat
  BY <1>2, FS_Intersection, FS_CardinalityType
<1>7. Cardinality(Active \ never) = Cardinality(Active) - Cardinality(Active \cap never)
  BY ActiveFinite, FS_Difference
<1> HIDE DEF never
<1> QED
  BY <1>0, <1>a, <1>2, <1>3, <1>5, <1>6, <1>7, ActiveFinite

(* Every step keeps the count within the active isolates. *)
LEMMA CountedStep ==
  ASSUME Typed, NeverOvercounted, Next PROVE NeverOvercounted'
<1>1. ASSUME NEW i \in Isolates, Step(i) PROVE NeverOvercounted'
  <2>1. CASE \/ RunTest(i) \/ Initialize(i) \/ SetupQuery(i)
             \/ CheckRunning(i) \/ DeleteCore(i)
    BY <2>1, SameCounted
    DEF RunTest, Initialize, SetupQuery, CheckRunning, DeleteCore, isolateVars
  <2>2. CASE RunTerminated(i)
    BY <2>2, TransitionCounted DEF RunTerminated, TERMINATED
  <2>3. CASE RunStarting(i)
    BY <2>3, TransitionCounted DEF RunStarting, STARTING
  <2>4. CASE SetupRunning(i)
    BY <2>4, TransitionCounted DEF SetupRunning, RUNNING
  <2>5. CASE SpawnThread(i) \/ SpawnFail(i)
    <3>1. toStart[i] \in Isolates
      BY <2>5 DEF SpawnThread, SpawnFail, Typed, Isolates
    <3> QED
      BY <2>5, <3>1, TransitionCounted
      DEF SpawnThread, SpawnFail, CANSTART, FAILED
  <2>6. CASE AfterGCDeletion(i)
    BY <2>6, TransitionCounted, SameCounted
    DEF AfterGCDeletion, TERMINATED, isolateVars
  <2> QED
    BY <1>1, <2>1, <2>2, <2>3, <2>4, <2>5, <2>6 DEF Step
<1>2. ASSUME NEW i \in Isolates, Script(i) PROVE NeverOvercounted'
  <2>1. CASE ScriptReturn(i) \/ ScriptCatch(i)
    BY <2>1, SameCounted DEF ScriptReturn, ScriptCatch, isolateVars
  <2>2. CASE ScriptThrow(i)
    BY <2>2, TransitionCounted DEF ScriptThrow, EXCEPTION
  <2>3. ASSUME NEW w \in Workers, NewIsolate(i, w) PROVE NeverOvercounted'
    BY <2>3, NewCounted
  <2>4. ASSUME NEW w \in Workers, StartQuery(i, w) PROVE NeverOvercounted'
    BY <2>4, SameCounted DEF StartQuery, isolateVars
  <2>5. ASSUME NEW w \in Workers, Terminate(i, w) PROVE NeverOvercounted'
    <3>1. InterruptIsolate(w) /\ w \in Isolates
      BY <2>5 DEF Terminate, Isolates
    <3> QED
      BY <3>1, TransitionCounted, SameCounted
      DEF InterruptIsolate, FINISHING, isolateVars
  <2> QED
    BY <1>2, <2>1, <2>2, <2>3, <2>4, <2>5 DEF Script
<1>3. CASE MainStep
  BY <1>3, ExitCounted, SameCounted
  DEF MainStep, WaitUntilNoIsolates, Cleanup, isolateVars
<1> QED
  BY <1>1, <1>2, <1>3 DEF Next

(* stateTransition keeps the types of what it changes. *)
LEMMA TransitionTyped ==
  ASSUME Typed, NEW i \in Isolates, NEW to \in 0..9, stateTransition(i, to)
  PROVE  /\ state' \in [Isolates -> 0..9] /\ intr' \in [Isolates -> BOOLEAN]
         /\ count' \in Int
BY DEF Typed, stateTransition

(* So does the end of a script. *)
LEMMA ScriptTyped ==
  ASSUME Typed, BlobsLeft, NEW i \in Isolates, At(i, "script"), AfterScript(i)
  PROVE  blobs' \in [Isolates -> 0..Blobs] /\ pc' \in [Isolates -> Locs]
<1>1. blobs[i] \in 1..Blobs /\ Blobs \in Nat
  BY AggregateAssumption DEF Typed, BlobsLeft, At
<1> QED
  BY <1>1 DEF Typed, AfterScript, Goto, Locs

(* So does whatever the script made of an interrupt. *)
LEMMA WordTyped ==
  ASSUME Typed, NEW i \in Isolates, MayHandleInterrupt(i)
  PROVE  word' \in [Isolates -> BOOLEAN]
BY DEF Typed, MayHandleInterrupt

(* Every step keeps the types. *)
LEMMA TypedStep ==
  ASSUME Typed, BlobsLeft, Next PROVE Typed'
<1> USE AggregateAssumption
    DEF Typed, BlobsLeft, At, Goto, Locs, isolateVars, tableVars, Isolates,
        NONE, NEW_, CANSTART, STARTING, RUNNING, FINISHING, TERMINATED, FAILED,
        EXCEPTION, Inactive
<1>1. ASSUME NEW i \in Isolates, RunTest(i) PROVE Typed'
  BY <1>1 DEF RunTest
<1>2. ASSUME NEW i \in Isolates, RunTerminated(i) PROVE Typed'
  BY <1>2 DEF RunTerminated, stateTransition
<1>3. ASSUME NEW i \in Isolates, RunStarting(i) PROVE Typed'
  BY <1>3 DEF RunStarting, stateTransition
<1>4. ASSUME NEW i \in Isolates, Initialize(i) PROVE Typed'
  BY <1>4 DEF Initialize
<1>5. ASSUME NEW i \in Isolates, SetupQuery(i) PROVE Typed'
  BY <1>5 DEF SetupQuery
<1>6. ASSUME NEW i \in Isolates, SetupRunning(i) PROVE Typed'
  BY <1>6 DEF SetupRunning, stateTransition
<1>7. ASSUME NEW i \in Isolates, CheckRunning(i) PROVE Typed'
  BY <1>7 DEF CheckRunning
<1>8. ASSUME NEW i \in Isolates, SpawnThread(i) PROVE Typed'
  BY <1>8 DEF SpawnThread, stateTransition
<1>9. ASSUME NEW i \in Isolates, SpawnFail(i) PROVE Typed'
  BY <1>9 DEF SpawnFail, stateTransition
<1>10. ASSUME NEW i \in Isolates, DeleteCore(i) PROVE Typed'
  BY <1>10 DEF DeleteCore
<1>11. ASSUME NEW i \in Isolates, AfterGCDeletion(i) PROVE Typed'
  <2>1. /\ state' \in [Isolates -> 0..9] /\ intr' \in [Isolates -> BOOLEAN]
        /\ count' \in Int
    BY <1>11, TransitionTyped DEF AfterGCDeletion
  <2> QED
    BY <1>11, <2>1 DEF AfterGCDeletion
<1>12. ASSUME NEW i \in Isolates, ScriptReturn(i) PROVE Typed'
  <2>1. /\ blobs' \in [Isolates -> 0..Blobs] /\ pc' \in [Isolates -> Locs]
        /\ word' \in [Isolates -> BOOLEAN]
    BY <1>12, ScriptTyped, WordTyped DEF ScriptReturn
  <2> QED
    BY <1>12, <2>1 DEF ScriptReturn
<1>13. ASSUME NEW i \in Isolates, ScriptThrow(i) PROVE Typed'
  <2>1. /\ blobs' \in [Isolates -> 0..Blobs] /\ pc' \in [Isolates -> Locs]
        /\ word' \in [Isolates -> BOOLEAN]
    BY <1>13, ScriptTyped, WordTyped DEF ScriptThrow
  <2>2. /\ state' \in [Isolates -> 0..9] /\ intr' \in [Isolates -> BOOLEAN]
        /\ count' \in Int
    BY <1>13, TransitionTyped DEF ScriptThrow
  <2> QED
    BY <1>13, <2>1, <2>2 DEF ScriptThrow
<1>14. ASSUME NEW i \in Isolates, ScriptCatch(i) PROVE Typed'
  BY <1>14 DEF ScriptCatch
<1>15. ASSUME NEW i \in Isolates, NEW w \in Workers, NewIsolate(i, w)
     PROVE  Typed'
  BY <1>15 DEF NewIsolate
<1>16. ASSUME NEW i \in Isolates, NEW w \in Workers, StartQuery(i, w)
     PROVE  Typed'
  BY <1>16 DEF StartQuery
<1>17. ASSUME NEW i \in Isolates, NEW w \in Workers, Terminate(i, w)
     PROVE  Typed'
  <2>1. InterruptIsolate(w) /\ w \in Isolates
    BY <1>17 DEF Terminate
  <2>2. /\ state' \in [Isolates -> 0..9] /\ intr' \in [Isolates -> BOOLEAN]
        /\ count' \in Int
    BY <2>1, TransitionTyped DEF InterruptIsolate
  <2>3. blobs' \in [Isolates -> 0..Blobs] /\ pc' \in [Isolates -> Locs]
    BY <1>17, ScriptTyped DEF Terminate
  <2>4. word' \in [Isolates -> BOOLEAN]
    BY <1>17 DEF Terminate, RaisedOn
  <2>5. inMap' \subseteq Isolates /\ parent' \in [Isolates -> Isolates \cup {None}]
    BY <1>17 DEF Terminate
  <2>6. terminates' \in 0..MaxTerminates
    BY <1>17 DEF Terminate
  <2>7. UNCHANGED <<core, threads, inShutdown, toStart, toJoin>>
    BY <1>17 DEF Terminate
  <2> QED
    BY <2>2, <2>3, <2>4, <2>5, <2>6, <2>7
<1>18. CASE requestAggregateExit
  BY <1>18 DEF requestAggregateExit, RaisedOn
<1>19. CASE WaitUntilNoIsolates
  BY <1>19 DEF WaitUntilNoIsolates
<1>20. CASE Cleanup
  BY <1>20 DEF Cleanup
<1> QED
  BY <1>1, <1>2, <1>3, <1>4, <1>5, <1>6, <1>7, <1>8, <1>9, <1>10,
     <1>11, <1>12, <1>13, <1>14, <1>15, <1>16, <1>17, <1>18, <1>19, <1>20
  DEF Next, MainStep, Step, Script

(* evalCodeBlobs stops at the last script. *)
LEMMA BlobsStep ==
  ASSUME Typed, BlobsLeft, StartOnce, Next PROVE BlobsLeft'
<1> USE AggregateAssumption
    DEF Typed, BlobsLeft, At, Goto, Locs, isolateVars, tableVars, Isolates, StartOnce
<1>1. ASSUME NEW i \in Isolates, RunTest(i) PROVE BlobsLeft'
  BY <1>1 DEF RunTest
<1>2. ASSUME NEW i \in Isolates, RunTerminated(i) PROVE BlobsLeft'
  BY <1>2 DEF RunTerminated, stateTransition
<1>3. ASSUME NEW i \in Isolates, RunStarting(i) PROVE BlobsLeft'
  BY <1>3 DEF RunStarting, stateTransition
<1>4. ASSUME NEW i \in Isolates, Initialize(i) PROVE BlobsLeft'
  BY <1>4 DEF Initialize
<1>5. ASSUME NEW i \in Isolates, SetupQuery(i) PROVE BlobsLeft'
  BY <1>5 DEF SetupQuery
<1>6. ASSUME NEW i \in Isolates, SetupRunning(i) PROVE BlobsLeft'
  BY <1>6 DEF SetupRunning, stateTransition
<1>7. ASSUME NEW i \in Isolates, CheckRunning(i) PROVE BlobsLeft'
  BY <1>7 DEF CheckRunning
<1>8. ASSUME NEW i \in Isolates, SpawnThread(i) PROVE BlobsLeft'
  BY <1>8 DEF SpawnThread, stateTransition
<1>9. ASSUME NEW i \in Isolates, SpawnFail(i) PROVE BlobsLeft'
  BY <1>9 DEF SpawnFail, stateTransition
<1>10. ASSUME NEW i \in Isolates, DeleteCore(i) PROVE BlobsLeft'
  BY <1>10 DEF DeleteCore
<1>11. ASSUME NEW i \in Isolates, AfterGCDeletion(i) PROVE BlobsLeft'
  BY <1>11 DEF AfterGCDeletion, stateTransition
<1>12. ASSUME NEW i \in Isolates, ScriptReturn(i) PROVE BlobsLeft'
  BY <1>12 DEF ScriptReturn, AfterScript, MayHandleInterrupt
<1>13. ASSUME NEW i \in Isolates, ScriptThrow(i) PROVE BlobsLeft'
  BY <1>13 DEF ScriptThrow, AfterScript, MayHandleInterrupt, stateTransition
<1>14. ASSUME NEW i \in Isolates, ScriptCatch(i) PROVE BlobsLeft'
  BY <1>14 DEF ScriptCatch
<1>15. ASSUME NEW i \in Isolates, NEW w \in Workers, NewIsolate(i, w)
     PROVE  BlobsLeft'
  BY <1>15 DEF NewIsolate
<1>16. ASSUME NEW i \in Isolates, NEW w \in Workers, StartQuery(i, w)
     PROVE  BlobsLeft'
  BY <1>16 DEF StartQuery
<1>17. ASSUME NEW i \in Isolates, NEW w \in Workers, Terminate(i, w)
     PROVE  BlobsLeft'
  BY <1>17 DEF Terminate, AfterScript, InterruptIsolate, RaisedOn, stateTransition
<1>18. CASE requestAggregateExit
  BY <1>18 DEF requestAggregateExit, RaisedOn
<1>19. CASE WaitUntilNoIsolates
  BY <1>19 DEF WaitUntilNoIsolates
<1>20. CASE Cleanup
  BY <1>20 DEF Cleanup
<1> QED
  BY <1>1, <1>2, <1>3, <1>4, <1>5, <1>6, <1>7, <1>8, <1>9, <1>10,
     <1>11, <1>12, <1>13, <1>14, <1>15, <1>16, <1>17, <1>18, <1>19, <1>20
  DEF Next, MainStep, Step, Script

(* A thread is created only with the transition to CANSTART. *)
LEMMA NewStep ==
  ASSUME Typed, NewUnstarted, StartOnce, Next PROVE NewUnstarted'
<1> USE AggregateAssumption
    DEF Typed, NewUnstarted, StartOnce, At, Goto, Locs, isolateVars, tableVars,
        Isolates, NONE, NEW_, CANSTART, STARTING, RUNNING, FINISHING, TERMINATED, FAILED,
        EXCEPTION, Inactive
<1>1. ASSUME NEW i \in Isolates, RunTest(i) PROVE NewUnstarted'
  BY <1>1 DEF RunTest
<1>2. ASSUME NEW i \in Isolates, RunTerminated(i) PROVE NewUnstarted'
  BY <1>2 DEF RunTerminated, stateTransition
<1>3. ASSUME NEW i \in Isolates, RunStarting(i) PROVE NewUnstarted'
  BY <1>3 DEF RunStarting, stateTransition
<1>4. ASSUME NEW i \in Isolates, Initialize(i) PROVE NewUnstarted'
  BY <1>4 DEF Initialize
<1>5. ASSUME NEW i \in Isolates, SetupQuery(i) PROVE NewUnstarted'
  BY <1>5 DEF SetupQuery
<1>6. ASSUME NEW i \in Isolates, SetupRunning(i) PROVE NewUnstarted'
  BY <1>6 DEF SetupRunning, stateTransition
<1>7. ASSUME NEW i \in Isolates, CheckRunning(i) PROVE NewUnstarted'
  BY <1>7 DEF CheckRunning
<1>8. ASSUME NEW i \in Isolates, SpawnThread(i) PROVE NewUnstarted'
  BY <1>8 DEF SpawnThread, stateTransition
<1>9. ASSUME NEW i \in Isolates, SpawnFail(i) PROVE NewUnstarted'
  BY <1>9 DEF SpawnFail, stateTransition
<1>10. ASSUME NEW i \in Isolates, DeleteCore(i) PROVE NewUnstarted'
  BY <1>10 DEF DeleteCore
<1>11. ASSUME NEW i \in Isolates, AfterGCDeletion(i) PROVE NewUnstarted'
  BY <1>11 DEF AfterGCDeletion, stateTransition
<1>12. ASSUME NEW i \in Isolates, ScriptReturn(i) PROVE NewUnstarted'
  BY <1>12 DEF ScriptReturn, AfterScript, MayHandleInterrupt
<1>13. ASSUME NEW i \in Isolates, ScriptThrow(i) PROVE NewUnstarted'
  BY <1>13 DEF ScriptThrow, AfterScript, MayHandleInterrupt, stateTransition
<1>14. ASSUME NEW i \in Isolates, ScriptCatch(i) PROVE NewUnstarted'
  BY <1>14 DEF ScriptCatch
<1>15. ASSUME NEW i \in Isolates, NEW w \in Workers, NewIsolate(i, w)
     PROVE  NewUnstarted'
  BY <1>15 DEF NewIsolate
<1>16. ASSUME NEW i \in Isolates, NEW w \in Workers, StartQuery(i, w)
     PROVE  NewUnstarted'
  BY <1>16 DEF StartQuery
<1>17. ASSUME NEW i \in Isolates, NEW w \in Workers, Terminate(i, w)
     PROVE  NewUnstarted'
  BY <1>17 DEF Terminate, AfterScript, InterruptIsolate, RaisedOn, stateTransition
<1>18. CASE requestAggregateExit
  BY <1>18 DEF requestAggregateExit, RaisedOn
<1>19. CASE WaitUntilNoIsolates
  BY <1>19 DEF WaitUntilNoIsolates
<1>20. CASE Cleanup
  BY <1>20 DEF Cleanup
<1> QED
  BY <1>1, <1>2, <1>3, <1>4, <1>5, <1>6, <1>7, <1>8, <1>9, <1>10,
     <1>11, <1>12, <1>13, <1>14, <1>15, <1>16, <1>17, <1>18, <1>19, <1>20
  DEF Next, MainStep, Step, Script

(* Nobody else starts the worker that internalStart has checked. *)
LEMMA StartStep ==
  ASSUME Typed, NewUnstarted, TerminatedInterrupted, StartOnce, Next PROVE StartOnce'
<1> USE AggregateAssumption
    DEF Typed, NewUnstarted, StartOnce, At, Goto, Locs, isolateVars, tableVars,
        Isolates, NONE, NEW_, CANSTART, STARTING, RUNNING, FINISHING, TERMINATED, FAILED,
        EXCEPTION, Inactive
<1>1. ASSUME NEW i \in Isolates, RunTest(i) PROVE StartOnce'
  BY <1>1 DEF RunTest
<1>2. ASSUME NEW i \in Isolates, RunTerminated(i) PROVE StartOnce'
  BY <1>2 DEF RunTerminated, stateTransition
<1>3. ASSUME NEW i \in Isolates, RunStarting(i) PROVE StartOnce'
  BY <1>3 DEF RunStarting, stateTransition
<1>4. ASSUME NEW i \in Isolates, Initialize(i) PROVE StartOnce'
  BY <1>4 DEF Initialize
<1>5. ASSUME NEW i \in Isolates, SetupQuery(i) PROVE StartOnce'
  BY <1>5 DEF SetupQuery
<1>6. ASSUME NEW i \in Isolates, SetupRunning(i) PROVE StartOnce'
  BY <1>6 DEF SetupRunning, stateTransition
<1>7. ASSUME NEW i \in Isolates, CheckRunning(i) PROVE StartOnce'
  BY <1>7 DEF CheckRunning
<1>8. ASSUME NEW i \in Isolates, SpawnThread(i) PROVE StartOnce'
  BY <1>8 DEF SpawnThread, stateTransition
<1>9. ASSUME NEW i \in Isolates, SpawnFail(i) PROVE StartOnce'
  BY <1>9 DEF SpawnFail, stateTransition
<1>10. ASSUME NEW i \in Isolates, DeleteCore(i) PROVE StartOnce'
  BY <1>10 DEF DeleteCore
<1>11. ASSUME NEW i \in Isolates, AfterGCDeletion(i) PROVE StartOnce'
  BY <1>11 DEF AfterGCDeletion, stateTransition
<1>12. ASSUME NEW i \in Isolates, ScriptReturn(i) PROVE StartOnce'
  BY <1>12 DEF ScriptReturn, AfterScript, MayHandleInterrupt
<1>13. ASSUME NEW i \in Isolates, ScriptThrow(i) PROVE StartOnce'
  BY <1>13 DEF ScriptThrow, AfterScript, MayHandleInterrupt, stateTransition
<1>14. ASSUME NEW i \in Isolates, ScriptCatch(i) PROVE StartOnce'
  BY <1>14 DEF ScriptCatch
<1>15. ASSUME NEW i \in Isolates, NEW w \in Workers, NewIsolate(i, w)
     PROVE  StartOnce'
  BY <1>15 DEF NewIsolate
<1>16. ASSUME NEW i \in Isolates, NEW w \in Workers, StartQuery(i, w)
     PROVE  StartOnce'
  BY <1>16 DEF StartQuery
<1>17. ASSUME NEW i \in Isolates, NEW w \in Workers, Terminate(i, w)
     PROVE  StartOnce'
  BY <1>17 DEF Terminate, AfterScript, InterruptIsolate, RaisedOn, stateTransition
<1>18. CASE requestAggregateExit
  <2>1. UNCHANGED <<toStart, threads, parent>>
    BY <1>18 DEF requestAggregateExit
  <2>2. ASSUME NEW j \in Isolates, At(j, "none") PROVE pc'[j] = "none"
    BY <1>18, <2>2 DEF requestAggregateExit
  <2>3. ASSUME NEW j \in Isolates, state[j] \in {NEW_, TERMINATED}
        PROVE  state'[j] \in {NEW_, TERMINATED}
    BY <1>18, <2>3 DEF requestAggregateExit, TerminatedInterrupted
  <2> QED
    BY <2>1, <2>2, <2>3
<1>19. CASE WaitUntilNoIsolates
  BY <1>19 DEF WaitUntilNoIsolates
<1>20. CASE Cleanup
  BY <1>20 DEF Cleanup
<1> QED
  BY <1>1, <1>2, <1>3, <1>4, <1>5, <1>6, <1>7, <1>8, <1>9, <1>10,
     <1>11, <1>12, <1>13, <1>14, <1>15, <1>16, <1>17, <1>18, <1>19, <1>20
  DEF Next, MainStep, Step, Script

(* An isolate that failed is not started again. *)
LEMMA FailedStep ==
  ASSUME Typed, StartOnce, FailedNeverRuns, Next PROVE FailedNeverRuns'
<1> USE AggregateAssumption
    DEF Typed, FailedNeverRuns, StartOnce, At, Goto, Locs, isolateVars, tableVars,
        Isolates, NONE, NEW_, CANSTART, STARTING, RUNNING, FINISHING, TERMINATED, FAILED,
        EXCEPTION, Inactive
<1>1. ASSUME NEW i \in Isolates, RunTest(i) PROVE FailedNeverRuns'
  BY <1>1 DEF RunTest
<1>2. ASSUME NEW i \in Isolates, RunTerminated(i) PROVE FailedNeverRuns'
  BY <1>2 DEF RunTerminated, stateTransition
<1>3. ASSUME NEW i \in Isolates, RunStarting(i) PROVE FailedNeverRuns'
  BY <1>3 DEF RunStarting, stateTransition
<1>4. ASSUME NEW i \in Isolates, Initialize(i) PROVE FailedNeverRuns'
  BY <1>4 DEF Initialize
<1>5. ASSUME NEW i \in Isolates, SetupQuery(i) PROVE FailedNeverRuns'
  BY <1>5 DEF SetupQuery
<1>6. ASSUME NEW i \in Isolates, SetupRunning(i) PROVE FailedNeverRuns'
  BY <1>6 DEF SetupRunning, stateTransition
<1>7. ASSUME NEW i \in Isolates, CheckRunning(i) PROVE FailedNeverRuns'
  BY <1>7 DEF CheckRunning
<1>8. ASSUME NEW i \in Isolates, SpawnThread(i) PROVE FailedNeverRuns'
  BY <1>8 DEF SpawnThread, stateTransition
<1>9. ASSUME NEW i \in Isolates, SpawnFail(i) PROVE FailedNeverRuns'
  BY <1>9 DEF SpawnFail, stateTransition
<1>10. ASSUME NEW i \in Isolates, DeleteCore(i) PROVE FailedNeverRuns'
  BY <1>10 DEF DeleteCore
<1>11. ASSUME NEW i \in Isolates, AfterGCDeletion(i) PROVE FailedNeverRuns'
  BY <1>11 DEF AfterGCDeletion, stateTransition
<1>12. ASSUME NEW i \in Isolates, ScriptReturn(i) PROVE FailedNeverRuns'
  BY <1>12 DEF ScriptReturn, AfterScript, MayHandleInterrupt
<1>13. ASSUME NEW i \in Isolates, ScriptThrow(i) PROVE FailedNeverRuns'
  BY <1>13 DEF ScriptThrow, AfterScript, MayHandleInterrupt, stateTransition
<1>14. ASSUME NEW i \in Isolates, ScriptCatch(i) PROVE FailedNeverRuns'
  BY <1>14 DEF ScriptCatch
<1>15. ASSUME NEW i \in Isolates, NEW w \in Workers, NewIsolate(i, w)
     PROVE  FailedNeverRuns'
  BY <1>15 DEF NewIsolate
<1>16. ASSUME NEW i \in Isolates, NEW w \in Workers, StartQuery(i, w)
     PROVE  FailedNeverRuns'
  BY <1>16 DEF StartQuery
<1>17. ASSUME NEW i \in Isolates, NEW w \in Workers, Terminate(i, w)
     PROVE  FailedNeverRuns'
  BY <1>17 DEF Terminate, AfterScript, InterruptIsolate, RaisedOn, stateTransition
<1>18. CASE requestAggregateExit
  BY <1>18 DEF requestAggregateExit, RaisedOn
<1>19. CASE WaitUntilNoIsolates
  BY <1>19 DEF WaitUntilNoIsolates
<1>20. CASE Cleanup
  BY <1>20 DEF Cleanup
<1> QED
  BY <1>1, <1>2, <1>3, <1>4, <1>5, <1>6, <1>7, <1>8, <1>9, <1>10,
     <1>11, <1>12, <1>13, <1>14, <1>15, <1>16, <1>17, <1>18, <1>19, <1>20
  DEF Next, MainStep, Step, Script

(* stateTransition interrupts what it terminates. *)
LEMMA TerminatedStep ==
  ASSUME Typed, TerminatedInterrupted, Next PROVE TerminatedInterrupted'
<1> USE AggregateAssumption
    DEF Typed, TerminatedInterrupted, isolateVars, tableVars, Isolates,
        NONE, NEW_, CANSTART, STARTING, RUNNING, FINISHING, TERMINATED, FAILED,
        EXCEPTION, Inactive
<1>1. ASSUME NEW i \in Isolates, RunTest(i) PROVE TerminatedInterrupted'
  BY <1>1 DEF RunTest
<1>2. ASSUME NEW i \in Isolates, RunTerminated(i) PROVE TerminatedInterrupted'
  BY <1>2 DEF RunTerminated, stateTransition
<1>3. ASSUME NEW i \in Isolates, RunStarting(i) PROVE TerminatedInterrupted'
  BY <1>3 DEF RunStarting, stateTransition
<1>4. ASSUME NEW i \in Isolates, Initialize(i) PROVE TerminatedInterrupted'
  BY <1>4 DEF Initialize
<1>5. ASSUME NEW i \in Isolates, SetupQuery(i) PROVE TerminatedInterrupted'
  BY <1>5 DEF SetupQuery
<1>6. ASSUME NEW i \in Isolates, SetupRunning(i) PROVE TerminatedInterrupted'
  BY <1>6 DEF SetupRunning, stateTransition
<1>7. ASSUME NEW i \in Isolates, CheckRunning(i) PROVE TerminatedInterrupted'
  BY <1>7 DEF CheckRunning
<1>8. ASSUME NEW i \in Isolates, SpawnThread(i) PROVE TerminatedInterrupted'
  BY <1>8 DEF SpawnThread, stateTransition
<1>9. ASSUME NEW i \in Isolates, SpawnFail(i) PROVE TerminatedInterrupted'
  BY <1>9 DEF SpawnFail, stateTransition
<1>10. ASSUME NEW i \in Isolates, DeleteCore(i) PROVE TerminatedInterrupted'
  BY <1>10 DEF DeleteCore
<1>11. ASSUME NEW i \in Isolates, AfterGCDeletion(i) PROVE TerminatedInterrupted'
  <2>1. CASE state[i] \in {EXCEPTION, FAILED}
    BY <1>11, <2>1 DEF AfterGCDeletion
  <2>2. CASE state[i] \notin {EXCEPTION, FAILED}
    <3>1. stateTransition(i, TERMINATED)
      BY <1>11, <2>2 DEF AfterGCDeletion
    <3> QED
      BY <3>1 DEF stateTransition
  <2> QED
    BY <2>1, <2>2
<1>12. ASSUME NEW i \in Isolates, ScriptReturn(i) PROVE TerminatedInterrupted'
  BY <1>12 DEF ScriptReturn, AfterScript, MayHandleInterrupt
<1>13. ASSUME NEW i \in Isolates, ScriptThrow(i) PROVE TerminatedInterrupted'
  BY <1>13 DEF ScriptThrow, AfterScript, MayHandleInterrupt, stateTransition
<1>14. ASSUME NEW i \in Isolates, ScriptCatch(i) PROVE TerminatedInterrupted'
  BY <1>14 DEF ScriptCatch
<1>15. ASSUME NEW i \in Isolates, NEW w \in Workers, NewIsolate(i, w)
     PROVE  TerminatedInterrupted'
  BY <1>15 DEF NewIsolate
<1>16. ASSUME NEW i \in Isolates, NEW w \in Workers, StartQuery(i, w)
     PROVE  TerminatedInterrupted'
  BY <1>16 DEF StartQuery
<1>17. ASSUME NEW i \in Isolates, NEW w \in Workers, Terminate(i, w)
     PROVE  TerminatedInterrupted'
  BY <1>17 DEF Terminate, AfterScript, InterruptIsolate, RaisedOn, stateTransition
<1>18. CASE requestAggregateExit
  BY <1>18 DEF requestAggregateExit, RaisedOn
<1>19. CASE WaitUntilNoIsolates
  BY <1>19 DEF WaitUntilNoIsolates
<1>20. CASE Cleanup
  BY <1>20 DEF Cleanup
<1> QED
  BY <1>1, <1>2, <1>3, <1>4, <1>5, <1>6, <1>7, <1>8, <1>9, <1>10,
     <1>11, <1>12, <1>13, <1>14, <1>15, <1>16, <1>17, <1>18, <1>19, <1>20
  DEF Next, MainStep, Step, Script

(* The initial state satisfies the inductive invariant. *)
LEMMA InitInv == Init => IInv
<1> SUFFICES ASSUME Init PROVE IInv
  OBVIOUS
<1> USE AggregateAssumption
    DEF Init, Isolates, NONE, NEW_, CANSTART, TERMINATED, FAILED, EXCEPTION
<1>1. Typed
  <2>1. state \in [Isolates -> 0..9] /\ blobs \in [Isolates -> 0..Blobs]
        /\ terminates \in 0..MaxTerminates
    OBVIOUS
  <2>2. intr \in [Isolates -> BOOLEAN] /\ word \in [Isolates -> BOOLEAN]
    OBVIOUS
  <2>3. pc \in [Isolates -> Locs]
    BY DEF Locs
  <2>4. /\ core \in [Isolates -> {"null", "live", "deleted"}]
        /\ parent \in [Isolates -> Isolates \cup {None}]
        /\ toStart \in [Isolates -> Workers \cup {None}]
    OBVIOUS
  <2>5. inMap \subseteq Isolates /\ threads = {} /\ toJoin = {} /\ count \in Int
    OBVIOUS
  <2>6. inShutdown \in BOOLEAN
    OBVIOUS
  <2> HIDE DEF Init
  <2> QED
    BY <2>1, <2>2, <2>3, <2>4, <2>5, <2>6 DEF Typed
<1>2. Active = {Primordial} /\ count = 1
  BY DEF Active, Inactive
<1>3. NeverOvercounted
  BY <1>2, FS_Singleton DEF NeverOvercounted, Active
<1>4. BlobsLeft /\ NewUnstarted
  BY DEF BlobsLeft, NewUnstarted, At
<1>5. TerminatedInterrupted /\ StartOnce /\ FailedNeverRuns
  BY DEF TerminatedInterrupted, StartOnce, FailedNeverRuns, At
<1> QED
  BY <1>1, <1>3, <1>4, <1>5 DEF IInv

(* Every step keeps the inductive invariant. *)
LEMMA NextInv == IInv /\ [Next]_vars => IInv'
<1>1. ASSUME IInv, Next PROVE IInv'
  BY <1>1, TypedStep, CountedStep, BlobsStep, NewStep,
     TerminatedStep, StartStep, FailedStep
  DEF IInv
<1>2. ASSUME IInv, UNCHANGED vars PROVE IInv'
  BY <1>2
  DEF IInv, vars, Typed, NeverOvercounted, BlobsLeft, NewUnstarted,
      TerminatedInterrupted, StartOnce, FailedNeverRuns, At
<1> QED
  BY <1>1, <1>2

(* Types, the count and the start protocol hold for ever. *)
THEOREM Invariance == Spec => []IInv
BY InitInv, NextInv, PTL DEF Spec

(* TypeOK: what the isolates and tables of an aggregate hold; evalCodeBlobs *)
(* runs no script too many, and the count stays below the isolates.         *)
THEOREM TypeCorrect == Spec => []TypeOK
<1>1. IInv => TypeOK
  <2>1. IInv => count <= Cardinality(Active) /\ count \in Int
    BY DEF IInv, NeverOvercounted, Active, Typed
  <2> QED
    BY <2>1, ActiveFinite DEF IInv, Typed, TypeOK
<1> QED
  BY <1>1, Invariance, PTL

(* m_activeIsolateCount never exceeds the number of active isolates, for   *)
(* any number of workers: stateTransition counts out all that leave.       *)
THEOREM Counted == Spec => []NeverOvercounted
<1>1. IInv => NeverOvercounted
  BY DEF IInv
<1> QED
  BY <1>1, Invariance, PTL

(* spawnIsolateThread: an isolate whose thread could not be created never  *)
(* runs afterwards, for any number of workers.                             *)
THEOREM FailedStopped == Spec => []FailedNeverRuns
<1>1. IInv => FailedNeverRuns
  BY DEF IInv
<1> QED
  BY <1>1, Invariance, PTL
=============================================================================
