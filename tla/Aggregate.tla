----------------------------- MODULE Aggregate -----------------------------
(***************************************************************************)
(* The life of the isolates (ActionScript workers) of one Aggregate of the *)
(* shell: core/Isolate.cpp, the doRun methods of shell/avmshell.cpp, and   *)
(* WorkerObject's start and terminate (core/Isolate-inlines.h).            *)
(*                                                                         *)
(* A step under m_globals.m_lock is atomic.  What the code does between    *)
(* two critical sections, or without the lock, is a step of its own.       *)
(* Errors that end the process (a failing setup, an exception of the       *)
(* primordial script) are not modelled.                                    *)
(***************************************************************************)
EXTENDS Integers, FiniteSets

CONSTANTS
  Primordial,     \* the isolate of the main thread
  Workers,        \* isolates that scripts may create
  Blobs,          \* m_code.length: scripts a worker evaluates in a row
  MaxTerminates,  \* bound on the calls of Worker.terminate
  None            \* no isolate

ASSUME AggregateAssumption ==
  /\ IsFiniteSet(Workers) /\ Primordial \notin Workers
  /\ Blobs \in Nat \ {0} /\ MaxTerminates \in Nat
  /\ None \notin Workers \cup {Primordial}

Isolates == Workers \cup {Primordial}

(* Isolate::State; the code compares its values as numbers. *)
NONE == 0
NEW_ == 1          \* Isolate::NEW; NEW is a TLA+ keyword
CANSTART == 2
STARTING == 3
RUNNING == 4
FINISHING == 5
TERMINATED == 6
FAILED == 7
EXCEPTION == 9
Inactive == {TERMINATED, FAILED, EXCEPTION}

VARIABLES
  state,       \* m_state
  intr,        \* Isolate::m_interrupted
  core,        \* m_core: "null", "live" or "deleted" (a dangling pointer)
  word,        \* TRUE: AvmCore::interrupted of that core is ExternalInterrupt
  inMap,       \* isolates in m_isolateMap
  parent,      \* m_parentDesc
  threads,     \* isolates in m_activeIsolateThreadMap
  count,       \* m_activeIsolateCount
  inShutdown,  \* m_inShutdown
  toStart,     \* the worker a script has checked and is about to start
  blobs,       \* scripts a worker has still to evaluate
  toJoin,      \* threads cleanup() has yet to join
  terminates,  \* number of calls of Worker.terminate so far
  pc           \* what the thread of each isolate is executing

isolateVars == <<state, intr, count>>
tableVars   == <<inMap, parent, threads, inShutdown, terminates>>
vars == <<state, intr, core, word, inMap, parent, threads, count, inShutdown,
          toStart, blobs, toJoin, terminates, pc>>

(***************************************************************************)
(* Program locations.                                                      *)
(*   none      no thread          run       Isolate::run, about to test    *)
(*   die       m_interrupted was seen set   begin   it was seen clear      *)
(*   doRun     before initialize  setup     before the query in initToplevel*)
(*   toRunning STARTING was seen  check     before doRun's queryState      *)
(*   script    running scripts    shutdown  before requestAggregateExit    *)
(*   delete    before the core is deleted   gc  before afterGCDeletion     *)
(*   exited    the native thread has ended                                 *)
(*   waiting   waitUntilNoIsolates          joining  cleanup()   done      *)
(***************************************************************************)
Locs == {"none", "run", "die", "begin", "doRun", "setup", "toRunning",
         "check", "script", "shutdown", "delete", "gc", "exited",
         "waiting", "joining", "done"}

TypeOK ==
  /\ state \in [Isolates -> 0..9]
  /\ intr \in [Isolates -> BOOLEAN]
  /\ core \in [Isolates -> {"null", "live", "deleted"}]
  /\ word \in [Isolates -> BOOLEAN]
  /\ inMap \subseteq Isolates
  /\ parent \in [Isolates -> Isolates \cup {None}]
  /\ threads \subseteq Workers /\ toJoin \subseteq Workers
  /\ count \in Int /\ count <= Cardinality(Isolates)
  /\ inShutdown \in BOOLEAN
  /\ toStart \in [Isolates -> Workers \cup {None}]
  /\ blobs \in [Isolates -> 0..Blobs]
  /\ terminates \in 0..MaxTerminates
  /\ pc \in [Isolates -> Locs]

At(i, l)   == pc[i] = l
Goto(i, l) == pc' = [pc EXCEPT ![i] = l]

(* main has created the primordial isolate and calls its run(). *)
Init ==
  /\ state = [i \in Isolates |-> IF i = Primordial THEN CANSTART ELSE NONE]
  /\ intr = [i \in Isolates |-> FALSE]
  /\ core = [i \in Isolates |-> "null"]
  /\ word = [i \in Isolates |-> FALSE]
  /\ inMap = {Primordial}
  /\ parent = [i \in Isolates |-> None]
  /\ threads = {} /\ toJoin = {}
  /\ count = 1
  /\ inShutdown = FALSE
  /\ toStart = [i \in Isolates |-> None]
  /\ blobs = [i \in Isolates |-> Blobs]
  /\ terminates = 0
  /\ pc = [i \in Isolates |-> IF i = Primordial THEN "run" ELSE "none"]

(* Mutation of stateTransition: FAILED does not make the isolate inactive. *)
stateTransitionFailedActive(i, to) ==
  /\ state' = [state EXCEPT ![i] = to]
  /\ intr' = [intr EXCEPT
                ![i] = @ \/ to \in {FINISHING, TERMINATED, EXCEPTION}]
  /\ count' = IF to \in Inactive \ {FAILED} THEN count - 1 ELSE count

(* Aggregate::stateTransition. *)
stateTransition(i, to) ==
  /\ state' = [state EXCEPT ![i] = to]
  /\ intr' = [intr EXCEPT
                ![i] = @ \/ to \in {FINISHING, TERMINATED, EXCEPTION}]
  /\ count' = IF to \in Inactive THEN count - 1 ELSE count

-----------------------------------------------------------------------------
(***************************************************************************)
(* Isolate::run and doRun.                                                 *)
(***************************************************************************)

(* m_interrupted is read without a lock. *)
RunTest(i) ==
  /\ At(i, "run")
  /\ Goto(i, IF intr[i] THEN "die" ELSE "begin")
  /\ UNCHANGED <<isolateVars, core, word, tableVars, toStart, blobs, toJoin>>

RunTerminated(i) ==
  /\ At(i, "die")
  /\ stateTransition(i, TERMINATED)
  /\ Goto(i, IF i = Primordial THEN "waiting" ELSE "exited")
  /\ UNCHANGED <<core, word, tableVars, toStart, blobs, toJoin>>

RunStarting(i) ==
  /\ At(i, "begin")
  /\ stateTransition(i, STARTING)
  /\ Goto(i, "doRun")
  /\ UNCHANGED <<core, word, tableVars, toStart, blobs, toJoin>>

(* Aggregate::initialize sets m_core. *)
Initialize(i) ==
  /\ At(i, "doRun")
  /\ core' = [core EXCEPT ![i] = "live"]
  /\ Goto(i, "setup")
  /\ UNCHANGED <<isolateVars, word, tableVars, toStart, blobs, toJoin>>

(* queryState while the builtins are initialised ... *)
SetupQuery(i) ==
  /\ At(i, "setup")
  /\ Goto(i, IF state[i] = STARTING THEN "toRunning" ELSE "check")
  /\ UNCHANGED <<isolateVars, core, word, tableVars, toStart, blobs, toJoin>>

(* ... and the transition, in a second critical section. *)
SetupRunning(i) ==
  /\ At(i, "toRunning")
  /\ stateTransition(i, RUNNING)
  /\ Goto(i, "check")
  /\ UNCHANGED <<core, word, tableVars, toStart, blobs, toJoin>>

(* A worker runs its scripts only if it is RUNNING; the primordial isolate *)
(* does not ask.                                                           *)
CheckRunning(i) ==
  /\ At(i, "check")
  /\ Goto(i, IF i = Primordial \/ state[i] = RUNNING THEN "script"
                                                     ELSE "delete")
  /\ UNCHANGED <<isolateVars, core, word, tableVars, toStart, blobs, toJoin>>

(* Mutation of AfterScript: one script too many. *)
AfterScriptOnceMore(i) ==
  /\ blobs' = [blobs EXCEPT ![i] = @ - 1]
  /\ Goto(i, IF i = Primordial THEN "shutdown"
             ELSE IF blobs[i] >= 1 THEN "script" ELSE "delete")

(* Where evalCodeBlobs goes after a script: the next one, or doRun's end. *)
AfterScript(i) ==
  /\ blobs' = [blobs EXCEPT ![i] = @ - 1]
  /\ Goto(i, IF i = Primordial THEN "shutdown"
             ELSE IF blobs[i] > 1 THEN "script" ELSE "delete")

(* Handling an interrupt clears the word; a script may also not meet it.   *)
MayHandleInterrupt(i) == word' \in {word, [word EXCEPT ![i] = FALSE]}

(* A script returns, or ends in an exception with EXIT_EXCEPTION. *)
ScriptReturn(i) ==
  /\ At(i, "script") /\ toStart[i] = None
  /\ MayHandleInterrupt(i)
  /\ AfterScript(i)
  /\ UNCHANGED <<isolateVars, core, tableVars, toStart, toJoin>>

(* A worker's script ends in an ordinary exception that nobody caught. *)
ScriptThrow(i) ==
  /\ At(i, "script") /\ toStart[i] = None /\ i # Primordial
  /\ stateTransition(i, EXCEPTION)
  /\ MayHandleInterrupt(i)
  /\ AfterScript(i)
  /\ UNCHANGED <<core, tableVars, toStart, toJoin>>

(* ShellCore::interrupt throws an error the script may catch: it goes on. *)
ScriptCatch(i) ==
  /\ At(i, "script") /\ toStart[i] = None /\ word[i]
  /\ word' = [word EXCEPT ![i] = FALSE]
  /\ UNCHANGED <<isolateVars, core, tableVars, toStart, blobs, toJoin, pc>>

(* beforeCoreDeletion and delete core; m_core keeps its value. *)
DeleteCore(i) ==
  /\ At(i, "delete")
  /\ core' = [core EXCEPT ![i] = "deleted"]
  /\ word' = [word EXCEPT ![i] = FALSE]
  /\ Goto(i, "gc")
  /\ UNCHANGED <<isolateVars, tableVars, toStart, blobs, toJoin>>

(* Aggregate::afterGCDeletion; the thread of a worker ends. *)
AfterGCDeletion(i) ==
  /\ At(i, "gc")
  /\ IF state[i] \in {EXCEPTION, FAILED}
       THEN UNCHANGED isolateVars
       ELSE stateTransition(i, TERMINATED)
  /\ core' = [core EXCEPT ![i] = "null"]
  /\ Goto(i, IF i = Primordial THEN "waiting" ELSE "exited")
  /\ UNCHANGED <<word, tableVars, toStart, blobs, toJoin>>

-----------------------------------------------------------------------------
(***************************************************************************)
(* What a running script does to other isolates.                           *)
(***************************************************************************)

(* WorkerDomain.createWorker: Aggregate::newIsolate, refused in shutdown. *)
NewIsolate(i, w) ==
  /\ At(i, "script") /\ toStart[i] = None
  /\ state[w] = NONE /\ ~inShutdown
  /\ state' = [state EXCEPT ![w] = NEW_]
  /\ inMap' = inMap \cup {w}
  /\ parent' = [parent EXCEPT ![w] = i]
  /\ count' = count + 1
  /\ UNCHANGED <<intr, core, word, threads, inShutdown, terminates, toStart,
                 blobs, toJoin, pc>>

(* Worker.start, internalStart: the checks ... *)
StartQuery(i, w) ==
  /\ At(i, "script") /\ toStart[i] = None
  /\ state[w] = NEW_ /\ parent[w] = i
  /\ toStart' = [toStart EXCEPT ![i] = w]
  /\ UNCHANGED <<isolateVars, core, word, tableVars, blobs, toJoin, pc>>

(* ... and spawnIsolateThread, in a second critical section. *)
SpawnThread(i) ==
  LET w == toStart[i]
  IN  /\ At(i, "script") /\ w # None
      /\ stateTransition(w, CANSTART)
      /\ threads' = threads \cup {w}
      /\ Goto(w, "run")
      /\ toStart' = [toStart EXCEPT ![i] = None]
      /\ UNCHANGED <<core, word, inMap, parent, inShutdown, terminates,
                     blobs, toJoin>>

(* Mutation of SpawnFail: the thread is in the table before it is started. *)
SpawnFailInserted(i) ==
  LET w == toStart[i]
  IN  /\ At(i, "script") /\ w # None
      /\ stateTransition(w, FAILED)
      /\ threads' = threads \cup {w}
      /\ toStart' = [toStart EXCEPT ![i] = None]
      /\ UNCHANGED <<core, word, inMap, parent, inShutdown, terminates, blobs,
                     toJoin, pc>>

(* The native thread cannot be created. *)
SpawnFail(i) ==
  LET w == toStart[i]
  IN  /\ At(i, "script") /\ w # None
      /\ stateTransition(w, FAILED)
      /\ toStart' = [toStart EXCEPT ![i] = None]
      /\ UNCHANGED <<core, word, tableVars, blobs, toJoin, pc>>

(* core->raiseInterrupt, wherever m_core is not NULL. *)
RaisedOn(S) == [j \in Isolates |-> word[j] \/ (j \in S /\ core[j] # "null")]

(* requestIsolateExit: interrupt() makes a started isolate FINISHING, ... *)
InterruptIsolate(w) ==
  IF state[w] > NEW_ /\ state[w] <= RUNNING /\ ~intr[w]
    THEN stateTransition(w, FINISHING)
    ELSE UNCHANGED isolateVars

(* ... one that was started leaves the table and its children are orphans,  *)
(* and its core, if it is still running, is interrupted.  A script that    *)
(* terminates its own worker ends in an exception instead.                 *)
Terminate(i, w) ==
  /\ At(i, "script") /\ toStart[i] = None
  /\ terminates < MaxTerminates /\ w \in inMap
  /\ InterruptIsolate(w)
  /\ IF state'[w] > CANSTART
       THEN /\ inMap' = inMap \ {w}
            /\ parent' = [j \in Isolates |->
                            IF j \in inMap /\ parent[j] = w THEN None
                                                           ELSE parent[j]]
       ELSE UNCHANGED <<inMap, parent>>
  /\ terminates' = terminates + 1
  /\ LET live == state'[w] > CANSTART /\ state'[w] <= FINISHING
     IN  /\ word' = IF live /\ i # w THEN RaisedOn({w}) ELSE word
         /\ IF live /\ i = w THEN AfterScript(i) ELSE UNCHANGED <<blobs, pc>>
  /\ UNCHANGED <<core, threads, inShutdown, toStart, toJoin>>

(***************************************************************************)
(* Shutdown, by the primordial isolate on the main thread.                 *)
(***************************************************************************)

(* Mutation of requestAggregateExit: isolates not yet started are skipped. *)
requestAggregateExitStartedOnly ==
  LET live == {i \in inMap : ~intr[i] /\ state[i] > CANSTART
                                      /\ state[i] < FAILED}
  IN  /\ At(Primordial, "shutdown")
      /\ inShutdown' = TRUE
      /\ state' = [i \in Isolates |->
                     IF i \in live THEN FINISHING ELSE state[i]]
      /\ intr' = [i \in Isolates |-> intr[i] \/ i \in live]
      /\ word' = RaisedOn(live)
      /\ Goto(Primordial, "delete")
      /\ UNCHANGED <<count, core, inMap, parent, threads, terminates, toStart,
                     blobs, toJoin>>

(* Isolates that never started are TERMINATED, the others interrupted. *)
requestAggregateExit ==
  LET hit   == {i \in inMap : ~intr[i]}
      never == {i \in hit : state[i] <= CANSTART}
      live  == {i \in hit : state[i] > CANSTART /\ state[i] < FAILED}
  IN  /\ At(Primordial, "shutdown")
      /\ inShutdown' = TRUE
      /\ state' = [i \in Isolates |-> IF i \in never THEN TERMINATED
                                      ELSE IF i \in live THEN FINISHING
                                      ELSE state[i]]
      /\ intr' = [i \in Isolates |-> intr[i] \/ i \in never \cup live]
      /\ count' = count - Cardinality(never)
      /\ word' = RaisedOn(live)
      /\ Goto(Primordial, "delete")
      /\ UNCHANGED <<core, inMap, parent, threads, terminates, toStart, blobs,
                     toJoin>>

(* waitUntilNoIsolates: every decrement of the count notifies the waiter. *)
WaitUntilNoIsolates ==
  /\ At(Primordial, "waiting") /\ count <= 0
  /\ inMap' = {}
  /\ toJoin' = threads
  /\ Goto(Primordial, "joining")
  /\ UNCHANGED <<isolateVars, core, word, parent, threads, inShutdown,
                 terminates, toStart, blobs>>

(* ActiveIsolateThreadMap::cleanup, without the lock: join every thread    *)
(* that was in the table.                                                  *)
Cleanup ==
  /\ At(Primordial, "joining")
  /\ \A w \in toJoin : At(w, "exited")
  /\ threads' = {}
  /\ toJoin' = {}
  /\ Goto(Primordial, "done")
  /\ UNCHANGED <<isolateVars, core, word, inMap, parent, inShutdown,
                 terminates, toStart, blobs>>

-----------------------------------------------------------------------------
(* Steps a thread takes whatever its script is. *)
Step(i) ==
  \/ RunTest(i) \/ RunTerminated(i) \/ RunStarting(i)
  \/ Initialize(i) \/ SetupQuery(i) \/ SetupRunning(i) \/ CheckRunning(i)
  \/ SpawnThread(i) \/ SpawnFail(i)
  \/ DeleteCore(i) \/ AfterGCDeletion(i)

MainStep == requestAggregateExit \/ WaitUntilNoIsolates \/ Cleanup

(* What scripts do is up to them. *)
Script(i) ==
  \/ ScriptReturn(i) \/ ScriptThrow(i) \/ ScriptCatch(i)
  \/ \E w \in Workers : NewIsolate(i, w) \/ StartQuery(i, w) \/ Terminate(i, w)

Next == MainStep \/ \E i \in Isolates : Step(i) \/ Script(i)

Spec == Init /\ [][Next]_vars

(* Threads are scheduled, and every script ends sooner or later. *)
EndingSpec ==
  /\ Spec
  /\ WF_vars(MainStep)
  /\ \A i \in Isolates : WF_vars(Step(i)) /\ WF_vars(ScriptReturn(i))

-----------------------------------------------------------------------------
(***************************************************************************)
(* Properties.                                                             *)
(***************************************************************************)

(* stateTransition, newIsolate: m_activeIsolateCount never counts more     *)
(* isolates than are active, so waitUntilNoIsolates is not held up by one  *)
(* that is gone.                                                           *)
NeverOvercounted ==
  count <= Cardinality({i \in Isolates : state[i] \notin Inactive \cup {NONE}})

(* spawnIsolateThread: an isolate whose thread could not be created never  *)
(* runs, and is not in the table of threads.                               *)
FailedNeverRuns ==
  \A i \in Isolates : state[i] = FAILED => At(i, "none") /\ i \notin threads

(* requestAggregateExit: once all isolates were told to exit, the main     *)
(* thread gets past waitUntilNoIsolates and cleanup.                       *)
ShutdownCompletes == At(Primordial, "shutdown") ~> At(Primordial, "done")

(* requestIsolateExit, requestAggregateExit: an interrupt is raised only   *)
(* on a core that exists.                                                  *)
RaisedOnLiveCore ==
  [][\A i \in Isolates : ~word[i] /\ word'[i] => core[i] = "live"]_vars

(* requestAggregateExit: a worker that comes to its scripts after the pass *)
(* over all isolates finds its core interrupted.                           *)
ShutdownInterruptsAll ==
  [][\A w \in Workers :
       inShutdown /\ At(w, "check") /\ pc'[w] = "script" => word[w]]_vars

(* After waitUntilNoIsolates no thread of the aggregate is left. *)
DoneIsQuiet ==
  At(Primordial, "done") => \A w \in Workers : pc[w] \in {"none", "exited"}
=============================================================================
