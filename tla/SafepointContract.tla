-------------------------- MODULE SafepointContract --------------------------
(***************************************************************************)
(* What SafepointManager promises to the code that uses it, without        *)
(* records, statuses, the mutex or the interrupt word: a context has       *)
(* threads that execute its code, and tasks that run while none does.      *)
(***************************************************************************)
CONSTANTS Threads, Managers

VARIABLES
  executing,   \* the threads that execute code of each context
  tasks        \* the threads that run a safepoint task in each context

vars == <<executing, tasks>>

Init ==
  /\ executing = [m \in Managers |-> {}]
  /\ tasks = [m \in Managers |-> {}]

(* enter, or the end of a gate: the thread runs code of the context again. *)
Resume(t, m) ==
  /\ tasks[m] = {}
  /\ executing' = [executing EXCEPT ![m] = @ \cup {t}]
  /\ UNCHANGED tasks

(* leave, or a gate, or a request: the thread has stopped. *)
Pause(t, m) ==
  /\ executing' = [executing EXCEPT ![m] = @ \ {t}]
  /\ UNCHANGED tasks

(* The context has come to a stop and the task of t runs, ... *)
BeginTask(t, m) ==
  /\ executing[m] = {} /\ tasks[m] = {}
  /\ tasks' = [tasks EXCEPT ![m] = {t}]
  /\ UNCHANGED executing

(* ... and returns: t goes on with its own code. *)
EndTask(t, m) ==
  /\ tasks[m] = {t}
  /\ tasks' = [tasks EXCEPT ![m] = {}]
  /\ executing' = [executing EXCEPT ![m] = @ \cup {t}]

Next ==
  \E t \in Threads, m \in Managers :
    Resume(t, m) \/ Pause(t, m) \/ BeginTask(t, m) \/ EndTask(t, m)

Spec == Init /\ [][Next]_vars
=============================================================================
