---------------------------- MODULE MutexContract ----------------------------
(***************************************************************************)
(* What Mutex and Condition promise to the ActionScript programs that use  *)
(* them (core/concurrent.as), without the OS mutex, the monitors, the wait *)
(* records and the signal cycles: a mutex that its owner may lock again, a *)
(* wait that gives up all its levels and takes them back, and workers that *)
(* can be terminated at any time.                                          *)
(***************************************************************************)
EXTENDS Naturals

CONSTANTS Workers, None

VARIABLES
  holder,       \* the worker that owns the mutex
  levels,       \* how many times it has to call unlock
  givenUp,      \* the levels a worker in Condition.wait will have again
  terminated    \* workers that have been told to exit

vars == <<holder, levels, givenUp, terminated>>

Init ==
  /\ holder = None /\ levels = 0
  /\ givenUp = [t \in Workers |-> 0]
  /\ terminated = {}

(* lock or tryLock, by a worker that is not in Condition.wait. *)
Acquire(t) ==
  /\ holder \in {None, t} /\ givenUp[t] = 0
  /\ holder' = t /\ levels' = levels + 1
  /\ UNCHANGED <<givenUp, terminated>>

(* unlock, by the owner. *)
Release(t) ==
  /\ holder = t
  /\ levels' = levels - 1
  /\ holder' = IF levels = 1 THEN None ELSE t
  /\ UNCHANGED <<givenUp, terminated>>

(* Condition.wait frees the mutex, however often it was locked, ... *)
Wait(t) ==
  /\ holder = t
  /\ givenUp' = [givenUp EXCEPT ![t] = levels]
  /\ holder' = None /\ levels' = 0
  /\ UNCHANGED terminated

(* ... and returns to an owner of the same depth. *)
Return(t) ==
  /\ holder = None /\ givenUp[t] > 0
  /\ holder' = t /\ levels' = givenUp[t]
  /\ givenUp' = [givenUp EXCEPT ![t] = 0]
  /\ UNCHANGED terminated

(* A terminated worker leaves Condition.wait without the mutex, or frees   *)
(* the mutex it owns.                                                      *)
Abandon(t) ==
  /\ t \in terminated /\ givenUp[t] > 0
  /\ givenUp' = [givenUp EXCEPT ![t] = 0]
  /\ UNCHANGED <<holder, levels, terminated>>

Exit(t) ==
  /\ t \in terminated /\ holder = t
  /\ holder' = None /\ levels' = 0
  /\ UNCHANGED <<givenUp, terminated>>

(* Worker.terminate; the runtime never takes it back. *)
Terminate(t) ==
  /\ terminated' = terminated \cup {t}
  /\ UNCHANGED <<holder, levels, givenUp>>

Next ==
  \E t \in Workers :
    \/ Acquire(t) \/ Release(t) \/ Wait(t) \/ Return(t)
    \/ Abandon(t) \/ Exit(t) \/ Terminate(t)

Spec == Init /\ [][Next]_vars
=============================================================================
