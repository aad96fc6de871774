----------------------------- MODULE Semaphore -----------------------------
(***************************************************************************)
(* What a counting semaphore promises its callers, whatever is inside it.  *)
(* A thread calls one of sem_wait, sem_trywait, sem_post and sem_getvalue  *)
(* on a semaphore; at one instant between the call and the return the      *)
(* operation takes effect and its result is fixed.  HW9/semlib2.c is shown *)
(* to implement this specification (module Semlib2).                       *)
(***************************************************************************)
EXTENDS Integers

CONSTANTS
  Sems,       \* the semaphores
  Threads,    \* the threads that use them
  InitValue   \* the value each semaphore is created with

VARIABLES
  value,      \* the value of each semaphore
  phase,      \* the operation of each thread that has yet to take effect
  arg,        \* the semaphore a thread's operation is on
  ret         \* the result of a thread's operation, 0 until it is known

vars == <<value, phase, arg, ret>>

Ops == {"wait", "trywait", "post", "getvalue"}

Init ==
  /\ value = InitValue
  /\ phase = [t \in Threads |-> "idle"]
  /\ arg \in [Threads -> Sems]
  /\ ret = [t \in Threads |-> 0]

Call(t, op, s) ==
  /\ phase[t] = "idle"
  /\ phase' = [phase EXCEPT ![t] = op]
  /\ arg' = [arg EXCEPT ![t] = s]
  /\ ret' = [ret EXCEPT ![t] = 0]
  /\ UNCHANGED value

(* The operation of t takes effect: its semaphore moves by delta, it answers r. *)
Effect(t, op, delta, r) ==
  /\ phase[t] = op
  /\ value' = [value EXCEPT ![arg[t]] = @ + delta]
  /\ phase' = [phase EXCEPT ![t] = "idle"]
  /\ ret' = [ret EXCEPT ![t] = r]
  /\ UNCHANGED arg

Take(t)     == value[arg[t]] > 0 /\ Effect(t, "wait", -1, 0)
TryTake(t)  == value[arg[t]] > 0 /\ Effect(t, "trywait", -1, 0)
TryFail(t)  == value[arg[t]] = 0 /\ Effect(t, "trywait", 0, -1)
Give(t)     == Effect(t, "post", 1, 0)
GetValue(t) == Effect(t, "getvalue", 0, value[arg[t]])

Next ==
  \E t \in Threads :
    \/ \E op \in Ops, s \in Sems : Call(t, op, s)
    \/ Take(t)
    \/ TryTake(t)
    \/ TryFail(t)
    \/ Give(t)
    \/ GetValue(t)

Spec == Init /\ [][Next]_vars

=============================================================================
