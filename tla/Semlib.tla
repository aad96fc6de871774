------------------------------- MODULE Semlib -------------------------------
(***************************************************************************)
(* HW9/semlib.c: semaphores of System V, each in a set of its own, shared  *)
(* by processes.  A call of the library is one system call, so it is one   *)
(* step.  semWait and semPost are made with SEM_UNDO: the kernel keeps for *)
(* each process the sum of what it did to a semaphore, and takes that back *)
(* when the process ends, one semaphore after the other.                   *)
(***************************************************************************)
EXTENDS Integers

CONSTANTS Processes, Semaphores

VARIABLES
  value,    \* the value of each semaphore, or NoSem
  adjust    \* what ending a process will add to each semaphore

NoSem == -1

SemlibInit ==
  /\ value = [s \in Semaphores |-> NoSem]
  /\ adjust = [p \in Processes |-> [s \in Semaphores |-> 0]]

(* semget with IPC_CREAT on the keys: a new semaphore has the value 0.     *)
semInit(keys) ==
  /\ value' = [s \in Semaphores |-> IF s \in keys /\ value[s] = NoSem THEN 0 ELSE value[s]]
  /\ UNCHANGED adjust

(* SETVAL and IPC_RMID forget the adjustments of every process.            *)
Forget(s) == adjust' = [p \in Processes |-> [adjust[p] EXCEPT ![s] = 0]]

semInitValue(s, val) ==
  /\ value' = [value EXCEPT ![s] = val]
  /\ Forget(s)

Add(p, s, n) ==
  /\ value' = [value EXCEPT ![s] = @ + n]
  /\ adjust' = [adjust EXCEPT ![p][s] = @ - n]

(* Seeded faults: sem_flg without SEM_UNDO. *)
semWaitForGood(p, s) ==
  value[s] > 0 /\ value' = [value EXCEPT ![s] = @ - 1] /\ UNCHANGED adjust
semPostForGood(p, s) ==
  value' = [value EXCEPT ![s] = @ + 1] /\ UNCHANGED adjust

semWait(p, s) == value[s] > 0 /\ Add(p, s, -1)

semPost(p, s) == Add(p, s, 1)

semDestroy(s) ==
  /\ value' = [value EXCEPT ![s] = NoSem]
  /\ Forget(s)

(* The end of process p as s feels it.  The kernel stops at 0.             *)
Undo(p, s) ==
  /\ adjust[p][s] # 0
  /\ value' = [value EXCEPT ![s] = IF @ + adjust[p][s] < 0 THEN 0 ELSE @ + adjust[p][s]]
  /\ adjust' = [adjust EXCEPT ![p][s] = 0]

SemlibTypeOK ==
  /\ value \in [Semaphores -> Nat \cup {NoSem}]
  /\ adjust \in [Processes -> [Semaphores -> Int]]

=============================================================================
