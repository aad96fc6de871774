------------------------------ MODULE ProdCons ------------------------------
(***************************************************************************)
(* HW9/prodcons.c: the producer and the consumer synchronise by three      *)
(* POSIX semaphores.  EmptySem counts free slots, FullSem items, MutexSem  *)
(* guards the buffer.  The semaphores are glibc's: a wait takes a unit     *)
(* atomically once there is one.                                           *)
(***************************************************************************)
EXTENDS SharedBuffer

VARIABLE sem   \* the values of the semaphores

vars == <<bufferVars, i, at, main, sem>>

Semaphores == {"EmptySem", "FullSem", "MutexSem"}

(* sem_init in main. *)
Init ==
  /\ BufferInit
  /\ sem = [s \in Semaphores |->
              CASE s = "EmptySem" -> MAX_BUF
                [] s = "FullSem"  -> 0
                [] s = "MutexSem" -> 1]

SemWait(p, s, from, to) ==
  /\ at[p] = from
  /\ sem[s] > 0
  /\ sem' = [sem EXCEPT ![s] = @ - 1]
  /\ Move(p, to)
  /\ UNCHANGED <<bufferVars, i, main>>

SemPost(p, s, from, to) ==
  /\ at[p] = from
  /\ sem' = [sem EXCEPT ![s] = @ + 1]
  /\ Move(p, to)
  /\ UNCHANGED <<bufferVars, i, main>>

(* Seeded faults: no MutexSem around the producer's body; no EmptySem; and *)
(* MutexSem taken before EmptySem.                                         *)
ProducerWithoutMutex ==
  \/ i[P] < NLOOPS /\ SemWait(P, "EmptySem", "loop", "access")
  \/ SemPost(P, "FullSem", "leave", "sleep")
ProducerWithoutEmpty ==
  \/ i[P] < NLOOPS /\ SemWait(P, "MutexSem", "loop", "access")
  \/ SemPost(P, "MutexSem", "leave", "signal")
  \/ SemPost(P, "FullSem", "signal", "sleep")
ProducerMutexFirst ==
  \/ i[P] < NLOOPS /\ SemWait(P, "MutexSem", "loop", "enter")
  \/ SemWait(P, "EmptySem", "enter", "access")
  \/ SemPost(P, "MutexSem", "leave", "signal")
  \/ SemPost(P, "FullSem", "signal", "sleep")

(* The order in which the Producer uses the semaphores around the body.    *)
Producer ==
  \/ i[P] < NLOOPS /\ SemWait(P, "EmptySem", "loop", "enter")
  \/ SemWait(P, "MutexSem", "enter", "access")
  \/ SemPost(P, "MutexSem", "leave", "signal")
  \/ SemPost(P, "FullSem", "signal", "sleep")

Consumer ==
  \/ i[C] < NLOOPS /\ SemWait(C, "FullSem", "loop", "enter")
  \/ SemWait(C, "MutexSem", "enter", "access")
  \/ SemPost(C, "MutexSem", "leave", "signal")
  \/ SemPost(C, "EmptySem", "signal", "sleep")

Thread(p) ==
  \/ p = P /\ Producer
  \/ p = C /\ Consumer
  \/ Body(p, "leave") /\ UNCHANGED <<main, sem>>

Terminated == main = "exited" /\ UNCHANGED vars

Next == (\E p \in Workers : Thread(p)) \/ (Main /\ UNCHANGED sem) \/ Terminated

Spec == Init /\ [][Next]_vars

(* A thread that can run does run: nobody has to be granted a semaphore    *)
(* ahead of a thread that also waits for it.                               *)
Fairness == WF_vars(Main /\ UNCHANGED sem) /\ \A p \in Workers : WF_vars(Thread(p))

FairSpec == Spec /\ Fairness

----------------------------------------------------------------------------
TypeOK == BufferTypeOK /\ sem \in [Semaphores -> Nat]

(* The labels at which a thread holds MutexSem, and at which it has taken  *)
(* the unit its round starts with.                                         *)
Inside  == BodyLabels \cup {"leave"}
Claimed == {"enter", "signal", "sleep"} \cup Inside

B(p, labels) == IF at[p] \in labels THEN 1 ELSE 0

(* Where the loop stands: it is entered with a round left, left with none. *)
LoopInv ==
  \A p \in Workers :
    /\ at[p] \in Claimed => i[p] < NLOOPS
    /\ at[p] = "done" => i[p] = NLOOPS

(* Every unit of every semaphore is accounted for: free slots, items and   *)
(* the mutex are neither duplicated nor lost between the threads.          *)
SemaphoreInv ==
  /\ sem["MutexSem"] + B(P, Inside) + B(C, Inside) = 1
  /\ sem["EmptySem"] = MAX_BUF - Past(P, Claimed) + Past(C, {"sleep"})
  /\ sem["FullSem"] = Past(P, {"sleep"}) - Past(C, Claimed)

MainInv ==
  /\ main # "join_producer" => at[P] = "done"
  /\ main = "exited" => at[C] = "done"

IInv ==
  TypeOK /\ LoopInv /\ SemaphoreInv /\ CounterInv /\ IndexInv /\ CapacityInv /\ MainInv

=============================================================================
