----------------------------- MODULE ProdConsM -----------------------------
(***************************************************************************)
(* HW9/prodcons_m.c: the producer and the consumer synchronise by a mutex  *)
(* and two condition variables, and wait on the counter itself.            *)
(* pthread_cond_wait may return without a signal, and a woken thread has   *)
(* to compete for the mutex again before it retests.                       *)
(***************************************************************************)
EXTENDS SharedBuffer

CONSTANT Free   \* the owner of Mutex when nobody holds it

ASSUME FreeAssumption == Free \notin Workers

VARIABLE owner  \* the thread that holds Mutex, or Free

vars == <<bufferVars, i, at, main, owner>>

Init == BufferInit /\ owner = Free

Lock(p, from, to) ==
  /\ at[p] = from
  /\ owner = Free
  /\ owner' = p
  /\ Move(p, to)
  /\ UNCHANGED <<bufferVars, i, main>>

Unlock(p) ==
  /\ at[p] = "leave"
  /\ owner' = Free
  /\ Move(p, "sleep")
  /\ UNCHANGED <<bufferVars, i, main>>

(* The test of the while loop around pthread_cond_wait; blocked is the     *)
(* condition under which the thread has to wait.                           *)
Test(p, blocked) ==
  /\ at[p] = "enter"
  /\ IF blocked
     THEN owner' = Free /\ Move(p, "asleep")
     ELSE UNCHANGED owner /\ Move(p, "access")
  /\ UNCHANGED <<bufferVars, i, main>>

(* pthread_cond_signal wakes q if it sleeps, and is lost if it does not.   *)
Signal(p, q) ==
  /\ at[p] = "signal"
  /\ at' = [at EXCEPT ![p] = "leave", ![q] = IF @ = "asleep" THEN "relock" ELSE @]
  /\ UNCHANGED <<bufferVars, i, main, owner>>

SpuriousWakeup(p) ==
  /\ at[p] = "asleep"
  /\ Move(p, "relock")
  /\ UNCHANGED <<bufferVars, i, main, owner>>

(* Seeded faults: the test is an if, so a woken thread does not repeat it; *)
(* the consumer signals NotEmpty instead of NotFull.                       *)
ProducerTestsOnce ==
  \/ i[P] < NLOOPS /\ Lock(P, "loop", "enter")
  \/ Lock(P, "relock", "access")
  \/ Test(P, counter = MAX_BUF)
  \/ Signal(P, C)
  \/ Unlock(P)
ConsumerTestsOnce ==
  \/ i[C] < NLOOPS /\ Lock(C, "loop", "enter")
  \/ Lock(C, "relock", "access")
  \/ Test(C, counter = 0)
  \/ Signal(C, P)
  \/ Unlock(C)
ConsumerSignalsNotEmpty ==
  \/ i[C] < NLOOPS /\ Lock(C, "loop", "enter")
  \/ Lock(C, "relock", "enter")
  \/ Test(C, counter = 0)
  \/ Signal(C, C)
  \/ Unlock(C)

Producer ==
  \/ i[P] < NLOOPS /\ Lock(P, "loop", "enter")
  \/ Lock(P, "relock", "enter")
  \/ Test(P, counter = MAX_BUF)
  \/ Signal(P, C)
  \/ Unlock(P)

Consumer ==
  \/ i[C] < NLOOPS /\ Lock(C, "loop", "enter")
  \/ Lock(C, "relock", "enter")
  \/ Test(C, counter = 0)
  \/ Signal(C, P)
  \/ Unlock(C)

Thread(p) ==
  \/ p = P /\ Producer
  \/ p = C /\ Consumer
  \/ Body(p, "signal") /\ UNCHANGED <<main, owner>>

Terminated == main = "exited" /\ UNCHANGED vars

Next ==
  \/ \E p \in Workers : Thread(p) \/ SpuriousWakeup(p)
  \/ Main /\ UNCHANGED owner
  \/ Terminated

Spec == Init /\ [][Next]_vars

(* A thread that can run does run, and a mutex that is released again and  *)
(* again is granted in the end.  No spurious wakeup has to happen.         *)
Fairness == WF_vars(Main /\ UNCHANGED owner) /\ \A p \in Workers : SF_vars(Thread(p))

FairSpec == Spec /\ Fairness

----------------------------------------------------------------------------
TypeOK == BufferTypeOK /\ owner \in Workers \cup {Free}

(* The labels at which a thread holds Mutex. *)
Inside == BodyLabels \cup {"enter", "signal", "leave"}

OwnerInv == \A p \in Workers : owner = p <=> at[p] \in Inside

LoopInv ==
  \A p \in Workers :
    /\ at[p] \notin {"loop", "done"} => i[p] < NLOOPS
    /\ at[p] = "done" => i[p] = NLOOPS

(* No wakeup is missed: a thread sleeps only while the condition it waits  *)
(* for is false, or while the other one is about to signal it.             *)
NoMissedSignal ==
  /\ at[P] = "asleep" => counter = MAX_BUF \/ at[C] = "signal"
  /\ at[C] = "asleep" => counter = 0 \/ at[P] = "signal"

(* A thread past its test finds the condition it tested still true.        *)
TestedInv ==
  /\ at[P] \in BodyLabels => Past(P, AfterCount) - Past(C, AfterCount) < MAX_BUF
  /\ at[C] \in BodyLabels => Past(P, AfterCount) - Past(C, AfterCount) > 0

CountRange == counter \in 0 .. MAX_BUF

MainInv ==
  /\ main # "join_producer" => at[P] = "done"
  /\ main = "exited" => at[C] = "done"

IInv ==
  /\ TypeOK /\ OwnerInv /\ LoopInv /\ NoMissedSignal /\ TestedInv /\ CountRange
  /\ CounterInv /\ IndexInv /\ CapacityInv /\ MainInv

=============================================================================
