---------------------------- MODULE ProdConsSysV ----------------------------
(***************************************************************************)
(* HW9/producer_s.c and consumer_s.c: the producer and the consumer are    *)
(* two programs, started by the user in any order, which share the buffer  *)
(* through a segment of shared memory and synchronise by the semaphores of *)
(* semlib.c.  The consumer sets the semaphores, the producer removes them. *)
(* Either process may be killed at any statement.                          *)
(***************************************************************************)
EXTENDS Integers

CONSTANTS NLOOPS, MAX_BUF, Items, NoItem

(* With no round to go the producer would remove the semaphores before the *)
(* consumer sets them.  NLOOPS is 20.                                      *)
ASSUME SysVAssumption ==
  /\ NLOOPS \in Nat \ {0}
  /\ MAX_BUF \in Nat \ {0}
  /\ NoItem \notin Items

VARIABLES
  buf, in, out, counter, data, reg, i, at,   \* as in SharedBuffer
  value, adjust,                             \* as in Semlib
  status                                     \* the life of each process

(* The processes have no main thread that joins them. *)
Buffer == INSTANCE SharedBuffer WITH main <- "none"

P == Buffer!P
C == Buffer!C
Workers == Buffer!Workers
bufferVars == <<buf, in, out, counter, data, reg>>

Semaphores == {"emptySem", "fullSem", "mutexSem"}

INSTANCE Semlib WITH Processes <- Workers

semlibVars == <<value, adjust>>
vars == <<bufferVars, i, at, semlibVars, status>>

(* Nothing is left from an earlier run: shmget creates a zeroed segment.   *)
Init ==
  /\ buf = [s \in Buffer!Slots |-> NoItem]
  /\ in = 0 /\ out = 0 /\ counter = 0
  /\ data = [p \in Workers |-> NoItem]
  /\ reg = [p \in Workers |-> 0]
  /\ i = [p \in Workers |-> 0]
  /\ at = [p \in Workers |-> "start"]
  /\ SemlibInit
  /\ status = [p \in Workers |-> "ready"]

Move(p, label) == at' = [at EXCEPT ![p] = label]
End(p, how) == status' = [status EXCEPT ![p] = how]

(* shmget and shmat: nobody removes the segment before both are attached.  *)
Start(p) ==
  /\ status[p] = "ready"
  /\ status' = [status EXCEPT ![p] = "running"]
  /\ Move(p, "get_empty")
  /\ UNCHANGED <<bufferVars, i, semlibVars>>

GetSem(p, s, from, to) ==
  /\ at[p] = from
  /\ semInit({s})
  /\ Move(p, to)
  /\ UNCHANGED <<bufferVars, i, status>>

GetSems(p) ==
  \/ GetSem(p, "emptySem", "get_empty", "get_full")
  \/ GetSem(p, "fullSem", "get_full", "get_mutex")
  \/ GetSem(p, "mutexSem", "get_mutex", IF p = P THEN "loop" ELSE "set_empty")

InitialValue(s) ==
  CASE s = "emptySem" -> MAX_BUF
    [] s = "fullSem"  -> 0
    [] s = "mutexSem" -> 1

SetValue(s, from, to) ==
  /\ at[C] = from
  /\ semInitValue(s, InitialValue(s))
  /\ Move(C, to)
  /\ UNCHANGED <<bufferVars, i, status>>

(* A seeded fault: the mutex is opened before the items are counted. *)
SetValuesMutexFirst ==
  \/ SetValue("emptySem", "set_empty", "set_mutex")
  \/ SetValue("mutexSem", "set_mutex", "set_full")
  \/ SetValue("fullSem", "set_full", "loop")

SetValues ==
  \/ SetValue("emptySem", "set_empty", "set_full")
  \/ SetValue("fullSem", "set_full", "set_mutex")
  \/ SetValue("mutexSem", "set_mutex", "loop")

(* A semWait or semPost.  It fails, and the process exits, when the        *)
(* semaphore has been removed, also while the process waits for it.        *)
Call(p, s, semop, from, to) ==
  /\ at[p] = from
  /\ \/ value[s] # NoSem /\ semop /\ Move(p, to) /\ UNCHANGED status
     \/ value[s] = NoSem /\ End(p, "failed") /\ UNCHANGED <<at, semlibVars>>
  /\ UNCHANGED <<bufferVars, i>>

Wait(p, s, from, to) == Call(p, s, semWait(p, s), from, to)
Post(p, s, from, to) == Call(p, s, semPost(p, s), from, to)

(* A seeded fault: the producer does not look for a free slot. *)
ProducerWithoutEmpty ==
  \/ i[P] < NLOOPS /\ Wait(P, "mutexSem", "loop", "access")
  \/ Post(P, "mutexSem", "leave", "signal")
  \/ Post(P, "fullSem", "signal", "sleep")

Producer ==
  \/ i[P] < NLOOPS /\ Wait(P, "emptySem", "loop", "enter")
  \/ Wait(P, "mutexSem", "enter", "access")
  \/ Post(P, "mutexSem", "leave", "signal")
  \/ Post(P, "fullSem", "signal", "sleep")

Consumer ==
  \/ i[C] < NLOOPS /\ Wait(C, "fullSem", "loop", "enter")
  \/ Wait(C, "mutexSem", "enter", "access")
  \/ Post(C, "mutexSem", "leave", "signal")
  \/ Post(C, "emptySem", "signal", "sleep")

Body(p) ==
  \/ UNCHANGED i /\ p = P /\ (Buffer!Store \/ Buffer!AdvanceIn)
  \/ UNCHANGED i /\ p = C /\ (Buffer!Fetch \/ Buffer!AdvanceOut)
  \/ UNCHANGED i /\ (Buffer!LoadCounter(p) \/ Buffer!StoreCounter(p, "leave"))
  \/ Buffer!Wake(p)

(* The producer sleeps two seconds after its loop, then removes everything *)
(* whether or not the consumer is through.  The buffer stays where it is   *)
(* attached.                                                               *)
Destroy(s, from, to) ==
  /\ at[P] = from
  /\ semDestroy(s)
  /\ Move(P, to)
  /\ UNCHANGED <<bufferVars, i, status>>

Cleanup ==
  \/ /\ at[P] = "loop" /\ i[P] = NLOOPS
     /\ Move(P, "destroy_empty")
     /\ UNCHANGED <<bufferVars, i, semlibVars, status>>
  \/ Destroy("emptySem", "destroy_empty", "destroy_full")
  \/ Destroy("fullSem", "destroy_full", "destroy_mutex")
  \/ Destroy("mutexSem", "destroy_mutex", "done")

(* main returns: the producer after its cleanup, the consumer its loop.    *)
Return(p) ==
  /\ at[p] = "done" \/ (p = C /\ at[p] = "loop" /\ i[p] = NLOOPS)
  /\ End(p, "exited")
  /\ UNCHANGED <<bufferVars, i, at, semlibVars>>

Run(p) ==
  /\ status[p] = "running"
  /\ \/ p = P /\ (Producer \/ Cleanup)
     \/ p = C /\ (SetValues \/ Consumer)
     \/ GetSems(p)
     \/ Body(p) /\ UNCHANGED <<semlibVars, status>>
     \/ Return(p)

Killed(p) ==
  /\ status[p] = "running"
  /\ End(p, "killed")
  /\ UNCHANGED <<bufferVars, i, at, semlibVars>>

Ended(p) == status[p] \in {"exited", "failed", "killed"}

UndoOf(p) ==
  /\ Ended(p)
  /\ \E s \in Semaphores : Undo(p, s)
  /\ UNCHANGED <<bufferVars, i, at, status>>

Next == \E p \in Workers : Start(p) \/ Run(p) \/ Killed(p) \/ UndoOf(p)

Spec == Init /\ [][Next]_vars

(* The user starts both programs, processes that can run do run, and the   *)
(* kernel clears up after a process.  Nobody has to be killed.             *)
Fairness == \A p \in Workers : WF_vars(Start(p)) /\ WF_vars(Run(p)) /\ WF_vars(UndoOf(p))

FairSpec == Spec /\ Fairness

----------------------------------------------------------------------------
Inside  == Buffer!BodyLabels \cup {"leave"}
Claimed == {"enter", "signal", "sleep"} \cup Inside

B(p, labels) == IF at[p] \in labels THEN 1 ELSE 0
Past(p, labels) == i[p] + B(p, labels)

(* Before the last semInit; the consumer has set every semaphore.          *)
Starting == {"start", "get_empty", "get_full", "get_mutex"}
Settled  == at[C] \notin Starting \cup {"set_empty", "set_full", "set_mutex"}

TypeOK ==
  /\ buf \in [Buffer!Slots -> Items \cup {NoItem}]
  /\ in \in Buffer!Slots /\ out \in Buffer!Slots
  /\ counter \in Int
  /\ data \in [Workers -> Items \cup {NoItem}]
  /\ reg \in [Workers -> Int]
  /\ i \in [Workers -> 0 .. NLOOPS]
  /\ at \in [Workers -> Claimed \cup Starting \cup
               {"set_empty", "set_full", "set_mutex", "loop",
                "destroy_empty", "destroy_full", "destroy_mutex", "done"}]
  /\ SemlibTypeOK
  /\ status \in [Workers -> {"ready", "running", "exited", "failed", "killed"}]

(* The mutex is lent to the process inside, or to one that died there and  *)
(* has not been cleared up after; it is 0 until the consumer opens it.     *)
MutexInv ==
  value["mutexSem"] # NoSem =>
    /\ value["mutexSem"] + adjust[P]["mutexSem"] + adjust[C]["mutexSem"]
         = IF Settled THEN 1 ELSE 0
    /\ \A p \in Workers :
         /\ adjust[p]["mutexSem"] \in {0, 1}
         /\ status[p] = "running" => adjust[p]["mutexSem"] = B(p, Inside)

Exclusion == ~ \A p \in Workers : status[p] = "running" /\ at[p] \in Inside

(* A process that lives never finds more slots, or items, than there are,  *)
(* even after the steps of the other one have been taken back.             *)
UnitsInv ==
  /\ status[P] = "running" =>
       value["emptySem"] <= MAX_BUF - Past(P, Claimed) + Past(C, {"sleep"})
  /\ status[C] = "running" =>
       value["fullSem"] <= Past(P, {"sleep"}) - Past(C, Claimed)

(* As CounterInv of SharedBuffer, for processes that live. *)
CounterInv ==
  /\ counter = Past(P, Buffer!AfterCount) - Past(C, Buffer!AfterCount)
  /\ \A p \in Workers : status[p] = "running" /\ at[p] = "count" => reg[p] = counter

IInv ==
  TypeOK /\ MutexInv /\ Exclusion /\ UnitsInv /\ CounterInv
    /\ Buffer!IndexInv /\ Buffer!CapacityInv

(* The segment is a bounded FIFO queue whoever is killed, and when: no     *)
(* item is overwritten, fetched twice or out of order.                     *)
ImplementsBuffer == Buffer!ImplementsBuffer

(* The start order does not matter: if nobody is killed both processes end. *)
BothEnd ==
  [](\A p \in Workers : status[p] # "killed") => <>(\A p \in Workers : Ended(p))

(* SEM_UNDO: whoever dies inside, a living process that waits for the      *)
(* mutex goes on.                                                          *)
MutexComesBack ==
  \A p \in Workers :
    (Settled /\ at[p] = "enter") ~> (at[p] # "enter" \/ Ended(p))

=============================================================================
