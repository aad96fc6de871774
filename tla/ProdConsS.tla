----------------------------- MODULE ProdConsS -----------------------------
(***************************************************************************)
(* HW9/prodcons_s.c: the program of prodcons.c on the semaphores of        *)
(* semlib2.c.  Module Semlib2 runs inside every sem_wait and sem_post, so  *)
(* that a thread may be interrupted anywhere in the library; the program   *)
(* is shown to implement prodcons.c, whose semaphores are atomic.          *)
(***************************************************************************)
EXTENDS SharedBuffer

CONSTANT Free  \* the owner of a mutex nobody holds

ASSUME FreeAssumption == Free \notin Workers

VARIABLES
  sval, owner, sleepers, pc, arg, ret  \* the state of module Semlib2

libVars == <<sval, owner, sleepers, pc, arg, ret>>
vars == <<bufferVars, i, at, main, libVars>>

Semaphores == {"EmptySem", "FullSem", "MutexSem"}

(* The values sem_init is called with in main. *)
InitialValue ==
  [s \in Semaphores |->
     CASE s = "EmptySem" -> MAX_BUF [] s = "FullSem" -> 0 [] s = "MutexSem" -> 1]

(* No semaphore reaches MAX_BUF + 1, so the bound on posts never binds. *)
Lib == INSTANCE Semlib2 WITH
         Sems <- Semaphores, Threads <- Workers, InitValue <- InitialValue,
         MaxValue <- MAX_BUF + 1

Init == BufferInit /\ Lib!Init /\ arg = [p \in Workers |-> "MutexSem"]

Await(p, from, s) ==
  at[p] = from /\ Lib!CallWait(p, s) /\ UNCHANGED <<bufferVars, i, at, main>>
Post(p, from, s) ==
  at[p] = from /\ Lib!CallPost(p, s) /\ UNCHANGED <<bufferVars, i, at, main>>

(* Seeded faults: MutexSem is taken before FullSem; the wrong semaphore is *)
(* posted.                                                                 *)
ConsumerMutexFirst ==
  \/ i[C] < NLOOPS /\ Await(C, "loop", "MutexSem")
  \/ Await(C, "enter", "FullSem")
  \/ Post(C, "leave", "MutexSem")
  \/ Post(C, "signal", "EmptySem")
ConsumerPostsFull ==
  \/ i[C] < NLOOPS /\ Await(C, "loop", "FullSem")
  \/ Await(C, "enter", "MutexSem")
  \/ Post(C, "leave", "MutexSem")
  \/ Post(C, "signal", "FullSem")

Producer ==
  \/ i[P] < NLOOPS /\ Await(P, "loop", "EmptySem")
  \/ Await(P, "enter", "MutexSem")
  \/ Post(P, "leave", "MutexSem")
  \/ Post(P, "signal", "FullSem")

Consumer ==
  \/ i[C] < NLOOPS /\ Await(C, "loop", "FullSem")
  \/ Await(C, "enter", "MutexSem")
  \/ Post(C, "leave", "MutexSem")
  \/ Post(C, "signal", "EmptySem")

(* Where a thread goes on when its library call returns. *)
After == [loop |-> "enter", enter |-> "access", leave |-> "signal", signal |-> "sleep"]

InLibrary(p) ==
  /\ Lib!Step(p)
  /\ IF pc'[p] = "idle" THEN Move(p, After[at[p]]) ELSE UNCHANGED at
  /\ UNCHANGED <<bufferVars, i, main>>

Thread(p) ==
  \/ p = P /\ Producer
  \/ p = C /\ Consumer
  \/ InLibrary(p)
  \/ Body(p, "leave") /\ UNCHANGED <<main, libVars>>

SpuriousWakeup(p) == Lib!SpuriousWakeup(p) /\ UNCHANGED <<bufferVars, i, at, main>>

Terminated == main = "exited" /\ UNCHANGED vars

Next ==
  \/ \E p \in Workers : Thread(p) \/ SpuriousWakeup(p)
  \/ Main /\ UNCHANGED libVars
  \/ Terminated

Spec == Init /\ [][Next]_vars

(* As in module Semlib2: runnable threads run, mutexes are granted. *)
Fairness == WF_vars(Main /\ UNCHANGED libVars) /\ \A p \in Workers : SF_vars(Thread(p))

FairSpec == Spec /\ Fairness

----------------------------------------------------------------------------
(* The buffer's fields are left to ProdCons. *)
TypeOK ==
  /\ at \in [Workers -> BodyLabels \cup {"loop", "enter", "leave", "signal", "sleep", "done"}]
  /\ i \in [Workers -> Nat]
  /\ Lib!TypeOK

(* The semaphore a thread waits for, or posts, at each of its four calls.  *)
Operand(p, label) ==
  IF label \in {"enter", "leave"} THEN "MutexSem"
  ELSE IF p = P <=> label = "loop" THEN "EmptySem" ELSE "FullSem"

(* A thread in the library is in the operation its place in the loop calls. *)
CallInv ==
  \A p \in Workers : pc[p] # "idle" =>
    /\ \/ at[p] \in {"loop", "enter"} /\ pc[p] \in Lib!WaitPCs \cup {"unlock"}
       \/ at[p] \in {"leave", "signal"} /\ pc[p] \in Lib!PostPCs \cup {"unlock"}
    /\ arg[p] = Operand(p, at[p])
    /\ at[p] = "loop" => i[p] < NLOOPS

(* sem_post signals only when sval is 0, and that is enough in this        *)
(* program: nobody sleeps on a positive semaphore, because none ever has   *)
(* two waiters when it is posted.                                          *)
NobodySleepsOnPositive == \A s \in Semaphores : sval[s] > 0 => sleepers[s] = {}

(* Nor on one that is about to become positive. *)
SignalInv ==
  \A p \in Workers : pc[p] = "post_incr" => sleepers[arg[p]] = {}

IInv == TypeOK /\ Lib!IInv /\ CallInv /\ NobodySleepsOnPositive /\ SignalInv

(* A thread whose operation has taken effect has in effect gone on. *)
Place == [p \in Workers |-> IF pc[p] = "unlock" THEN After[at[p]] ELSE at[p]]

Abstract == INSTANCE ProdCons WITH sem <- sval, at <- Place

(* prodcons_s.c behaves like prodcons.c, whose semaphores are atomic. *)
ImplementsProdCons == Abstract!Spec

=============================================================================
