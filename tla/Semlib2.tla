------------------------------ MODULE Semlib2 ------------------------------
(***************************************************************************)
(* HW9/semlib2.c: counting semaphores built from a pthread mutex and a     *)
(* condition variable, used by any number of threads.  One action per      *)
(* statement that another thread can observe: taking and releasing the     *)
(* mutex, testing sval, sleeping, signalling, changing sval.               *)
(*                                                                         *)
(* The error branches of the code are not modelled: they test for a        *)
(* negative result, and the pthread functions return 0 or a positive       *)
(* error number.                                                           *)
(***************************************************************************)
EXTENDS Integers, FiniteSets

CONSTANTS
  Sems,       \* the sem_t objects
  Threads,    \* the threads that call the library
  InitValue,  \* sem_init's third argument, for each semaphore
  MaxValue,   \* bound: sem_post is not called on a semaphore at this value
  Free        \* the owner of a mutex nobody holds

ASSUME SemsAssumption ==
  /\ InitValue \in [Sems -> Nat]
  /\ MaxValue \in Nat
  /\ Free \notin Threads

VARIABLES
  sval,       \* sem->sval
  owner,      \* the thread that holds sem->mutex, or Free
  sleepers,   \* the threads blocked in pthread_cond_wait on sem->cond
  pc,         \* the next statement of each thread, "idle" outside the library
  arg,        \* the semaphore of the thread's current operation
  ret         \* the result of the thread's operation, 0 until it is known

vars == <<sval, owner, sleepers, pc, arg, ret>>

WaitPCs == {"wait_lock", "wait_test", "wait_sleep", "wait_relock", "wait_dec"}
TryPCs  == {"try_lock", "try_test", "try_dec"}
PostPCs == {"post_lock", "post_signal", "post_incr"}
PCs     == {"idle", "getvalue", "unlock"} \cup WaitPCs \cup TryPCs \cup PostPCs

(* The statements executed with the mutex of the semaphore held. *)
LockedPCs ==
  {"wait_test", "wait_dec", "try_test", "try_dec", "post_signal", "post_incr", "unlock"}

Goto(t, label) == pc' = [pc EXCEPT ![t] = label]

(* sem_init: the value is set, nobody holds the mutex or sleeps. *)
Init ==
  /\ sval = InitValue
  /\ owner = [s \in Sems |-> Free]
  /\ sleepers = [s \in Sems |-> {}]
  /\ pc = [t \in Threads |-> "idle"]
  /\ arg \in [Threads -> Sems]
  /\ ret = [t \in Threads |-> 0]

Call(t, s, label) ==
  /\ pc[t] = "idle"
  /\ Goto(t, label)
  /\ arg' = [arg EXCEPT ![t] = s]
  /\ ret' = [ret EXCEPT ![t] = 0]
  /\ UNCHANGED <<sval, owner, sleepers>>

(* pthread_mutex_lock, and its counterpart inside pthread_cond_wait. *)
Acquire(t, from, to) ==
  /\ pc[t] = from
  /\ owner[arg[t]] = Free
  /\ owner' = [owner EXCEPT ![arg[t]] = t]
  /\ Goto(t, to)
  /\ UNCHANGED <<sval, sleepers, arg, ret>>

(* sval++ or sval--; only the unlock is left to do. *)
Change(t, from, delta) ==
  /\ pc[t] = from
  /\ sval' = [sval EXCEPT ![arg[t]] = @ + delta]
  /\ ret' = [ret EXCEPT ![t] = 0]
  /\ Goto(t, "unlock")
  /\ UNCHANGED <<owner, sleepers, arg>>

Unlock(t) ==
  /\ pc[t] = "unlock"
  /\ owner' = [owner EXCEPT ![arg[t]] = Free]
  /\ Goto(t, "idle")
  /\ UNCHANGED <<sval, sleepers, arg, ret>>

----------------------------------------------------------------------------
(* sem_wait *)

CallWait(t, s) == Call(t, s, "wait_lock")
WaitLock(t)    == Acquire(t, "wait_lock", "wait_test")

(* if and while test the same condition, so one test stands for both. *)
WaitTest(t) ==
  /\ pc[t] = "wait_test"
  /\ sval[arg[t]] # 0
  /\ Goto(t, "wait_dec")
  /\ UNCHANGED <<sval, owner, sleepers, arg, ret>>

(* pthread_cond_wait releases the mutex and blocks in one step. *)
WaitSleep(t) ==
  /\ pc[t] = "wait_test"
  /\ sval[arg[t]] = 0
  /\ owner' = [owner EXCEPT ![arg[t]] = Free]
  /\ sleepers' = [sleepers EXCEPT ![arg[t]] = @ \cup {t}]
  /\ Goto(t, "wait_sleep")
  /\ UNCHANGED <<sval, arg, ret>>

(* POSIX lets pthread_cond_wait return without a signal. *)
SpuriousWakeup(t) ==
  /\ pc[t] = "wait_sleep"
  /\ sleepers' = [sleepers EXCEPT ![arg[t]] = @ \ {t}]
  /\ Goto(t, "wait_relock")
  /\ UNCHANGED <<sval, owner, arg, ret>>

(* Seeded faults: the test after cond_wait is an if, not a while; cond_wait *)
(* returns without the mutex.                                              *)
WaitRelockIf(t) == Acquire(t, "wait_relock", "wait_dec")
WaitRelockWithoutMutex(t) ==
  /\ pc[t] = "wait_relock"
  /\ Goto(t, "wait_test")
  /\ UNCHANGED <<sval, owner, sleepers, arg, ret>>

WaitRelock(t) == Acquire(t, "wait_relock", "wait_test")
WaitDec(t)    == Change(t, "wait_dec", -1)

----------------------------------------------------------------------------
(* sem_trywait *)

CallTryWait(t, s) == Call(t, s, "try_lock")
TryLock(t)        == Acquire(t, "try_lock", "try_test")

(* Seeded faults: the early return leaves the mutex locked; it answers 0.  *)
TryTestKeepsMutex(t) ==
  /\ pc[t] = "try_test"
  /\ IF sval[arg[t]] = 0
     THEN Goto(t, "idle") /\ ret' = [ret EXCEPT ![t] = -1]
     ELSE Goto(t, "try_dec") /\ UNCHANGED ret
  /\ UNCHANGED <<sval, owner, sleepers, arg>>
TryTestAnswersZero(t) ==
  /\ pc[t] = "try_test"
  /\ Goto(t, IF sval[arg[t]] = 0 THEN "unlock" ELSE "try_dec")
  /\ UNCHANGED <<sval, owner, sleepers, arg, ret>>

TryTest(t) ==
  /\ pc[t] = "try_test"
  /\ IF sval[arg[t]] = 0
     THEN Goto(t, "unlock") /\ ret' = [ret EXCEPT ![t] = -1]
     ELSE Goto(t, "try_dec") /\ UNCHANGED ret
  /\ UNCHANGED <<sval, owner, sleepers, arg>>

TryDec(t) == Change(t, "try_dec", -1)

----------------------------------------------------------------------------
(* sem_post *)

CallPost(t, s) == sval[s] < MaxValue /\ Call(t, s, "post_lock")
PostLock(t)    == Acquire(t, "post_lock", "post_signal")

(* The signal that wakes any one of the threads blocked on the semaphore. *)
Wake(t, w) ==
  /\ sleepers' = [sleepers EXCEPT ![arg[t]] = @ \ {w}]
  /\ pc' = [pc EXCEPT ![t] = "post_incr", ![w] = "wait_relock"]

(* Seeded fault: no signal at all. *)
PostSignalNever(t) ==
  /\ pc[t] = "post_signal"
  /\ Goto(t, "post_incr")
  /\ UNCHANGED <<sval, owner, sleepers, arg, ret>>

(* The signal is sent only when sval is 0. *)
PostSignal(t) ==
  /\ pc[t] = "post_signal"
  /\ \/ /\ sval[arg[t]] = 0
        /\ \E w \in sleepers[arg[t]] : Wake(t, w)
     \/ /\ sval[arg[t]] # 0 \/ sleepers[arg[t]] = {}
        /\ Goto(t, "post_incr")
        /\ UNCHANGED sleepers
  /\ UNCHANGED <<sval, owner, arg, ret>>

PostIncr(t) == Change(t, "post_incr", 1)

----------------------------------------------------------------------------
(* sem_getvalue reads sval without taking the mutex. *)

CallGetValue(t, s) == Call(t, s, "getvalue")

GetValue(t) ==
  /\ pc[t] = "getvalue"
  /\ ret' = [ret EXCEPT ![t] = sval[arg[t]]]
  /\ Goto(t, "idle")
  /\ UNCHANGED <<sval, owner, sleepers, arg>>

----------------------------------------------------------------------------
sem_wait(t)     == WaitLock(t) \/ WaitTest(t) \/ WaitSleep(t) \/ WaitRelock(t) \/ WaitDec(t)
sem_trywait(t)  == TryLock(t) \/ TryTest(t) \/ TryDec(t)
sem_post(t)     == PostLock(t) \/ PostSignal(t) \/ PostIncr(t)
sem_getvalue(t) == GetValue(t)

(* What a thread inside the library does next. *)
Step(t) ==
  sem_wait(t) \/ sem_trywait(t) \/ sem_post(t) \/ sem_getvalue(t) \/ Unlock(t)

Caller(t) ==
  \E s \in Sems :
    CallWait(t, s) \/ CallTryWait(t, s) \/ CallPost(t, s) \/ CallGetValue(t, s)

Next == \E t \in Threads : Caller(t) \/ Step(t) \/ SpuriousWakeup(t)

Spec == Init /\ [][Next]_vars

(* A thread that can run does run, and a mutex that is released again and  *)
(* again is granted in the end.  Nobody has to call the library, and       *)
(* spurious wakeups need not happen.                                       *)
Fairness == \A t \in Threads : SF_vars(Step(t))

FairSpec == Spec /\ Fairness

----------------------------------------------------------------------------
TypeOK ==
  /\ sval \in [Sems -> Int]
  /\ owner \in [Sems -> Threads \cup {Free}]
  /\ sleepers \in [Sems -> SUBSET Threads]
  /\ pc \in [Threads -> PCs]
  /\ arg \in [Threads -> Sems]
  /\ ret \in [Threads -> Int]

(* A semaphore never goes below zero: between the test of sval and the     *)
(* decrement no other thread can take the unit that was seen               *)
(* (semlib2.c 31-43, 57-64).                                               *)
NonNegative == \A s \in Sems : sval[s] >= 0

(* Two threads are never between lock and unlock of the same semaphore,    *)
(* through cond_wait's release and re-acquisition of the mutex too.        *)
MutualExclusion ==
  \A t, u \in Threads :
    t # u /\ pc[t] \in LockedPCs /\ pc[u] \in LockedPCs => arg[t] # arg[u]

(* The parts that make the two above inductive. *)
OwnerInv ==
  \A s \in Sems, t \in Threads : owner[s] = t <=> pc[t] \in LockedPCs /\ arg[t] = s
TestedInv ==
  \A t \in Threads : pc[t] \in {"wait_dec", "try_dec"} => sval[arg[t]] > 0
SleepInv ==
  \A s \in Sems, t \in Threads : t \in sleepers[s] <=> pc[t] = "wait_sleep" /\ arg[t] = s

IInv == TypeOK /\ NonNegative /\ OwnerInv /\ TestedInv /\ SleepInv

(* sem_post, sem_trywait and sem_getvalue never block for good, whoever    *)
(* sleeps in sem_wait: the mutex is always handed back.                    *)
OthersReturn ==
  \A t \in Threads : pc[t] \in TryPCs \cup PostPCs \cup {"getvalue"} ~> pc[t] = "idle"

(* What the comment at semlib2.c:78 takes for granted, that waiters can    *)
(* only exist when sval is 0: a thread blocked in sem_wait while the       *)
(* semaphore is positive is woken, unless somebody takes the units first.  *)
SleeperIsWoken ==
  \A t \in Threads :
    pc[t] = "wait_sleep" /\ sval[arg[t]] > 0 ~> pc[t] # "wait_sleep" \/ sval[arg[t]] = 0

----------------------------------------------------------------------------
(* Refinement: the semaphore a caller sees.  An operation takes effect     *)
(* where it changes or tests sval; what is left is the unlock.             *)
Phase(t) ==
  CASE pc[t] \in WaitPCs -> "wait"
    [] pc[t] \in TryPCs -> "trywait"
    [] pc[t] \in PostPCs -> "post"
    [] pc[t] = "getvalue" -> "getvalue"
    [] OTHER -> "idle"

Sem == INSTANCE Semaphore WITH
         value <- sval, phase <- [t \in Threads |-> Phase(t)]

(* The library implements the counting semaphore of module Semaphore. *)
ImplementsSemaphore == Sem!Spec

=============================================================================
