--------------------------- MODULE Semlib2Proofs ---------------------------
(***************************************************************************)
(* Theorems about HW9/semlib2.c for any number of threads and semaphores:  *)
(* the inductive invariant, mutual exclusion on the internal mutex, and    *)
(* that the library implements the abstract counting semaphore.            *)
(***************************************************************************)
EXTENDS Semlib2, TLAPS

USE SemsAssumption

USE DEF PCs, WaitPCs, TryPCs, PostPCs, LockedPCs, Goto

(* sem_init establishes the invariant. *)
LEMMA InitIInv == Init => IInv
BY DEF Init, IInv, TypeOK, NonNegative, OwnerInv, TestedInv, SleepInv

(* Calling any operation only moves an idle thread to a lock statement. *)
LEMMA CallIInv ==
  ASSUME IInv, NEW t \in Threads, NEW s \in Sems,
         NEW label \in {"wait_lock", "try_lock", "post_lock", "getvalue"},
         Call(t, s, label)
  PROVE  IInv'
BY DEF IInv, TypeOK, NonNegative, OwnerInv, TestedInv, SleepInv, Call

(* Taking the mutex leads to a statement that runs under it, with no claim *)
(* about sval carried over.                                                *)
LEMMA AcquireIInv ==
  ASSUME IInv, NEW t \in Threads,
         NEW from \in {"wait_lock", "wait_relock", "try_lock", "post_lock"},
         NEW to \in {"wait_test", "try_test", "post_signal"},
         Acquire(t, from, to)
  PROVE  IInv'
BY DEF IInv, TypeOK, NonNegative, OwnerInv, TestedInv, SleepInv, Acquire

(* Changing sval under the mutex: a decrement follows a test that nobody   *)
(* could have invalidated, because OwnerInv allows one thread there.       *)
LEMMA ChangeIInv ==
  ASSUME IInv, NEW t \in Threads,
         NEW from \in PCs, NEW delta \in {-1, 1},
         \/ from \in {"wait_dec", "try_dec"} /\ delta = -1
         \/ from = "post_incr" /\ delta = 1,
         Change(t, from, delta)
  PROVE  IInv'
<1>1. TypeOK'
  BY DEF IInv, TypeOK, Change
<1>2. NonNegative'
  BY DEF IInv, TypeOK, NonNegative, TestedInv, Change
<1>3. OwnerInv'
  BY DEF IInv, TypeOK, OwnerInv, Change
<1>4. TestedInv'
  BY DEF IInv, TypeOK, OwnerInv, TestedInv, Change
<1>5. SleepInv'
  BY DEF IInv, TypeOK, SleepInv, Change
<1> QED  BY <1>1, <1>2, <1>3, <1>4, <1>5 DEF IInv

(* Every step of a thread, and the calls and wakeups around it, preserve   *)
(* the invariant.                                                          *)
LEMMA NextIInv == IInv /\ [Next]_vars => IInv'
<1> SUFFICES ASSUME IInv, [Next]_vars PROVE IInv'
  OBVIOUS
<1> USE DEF IInv, TypeOK, NonNegative, OwnerInv, TestedInv, SleepInv
<1>1. CASE UNCHANGED vars
  BY <1>1 DEF vars
<1>2. ASSUME NEW t \in Threads, Caller(t) PROVE IInv'
  BY <1>2, CallIInv DEF Caller, CallWait, CallTryWait, CallPost, CallGetValue
<1>3. ASSUME NEW t \in Threads, SpuriousWakeup(t) PROVE IInv'
  BY <1>3 DEF SpuriousWakeup
<1>4. ASSUME NEW t \in Threads, sem_wait(t) PROVE IInv'
  <2>1. CASE WaitLock(t)    BY <2>1, AcquireIInv DEF WaitLock
  <2>2. CASE WaitTest(t)    BY <2>2 DEF WaitTest
  <2>3. CASE WaitSleep(t)   BY <2>3 DEF WaitSleep
  <2>4. CASE WaitRelock(t)  BY <2>4, AcquireIInv DEF WaitRelock
  <2>5. CASE WaitDec(t)     BY <2>5, ChangeIInv DEF WaitDec
  <2> QED  BY <1>4, <2>1, <2>2, <2>3, <2>4, <2>5 DEF sem_wait
<1>5. ASSUME NEW t \in Threads, sem_trywait(t) PROVE IInv'
  <2>1. CASE TryLock(t)  BY <2>1, AcquireIInv DEF TryLock
  <2>2. CASE TryTest(t)  BY <2>2 DEF TryTest
  <2>3. CASE TryDec(t)   BY <2>3, ChangeIInv DEF TryDec
  <2> QED  BY <1>5, <2>1, <2>2, <2>3 DEF sem_trywait
<1>6. ASSUME NEW t \in Threads, sem_post(t) PROVE IInv'
  <2>1. CASE PostLock(t)    BY <2>1, AcquireIInv DEF PostLock
  <2>2. CASE PostSignal(t)  BY <2>2 DEF PostSignal, Wake
  <2>3. CASE PostIncr(t)    BY <2>3, ChangeIInv DEF PostIncr
  <2> QED  BY <1>6, <2>1, <2>2, <2>3 DEF sem_post
<1>7. ASSUME NEW t \in Threads, sem_getvalue(t) \/ Unlock(t) PROVE IInv'
  BY <1>7 DEF sem_getvalue, GetValue, Unlock
<1> QED  BY <1>1, <1>2, <1>3, <1>4, <1>5, <1>6, <1>7 DEF Next, Step

(* The invariant of the run semlib2, for every set of threads and of       *)
(* semaphores: no semaphore goes negative, the mutex is held exactly by    *)
(* the thread in its critical section, and a positive test stays true      *)
(* until the decrement.                                                    *)
THEOREM Invariance == Spec => []IInv
<1>1. IInv /\ [Next]_vars => IInv'  BY NextIInv
<1> QED  BY InitIInv, <1>1, PTL DEF Spec

(* No two threads are inside the critical section of one semaphore, across *)
(* the release and re-acquisition of the mutex in pthread_cond_wait.       *)
THEOREM Exclusion == Spec => []MutualExclusion
<1>1. IInv => MutualExclusion
  BY DEF IInv, TypeOK, OwnerInv, MutualExclusion
<1> QED  BY Invariance, <1>1, PTL

----------------------------------------------------------------------------
(* A step that leaves sval, every phase, arg and ret alone is invisible to *)
(* the callers; the lemmas below say which abstract step the others are.   *)

LEMMA InitRefines == Init => Sem!Init
BY DEF Init, Sem!Init, Phase

LEMMA StutterRefines ==
  ASSUME IInv, NEW t \in Threads,
         UNCHANGED <<sval, arg, ret>>,
         \A u \in Threads : Phase(u)' = Phase(u)
  PROVE  UNCHANGED Sem!vars
BY DEF Sem!vars

(* Acquire moves a thread within one operation. *)
LEMMA AcquireRefines ==
  ASSUME IInv, NEW t \in Threads, NEW from, NEW to,
         \/ from \in WaitPCs /\ to \in WaitPCs
         \/ from \in TryPCs /\ to \in TryPCs
         \/ from \in PostPCs /\ to \in PostPCs,
         Acquire(t, from, to)
  PROVE  UNCHANGED Sem!vars
BY StutterRefines DEF IInv, TypeOK, Acquire, Phase

(* The change of sval is where an operation takes effect. *)
LEMMA ChangeRefines ==
  ASSUME IInv, NEW t \in Threads, NEW from, NEW op, NEW delta \in {-1, 1},
         \/ from \in WaitPCs /\ op = "wait"
         \/ from \in TryPCs /\ op = "trywait"
         \/ from \in PostPCs /\ op = "post",
         Change(t, from, delta)
  PROVE  Sem!Effect(t, op, delta, 0)
<1>1. Phase(t) = op /\ Phase(t)' = "idle"
  BY DEF IInv, TypeOK, Change, Phase
<1>2. \A u \in Threads \ {t} : Phase(u)' = Phase(u)
  BY DEF IInv, TypeOK, Change, Phase
<1> QED  BY <1>1, <1>2 DEF Sem!Effect, Change

(* Calls of the library are calls of the abstract semaphore. *)
LEMMA CallRefines ==
  ASSUME IInv, NEW t \in Threads, Caller(t)
  PROVE  Sem!Next
<1>1. ASSUME NEW s \in Sems, NEW label, NEW op,
             \/ label = "wait_lock" /\ op = "wait"
             \/ label = "try_lock" /\ op = "trywait"
             \/ label = "post_lock" /\ op = "post"
             \/ label = "getvalue" /\ op = "getvalue",
             Call(t, s, label)
      PROVE  Sem!Call(t, op, s)
  <2>1. Phase(t) = "idle" /\ Phase(t)' = op
    BY <1>1 DEF IInv, TypeOK, Call, Phase
  <2>2. \A u \in Threads \ {t} : Phase(u)' = Phase(u)
    BY <1>1 DEF IInv, TypeOK, Call, Phase
  <2> QED  BY <1>1, <2>1, <2>2 DEF Sem!Call, Call
<1> QED
  BY <1>1 DEF Caller, CallWait, CallTryWait, CallPost, CallGetValue, Sem!Next, Sem!Ops

(* Every step of the library is a step of the semaphore or invisible. *)
LEMMA NextRefines == IInv /\ [Next]_vars => [Sem!Next]_Sem!vars
<1> SUFFICES ASSUME IInv, [Next]_vars PROVE [Sem!Next]_Sem!vars
  OBVIOUS
<1>1. CASE UNCHANGED vars
  BY <1>1 DEF vars, Sem!vars, Phase
<1>2. ASSUME NEW t \in Threads, Caller(t) PROVE Sem!Next
  BY <1>2, CallRefines
<1>3. ASSUME NEW t \in Threads, SpuriousWakeup(t) PROVE UNCHANGED Sem!vars
  BY <1>3, StutterRefines DEF SpuriousWakeup, IInv, TypeOK, Phase
<1>4. ASSUME NEW t \in Threads, sem_wait(t) PROVE [Sem!Next]_Sem!vars
  <2>1. CASE WaitLock(t)    BY <2>1, AcquireRefines DEF WaitLock
  <2>2. CASE WaitTest(t)    BY <2>2, StutterRefines DEF WaitTest, IInv, TypeOK, Phase
  <2>3. CASE WaitSleep(t)   BY <2>3, StutterRefines DEF WaitSleep, IInv, TypeOK, Phase
  <2>4. CASE WaitRelock(t)  BY <2>4, AcquireRefines DEF WaitRelock
  <2>5. CASE WaitDec(t)
    <3>1. Sem!Effect(t, "wait", -1, 0)  BY <2>5, ChangeRefines DEF WaitDec
    <3>2. sval[arg[t]] > 0              BY <2>5 DEF WaitDec, Change, IInv, TestedInv
    <3> QED  BY <3>1, <3>2 DEF Sem!Take, Sem!Next
  <2> QED  BY <1>4, <2>1, <2>2, <2>3, <2>4, <2>5 DEF sem_wait
<1>5. ASSUME NEW t \in Threads, sem_trywait(t) PROVE [Sem!Next]_Sem!vars
  <2>1. CASE TryLock(t)  BY <2>1, AcquireRefines DEF TryLock
  <2>2. CASE TryTest(t) /\ sval[arg[t]] # 0
    BY <2>2, StutterRefines DEF TryTest, IInv, TypeOK, Phase
  <2>3. CASE TryTest(t) /\ sval[arg[t]] = 0
    <3>1. Phase(t) = "trywait" /\ Phase(t)' = "idle"
      BY <2>3 DEF TryTest, IInv, TypeOK, Phase
    <3>2. \A u \in Threads \ {t} : Phase(u)' = Phase(u)
      BY <2>3 DEF TryTest, IInv, TypeOK, Phase
    <3>3. sval' = [sval EXCEPT ![arg[t]] = @ + 0]
      BY <2>3 DEF TryTest, IInv, TypeOK
    <3>4. Sem!Effect(t, "trywait", 0, -1)
      BY <2>3, <3>1, <3>2, <3>3 DEF TryTest, Sem!Effect
    <3> QED  BY <2>3, <3>4 DEF Sem!TryFail, Sem!Next
  <2>4. CASE TryDec(t)
    <3>1. Sem!Effect(t, "trywait", -1, 0)  BY <2>4, ChangeRefines DEF TryDec
    <3>2. sval[arg[t]] > 0                 BY <2>4 DEF TryDec, Change, IInv, TestedInv
    <3> QED  BY <3>1, <3>2 DEF Sem!TryTake, Sem!Next
  <2> QED  BY <1>5, <2>1, <2>2, <2>3, <2>4 DEF sem_trywait
<1>6. ASSUME NEW t \in Threads, sem_post(t) PROVE [Sem!Next]_Sem!vars
  <2>1. CASE PostLock(t)    BY <2>1, AcquireRefines DEF PostLock
  <2>2. CASE PostSignal(t)
    BY <2>2, StutterRefines DEF PostSignal, Wake, IInv, TypeOK, SleepInv, Phase
  <2>3. CASE PostIncr(t)
    <3>1. Sem!Effect(t, "post", 1, 0)  BY <2>3, ChangeRefines DEF PostIncr
    <3> QED  BY <3>1 DEF Sem!Give, Sem!Next
  <2> QED  BY <1>6, <2>1, <2>2, <2>3 DEF sem_post
<1>7. ASSUME NEW t \in Threads, sem_getvalue(t) PROVE Sem!Next
  <2>1. Phase(t) = "getvalue" /\ Phase(t)' = "idle"
    BY <1>7 DEF sem_getvalue, GetValue, IInv, TypeOK, Phase
  <2>2. \A u \in Threads \ {t} : Phase(u)' = Phase(u)
    BY <1>7 DEF sem_getvalue, GetValue, IInv, TypeOK, Phase
  <2>3. sval' = [sval EXCEPT ![arg[t]] = @ + 0]
    BY <1>7 DEF sem_getvalue, GetValue, IInv, TypeOK
  <2>4. Sem!GetValue(t)
    BY <1>7, <2>1, <2>2, <2>3 DEF sem_getvalue, GetValue, Sem!GetValue, Sem!Effect
  <2> QED  BY <2>4 DEF Sem!Next
<1>8. ASSUME NEW t \in Threads, Unlock(t) PROVE UNCHANGED Sem!vars
  BY <1>8, StutterRefines DEF Unlock, IInv, TypeOK, Phase
<1> QED  BY <1>1, <1>2, <1>3, <1>4, <1>5, <1>6, <1>7, <1>8 DEF Next, Step

(* Whatever the callers do, semlib2.c behaves as a counting semaphore: a   *)
(* wait takes a unit that is there, a post adds one, trywait fails only on *)
(* zero and getvalue reads the value of that moment.                       *)
THEOREM Refinement == Spec => ImplementsSemaphore
<1>1. IInv /\ [Next]_vars => [Sem!Next]_Sem!vars  BY NextRefines
<1> QED  BY Invariance, InitRefines, <1>1, PTL DEF Spec, ImplementsSemaphore, Sem!Spec

=============================================================================
