--------------------------- MODULE ProdConsSProofs ---------------------------
(***************************************************************************)
(* Theorems about HW9/prodcons_s.c for every number of rounds, every       *)
(* buffer size and every data: it uses semlib2.c so that no thread sleeps  *)
(* on a positive semaphore, and, interrupted anywhere in the library, it   *)
(* behaves like HW9/prodcons.c, so that what is proved of that holds.      *)
(***************************************************************************)
EXTENDS ProdConsS, TLAPS

(* The facts about semlib2.c, for the program's semaphores and threads.    *)
Facts == INSTANCE Semlib2Proofs WITH
           Sems <- Semaphores, Threads <- Workers, InitValue <- InitialValue,
           MaxValue <- MAX_BUF + 1

(* The theorems about prodcons.c, for this program as it is seen there.    *)
Theorems == INSTANCE ProdConsProofs WITH sem <- sval, at <- Place

USE BufferAssumption, FreeAssumption DEF Workers, P, C, Semaphores

(* The parameters the library is instantiated with satisfy its assumption. *)
LEMMA InitialValues == InitialValue \in [Semaphores -> Nat]
<1>1. MAX_BUF \in Nat /\ 0 \in Nat /\ 1 \in Nat
  OBVIOUS
<1> QED  BY <1>1, Zenon DEF InitialValue

LEMMA LibApplies == Facts!SemsAssumption
BY InitialValues DEF Facts!SemsAssumption

(* The library inside the program is the library. *)
LEMMA SameInvariant == Lib!IInv <=> Facts!IInv
BY DEF Lib!IInv, Facts!IInv, Lib!TypeOK, Facts!TypeOK, Lib!NonNegative, Facts!NonNegative,
   Lib!OwnerInv, Facts!OwnerInv, Lib!TestedInv, Facts!TestedInv, Lib!SleepInv,
   Facts!SleepInv, Lib!PCs, Facts!PCs, Lib!WaitPCs, Facts!WaitPCs, Lib!TryPCs, Facts!TryPCs,
   Lib!PostPCs, Facts!PostPCs, Lib!LockedPCs, Facts!LockedPCs

LEMMA SameSteps ==
  ASSUME NEW p
  PROVE  Lib!Step(p) <=> Facts!Step(p)
BY Zenon DEF Lib!Step, Facts!Step, Lib!sem_wait, Facts!sem_wait, Lib!sem_trywait,
   Facts!sem_trywait, Lib!sem_post, Facts!sem_post, Lib!sem_getvalue, Facts!sem_getvalue,
   Lib!Unlock, Facts!Unlock, Lib!WaitLock, Facts!WaitLock, Lib!WaitTest, Facts!WaitTest,
   Lib!WaitSleep, Facts!WaitSleep, Lib!WaitRelock, Facts!WaitRelock, Lib!WaitDec,
   Facts!WaitDec, Lib!TryLock, Facts!TryLock, Lib!TryTest, Facts!TryTest, Lib!TryDec,
   Facts!TryDec, Lib!PostLock, Facts!PostLock, Lib!PostSignal, Facts!PostSignal,
   Lib!PostIncr, Facts!PostIncr, Lib!GetValue, Facts!GetValue, Lib!Acquire, Facts!Acquire,
   Lib!Change, Facts!Change, Lib!Wake, Facts!Wake, Lib!Goto, Facts!Goto

LEMMA SameCalls ==
  ASSUME NEW p
  PROVE  /\ Lib!SpuriousWakeup(p) => Facts!SpuriousWakeup(p)
         /\ \A s : Lib!CallWait(p, s) => Facts!CallWait(p, s)
         /\ \A s : Lib!CallPost(p, s) => Facts!CallPost(p, s)
BY DEF Lib!CallWait, Facts!CallWait, Lib!CallPost, Facts!CallPost, Lib!Call, Facts!Call,
   Lib!Goto, Facts!Goto, Lib!SpuriousWakeup, Facts!SpuriousWakeup

(* Its invariant is preserved by what the program does with it. *)
LEMMA LibIInv ==
  ASSUME Lib!IInv, NEW p \in Workers,
         \/ \E s \in Semaphores : Lib!CallWait(p, s) \/ Lib!CallPost(p, s)
         \/ Lib!Step(p) \/ Lib!SpuriousWakeup(p)
  PROVE  Lib!IInv'
<1>1. Facts!IInv /\ Facts!SemsAssumption
  BY SameInvariant, LibApplies
<1>2. Facts!Next
  BY SameCalls, SameSteps DEF Facts!Next, Facts!Caller
<1>3. Facts!IInv'
  BY <1>1, <1>2, Facts!NextIInv
<1>4. Facts!IInv' => Lib!IInv'
  BY SameInvariant, PTL
<1> QED BY <1>3, <1>4

USE DEF Move, BodyLabels, After, Operand, bufferVars,
        Lib!PCs, Lib!WaitPCs, Lib!TryPCs, Lib!PostPCs, Lib!LockedPCs, Lib!Goto

(* The four calls of a round, each with the semaphore its place asks for.  *)
LibCall(p) ==
  /\ \/ /\ at[p] \in {"loop", "enter"} /\ (at[p] = "loop" => i[p] < NLOOPS)
        /\ Lib!CallWait(p, Operand(p, at[p]))
     \/ at[p] \in {"leave", "signal"} /\ Lib!CallPost(p, Operand(p, at[p]))
  /\ UNCHANGED <<buf, in, out, counter, data, reg, i, at, main>>

(* The program makes no other calls. *)
LEMMA Calls ==
  ASSUME NEW p \in Workers, (p = P /\ Producer) \/ (p = C /\ Consumer)
  PROVE  LibCall(p)
<1>1. CASE p = P /\ Producer
  BY <1>1 DEF Producer, Await, Post, LibCall
<1>2. CASE p = C /\ Consumer
  BY <1>2 DEF Consumer, Await, Post, LibCall
<1> QED  BY <1>1, <1>2

LEMMA CallIInv ==
  ASSUME IInv, NEW p \in Workers, LibCall(p)
  PROVE  IInv'
<1> DEFINE s == Operand(p, at[p])
<1>1. s \in Semaphores
  OBVIOUS
<1>2. Lib!IInv'
  BY <1>1, LibIInv DEF IInv, LibCall
<1> HIDE DEF s
<1>3. /\ pc[p] = "idle" /\ arg' = [arg EXCEPT ![p] = s]
      /\ \/ /\ at[p] \in {"loop", "enter"} /\ (at[p] = "loop" => i[p] < NLOOPS)
            /\ pc' = [pc EXCEPT ![p] = "wait_lock"]
         \/ at[p] \in {"leave", "signal"} /\ pc' = [pc EXCEPT ![p] = "post_lock"]
      /\ UNCHANGED <<sval, owner, sleepers, at, i>>
  BY DEF LibCall, Lib!CallWait, Lib!CallPost, Lib!Call, s
<1>4. TypeOK'
  BY <1>2, <1>3 DEF IInv, TypeOK, Lib!IInv
<1>5. CallInv'
  BY <1>3 DEF IInv, TypeOK, Lib!TypeOK, CallInv, s
<1>6. NobodySleepsOnPositive' /\ SignalInv'
  BY <1>3 DEF IInv, TypeOK, Lib!TypeOK, NobodySleepsOnPositive, SignalInv
<1> QED  BY <1>2, <1>4, <1>5, <1>6 DEF IInv

(* Inside the library, statement by statement.  Only sem_wait and sem_post *)
(* are in use.  The one who signals is not asleep, so there is one sleeper *)
(* to wake at most, and none is left when sval grows.                      *)
LEMMA LibraryIInv ==
  ASSUME IInv, NEW p \in Workers, InLibrary(p)
  PROVE  IInv'
<1> USE DEF IInv, TypeOK, Lib!IInv, Lib!TypeOK
<1>1. Lib!IInv'
  BY LibIInv DEF InLibrary
<1>2. /\ UNCHANGED i
      /\ IF pc'[p] = "idle" THEN at' = [at EXCEPT ![p] = After[at[p]]] ELSE UNCHANGED at
  BY DEF InLibrary
<1>3. \/ Lib!sem_wait(p) \/ Lib!sem_post(p) \/ Lib!Unlock(p)
  BY DEF InLibrary, Lib!Step, CallInv, Lib!sem_trywait, Lib!TryLock, Lib!TryTest,
         Lib!TryDec, Lib!sem_getvalue, Lib!GetValue, Lib!Acquire, Lib!Change
<1>4. CASE Lib!WaitLock(p) \/ Lib!WaitRelock(p) \/ Lib!PostLock(p)
  <2>1. /\ UNCHANGED <<sval, sleepers, arg>>
        /\ \/ pc[p] \in {"wait_lock", "wait_relock"} /\ pc' = [pc EXCEPT ![p] = "wait_test"]
           \/ pc[p] = "post_lock" /\ pc' = [pc EXCEPT ![p] = "post_signal"]
    BY <1>4 DEF Lib!WaitLock, Lib!WaitRelock, Lib!PostLock, Lib!Acquire
  <2>2. UNCHANGED at
    BY <1>2, <2>1
  <2> QED
    BY <1>1, <1>2, <2>1, <2>2 DEF CallInv, NobodySleepsOnPositive, SignalInv
<1>5. CASE Lib!WaitTest(p)
  <2>1. UNCHANGED <<sval, sleepers, arg, at>> /\ pc[p] = "wait_test"
        /\ pc' = [pc EXCEPT ![p] = "wait_dec"]
    BY <1>2, <1>5 DEF Lib!WaitTest
  <2> QED
    BY <1>1, <1>2, <2>1 DEF CallInv, NobodySleepsOnPositive, SignalInv
<1>6. CASE Lib!WaitSleep(p)
  <2>1. /\ UNCHANGED <<sval, arg, at>> /\ pc[p] = "wait_test" /\ sval[arg[p]] = 0
        /\ pc' = [pc EXCEPT ![p] = "wait_sleep"]
        /\ sleepers' = [sleepers EXCEPT ![arg[p]] = @ \cup {p}]
    BY <1>2, <1>6 DEF Lib!WaitSleep
  <2>2. TypeOK' /\ CallInv'
    BY <1>1, <1>2, <2>1 DEF CallInv
  <2>3. NobodySleepsOnPositive'
    BY <2>1 DEF NobodySleepsOnPositive
  <2>4. SignalInv'
    BY <2>1 DEF SignalInv, Lib!OwnerInv
  <2> QED  BY <1>1, <2>2, <2>3, <2>4
<1>7. CASE Lib!WaitDec(p) \/ Lib!PostIncr(p)
  <2>1. /\ UNCHANGED <<sleepers, arg, at>> /\ pc' = [pc EXCEPT ![p] = "unlock"]
        /\ \/ pc[p] = "wait_dec" /\ sval' = [sval EXCEPT ![arg[p]] = @ - 1]
           \/ pc[p] = "post_incr" /\ sval' = [sval EXCEPT ![arg[p]] = @ + 1]
    BY <1>2, <1>7 DEF Lib!WaitDec, Lib!PostIncr, Lib!Change
  <2>2. TypeOK' /\ CallInv' /\ SignalInv'
    BY <1>1, <1>2, <2>1 DEF CallInv, SignalInv
  <2>3. NobodySleepsOnPositive'
    BY <2>1 DEF NobodySleepsOnPositive, SignalInv, Lib!TestedInv
  <2> QED  BY <1>1, <2>2, <2>3
<1>8. CASE Lib!PostSignal(p)
  <2>1. /\ UNCHANGED <<sval, arg>> /\ pc[p] = "post_signal"
        /\ \/ /\ pc' = [pc EXCEPT ![p] = "post_incr"] /\ UNCHANGED sleepers
              /\ sval[arg[p]] # 0 \/ sleepers[arg[p]] = {}
           \/ \E w \in sleepers[arg[p]] :
                /\ pc' = [pc EXCEPT ![p] = "post_incr", ![w] = "wait_relock"]
                /\ sleepers' = [sleepers EXCEPT ![arg[p]] = @ \ {w}]
    BY <1>8 DEF Lib!PostSignal, Lib!Wake
  <2>2. \A w \in sleepers[arg[p]] : w \in Workers \ {p} /\ pc[w] = "wait_sleep"
    BY <2>1 DEF Lib!SleepInv
  <2>3. UNCHANGED at
    BY <1>2, <2>1, <2>2
  <2>4. TypeOK' /\ CallInv'
    BY <1>1, <1>2, <2>1, <2>2, <2>3 DEF CallInv
  <2>5. sleepers'[arg[p]] = {} /\ \A s \in Semaphores : sleepers'[s] \subseteq sleepers[s]
    <3>1. sval[arg[p]] # 0 => sleepers[arg[p]] = {}
      BY DEF NobodySleepsOnPositive, Lib!NonNegative
    <3>2. \A v, w \in sleepers[arg[p]] : v = w
      BY <2>2
    <3> QED  BY <2>1, <3>1, <3>2
  <2>6. NobodySleepsOnPositive' /\ SignalInv'
    BY <2>1, <2>2, <2>5 DEF NobodySleepsOnPositive, SignalInv
  <2> QED  BY <1>1, <2>4, <2>6
<1>9. CASE Lib!Unlock(p)
  <2>1. /\ UNCHANGED <<sval, sleepers, arg>> /\ pc[p] = "unlock"
        /\ pc' = [pc EXCEPT ![p] = "idle"] /\ at' = [at EXCEPT ![p] = After[at[p]]]
    BY <1>2, <1>9 DEF Lib!Unlock
  <2>2. TypeOK' /\ CallInv'
    BY <1>1, <1>2, <2>1 DEF CallInv
  <2>3. NobodySleepsOnPositive' /\ SignalInv'
    BY <2>1 DEF NobodySleepsOnPositive, SignalInv
  <2> QED  BY <1>1, <2>2, <2>3
<1> QED  BY <1>3, <1>4, <1>5, <1>6, <1>7, <1>8, <1>9 DEF Lib!sem_wait, Lib!sem_post

(* A wakeup without a signal takes the sleeper away. *)
LEMMA WakeupIInv ==
  ASSUME IInv, NEW p \in Workers, SpuriousWakeup(p)
  PROVE  IInv'
<1> USE DEF IInv, TypeOK, Lib!IInv, Lib!TypeOK
<1>1. Lib!IInv'
  BY LibIInv DEF SpuriousWakeup
<1>2. /\ UNCHANGED <<sval, arg, at, i>> /\ pc[p] = "wait_sleep"
      /\ pc' = [pc EXCEPT ![p] = "wait_relock"]
      /\ sleepers' = [sleepers EXCEPT ![arg[p]] = @ \ {p}]
  BY DEF SpuriousWakeup, Lib!SpuriousWakeup
<1> QED  BY <1>1, <1>2 DEF CallInv, NobodySleepsOnPositive, SignalInv

(* The rest of the loop is outside the library. *)
LEMMA LoopStep ==
  ASSUME IInv, NEW p \in Workers, Body(p, "leave")
  PROVE  /\ pc[p] = "idle"
         /\ i' \in [Workers -> Nat] /\ \A q \in Workers \ {p} : i'[q] = i[q]
         /\ \E to \in BodyLabels \cup {"leave", "loop", "done"} : at' = [at EXCEPT ![p] = to]
<1> USE DEF IInv, TypeOK
<1>1. /\ at[p] \in BodyLabels \cup {"sleep", "loop"} /\ (at[p] = "loop" => i[p] = NLOOPS)
      /\ i' \in [Workers -> Nat] /\ \A q \in Workers \ {p} : i'[q] = i[q]
      /\ \E to \in BodyLabels \cup {"leave", "loop", "done"} : at' = [at EXCEPT ![p] = to]
  BY DEF Body, Store, Fetch, AdvanceIn, AdvanceOut, LoadCounter, StoreCounter,
         Wake, Exit
<1>2. pc[p] = "idle"
  BY <1>1 DEF CallInv
<1> QED  BY <1>1, <1>2

LEMMA IdleIInv ==
  ASSUME IInv, NEW p \in Workers, Body(p, "leave"),
         UNCHANGED <<sval, owner, sleepers, pc, arg, ret>>
  PROVE  IInv'
<1>1. Lib!IInv'
  BY DEF IInv, Lib!IInv, Lib!TypeOK, Lib!NonNegative, Lib!OwnerInv,
     Lib!TestedInv, Lib!SleepInv
<1>2. TypeOK'
  BY <1>1, LoopStep DEF IInv, TypeOK, Lib!IInv
<1>3. CallInv'
  BY LoopStep DEF IInv, TypeOK, CallInv
<1> QED  BY <1>1, <1>2, <1>3 DEF IInv, NobodySleepsOnPositive, SignalInv

LEMMA InitIInv == Init => IInv
<1> SUFFICES ASSUME Init PROVE IInv
  OBVIOUS
<1>1. Facts!Init
  BY DEF Init, Lib!Init, Facts!Init
<1>2. Lib!IInv
  BY <1>1, LibApplies, Facts!InitIInv, SameInvariant
<1>3. at = [p \in Workers |-> "loop"] /\ i = [p \in Workers |-> 0]
      /\ sleepers = [s \in Semaphores |-> {}] /\ pc = [p \in Workers |-> "idle"]
  BY DEF Init, BufferInit, Lib!Init
<1> QED  BY <1>2, <1>3 DEF IInv, TypeOK, Lib!IInv, CallInv,
   NobodySleepsOnPositive, SignalInv

LEMMA NextIInv == IInv /\ [Next]_vars => IInv'
<1> SUFFICES ASSUME IInv, [Next]_vars PROVE IInv'
  OBVIOUS
<1>1. ASSUME NEW p \in Workers, Thread(p) \/ SpuriousWakeup(p)
      PROVE  IInv'
  BY <1>1, Calls, CallIInv, LibraryIInv, WakeupIInv, IdleIInv DEF Thread, libVars
<1>2. ASSUME UNCHANGED <<i, at, sval, owner, sleepers, pc, arg, ret>> PROVE IInv'
  BY <1>2 DEF IInv, TypeOK, CallInv, NobodySleepsOnPositive, SignalInv,
     Lib!IInv, Lib!TypeOK, Lib!NonNegative, Lib!OwnerInv, Lib!TestedInv, Lib!SleepInv
<1>3. CASE (Main /\ UNCHANGED libVars) \/ UNCHANGED vars
  BY <1>2, <1>3 DEF Main, Join, libVars, vars
<1> QED  BY <1>1, <1>3 DEF Next, Terminated

(* The library's invariant holds inside the program, a thread in the       *)
(* library waits for or posts the semaphore its place in the loop calls    *)
(* for, and nobody sleeps on a semaphore that is, or is about to become,   *)
(* positive.                                                               *)
THEOREM Invariance == Spec => []IInv
BY InitIInv, NextIInv, PTL DEF Spec

(* The condition in semlib2.c:78 under which sem_post signals, which loses *)
(* wakeups in general, is good enough for this program, for every NLOOPS   *)
(* and MAX_BUF: nobody sleeps on a positive semaphore.                     *)
THEOREM NobodySleeps == Spec => []NobodySleepsOnPositive
<1>1. IInv => NobodySleepsOnPositive
  BY DEF IInv
<1> QED  BY Invariance, <1>1, PTL

----------------------------------------------------------------------------
(* prodcons_s.c as prodcons.c. *)

USE DEF Slots, Abstract!Workers, Abstract!P, Abstract!C, Abstract!Slots,
        Abstract!Semaphores, Abstract!BodyLabels, Abstract!Move, Abstract!bufferVars

LEMMA PlaceIs ==
  ASSUME NEW p \in Workers
  PROVE  Place[p] = IF pc[p] = "unlock" THEN After[at[p]] ELSE at[p]
BY DEF Place

(* Outside the library a thread is where it is seen to be. *)
LEMMA Moved ==
  ASSUME TypeOK, NEW p \in Workers, NEW to, pc[p] = "idle", UNCHANGED pc,
         at' = [at EXCEPT ![p] = to]
  PROVE  Place[p] = at[p] /\ Place' = [Place EXCEPT ![p] = to]
BY DEF Place, TypeOK, Lib!TypeOK

(* Entering the library, and what is done there before the effect, is not *)
(* seen.                                                                   *)
LEMMA Standing ==
  ASSUME UNCHANGED at, \A p \in Workers : pc'[p] = "unlock" <=> pc[p] = "unlock"
  PROVE  Place' = Place
BY DEF Place

(* A statement of the loop is the same statement of prodcons.c. *)
LEMMA BodyImplements ==
  ASSUME IInv, NEW p \in Workers, Body(p, "leave"), UNCHANGED <<main, sval, pc>>
  PROVE  Abstract!Thread(p)
<1>1. pc[p] = "idle" /\ TypeOK
  BY LoopStep DEF IInv
<1> HIDE DEF Place
<1>2. Place[p] = at[p]
  BY <1>1, PlaceIs
<1>3. \A to : at' = [at EXCEPT ![p] = to] => Place' = [Place EXCEPT ![p] = to]
  BY <1>1, Moved
<1>4. Abstract!Body(p, "leave")
  <2>1. CASE UNCHANGED i /\ p = P /\ Store
    BY <1>2, <1>3, <2>1 DEF Store, Abstract!Body, Abstract!Store
  <2>2. CASE UNCHANGED i /\ p = P /\ AdvanceIn
    BY <1>2, <1>3, <2>2 DEF AdvanceIn, Abstract!Body, Abstract!AdvanceIn, Succ,
       Abstract!Succ
  <2>3. CASE UNCHANGED i /\ p = C /\ Fetch
    BY <1>2, <1>3, <2>3 DEF Fetch, Abstract!Body, Abstract!Fetch
  <2>4. CASE UNCHANGED i /\ p = C /\ AdvanceOut
    BY <1>2, <1>3, <2>4 DEF AdvanceOut, Abstract!Body, Abstract!AdvanceOut, Succ,
       Abstract!Succ
  <2>5. CASE UNCHANGED i /\ LoadCounter(p)
    BY <1>2, <1>3, <2>5 DEF LoadCounter, Abstract!Body, Abstract!LoadCounter
  <2>6. CASE UNCHANGED i /\ StoreCounter(p, "leave")
    BY <1>2, <1>3, <2>6 DEF StoreCounter, Abstract!Body, Abstract!StoreCounter
  <2>7. CASE Wake(p) \/ Exit(p)
    BY <1>2, <1>3, <2>7 DEF Wake, Exit, Abstract!Body, Abstract!Wake, Abstract!Exit
  <2> QED  BY <2>1, <2>2, <2>3, <2>4, <2>5, <2>6, <2>7 DEF Body
<1> QED  BY <1>4 DEF Abstract!Thread

(* Where sval changes, the operation of prodcons.c takes place; sem_wait   *)
(* has tested sval, and nobody else could take the unit.                   *)
LEMMA EffectImplements ==
  ASSUME IInv, NEW p \in Workers, InLibrary(p),
         \/ Lib!WaitDec(p) \/ Lib!PostIncr(p)
  PROVE  Abstract!Thread(p)
<1> USE DEF IInv, TypeOK, Lib!IInv, Lib!TypeOK
<1> DEFINE s == Operand(p, at[p])
           to == After[at[p]]
<1>1. /\ pc' = [pc EXCEPT ![p] = "unlock"]
      /\ \/ pc[p] = "wait_dec" /\ sval' = [sval EXCEPT ![arg[p]] = @ - 1]
         \/ pc[p] = "post_incr" /\ sval' = [sval EXCEPT ![arg[p]] = @ + 1]
  BY DEF Lib!WaitDec, Lib!PostIncr, Lib!Change
<1>2. UNCHANGED <<buf, in, out, counter, data, reg, i, main, at>>
  BY <1>1 DEF InLibrary
<1>3. arg[p] = s /\ pc[p] # "unlock"
  BY <1>1 DEF CallInv
<1>4. Place[p] = at[p] /\ Place' = [Place EXCEPT ![p] = to]
  BY <1>1, <1>2 DEF Place
<1>5. CASE pc[p] = "wait_dec"
  <2>1. at[p] \in {"loop", "enter"} /\ (at[p] = "loop" => i[p] < NLOOPS) /\ sval[s] > 0
    BY <1>3, <1>5 DEF CallInv, Lib!TestedInv
  <2>2. Abstract!SemWait(p, s, at[p], to)
    BY <1>1, <1>2, <1>3, <1>4, <1>5, <2>1 DEF Abstract!SemWait
  <2> QED  BY <2>1, <2>2 DEF Abstract!Thread, Abstract!Producer, Abstract!Consumer
<1>6. CASE pc[p] = "post_incr"
  <2>1. at[p] \in {"leave", "signal"}
    BY <1>6 DEF CallInv
  <2>2. Abstract!SemPost(p, s, at[p], to)
    BY <1>1, <1>2, <1>3, <1>4, <1>6, <2>1 DEF Abstract!SemPost
  <2> QED  BY <2>1, <2>2 DEF Abstract!Thread, Abstract!Producer, Abstract!Consumer
<1> QED  BY <1>1, <1>5, <1>6

(* The other statements of the library are invisible. *)
LEMMA LibraryHidden ==
  ASSUME IInv, NEW p \in Workers, InLibrary(p), ~ Lib!WaitDec(p), ~ Lib!PostIncr(p)
  PROVE  UNCHANGED <<bufferVars, i, Place, main, sval>>
<1> USE DEF IInv, TypeOK, Lib!IInv, Lib!TypeOK
<1>1. \/ Lib!sem_wait(p) \/ Lib!sem_post(p) \/ Lib!Unlock(p)
  BY DEF InLibrary, Lib!Step, CallInv, Lib!sem_trywait, Lib!TryLock, Lib!TryTest,
         Lib!TryDec, Lib!sem_getvalue, Lib!GetValue, Lib!Acquire, Lib!Change
<1>2. UNCHANGED <<bufferVars, i, main>>
  BY DEF InLibrary, bufferVars
<1>3. CASE Lib!Unlock(p)
  <2>1. UNCHANGED sval /\ pc[p] = "unlock" /\ pc' = [pc EXCEPT ![p] = "idle"]
        /\ at' = [at EXCEPT ![p] = After[at[p]]]
    BY <1>3 DEF Lib!Unlock, InLibrary
  <2>2. Place' = Place
    BY <2>1 DEF Place
  <2> QED  BY <1>2, <2>1, <2>2
<1>4. CASE ~ Lib!Unlock(p)
  <2>1. \/ Lib!WaitLock(p) \/ Lib!WaitTest(p) \/ Lib!WaitSleep(p) \/ Lib!WaitRelock(p)
        \/ Lib!PostLock(p) \/ Lib!PostSignal(p)
    BY <1>1, <1>4 DEF Lib!sem_wait, Lib!sem_post
  <2>2. /\ UNCHANGED sval /\ pc'[p] # "idle"
        /\ \A q \in Workers : pc'[q] = "unlock" <=> pc[q] = "unlock"
    BY <2>1 DEF Lib!WaitLock, Lib!WaitTest, Lib!WaitSleep, Lib!WaitRelock,
                Lib!PostLock, Lib!PostSignal, Lib!Acquire, Lib!Wake, Lib!SleepInv
  <2>3. UNCHANGED at
    BY <2>2 DEF InLibrary
  <2> QED  BY <1>2, <2>2, <2>3, Standing
<1> QED  BY <1>3, <1>4

(* Every step is one of prodcons.c or invisible. *)
LEMMA NextRefines == IInv /\ [Next]_vars => [Abstract!Next]_Abstract!vars
<1> SUFFICES ASSUME IInv, [Next]_vars PROVE [Abstract!Next]_Abstract!vars
  OBVIOUS
<1>1. ASSUME UNCHANGED <<bufferVars, i, Place, main, sval>> PROVE UNCHANGED Abstract!vars
  BY <1>1 DEF Abstract!vars, bufferVars
<1>2. ASSUME NEW p \in Workers, Thread(p)
      PROVE  Abstract!Thread(p) \/ UNCHANGED Abstract!vars
  <2>1. CASE Body(p, "leave") /\ UNCHANGED <<main, libVars>>
    BY <2>1, BodyImplements DEF libVars
  <2>2. CASE InLibrary(p)
    BY <2>2, <1>1, EffectImplements, LibraryHidden
  <2>3. CASE LibCall(p)
    <3>1. /\ UNCHANGED <<buf, in, out, counter, data, reg, i, at, main, sval>>
          /\ \A q \in Workers : pc'[q] = "unlock" <=> pc[q] = "unlock"
      BY <2>3 DEF LibCall, Lib!CallWait, Lib!CallPost, Lib!Call, IInv, TypeOK,
         Lib!TypeOK
    <3> QED  BY <1>1, <3>1, Standing DEF bufferVars
  <2> QED  BY <1>2, <2>1, <2>2, <2>3, Calls DEF Thread
<1>3. ASSUME NEW p \in Workers, SpuriousWakeup(p) PROVE UNCHANGED Abstract!vars
  <2>1. /\ UNCHANGED <<buf, in, out, counter, data, reg, i, at, main, sval>>
        /\ \A q \in Workers : pc'[q] = "unlock" <=> pc[q] = "unlock"
    BY <1>3 DEF SpuriousWakeup, Lib!SpuriousWakeup, IInv, TypeOK, Lib!TypeOK
  <2> QED  BY <1>1, <2>1, Standing DEF bufferVars
<1>4. CASE Main /\ UNCHANGED libVars
  <2>1. Place' = Place
    BY <1>4, Standing DEF Main, Join, libVars
  <2>2. \A p \in Workers : at[p] = "done" => Place[p] = "done"
    BY PlaceIs DEF IInv, CallInv
  <2>3. Abstract!Main /\ UNCHANGED sval
    BY <1>4, <2>1, <2>2 DEF Main, Join, Abstract!Main, Abstract!Join, libVars
  <2> QED  BY <2>3 DEF Abstract!Next
<1>5. CASE UNCHANGED vars
  BY <1>1, <1>5, Standing DEF vars, libVars, bufferVars
<1>6. CASE Terminated
  BY <1>5, <1>6 DEF Terminated
<1> QED  BY <1>2, <1>3, <1>4, <1>5, <1>6 DEF Next, Abstract!Next

LEMMA InitRefines == Init => Abstract!Init
<1> SUFFICES ASSUME Init PROVE Abstract!Init
  OBVIOUS
<1>1. sval = InitialValue /\ pc = [p \in Workers |-> "idle"] /\ BufferInit
  BY DEF Init, Lib!Init
<1>2. Place = [p \in Workers |-> "loop"]
  BY <1>1 DEF Place, BufferInit
<1>3. Abstract!BufferInit
  BY <1>1, <1>2 DEF BufferInit, Abstract!BufferInit
<1> QED  BY <1>1, <1>3, Zenon DEF Abstract!Init, InitialValue

(* prodcons_s.c, interrupted anywhere in semlib2.c, behaves like           *)
(* prodcons.c, whose semaphores are atomic.                                *)
THEOREM Refinement == Spec => ImplementsProdCons
<1>1. Spec => []IInv
  BY Invariance
<1> QED  BY InitRefines, NextRefines, <1>1, PTL DEF Spec, ImplementsProdCons, Abstract!Spec

----------------------------------------------------------------------------
(* What is proved of prodcons.c, for this program. *)
USE DEF Theorems!Workers, Theorems!P, Theorems!C, Theorems!Slots, Theorems!Semaphores,
        Theorems!BodyLabels, Theorems!Move, Theorems!bufferVars

(* The theorems speak of the program this one has been shown to implement. *)
LEMMA SameProgram == Abstract!Spec => Theorems!Spec
<1>1. Abstract!Init => Theorems!Init
  BY DEF Abstract!Init, Theorems!Init, Abstract!BufferInit, Theorems!BufferInit
<1>2. \A p, s, from, to :
        /\ Abstract!SemWait(p, s, from, to) <=> Theorems!SemWait(p, s, from, to)
        /\ Abstract!SemPost(p, s, from, to) <=> Theorems!SemPost(p, s, from, to)
  BY DEF Abstract!SemWait, Theorems!SemWait, Abstract!SemPost, Theorems!SemPost
<1>3. \A p : Abstract!Body(p, "leave") <=> Theorems!Body(p, "leave")
  BY Zenon
  DEF Abstract!Body, Theorems!Body, Abstract!Store, Theorems!Store, Abstract!Fetch,
      Theorems!Fetch, Abstract!AdvanceIn, Theorems!AdvanceIn, Abstract!AdvanceOut,
      Theorems!AdvanceOut, Abstract!LoadCounter, Theorems!LoadCounter,
      Abstract!StoreCounter, Theorems!StoreCounter, Abstract!Wake, Theorems!Wake,
      Abstract!Exit, Theorems!Exit, Abstract!Succ, Theorems!Succ
<1>4. \A p : Abstract!Thread(p) <=> Theorems!Thread(p)
  BY <1>2, <1>3 DEF Abstract!Thread, Theorems!Thread, Abstract!Producer,
     Theorems!Producer, Abstract!Consumer, Theorems!Consumer
<1>5. Abstract!vars = Theorems!vars /\ Abstract!vars' = Theorems!vars'
  BY DEF Abstract!vars, Theorems!vars
<1>6. [Abstract!Next]_Abstract!vars => [Theorems!Next]_Theorems!vars
  BY <1>4, <1>5 DEF Abstract!Next, Theorems!Next, Abstract!Main, Theorems!Main,
     Abstract!Join, Theorems!Join, Abstract!Terminated, Theorems!Terminated
<1> QED  BY <1>1, <1>6, PTL DEF Abstract!Spec, Theorems!Spec

LEMMA AsProdCons == Spec => Theorems!Spec
BY Refinement, SameProgram, PTL DEF ImplementsProdCons

(* The counter that main prints is 0 also with the semaphores of semlib2.  *)
THEOREM CounterExact == Spec => []FinalCount
<1>1. Theorems!FinalCount => FinalCount
  BY DEF Theorems!FinalCount, FinalCount
<1>2. Theorems!Spec => []Theorems!FinalCount
  BY Theorems!CounterExact DEF Theorems!BufferAssumption
<1> QED  BY AsProdCons, <1>1, <1>2, PTL

(* From taking effect to returning, a call passes no statement that stores *)
(* or fetches, so the queue is the same seen from either program.          *)
LEMMA SameQueue == IInv => Theorems!Queue = Queue
<1> SUFFICES ASSUME IInv PROVE Theorems!Queue = Queue
  OBVIOUS
<1>1. ASSUME NEW p \in Workers
      PROVE  Place[p] \in AfterAccess <=> at[p] \in AfterAccess
  BY <1>1, PlaceIs DEF IInv, CallInv, AfterAccess, AfterAdvance, AfterCount
<1>2. Theorems!Stored = Stored /\ Theorems!Fetched = Fetched
  BY <1>1 DEF Theorems!Stored, Theorems!Fetched, Theorems!Past, Theorems!AfterAccess,
     Theorems!AfterAdvance, Theorems!AfterCount, Stored, Fetched, Past, AfterAccess,
     AfterAdvance, AfterCount
<1> QED  BY <1>2 DEF Theorems!Queue, Queue

(* The same in the next state. *)
LEMMA SameQueueNext == IInv' => (Theorems!Queue = Queue)'
BY SameQueue, PTL

(* prodcons_s.c implements the bounded FIFO buffer: every item produced is *)
(* consumed once and in order, whatever the interleaving in semlib2.c.     *)
THEOREM BufferRefinement == Spec => ImplementsBuffer
<1>1. Spec => []IInv
  BY Invariance
<1>2. Theorems!Spec => Theorems!FIFO!Spec
  BY Theorems!Refinement DEF Theorems!ImplementsBuffer, Theorems!BufferAssumption
<1>3. IInv /\ Theorems!FIFO!Init => FIFO!Init
  BY SameQueue DEF Theorems!FIFO!Init, FIFO!Init
<1>4. IInv /\ IInv' /\ [Theorems!FIFO!Next]_Theorems!FIFO!vars => [FIFO!Next]_FIFO!vars
  <2> SUFFICES ASSUME IInv, IInv', [Theorems!FIFO!Next]_Theorems!FIFO!vars
               PROVE  [FIFO!Next]_FIFO!vars
    OBVIOUS
  <2>1. Theorems!Queue = Queue /\ Theorems!Queue' = Queue'
    BY SameQueue, SameQueueNext
  <2> QED
    BY <2>1 DEF Theorems!FIFO!vars, FIFO!vars, Theorems!FIFO!Next, FIFO!Next,
       Theorems!FIFO!Put, FIFO!Put, Theorems!FIFO!Get, FIFO!Get
<1> QED
  BY AsProdCons, <1>1, <1>2, <1>3, <1>4, PTL DEF ImplementsBuffer, FIFO!Spec, Theorems!FIFO!Spec

=============================================================================
