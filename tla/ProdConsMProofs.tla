-------------------------- MODULE ProdConsMProofs --------------------------
(***************************************************************************)
(* Theorems about HW9/prodcons_m.c for every number of rounds, every       *)
(* buffer size and every data: what Mutex and the tests of the counter     *)
(* protect, that no wakeup is missed, and the refinement of the bounded    *)
(* FIFO buffer, whatever the interleaving and the spurious wakeups.        *)
(***************************************************************************)
EXTENDS ProdConsM, TLAPS

(* The facts about the shared buffer; they do not mention prodcons.c's sem. *)
Facts == INSTANCE ProdConsProofs WITH sem <- "none"

USE BufferAssumption, FreeAssumption
    DEF P, C, Workers, Slots, Move, BodyLabels, Labels, bufferVars, Inside

(* They speak of the same buffer, loop bodies and queue. *)
LEMMA SameBuffer ==
  /\ Facts!BufferAssumption /\ Facts!Workers = Workers /\ Facts!AfterCount = AfterCount
  /\ Facts!BodyLabels = BodyLabels /\ Facts!AfterAccess = AfterAccess
  /\ BufferTypeOK => Facts!Shape
  /\ Facts!CounterFor(Workers) <=> CounterInv
  /\ Facts!IndexInv <=> IndexInv
  /\ Facts!CapacityInv <=> CapacityInv
BY DEF Facts!BufferAssumption, Facts!Workers, Facts!P, Facts!C, Facts!AfterCount, AfterCount,
   Facts!BodyLabels, Facts!AfterAccess, AfterAccess, Facts!AfterAdvance, AfterAdvance,
   Facts!Shape, BufferTypeOK, Facts!Slots, Facts!AnyLabel, Facts!Labels, Facts!Past, Past,
   Facts!CounterFor, CounterInv, Facts!IndexInv, IndexInv, Facts!CapacityInv, CapacityInv,
   Facts!Stored, Stored, Facts!Fetched, Fetched

LEMMA SameBody ==
  ASSUME NEW p \in Workers, Body(p, "signal")
  PROVE  Facts!Body(p, "signal")
BY DEF Body, Facts!Body, Store, Facts!Store, AdvanceIn, Facts!AdvanceIn, Fetch,
   Facts!Fetch, AdvanceOut, Facts!AdvanceOut, LoadCounter, Facts!LoadCounter,
   StoreCounter, Facts!StoreCounter, Wake, Facts!Wake, Exit, Facts!Exit, Succ, Facts!Succ,
   Facts!Move, Facts!bufferVars, Facts!P, Facts!C

LEMMA SameQueue == Facts!FIFO!vars = FIFO!vars /\ Facts!Queue = Queue
BY DEF Facts!FIFO!vars, FIFO!vars, Facts!Queue, Queue, Facts!Stored, Stored, Facts!Fetched,
   Fetched, Facts!Past, Past, Facts!AfterAccess, AfterAccess, Facts!AfterAdvance,
   AfterAdvance, Facts!AfterCount, AfterCount, Facts!P, Facts!C

LEMMA SameQueueSteps ==
  /\ [Facts!FIFO!Next]_Facts!FIFO!vars => [FIFO!Next]_FIFO!vars
  /\ (UNCHANGED Facts!FIFO!vars) => UNCHANGED FIFO!vars
<1>1. /\ Facts!FIFO!vars = FIFO!vars /\ Facts!Queue = Queue
      /\ (Facts!FIFO!vars = FIFO!vars)' /\ (Facts!Queue = Queue)'
  BY SameQueue, PTL
<1> QED
  BY <1>1 DEF Facts!FIFO!Next, FIFO!Next, Facts!FIFO!Put, FIFO!Put, Facts!FIFO!Get, FIFO!Get,
     Facts!C

(* main sets up a state that satisfies the invariant. *)
LEMMA InitIInv == Init => IInv
<1> SUFFICES ASSUME Init PROVE IInv
  OBVIOUS
<1> USE DEF Init, BufferInit
<1>1. TypeOK
  BY DEF TypeOK, BufferTypeOK
<1>2. OwnerInv /\ LoopInv /\ NoMissedSignal /\ MainInv
  BY DEF OwnerInv, LoopInv, NoMissedSignal, MainInv
<1>3. TestedInv /\ CountRange /\ CounterInv /\ IndexInv
  BY DEF TestedInv, CountRange, CounterInv, IndexInv, Past, AfterCount, AfterAdvance
<1>4. CapacityInv
  BY DEF CapacityInv, Stored, Fetched, Past, AfterAccess, AfterAdvance, AfterCount
<1> QED  BY <1>1, <1>2, <1>3, <1>4 DEF IInv

(* The capacity of the buffer: the owner of Mutex has tested the counter,  *)
(* which is exact, and the other thread is not in its body.                *)
LEMMA Capacity ==
  ASSUME TypeOK, OwnerInv, TestedInv, CountRange, CounterInv
  PROVE  CapacityInv
<1>1. ~ (at[P] \in Inside /\ at[C] \in Inside)
  BY DEF OwnerInv
<1>2. ASSUME NEW p \in Workers
      PROVE  /\ Past(p, AfterCount) \in Nat
             /\ Past(p, AfterAccess) =
                  Past(p, AfterCount) + IF at[p] \in BodyLabels \ {"access"} THEN 1 ELSE 0
  BY DEF TypeOK, BufferTypeOK, Past, AfterAccess, AfterAdvance, AfterCount
<1>3. Past(P, AfterCount) - Past(C, AfterCount) \in 0 .. MAX_BUF
  BY DEF CounterInv, CountRange
<1> QED  BY <1>1, <1>2, <1>3 DEF TestedInv, CapacityInv, Stored, Fetched

(* The same in the next state. *)
LEMMA CapacityNext ==
  TypeOK' /\ OwnerInv' /\ TestedInv' /\ CountRange' /\ CounterInv' => CapacityInv'
<1>1. TypeOK /\ OwnerInv /\ TestedInv /\ CountRange /\ CounterInv => CapacityInv
  BY Capacity
<1> QED  BY <1>1, PTL

(* What the operations on Mutex, NotFull and NotEmpty have in common: they *)
(* take no thread past a statement of the loop body.                       *)
Outside ==
  /\ UNCHANGED <<buf, in, out, counter, data, reg, i, main>>
  /\ \A p \in Workers : /\ at'[p] \in AfterAccess <=> at[p] \in AfterAccess
                        /\ at'[p] \in AfterAdvance <=> at[p] \in AfterAdvance
                        /\ at'[p] \in AfterCount <=> at[p] \in AfterCount
                        /\ at'[p] = "count" => at[p] = "count"

(* Those operations by their effect on at and owner.                       *)
SyncStep(p, from, to) ==
  /\ at[p] = from /\ at'[p] = to
  /\ \A q \in Workers \ {p} :
       at'[q] = at[q] \/ (from = "signal" /\ at[q] = "asleep" /\ at'[q] = "relock")

Locks(p)   == /\ owner = Free /\ owner' = p
              /\ \/ SyncStep(p, "loop", "enter") /\ i[p] < NLOOPS
                 \/ SyncStep(p, "relock", "enter")
Blocks(p)  == owner' = Free /\ SyncStep(p, "enter", "asleep")
Passes(p)  == owner' = owner /\ SyncStep(p, "enter", "access")
Signals(p) == /\ owner' = owner /\ SyncStep(p, "signal", "leave")
              /\ \A q \in Workers : at'[q] # "asleep"
Unlocks(p) == owner' = Free /\ SyncStep(p, "leave", "sleep")
Wakes(p)   == owner' = owner /\ SyncStep(p, "asleep", "relock")

Blocked(p) == IF p = P THEN counter = MAX_BUF ELSE counter = 0

SyncSteps ==
  \E p \in Workers :
    \/ Locks(p) \/ Signals(p) \/ Unlocks(p) \/ Wakes(p)
    \/ Blocks(p) /\ Blocked(p)
    \/ Passes(p) /\ ~ Blocked(p)

LEMMA SyncEffect ==
  ASSUME TypeOK, OwnerInv, Producer \/ Consumer \/ \E p \in Workers : SpuriousWakeup(p)
  PROVE  TypeOK' /\ Outside /\ SyncSteps
<1> USE DEF TypeOK, BufferTypeOK, SyncStep
<1> DEFINE Effect == TypeOK' /\ Outside /\ SyncSteps
<1> SUFFICES Effect
  OBVIOUS
<1>1. ASSUME NEW p \in Workers, NEW from \in {"loop", "relock"}, Lock(p, from, "enter"),
             from = "loop" => i[p] < NLOOPS
      PROVE  Effect
  <2>1. TypeOK' /\ Locks(p)  BY <1>1 DEF Lock, Locks
  <2>2. Outside              BY <1>1 DEF Lock, Outside, AfterAccess, AfterAdvance, AfterCount
  <2> QED  BY <2>1, <2>2 DEF SyncSteps
<1>2. ASSUME NEW p \in Workers, Test(p, Blocked(p)) PROVE Effect
  <2>1. \/ Blocks(p) /\ Blocked(p)
        \/ Passes(p) /\ ~ Blocked(p)
    BY <1>2 DEF Test, Blocks, Passes
  <2>2. Outside              BY <1>2 DEF Test, Outside, AfterAccess, AfterAdvance, AfterCount
  <2>3. TypeOK'
    <3>1. at' \in [Workers -> Labels]          BY <1>2 DEF Test
    <3>2. owner' \in Workers \cup {Free}       BY <1>2 DEF Test
    <3> QED  BY <2>2, <3>1, <3>2 DEF Outside
  <2> QED  BY <2>1, <2>2, <2>3 DEF SyncSteps
<1>3. ASSUME NEW p \in Workers, NEW q \in Workers, p # q, Signal(p, q) PROVE Effect
  <2>0. at' \in [Workers -> Labels]
    BY <1>3 DEF Signal
  <2>1. TypeOK' /\ Signals(p)
    BY <1>3, <2>0 DEF Signal, Signals
  <2>2. Outside              BY <1>3 DEF Signal, Outside, AfterAccess, AfterAdvance, AfterCount
  <2> QED  BY <2>1, <2>2 DEF SyncSteps
<1>4. ASSUME NEW p \in Workers, Unlock(p) PROVE Effect
  <2>1. TypeOK' /\ Unlocks(p)  BY <1>4 DEF Unlock, Unlocks
  <2>2. Outside              BY <1>4 DEF Unlock, Outside, AfterAccess, AfterAdvance, AfterCount
  <2> QED  BY <2>1, <2>2 DEF SyncSteps
<1>5. ASSUME NEW p \in Workers, SpuriousWakeup(p) PROVE Effect
  <2>1. TypeOK' /\ Wakes(p)  BY <1>5 DEF SpuriousWakeup, Wakes
  <2>2. Outside
    BY <1>5 DEF SpuriousWakeup, Outside, AfterAccess, AfterAdvance, AfterCount
  <2> QED  BY <2>1, <2>2 DEF SyncSteps
<1> HIDE DEF Effect
<1>6. CASE Producer
  <2>1. Test(P, counter = MAX_BUF) => Test(P, Blocked(P))  BY DEF Blocked
  <2> QED  BY <1>1, <1>2, <1>3, <1>4, <1>6, <2>1 DEF Producer
<1>7. CASE Consumer
  <2>1. Test(C, counter = 0) => Test(C, Blocked(C))        BY DEF Blocked
  <2> QED  BY <1>1, <1>2, <1>3, <1>4, <1>7, <2>1 DEF Consumer
<1> QED  BY <1>5, <1>6, <1>7

(* They preserve the invariant. *)
LEMMA SyncIInv ==
  ASSUME IInv, TypeOK', Outside, SyncSteps
  PROVE  IInv'
<1>1. \A p \in Workers : Past(p, AfterCount)' = Past(p, AfterCount)
  BY DEF Outside, Past
<1>2. counter = Past(P, AfterCount) - Past(C, AfterCount) /\ counter' = counter
  BY DEF IInv, CounterInv, Outside
<1>3. /\ owner \in Workers \cup {Free} /\ counter \in 0 .. MAX_BUF
      /\ Past(P, AfterCount) \in Nat /\ Past(C, AfterCount) \in Nat
  BY DEF IInv, TypeOK, BufferTypeOK, CountRange, Past
<1>4. PICK p \in Workers : \/ Locks(p) \/ Signals(p) \/ Unlocks(p) \/ Wakes(p)
                           \/ Blocks(p) /\ Blocked(p)
                           \/ Passes(p) /\ ~ Blocked(p)
  BY DEF SyncSteps
<1> USE DEF Locks, Signals, Unlocks, Wakes, Blocks, Passes, Blocked, SyncStep
<1>5. OwnerInv' /\ LoopInv' /\ MainInv'
  BY <1>3, <1>4 DEF IInv, OwnerInv, LoopInv, MainInv, Outside
<1>6. NoMissedSignal'
  BY <1>2, <1>4 DEF IInv, NoMissedSignal
<1>7. TestedInv'
  BY <1>1, <1>2, <1>3, <1>4 DEF IInv, TestedInv
<1>8. CounterInv' /\ IndexInv' /\ CountRange'
  BY <1>1, <1>2 DEF IInv, Outside, CountRange, CounterInv, IndexInv, Past
<1> QED  BY <1>5, <1>6, <1>7, <1>8, CapacityNext DEF IInv

(* The loop body preserves the invariant: only the owner of Mutex is in it. *)
LEMMA BodyIInv ==
  ASSUME IInv, NEW p \in Workers, Body(p, "signal"), UNCHANGED <<main, owner>>
  PROVE  IInv'
<1>1. /\ Facts!BufferAssumption /\ Facts!Shape /\ "signal" \in Facts!AfterCount
      /\ p \in Facts!Workers /\ Facts!Body(p, "signal")
  BY SameBuffer, SameBody DEF IInv, TypeOK, AfterCount
<1>2. /\ Facts!Shape'
      /\ \E from, to \in Facts!AnyLabel : Facts!BodyStep(p, "signal", from, to)
  BY <1>1, Facts!BodySteps
<1>3. PICK from \in Facts!AnyLabel, to \in Facts!AnyLabel :
        Facts!BodyStep(p, "signal", from, to)
  BY <1>2
<1> USE DEF Facts!BodyStep, Facts!BodyMoves, Facts!Shape, Facts!Workers, Facts!P, Facts!C,
            Facts!Slots
<1>4. /\ i[P] \in Nat /\ i[C] \in Nat /\ i'[P] \in Nat /\ i'[C] \in Nat
      /\ at \in [Workers -> Labels]
  BY <1>2 DEF IInv, TypeOK, BufferTypeOK
<1>5. TypeOK'
  <2>1. i' \in [Workers -> 0 .. NLOOPS]
    BY <1>2, <1>3 DEF IInv, TypeOK, BufferTypeOK, LoopInv
  <2>2. at' \in [Workers -> Labels]
    BY <1>2, <1>3, <1>4
  <2> QED  BY <1>2, <2>1, <2>2 DEF IInv, TypeOK, BufferTypeOK
<1>6. OwnerInv' /\ LoopInv' /\ MainInv'
  BY <1>3, <1>4, <1>5
  DEF IInv, OwnerInv, LoopInv, MainInv, TypeOK, BufferTypeOK
<1>7. ~ (at[P] \in Inside /\ at[C] \in Inside)
  BY DEF IInv, OwnerInv
<1>8. CounterInv'
  <2>1. Facts!CounterFor(Workers)' <=> CounterInv'
    BY SameBuffer, PTL
  <2> QED  BY <1>1, <1>7, <2>1, Facts!BodyCounter, SameBuffer DEF IInv
<1>9. IndexInv'
  <2>1. Facts!IndexInv' <=> IndexInv'
    BY SameBuffer, PTL
  <2> QED  BY <1>1, <2>1, Facts!BodyIndex, SameBuffer DEF IInv
<1>10. TestedInv' /\ NoMissedSignal' /\ CountRange'
  <2>1. /\ counter' = Past(P, AfterCount)' - Past(C, AfterCount)'
        /\ counter = Past(P, AfterCount) - Past(C, AfterCount)
        /\ Past(P, AfterCount) \in Nat /\ Past(C, AfterCount) \in Nat
    BY <1>4, <1>8 DEF IInv, CounterInv, Past
  <2>2. /\ \A q \in Workers \ {p} : Past(q, AfterCount)' = Past(q, AfterCount)
        /\ Past(p, AfterCount)' = Past(p, AfterCount) + (IF from = "count" THEN 1 ELSE 0)
    BY <1>3, <1>4 DEF Past, AfterCount
  <2> QED
    BY <1>3, <1>7, <2>1, <2>2
    DEF IInv, TestedInv, NoMissedSignal, CountRange
<1> QED  BY <1>5, <1>6, <1>8, <1>9, <1>10, CapacityNext DEF IInv

(* Every step preserves the invariant. *)
LEMMA NextIInv == IInv /\ [Next]_vars => IInv'
<1> SUFFICES ASSUME IInv, [Next]_vars PROVE IInv'
  OBVIOUS
<1> USE DEF vars
<1>1. ASSUME UNCHANGED vars PROVE IInv'
  BY <1>1 DEF IInv, TypeOK, BufferTypeOK, OwnerInv, LoopInv, NoMissedSignal, TestedInv,
              CountRange, CounterInv, IndexInv, CapacityInv, MainInv, Past, Stored, Fetched
<1>2. ASSUME NEW p \in Workers, Thread(p) \/ SpuriousWakeup(p) PROVE IInv'
  BY <1>2, SyncEffect, SyncIInv, BodyIInv DEF Thread, IInv
<1>3. ASSUME Main, UNCHANGED owner PROVE IInv'
  <2>1. UNCHANGED <<buf, in, out, counter, data, reg, i, at, owner>>
    BY <1>3 DEF Main, Join
  <2>2. TypeOK' /\ LoopInv' /\ MainInv'
    BY <1>3, <2>1 DEF IInv, Main, Join, TypeOK, BufferTypeOK, LoopInv, MainInv
  <2>3. OwnerInv' /\ NoMissedSignal' /\ TestedInv'
    BY <2>1 DEF IInv, OwnerInv, NoMissedSignal, TestedInv, Past
  <2>4. CountRange' /\ CounterInv' /\ IndexInv' /\ CapacityInv'
    BY <2>1 DEF IInv, CountRange, CounterInv, IndexInv, CapacityInv, Past, Stored, Fetched
  <2> QED  BY <2>2, <2>3, <2>4 DEF IInv
<1> QED  BY <1>1, <1>2, <1>3 DEF Next, Terminated

----------------------------------------------------------------------------
(* For every NLOOPS, MAX_BUF and set of items: Mutex has one owner, who    *)
(* finds the condition it tested still true; no thread sleeps on a         *)
(* condition that is true unless its wakeup is about to be signalled; the  *)
(* counter and the indices are exact, and the buffer neither overflows nor *)
(* runs empty under the thread that uses it.                               *)
THEOREM Invariance == Spec => []IInv
BY InitIInv, NextIInv, PTL DEF Spec

(* What the lemmas on the shared buffer ask for is in the invariant. *)
LEMMA BufferInvariant == IInv => Facts!BufferInv
BY SameBuffer DEF IInv, TypeOK, Facts!BufferInv

LEMMA Invisible ==
  ASSUME Facts!BufferInv, Facts!BufferInv', UNCHANGED <<buf, data, i>>,
         \A p \in Workers : at[p] \in AfterAccess <=> at'[p] \in AfterAccess
  PROVE  UNCHANGED FIFO!vars
BY SameBuffer, SameQueueSteps, Facts!SyncRefines DEF Facts!BufferInv

LEMMA NextRefines == IInv /\ IInv' /\ [Next]_vars => [FIFO!Next]_FIFO!vars
<1> SUFFICES ASSUME IInv, IInv', [Next]_vars PROVE [FIFO!Next]_FIFO!vars
  OBVIOUS
<1>1. Facts!BufferInv /\ Facts!BufferInv'
  BY BufferInvariant, PTL
<1>2. ASSUME NEW p \in Workers, Body(p, "signal") PROVE [FIFO!Next]_FIFO!vars
  BY <1>1, <1>2, Facts!BodyRefines, SameBuffer, SameBody, SameQueueSteps DEF AfterCount
<1>3. ASSUME Producer \/ Consumer \/ \E p \in Workers : SpuriousWakeup(p)
      PROVE  UNCHANGED FIFO!vars
  BY <1>1, <1>3, SyncEffect, Invisible DEF IInv, Outside
<1>4. ASSUME Main \/ UNCHANGED vars PROVE UNCHANGED FIFO!vars
  <2>1. UNCHANGED <<buf, data, i, at>>
    BY <1>4 DEF Main, Join, vars
  <2> QED  BY <1>1, <2>1, Invisible
<1> QED  BY <1>2, <1>3, <1>4 DEF Next, Thread, Terminated

(* prodcons_m.c implements the bounded FIFO buffer: every item produced is *)
(* consumed once and in order.                                             *)
THEOREM Refinement == Spec => ImplementsBuffer
<1>1. Init => FIFO!Init
  BY SameBuffer, SameQueue, Facts!InitRefines
  DEF Init, BufferInit, Facts!BufferInit, Facts!Slots, Facts!P, Facts!C, Facts!FIFO!Init,
      FIFO!Init
<1> QED  BY Invariance, NextRefines, <1>1, PTL DEF Spec, ImplementsBuffer, FIFO!Spec

=============================================================================
