--------------------------- MODULE ProdConsProofs ---------------------------
(***************************************************************************)
(* Theorems about HW9/prodcons.c for every number of rounds, every buffer  *)
(* size and every data: the accounting of the semaphores, the counter that *)
(* is exact at the end, and the refinement of the bounded FIFO buffer.     *)
(*                                                                         *)
(* The first half is about SharedBuffer alone and serves the other         *)
(* programs too: the arithmetic of the indices, and what storing and       *)
(* fetching an item do to the queue that the ring buffer represents.       *)
(***************************************************************************)
EXTENDS ProdCons, SequenceTheorems, TLAPS

(* Division with remainder. *)
LEMMA DivMod ==
  ASSUME NEW a \in Nat, NEW m \in Nat \ {0}
  PROVE  /\ a \div m \in Nat
         /\ a % m \in 0 .. m - 1
         /\ a = m * (a \div m) + (a % m)
OBVIOUS

(* Quotient and remainder are unique. *)
LEMMA ModUnique ==
  ASSUME NEW a \in Nat, NEW m \in Nat \ {0}, NEW q \in Nat, NEW r \in 0 .. m - 1,
         a = m * q + r
  PROVE  a % m = r
<1>1. a \div m \in Nat /\ a % m \in 0 .. m - 1 /\ a = m * (a \div m) + (a % m)
  BY DivMod
<1>2. CASE q = a \div m
  BY <1>1, <1>2
<1>3. CASE q > a \div m
  <2>1. m * q >= m * ((a \div m) + 1)  BY <1>1, <1>3
  <2> QED  BY <1>1, <2>1
<1>4. CASE q < a \div m
  <2>1. m * (q + 1) <= m * (a \div m)  BY <1>1, <1>4
  <2> QED  BY <1>1, <2>1
<1> QED  BY <1>1, <1>2, <1>3, <1>4

(* Advancing an index and reducing it commute. *)
LEMMA ModSucc ==
  ASSUME NEW a \in Nat, NEW m \in Nat \ {0}
  PROVE  ((a % m) + 1) % m = (a + 1) % m
<1>1. a \div m \in Nat /\ a % m \in 0 .. m - 1 /\ a = m * (a \div m) + (a % m)
  BY DivMod
<1>2. CASE (a % m) + 1 = m
  <2> DEFINE b == a + 1
             q == (a \div m) + 1
             r == 0
  <2>1. b \in Nat /\ q \in Nat /\ r \in 0 .. m - 1 /\ b = m * q + r
    BY <1>1, <1>2
  <2> HIDE DEF b, q, r
  <2>2. b % m = r    BY <2>1, ModUnique
  <2>3. m % m = 0    OBVIOUS
  <2> QED  BY <1>2, <2>2, <2>3 DEF b, r
<1>3. CASE (a % m) + 1 < m
  <2> DEFINE b == a + 1
             q == a \div m
             r == (a % m) + 1
  <2>1. b \in Nat /\ q \in Nat /\ r \in 0 .. m - 1 /\ b = m * q + r
    BY <1>1, <1>3
  <2> HIDE DEF b, q, r
  <2>2. b % m = r  BY <2>1, ModUnique
  <2>3. r % m = r  BY <2>1
  <2> QED  BY <2>2, <2>3 DEF b, r
<1> QED  BY <1>1, <1>2, <1>3

(* Fewer than m consecutive numbers have different remainders: slots in    *)
(* use at the same time are different slots.                               *)
LEMMA ModDistinct ==
  ASSUME NEW m \in Nat \ {0}, NEW a \in Nat, NEW b \in Nat, a < b, b < a + m
  PROVE  a % m # b % m
<1> DEFINE p == a \div m
           q == b \div m
           r == a % m
<1>1. p \in Nat /\ r \in 0 .. m - 1 /\ a = m * p + r
  BY DivMod
<1>2. q \in Nat /\ b = m * q + (b % m)
  BY DivMod
<1> SUFFICES ASSUME b % m = r PROVE FALSE
  OBVIOUS
<1>3. b = m * q + r
  BY <1>2
<1> HIDE DEF p, q, r
<1>4. CASE q <= p
  <2>1. m * q <= m * p  BY <1>1, <1>2, <1>4
  <2> QED  BY <1>1, <1>2, <1>3, <2>1
<1>5. CASE q > p
  <2>1. m * q >= m * (p + 1)      BY <1>1, <1>2, <1>5
  <2>2. m * (p + 1) = m * p + m   BY <1>1
  <2> QED  BY <1>1, <1>2, <1>3, <2>1, <2>2
<1> QED  BY <1>1, <1>2, <1>4, <1>5

----------------------------------------------------------------------------
USE BufferAssumption DEF P, C, Workers, Slots

(* The labels of the threads, and of the processes of ProdConsSysV.        *)
AnyLabel ==
  Labels \cup {"start", "get_empty", "get_full", "get_mutex",
               "set_empty", "set_full", "set_mutex", "destroy_empty",
               "destroy_full", "destroy_mutex"}

(* What the lemmas below need of the state: the types of the variables.    *)
Shape ==
  /\ buf \in [Slots -> Items \cup {NoItem}]
  /\ in \in Slots /\ out \in Slots
  /\ counter \in Int
  /\ data \in [Workers -> Items \cup {NoItem}]
  /\ reg \in [Workers -> Int]
  /\ i \in [Workers -> Nat]
  /\ at \in [Workers -> AnyLabel]

BufferInv == Shape /\ IndexInv /\ CapacityInv

LEMMA ShapeOfType == BufferTypeOK => Shape
BY DEF BufferTypeOK, Shape, AnyLabel, Labels, BodyLabels

LEMMA PastType ==
  ASSUME Shape, NEW p \in Workers, NEW labels
  PROVE  Past(p, labels) \in Nat
BY DEF Shape, Past

----------------------------------------------------------------------------
(* A thread's step in the loop body, seen from outside: it moves between   *)
(* two labels of its loop, or starts its next round.                       *)
BodyMoves(next) ==
  {<<"access", "advance">>, <<"advance", "load">>, <<"load", "count">>, <<"count", next>>,
   <<"sleep", "loop">>, <<"loop", "done">>}

BodyStep(p, next, from, to) ==
  /\ <<from, to>> \in BodyMoves(next)
  /\ at[p] = from /\ at'[p] = to
  /\ \A q \in Workers \ {p} : at'[q] = at[q] /\ i'[q] = i[q]
  /\ i'[p] = i[p] + (IF from = "sleep" THEN 1 ELSE 0)
  /\ from = "loop" => i[p] = NLOOPS

LEMMA BodySteps ==
  ASSUME Shape, NEW p \in Workers, NEW next \in AfterCount, Body(p, next)
  PROVE  Shape' /\ \E from, to \in AnyLabel : BodyStep(p, next, from, to)
<1> USE DEF Shape, AnyLabel, Labels, BodyLabels, BodyStep, BodyMoves, Move, AfterCount
<1>1. CASE UNCHANGED i /\ p = P /\ Store
  BY <1>1 DEF Store
<1>2. CASE UNCHANGED i /\ p = C /\ Fetch
  BY <1>2 DEF Fetch
<1>3. CASE UNCHANGED i /\ p = P /\ AdvanceIn
  BY <1>3 DEF AdvanceIn, Succ
<1>4. CASE UNCHANGED i /\ p = C /\ AdvanceOut
  BY <1>4 DEF AdvanceOut, Succ
<1>5. CASE UNCHANGED i /\ LoadCounter(p)
  BY <1>5 DEF LoadCounter
<1>6. CASE UNCHANGED i /\ StoreCounter(p, next)
  BY <1>6 DEF StoreCounter
<1>7. CASE Wake(p)
  BY <1>7 DEF Wake, bufferVars
<1>8. CASE Exit(p)
  BY <1>8 DEF Exit, bufferVars
<1> QED  BY <1>1, <1>2, <1>3, <1>4, <1>5, <1>6, <1>7, <1>8 DEF Body

(* The counter stays exact as long as two threads that live are not both   *)
(* in the body: then no increment or decrement is lost between load and    *)
(* store.  What a dead one has loaded does not matter.                     *)
CounterFor(alive) ==
  /\ counter = Past(P, AfterCount) - Past(C, AfterCount)
  /\ \A p \in alive : at[p] = "count" => reg[p] = counter

LEMMA BodyCounter ==
  ASSUME Shape, NEW alive \in SUBSET Workers, NEW p \in alive, NEW next \in AfterCount,
         CounterFor(alive), Body(p, next),
         at[p] \in BodyLabels => \A q \in alive \ {p} : at[q] \notin BodyLabels
  PROVE  CounterFor(alive)'
<1>1. PICK from \in AnyLabel, to \in AnyLabel : BodyStep(p, next, from, to)
  BY BodySteps
<1>2. /\ i[P] \in Int /\ i[C] \in Int /\ i'[P] \in Int /\ i'[C] \in Int
      /\ counter \in Int /\ at \in [Workers -> AnyLabel] /\ reg \in [Workers -> Int]
  BY BodySteps DEF Shape
<1>3. CASE LoadCounter(p)
  <2>1. /\ UNCHANGED counter /\ reg'[p] = counter /\ from = "load" /\ to = "count"
        /\ \A q \in Workers \ {p} : reg'[q] = reg[q]
    BY <1>1, <1>2, <1>3 DEF LoadCounter, BodyStep, Move
  <2>2. \A q \in Workers : Past(q, AfterCount)' = Past(q, AfterCount)
    BY <1>1, <1>2, <1>3, <2>1 DEF BodyStep, Past, AfterCount
  <2> QED  BY <1>1, <2>1, <2>2 DEF CounterFor, BodyStep
<1>4. CASE StoreCounter(p, next)
  <2>1. /\ counter' = reg[p] + (IF p = P THEN 1 ELSE -1)
        /\ from = "count" /\ to = next
    BY <1>1, <1>2, <1>4 DEF StoreCounter, BodyStep, Move
  <2>2. /\ Past(p, AfterCount)' = Past(p, AfterCount) + 1
        /\ \A q \in Workers \ {p} : Past(q, AfterCount)' = Past(q, AfterCount)
        /\ \A q \in Workers : Past(q, AfterCount) \in Int
    BY <1>1, <1>2, <2>1 DEF BodyStep, Past, AfterCount
  <2>3. reg[p] = counter /\ counter = Past(P, AfterCount) - Past(C, AfterCount)
    BY <1>1, <2>1 DEF CounterFor, BodyStep
  <2>4. \A q \in alive : at'[q] # "count"
    BY <1>1, <2>1 DEF BodyStep, BodyLabels, AfterCount
  <2>5. CASE p = P
    BY <1>2, <2>1, <2>2, <2>3, <2>4, <2>5 DEF CounterFor
  <2>6. CASE p = C
    BY <1>2, <2>1, <2>2, <2>3, <2>4, <2>6 DEF CounterFor
  <2> QED  BY <2>5, <2>6
<1>5. CASE ~ LoadCounter(p) /\ ~ StoreCounter(p, next)
  <2>1. UNCHANGED <<counter, reg>> /\ at'[p] # "count" /\ from # "count"
    BY <1>1, <1>2, <1>5 DEF Body, Store, Fetch, AdvanceIn, AdvanceOut, Wake, Exit, BodyStep,
                            BodyMoves, Move, bufferVars, AfterCount
  <2>2. \A q \in Workers : Past(q, AfterCount)' = Past(q, AfterCount)
    BY <1>1, <1>2, <2>1 DEF BodyStep, BodyMoves, Past, AfterCount
  <2> QED  BY <1>1, <2>1, <2>2 DEF CounterFor, BodyStep
<1> QED  BY <1>3, <1>4, <1>5

(* The indices follow the items: only AdvanceIn and AdvanceOut move them.  *)
LEMMA BodyIndex ==
  ASSUME Shape, IndexInv, NEW p \in Workers, NEW next \in AfterCount, Body(p, next)
  PROVE  IndexInv'
<1>1. PICK from \in AnyLabel, to \in AnyLabel : BodyStep(p, next, from, to)
  BY BodySteps
<1>2. /\ i[P] \in Int /\ i[C] \in Int /\ i'[P] \in Int /\ i'[C] \in Int
      /\ at \in [Workers -> AnyLabel]
  BY BodySteps DEF Shape
<1>3. \A q \in Workers : Past(q, AfterAdvance) \in Nat
  BY PastType
<1>4. CASE p = P /\ AdvanceIn /\ UNCHANGED i
  <2>1. /\ Past(P, AfterAdvance)' = Past(P, AfterAdvance) + 1
        /\ Past(C, AfterAdvance)' = Past(C, AfterAdvance)
        /\ in' = Succ(in) /\ out' = out
    BY <1>2, <1>4 DEF AdvanceIn, Move, Past, AfterAdvance, AfterCount
  <2> QED  BY <1>3, <2>1, ModSucc DEF IndexInv, Succ
<1>5. CASE p = C /\ AdvanceOut /\ UNCHANGED i
  <2>1. /\ Past(C, AfterAdvance)' = Past(C, AfterAdvance) + 1
        /\ Past(P, AfterAdvance)' = Past(P, AfterAdvance)
        /\ out' = Succ(out) /\ in' = in
    BY <1>2, <1>5 DEF AdvanceOut, Move, Past, AfterAdvance, AfterCount
  <2> QED  BY <1>3, <2>1, ModSucc DEF IndexInv, Succ
<1>6. CASE ~ (p = P /\ AdvanceIn /\ UNCHANGED i) /\ ~ (p = C /\ AdvanceOut /\ UNCHANGED i)
  <2>1. UNCHANGED <<in, out>> /\ from # "advance"
    BY <1>1, <1>6 DEF Body, Store, Fetch, LoadCounter, StoreCounter, Wake, Exit, BodyStep,
                      bufferVars
  <2>2. \A q \in Workers : Past(q, AfterAdvance)' = Past(q, AfterAdvance)
    BY <1>1, <1>2, <2>1 DEF BodyStep, BodyMoves, Past, AfterAdvance, AfterCount
  <2> QED  BY <2>1, <2>2 DEF IndexInv
<1> QED  BY <1>4, <1>5, <1>6

(* A step that moves no thread past a statement of the body, and touches   *)
(* neither the buffer's counter and indices nor i, preserves both.         *)
LEMMA SyncCounterIndex ==
  ASSUME CounterInv, IndexInv, UNCHANGED <<in, out, counter, reg, i>>,
         \A p \in Workers : /\ at'[p] \in AfterAdvance <=> at[p] \in AfterAdvance
                            /\ at'[p] \in AfterCount <=> at[p] \in AfterCount
                            /\ at'[p] = "count" => at[p] = "count"
  PROVE  CounterInv' /\ IndexInv'
BY DEF CounterInv, IndexInv, Past

----------------------------------------------------------------------------
(* The queue is a sequence of as many items as were stored and not fetched. *)
QueueOK ==
  /\ Queue \in Seq(Items \cup {NoItem})
  /\ Len(Queue) = Stored - Fetched
  /\ \A k \in 1 .. Len(Queue) : Queue[k] = buf[(Fetched + k - 1) % MAX_BUF]

LEMMA QueueProperties == BufferInv => QueueOK
<1> SUFFICES ASSUME BufferInv PROVE QueueOK
  OBVIOUS
<1> DEFINE n == Stored - Fetched
<1>1. n \in Nat /\ Fetched \in Nat
  BY PastType DEF BufferInv, CapacityInv, Fetched, Stored
<1>2. \A k \in 1 .. n : buf[(Fetched + k - 1) % MAX_BUF] \in Items \cup {NoItem}
  <2> SUFFICES ASSUME NEW k \in 1 .. n
               PROVE  buf[(Fetched + k - 1) % MAX_BUF] \in Items \cup {NoItem}
    OBVIOUS
  <2>1. Fetched + k - 1 \in Nat                  BY <1>1
  <2>2. (Fetched + k - 1) % MAX_BUF \in Slots    BY <2>1
  <2> QED  BY <2>2 DEF BufferInv, Shape
<1>3. Queue \in [1 .. n -> Items \cup {NoItem}]
  BY <1>2 DEF Queue
<1>4. Queue \in Seq(Items \cup {NoItem})
  BY <1>1, <1>3, SeqDef
<1>5. Len(Queue) = n
  BY <1>1, <1>3, <1>4, LenProperties
<1> QED  BY <1>4, <1>5 DEF Queue, QueueOK

(* The same in the next state. *)
LEMMA QueuePropertiesNext == BufferInv' => QueueOK'
BY QueueProperties, PTL

(* Storing an item puts it at the end of the queue, and overwrites none:   *)
(* the slots of the queued items are other slots.                          *)
LEMMA StorePuts ==
  ASSUME BufferInv, BufferInv', Store, UNCHANGED i
  PROVE  \E d \in Items : FIFO!Put(d)
<1>1. PICK d \in Items : /\ data' = [data EXCEPT ![P] = d]
                         /\ buf' = [buf EXCEPT ![in] = d]
  BY DEF Store
<1> DEFINE S == Items \cup {NoItem}
           n == Stored - Fetched
           f == Fetched
<1>2. f \in Nat /\ n \in Nat /\ n < MAX_BUF /\ Stored \in Nat
  BY PastType DEF BufferInv, CapacityInv, Fetched, Stored, Store
<1>3. Stored' = Stored + 1 /\ Fetched' = f
  BY DEF Store, Move, BufferInv, Shape, Stored, Fetched, Past, AfterAccess,
         AfterAdvance, AfterCount
<1>4. in = (f + n) % MAX_BUF
  BY <1>2 DEF Store, BufferInv, IndexInv, Stored, Past, AfterAccess, AfterAdvance, AfterCount
<1>5. /\ Queue \in Seq(S) /\ Len(Queue) = n
      /\ \A k \in 1 .. n : Queue[k] = buf[(f + k - 1) % MAX_BUF]
  BY QueueProperties DEF QueueOK
<1>6. /\ Queue' \in Seq(S) /\ Len(Queue') = n + 1
      /\ \A k \in 1 .. n + 1 : Queue'[k] = buf'[(f + k - 1) % MAX_BUF]
  <2>1. (Stored - Fetched)' = n + 1  BY <1>2, <1>3
  <2> QED  BY <1>3, <2>1, QueuePropertiesNext DEF QueueOK
<1> HIDE DEF n, f
<1>7. buf \in [Slots -> S] /\ in \in Slots
  BY DEF BufferInv, Shape
<1>8. ASSUME NEW k \in 1 .. n PROVE Queue'[k] = Queue[k]
  <2>1. f + k - 1 \in Nat /\ f + n \in Nat /\ f + k - 1 < f + n
        /\ f + n < (f + k - 1) + MAX_BUF
    BY <1>2
  <2>2. (f + k - 1) % MAX_BUF # in            BY <1>4, <2>1, ModDistinct
  <2>3. (f + k - 1) % MAX_BUF \in Slots       BY <2>1
  <2>4. buf'[(f + k - 1) % MAX_BUF] = buf[(f + k - 1) % MAX_BUF]
    BY <1>1, <1>7, <2>2, <2>3
  <2>5. k \in 1 .. n + 1                         BY <1>2
  <2>6. Queue'[k] = buf'[(f + k - 1) % MAX_BUF]  BY <1>6, <2>5
  <2>7. Queue[k] = buf[(f + k - 1) % MAX_BUF]    BY <1>5
  <2> QED  BY <2>4, <2>6, <2>7
<1>9. Queue'[n + 1] = d
  <2>1. f + (n + 1) - 1 = f + n  BY <1>2
  <2>2. buf'[in] = d             BY <1>1, <1>7
  <2> QED  BY <1>2, <1>4, <1>6, <2>1, <2>2
<1>10. Queue' = Append(Queue, d)
  <2>1. /\ Append(Queue, d) \in Seq(S) /\ Len(Append(Queue, d)) = n + 1
        /\ \A k \in 1 .. n : Append(Queue, d)[k] = Queue[k]
        /\ Append(Queue, d)[n + 1] = d
    BY <1>5, AppendProperties
  <2>2. \A k \in 1 .. n + 1 : Queue'[k] = Append(Queue, d)[k]
    BY <1>2, <1>8, <1>9, <2>1
  <2> QED  BY <1>6, <2>1, <2>2, SeqEqual
<1>11. data[C]' = data[C]
  BY <1>1 DEF BufferInv, Shape
<1> QED  BY <1>2, <1>5, <1>10, <1>11 DEF FIFO!Put

(* Fetching takes the oldest item of the queue. *)
LEMMA FetchGets ==
  ASSUME BufferInv, BufferInv', Fetch, UNCHANGED i
  PROVE  FIFO!Get
<1> DEFINE S == Items \cup {NoItem}
           n == Stored - Fetched
           f == Fetched
<1>1. f \in Nat /\ n \in Nat /\ n > 0 /\ Stored \in Nat
  BY PastType DEF BufferInv, CapacityInv, Fetched, Stored, Fetch
<1>2. Stored' = Stored /\ Fetched' = f + 1
  BY DEF Fetch, Move, BufferInv, Shape, Stored, Fetched, Past, AfterAccess,
         AfterAdvance, AfterCount
<1>3. out = f % MAX_BUF
  BY DEF Fetch, BufferInv, IndexInv, Fetched, Past, AfterAccess, AfterAdvance, AfterCount
<1>4. /\ Queue \in Seq(S) /\ Len(Queue) = n
      /\ \A k \in 1 .. n : Queue[k] = buf[(f + k - 1) % MAX_BUF]
  BY QueueProperties DEF QueueOK
<1>5. /\ Queue' \in Seq(S) /\ Len(Queue') = n - 1
      /\ \A k \in 1 .. n - 1 : Queue'[k] = buf[(f + 1 + k - 1) % MAX_BUF]
  <2>1. (Stored - Fetched)' = n - 1  BY <1>1, <1>2
  <2>2. buf' = buf                   BY DEF Fetch
  <2> QED  BY <1>2, <2>1, <2>2, QueuePropertiesNext DEF QueueOK
<1>6. data[C]' = buf[out]
  BY DEF Fetch, BufferInv, Shape
<1> HIDE DEF n, f
<1>7. Queue # << >>
  BY <1>1, <1>4, EmptySeq
<1>8. Head(Queue) = buf[out]
  <2>1. Head(Queue) = Queue[1]  BY <1>4, <1>7
  <2>2. f + 1 - 1 = f           BY <1>1
  <2> QED  BY <1>1, <1>3, <1>4, <2>1, <2>2
<1>9. Queue' = Tail(Queue)
  <2>1. /\ Tail(Queue) \in Seq(S) /\ Len(Tail(Queue)) = n - 1
        /\ \A k \in 1 .. n - 1 : Tail(Queue)[k] = Queue[k + 1]
    BY <1>4, <1>7, HeadTailProperties
  <2>2. \A k \in 1 .. n - 1 : Queue'[k] = Tail(Queue)[k]
    <3> SUFFICES ASSUME NEW k \in 1 .. n - 1 PROVE Queue'[k] = Tail(Queue)[k]
      OBVIOUS
    <3>1. f + 1 + k - 1 = f + (k + 1) - 1 /\ k + 1 \in 1 .. n  BY <1>1
    <3> QED  BY <1>4, <1>5, <2>1, <3>1
  <2> QED  BY <1>5, <2>1, <2>2, SeqEqual
<1> QED  BY <1>6, <1>7, <1>8, <1>9 DEF FIFO!Get

(* No other step of a thread can be seen in the queue. *)
LEMMA QueueUnchanged ==
  ASSUME UNCHANGED <<buf, data>>, Stored' = Stored, Fetched' = Fetched
  PROVE  UNCHANGED FIFO!vars
BY DEF FIFO!vars, Queue

(* A thread's step in the loop body is a step of the queue or invisible.   *)
LEMMA BodyRefines ==
  ASSUME BufferInv, BufferInv', NEW p \in Workers, NEW next \in AfterCount, Body(p, next)
  PROVE  [FIFO!Next]_FIFO!vars
<1>1. CASE Store /\ UNCHANGED i
  BY <1>1, StorePuts DEF FIFO!Next
<1>2. CASE Fetch /\ UNCHANGED i
  BY <1>2, FetchGets DEF FIFO!Next
<1>3. CASE UNCHANGED i /\ (AdvanceIn \/ AdvanceOut \/ LoadCounter(p) \/ StoreCounter(p, next))
  <2>1. UNCHANGED <<buf, data>>
    BY <1>3 DEF AdvanceIn, AdvanceOut, LoadCounter, StoreCounter
  <2>2. Stored' = Stored /\ Fetched' = Fetched
    BY <1>3 DEF AdvanceIn, AdvanceOut, LoadCounter, StoreCounter, Move, BufferInv,
                Shape, Stored, Fetched, Past, AfterAccess, AfterAdvance, AfterCount
  <2> QED  BY <2>1, <2>2, QueueUnchanged
<1>4. CASE Wake(p) \/ Exit(p)
  <2>1. UNCHANGED <<buf, data>>
    BY <1>4 DEF Wake, Exit, bufferVars
  <2>2. Stored' = Stored /\ Fetched' = Fetched
    BY <1>4 DEF Wake, Exit, Move, BufferInv, Shape, Stored, Fetched, Past,
                AfterAccess, AfterAdvance, AfterCount
  <2> QED  BY <2>1, <2>2, QueueUnchanged
<1> QED  BY <1>1, <1>2, <1>3, <1>4 DEF Body

(* A step that moves threads between labels on the same side of the access *)
(* and touches neither buf, data nor i is invisible.                       *)
LEMMA SyncRefines ==
  ASSUME Shape, Shape', UNCHANGED <<buf, data, i>>,
         \A p \in Workers : at[p] \in AfterAccess <=> at'[p] \in AfterAccess
  PROVE  UNCHANGED FIFO!vars
<1>1. Stored' = Stored /\ Fetched' = Fetched
  BY DEF Stored, Fetched, Past
<1> QED  BY <1>1, QueueUnchanged

(* The empty buffer is the empty queue. *)
LEMMA InitRefines == BufferInit => FIFO!Init
<1> SUFFICES ASSUME BufferInit PROVE FIFO!Init
  OBVIOUS
<1>1. Stored = 0 /\ Fetched = 0
  BY DEF BufferInit, Stored, Fetched, Past, AfterAccess, AfterAdvance, AfterCount
<1>2. Queue = [k \in 1 .. 0 |-> buf[(0 + k - 1) % MAX_BUF]]
  BY <1>1 DEF Queue
<1>3. Queue = << >>
  BY <1>2
<1> QED  BY <1>3 DEF FIFO!Init, BufferInit

----------------------------------------------------------------------------
(* prodcons.c. *)

USE DEF Move, BodyLabels, Labels, Semaphores, bufferVars

(* main sets up a state that satisfies the invariant. *)
LEMMA InitIInv == Init => IInv
<1> SUFFICES ASSUME Init PROVE IInv
  OBVIOUS
<1> USE DEF Init, BufferInit
<1>1. TypeOK
  BY DEF TypeOK, BufferTypeOK
<1>2. LoopInv /\ MainInv
  BY DEF LoopInv, MainInv, Claimed, Inside
<1>3. SemaphoreInv
  BY DEF SemaphoreInv, B, Past, Claimed, Inside
<1>4. CounterInv /\ IndexInv
  BY DEF CounterInv, IndexInv, Past, AfterCount, AfterAdvance
<1>5. CapacityInv
  BY DEF CapacityInv, Stored, Fetched, Past, AfterAccess, AfterAdvance, AfterCount
<1> QED  BY <1>1, <1>2, <1>3, <1>4, <1>5 DEF IInv

(* The capacity of the buffer is a consequence of the accounting: EmptySem *)
(* keeps the producer from overtaking the consumer by more than MAX_BUF,   *)
(* FullSem the consumer from overtaking the producer.                      *)
LEMMA Capacity ==
  ASSUME TypeOK, SemaphoreInv
  PROVE  CapacityInv
<1> USE DEF Past, Claimed, Inside, AfterAccess, AfterAdvance, AfterCount
<1>1. ASSUME NEW p \in Workers
      PROVE  /\ Past(p, {"sleep"}) \in Nat /\ Past(p, AfterAccess) \in Nat
             /\ Past(p, Claimed) \in Nat
             /\ Past(p, {"sleep"}) <= Past(p, AfterAccess)
             /\ Past(p, AfterAccess) <= Past(p, Claimed)
             /\ at[p] = "access" => Past(p, AfterAccess) < Past(p, Claimed)
  BY DEF TypeOK, BufferTypeOK
<1> HIDE DEF Past, Claimed, Inside, AfterAccess, AfterAdvance, AfterCount
<1>2. sem["EmptySem"] \in Nat /\ sem["FullSem"] \in Nat
  BY DEF TypeOK
<1> QED  BY <1>1, <1>2 DEF SemaphoreInv, CapacityInv, Stored, Fetched

(* The same in the next state. *)
LEMMA CapacityNext == TypeOK' /\ SemaphoreInv' => CapacityInv'
<1>1. TypeOK /\ SemaphoreInv => CapacityInv
  BY Capacity
<1> QED  BY <1>1, PTL

(* One semaphore operation of a round, value by value: thread p moves past *)
(* it, and the semaphore it names changes by delta.                        *)
SemStep(p, s, from, to, delta) ==
  /\ sem'[s] = sem[s] + delta
  /\ \A u \in Semaphores \ {s} : sem'[u] = sem[u]
  /\ at[p] = from /\ at'[p] = to
  /\ \A q \in Workers \ {p} : at'[q] = at[q]
  /\ UNCHANGED <<buf, in, out, counter, data, reg, i, main>>

LEMMA SemWaitStep ==
  ASSUME TypeOK, NEW p \in Workers, NEW s \in Semaphores, NEW from \in Labels,
         NEW to \in Labels, SemWait(p, s, from, to)
  PROVE  TypeOK' /\ SemStep(p, s, from, to, -1)
BY DEF SemWait, SemStep, TypeOK, BufferTypeOK

LEMMA SemPostStep ==
  ASSUME TypeOK, NEW p \in Workers, NEW s \in Semaphores, NEW from \in Labels,
         NEW to \in Labels, SemPost(p, s, from, to)
  PROVE  TypeOK' /\ SemStep(p, s, from, to, 1)
BY DEF SemPost, SemStep, TypeOK, BufferTypeOK

(* The eight semaphore operations of the program. *)
SemSteps ==
  \/ SemStep(P, "EmptySem", "loop", "enter", -1) /\ i[P] < NLOOPS
  \/ SemStep(P, "MutexSem", "enter", "access", -1)
  \/ SemStep(P, "MutexSem", "leave", "signal", 1)
  \/ SemStep(P, "FullSem", "signal", "sleep", 1)
  \/ SemStep(C, "FullSem", "loop", "enter", -1) /\ i[C] < NLOOPS
  \/ SemStep(C, "MutexSem", "enter", "access", -1)
  \/ SemStep(C, "MutexSem", "leave", "signal", 1)
  \/ SemStep(C, "EmptySem", "signal", "sleep", 1)

LEMMA SyncSteps ==
  ASSUME TypeOK, Producer \/ Consumer
  PROVE  TypeOK' /\ SemSteps
<1>1. CASE Producer
  BY <1>1, SemWaitStep, SemPostStep DEF Producer, SemSteps
<1>2. CASE Consumer
  BY <1>2, SemWaitStep, SemPostStep DEF Consumer, SemSteps
<1> QED  BY <1>1, <1>2

(* The semaphore operations preserve the invariant. *)
LEMMA SyncIInv ==
  ASSUME IInv, Producer \/ Consumer
  PROVE  IInv'
<1>1. TypeOK' /\ SemSteps
  BY SyncSteps DEF IInv
<1>2. LoopInv'
  BY <1>1 DEF IInv, TypeOK, BufferTypeOK, SemSteps, SemStep, LoopInv, Claimed, Inside
<1>3. SemaphoreInv'
  <2>0. /\ SemaphoreInv
        /\ i[P] \in Int /\ i[C] \in Int /\ MAX_BUF \in Int
        /\ sem["EmptySem"] \in Int /\ sem["FullSem"] \in Int /\ sem["MutexSem"] \in Int
    BY DEF IInv, TypeOK, BufferTypeOK
  <2> USE <2>0 DEF SemStep, SemaphoreInv, Claimed, Inside, Past, B
  <2>1. CASE SemStep(P, "EmptySem", "loop", "enter", -1)      BY <2>1
  <2>2. CASE SemStep(P, "MutexSem", "enter", "access", -1)    BY <2>2
  <2>3. CASE SemStep(P, "MutexSem", "leave", "signal", 1)     BY <2>3
  <2>4. CASE SemStep(P, "FullSem", "signal", "sleep", 1)      BY <2>4
  <2>5. CASE SemStep(C, "FullSem", "loop", "enter", -1)       BY <2>5
  <2>6. CASE SemStep(C, "MutexSem", "enter", "access", -1)    BY <2>6
  <2>7. CASE SemStep(C, "MutexSem", "leave", "signal", 1)     BY <2>7
  <2>8. CASE SemStep(C, "EmptySem", "signal", "sleep", 1)     BY <2>8
  <2> QED
    BY <1>1, <2>1, <2>2, <2>3, <2>4, <2>5, <2>6, <2>7, <2>8 DEF SemSteps
<1>4. CounterInv' /\ IndexInv'
  BY <1>1, SyncCounterIndex DEF IInv, TypeOK, BufferTypeOK, SemSteps, SemStep,
                                AfterAdvance, AfterCount
<1>5. MainInv'
  BY <1>1 DEF IInv, SemSteps, SemStep, MainInv
<1>6. CapacityInv'
  BY <1>1, <1>3, CapacityNext
<1> QED  BY <1>1, <1>2, <1>3, <1>4, <1>5, <1>6 DEF IInv

(* The loop body preserves the invariant: it moves a thread between labels *)
(* that the semaphores do not tell apart, or starts its next round.        *)
LEMMA BodyIInv ==
  ASSUME IInv, NEW p \in Workers, Body(p, "leave"), UNCHANGED <<main, sem>>
  PROVE  IInv'
<1> Shape
  BY ShapeOfType DEF IInv, TypeOK
<1>0. "leave" \in AfterCount
  BY DEF AfterCount
<1>1. Shape'
  BY <1>0, BodySteps
<1>2. PICK from \in AnyLabel, to \in AnyLabel : BodyStep(p, "leave", from, to)
  BY <1>0, BodySteps
<1>3. /\ i[P] \in Nat /\ i[C] \in Nat /\ i'[P] \in Nat /\ i'[C] \in Nat
      /\ at \in [Workers -> Labels]
  BY <1>1 DEF IInv, TypeOK, BufferTypeOK, Shape
<1>4. TypeOK'
  <2>1. i' \in [Workers -> 0 .. NLOOPS]
    BY <1>1, <1>2 DEF IInv, TypeOK, BufferTypeOK, LoopInv, Claimed, Inside, BodyStep,
                      BodyMoves, Shape
  <2>2. at' \in [Workers -> Labels]
    BY <1>1, <1>2, <1>3 DEF BodyStep, BodyMoves, Shape
  <2> QED  BY <1>1, <2>1, <2>2 DEF IInv, TypeOK, BufferTypeOK, Shape
<1>5. LoopInv'
  BY <1>2, <1>3, <1>4 DEF IInv, LoopInv, Claimed, Inside, BodyStep, BodyMoves, TypeOK,
                          BufferTypeOK
<1>6. SemaphoreInv'
  <2>1. \A q \in Workers : /\ Past(q, Claimed)' = Past(q, Claimed)
                           /\ Past(q, {"sleep"})' = Past(q, {"sleep"})
                           /\ B(q, Inside)' = B(q, Inside)
    BY <1>2, <1>3 DEF BodyStep, BodyMoves, Past, B, Claimed, Inside
  <2> QED  BY <2>1 DEF IInv, SemaphoreInv
<1>7. CounterInv'
  <2>1. ~ (at[P] \in BodyLabels /\ at[C] \in BodyLabels)
    BY DEF IInv, TypeOK, SemaphoreInv, B, Inside
  <2>2. CounterFor(Workers)
    BY DEF IInv, CounterInv, CounterFor
  <2>3. CounterFor(Workers)'
    BY <1>0, <2>1, <2>2, BodyCounter
  <2> QED  BY <2>3 DEF CounterFor, CounterInv
<1>8. IndexInv'
  BY <1>0, BodyIndex DEF IInv
<1>9. MainInv'
  BY <1>2 DEF IInv, MainInv, BodyStep, BodyMoves
<1>10. CapacityInv'
  BY <1>4, <1>6, CapacityNext
<1> QED  BY <1>4, <1>5, <1>6, <1>7, <1>8, <1>9, <1>10 DEF IInv

(* Every step preserves the invariant. *)
LEMMA NextIInv == IInv /\ [Next]_vars => IInv'
<1> SUFFICES ASSUME IInv, [Next]_vars PROVE IInv'
  OBVIOUS
<1> USE DEF vars
<1>1. ASSUME UNCHANGED vars PROVE IInv'
  BY <1>1 DEF IInv, TypeOK, BufferTypeOK, LoopInv, SemaphoreInv, CounterInv, IndexInv,
              CapacityInv, MainInv, Past, B, Stored, Fetched
<1>2. ASSUME NEW p \in Workers, Thread(p) PROVE IInv'
  BY <1>2, SyncIInv, BodyIInv DEF Thread
<1>3. ASSUME Main, UNCHANGED sem PROVE IInv'
  BY <1>3 DEF Main, Join, IInv, TypeOK, BufferTypeOK, LoopInv, SemaphoreInv, CounterInv,
              IndexInv, CapacityInv, MainInv, Past, B, Stored, Fetched
<1> QED  BY <1>1, <1>2, <1>3 DEF Next, Terminated

----------------------------------------------------------------------------
(* For every NLOOPS, MAX_BUF and set of items: the units of the three      *)
(* semaphores, the counter and the two indices of the buffer stay          *)
(* consistent with what the threads have done, and the buffer neither      *)
(* overflows nor runs empty under a thread that is using it.               *)
THEOREM Invariance == Spec => []IInv
BY InitIInv, NextIInv, PTL DEF Spec

(* main prints that 0 items are in the buffer: no increment or decrement   *)
(* of counter is ever lost.                                                *)
THEOREM CounterExact == Spec => []FinalCount
<1>1. IInv => FinalCount
  BY DEF IInv, TypeOK, BufferTypeOK, MainInv, LoopInv, CounterInv, Past, AfterCount,
         FinalCount
<1> QED  BY Invariance, <1>1, PTL

(* The invariant gives what the lemmas on the shared buffer ask for. *)
LEMMA NextRefines == IInv /\ IInv' /\ [Next]_vars => [FIFO!Next]_FIFO!vars
<1> SUFFICES ASSUME IInv, IInv', [Next]_vars PROVE [FIFO!Next]_FIFO!vars
  OBVIOUS
<1>1. BufferInv /\ BufferInv'
  BY ShapeOfType, PTL DEF IInv, TypeOK, BufferInv
<1>2. ASSUME NEW p \in Workers, Body(p, "leave") PROVE [FIFO!Next]_FIFO!vars
  BY <1>1, <1>2, BodyRefines DEF AfterCount
<1>3. ASSUME Producer \/ Consumer PROVE UNCHANGED FIFO!vars
  <2>1. SemSteps
    BY <1>3, SyncSteps DEF IInv
  <2>2. UNCHANGED <<buf, data, i>>
    BY <2>1 DEF SemSteps, SemStep
  <2>3. \A p \in Workers : at[p] \in AfterAccess <=> at'[p] \in AfterAccess
    BY <2>1 DEF SemSteps, SemStep, AfterAccess, AfterAdvance, AfterCount
  <2> QED  BY <1>1, <2>2, <2>3, SyncRefines DEF BufferInv
<1>4. ASSUME Main \/ UNCHANGED vars PROVE UNCHANGED FIFO!vars
  <2>1. UNCHANGED <<buf, data, i, at>>
    BY <1>4 DEF Main, Join, vars
  <2> QED  BY <1>1, <2>1, SyncRefines DEF BufferInv
<1> QED  BY <1>2, <1>3, <1>4 DEF Next, Thread, Terminated

(* prodcons.c implements the bounded FIFO buffer: every item produced is   *)
(* consumed once and in order, whatever the interleaving.                  *)
THEOREM Refinement == Spec => ImplementsBuffer
<1>1. Init => FIFO!Init
  BY InitRefines DEF Init
<1> QED  BY Invariance, NextRefines, <1>1, PTL DEF Spec, ImplementsBuffer, FIFO!Spec

=============================================================================
