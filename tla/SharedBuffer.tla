---------------------------- MODULE SharedBuffer ----------------------------
(***************************************************************************)
(* What the producer/consumer programs of HW9 (prodcons.c, prodcons_s.c,   *)
(* prodcons_m.c, and the processes producer_s.c and consumer_s.c) have in  *)
(* common: the BoundedBufferType that one Producer                         *)
(* and one Consumer thread share, the statements that store and fetch an   *)
(* item, the loops around them, and the main thread.  How a thread enters  *)
(* and leaves the critical section is left to the modules that extend this *)
(* one.  Every access to the shared buffer is a step of its own, and       *)
(* counter++ and counter-- are a load and a store.                         *)
(***************************************************************************)
EXTENDS Integers

CONSTANTS
  NLOOPS,    \* iterations of each thread
  MAX_BUF,   \* slots of the buffer
  Items,     \* the values of data
  NoItem     \* the content of a slot or of data before it is assigned

ASSUME BufferAssumption ==
  /\ NLOOPS \in Nat
  /\ MAX_BUF \in Nat \ {0}
  /\ NoItem \notin Items

VARIABLES
  buf, in, out, counter,  \* the fields of Buf
  data,                   \* each thread's local variable data
  reg,                    \* the register through which a thread changes counter
  i,                      \* each thread's loop counter
  at,                     \* where each thread is
  main                    \* where the main thread is

bufferVars == <<buf, in, out, counter, data, reg>>

P == "Producer"
C == "Consumer"
Workers == {P, C}

Slots == 0 .. MAX_BUF - 1

(* The statements of the critical section, in order, up to leaving it. *)
BodyLabels == {"access", "advance", "load", "count"}
Labels ==
  BodyLabels \cup
  {"loop", "enter", "asleep", "relock", "leave", "signal", "sleep", "done"}

Move(p, label) == at' = [at EXCEPT ![p] = label]

(* Buf is a zeroed global, the threads have just been created. *)
BufferInit ==
  /\ buf = [s \in Slots |-> NoItem]
  /\ in = 0 /\ out = 0 /\ counter = 0
  /\ data = [p \in Workers |-> NoItem]
  /\ reg = [p \in Workers |-> 0]
  /\ i = [p \in Workers |-> 0]
  /\ at = [p \in Workers |-> "loop"]
  /\ main = "join_producer"

(* Buf.buf[Buf.in].data = data *)
Store ==
  /\ at[P] = "access"
  /\ \E d \in Items :
       /\ data' = [data EXCEPT ![P] = d]
       /\ buf' = [buf EXCEPT ![in] = d]
  /\ Move(P, "advance")
  /\ UNCHANGED <<in, out, counter, reg>>

(* data = Buf.buf[Buf.out].data *)
Fetch ==
  /\ at[C] = "access"
  /\ data' = [data EXCEPT ![C] = buf[out]]
  /\ Move(C, "advance")
  /\ UNCHANGED <<buf, in, out, counter, reg>>

Succ(slot) == (slot + 1) % MAX_BUF

AdvanceIn ==
  /\ at[P] = "advance"
  /\ in' = Succ(in)
  /\ Move(P, "load")
  /\ UNCHANGED <<buf, out, counter, data, reg>>

AdvanceOut ==
  /\ at[C] = "advance"
  /\ out' = Succ(out)
  /\ Move(C, "load")
  /\ UNCHANGED <<buf, in, counter, data, reg>>

LoadCounter(p) ==
  /\ at[p] = "load"
  /\ reg' = [reg EXCEPT ![p] = counter]
  /\ Move(p, "count")
  /\ UNCHANGED <<buf, in, out, counter, data>>

StoreCounter(p, next) ==
  /\ at[p] = "count"
  /\ counter' = reg[p] + IF p = P THEN 1 ELSE -1
  /\ Move(p, next)
  /\ UNCHANGED <<buf, in, out, data, reg>>

(* ThreadUsleep only delays its caller; then the loop goes on. *)
Wake(p) ==
  /\ at[p] = "sleep"
  /\ i' = [i EXCEPT ![p] = @ + 1]
  /\ Move(p, "loop")
  /\ UNCHANGED bufferVars

(* The loop ends and the thread exits. *)
Exit(p) ==
  /\ at[p] = "loop"
  /\ i[p] = NLOOPS
  /\ Move(p, "done")
  /\ UNCHANGED <<bufferVars, i>>

(* What a thread does apart from entering and leaving the critical section, *)
(* which it starts to leave at the label next.                             *)
Body(p, next) ==
  \/ UNCHANGED i /\ p = P /\ (Store \/ AdvanceIn)
  \/ UNCHANGED i /\ p = C /\ (Fetch \/ AdvanceOut)
  \/ UNCHANGED i /\ (LoadCounter(p) \/ StoreCounter(p, next))
  \/ Wake(p) \/ Exit(p)

(* main joins the threads in order and then destroys what they shared. *)
Join(p, from, to) ==
  /\ main = from
  /\ at[p] = "done"
  /\ main' = to
  /\ UNCHANGED <<bufferVars, i, at>>

Main == Join(P, "join_producer", "join_consumer") \/ Join(C, "join_consumer", "exited")

----------------------------------------------------------------------------
(* How many items a thread has brought past a statement of its loop body,  *)
(* when it stands at one of the labels after it.                           *)
Past(p, labels) == i[p] + IF at[p] \in labels THEN 1 ELSE 0

AfterCount   == {"leave", "signal", "sleep"}
AfterAdvance == {"load", "count"} \cup AfterCount
AfterAccess  == {"advance"} \cup AfterAdvance

Stored  == Past(P, AfterAccess)
Fetched == Past(C, AfterAccess)

BufferTypeOK ==
  /\ buf \in [Slots -> Items \cup {NoItem}]
  /\ in \in Slots /\ out \in Slots
  /\ counter \in Int
  /\ data \in [Workers -> Items \cup {NoItem}]
  /\ reg \in [Workers -> Int]
  /\ i \in [Workers -> 0 .. NLOOPS]
  /\ at \in [Workers -> Labels]
  /\ main \in {"join_producer", "join_consumer", "exited"}

(* Buf.in and Buf.out follow the numbers of items stored and fetched.      *)
IndexInv ==
  /\ in = Past(P, AfterAdvance) % MAX_BUF
  /\ out = Past(C, AfterAdvance) % MAX_BUF

(* The buffer has room when an item is stored, one when one is fetched.    *)
CapacityInv ==
  /\ Stored - Fetched \in 0 .. MAX_BUF
  /\ at[P] = "access" => Stored - Fetched < MAX_BUF
  /\ at[C] = "access" => Stored - Fetched > 0

(* Buf.counter is exact whenever no thread is between its load and store,  *)
(* and a loaded value is still the value of counter when it is used.       *)
CounterInv ==
  /\ counter = Past(P, AfterCount) - Past(C, AfterCount)
  /\ \A p \in Workers : at[p] = "count" => reg[p] = counter

(* The items in the buffer that the consumer has yet to fetch, in order.   *)
Queue == [k \in 1 .. Stored - Fetched |-> buf[(Fetched + k - 1) % MAX_BUF]]

FIFO == INSTANCE BoundedBuffer WITH
          Capacity <- MAX_BUF, queue <- Queue, taken <- data[C]

(* The shared array behaves as a bounded FIFO queue: no item is            *)
(* overwritten before it is fetched, fetched twice or out of order.        *)
ImplementsBuffer == FIFO!Spec

(* Both threads finish their NLOOPS rounds and main gets past its joins.   *)
Finishes == <>(main = "exited")

(* When both threads are through, the counter main prints is 0.            *)
FinalCount == main = "exited" => counter = 0

=============================================================================
