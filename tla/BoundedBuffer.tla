--------------------------- MODULE BoundedBuffer ---------------------------
(***************************************************************************)
(* What the bounded buffer of HW9 (prodcons*.c) promises: a FIFO queue of  *)
(* at most Capacity items.  An item is delivered once, in the order in     *)
(* which it was stored.                                                    *)
(***************************************************************************)
EXTENDS Naturals, Sequences

CONSTANTS
  Items,     \* the data that is exchanged
  NoItem,    \* what the consumer holds before its first item
  Capacity   \* MAX_BUF

VARIABLES
  queue,     \* the items stored and not yet delivered, oldest first
  taken      \* the item the consumer received last

vars == <<queue, taken>>

Init == queue = << >> /\ taken = NoItem

Put(d) ==
  /\ Len(queue) < Capacity
  /\ queue' = Append(queue, d)
  /\ UNCHANGED taken

Get ==
  /\ queue # << >>
  /\ queue' = Tail(queue)
  /\ taken' = Head(queue)

Next == (\E d \in Items : Put(d)) \/ Get

Spec == Init /\ [][Next]_vars

=============================================================================
