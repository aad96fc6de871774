------------------------------ MODULE Service -------------------------------
(***************************************************************************)
(* What every pair of programs that exchanges a request and a reply        *)
(* promises, whatever carries the two.  A caller that has asked hears one  *)
(* reply or gives up; a reply is made only while there is a caller it can  *)
(* be for, and is heard once.                                              *)
(***************************************************************************)
EXTENDS Naturals, FiniteSets

CONSTANT Callers

VARIABLES
  call,     \* [Callers -> idle, asked, heard, gone]
  ready     \* how many replies have been made and not yet heard

vars == <<call, ready>>

Asking == {c \in Callers : call[c] = "asked"}

Init == call = [c \in Callers |-> "idle"] /\ ready = 0

Ask(c) ==
  /\ call[c] = "idle"
  /\ call' = [call EXCEPT ![c] = "asked"]
  /\ UNCHANGED ready

Answer ==
  /\ ready < Cardinality(Asking)
  /\ ready' = ready + 1
  /\ UNCHANGED call

Hear(c) ==
  /\ call[c] = "asked" /\ ready > 0
  /\ call' = [call EXCEPT ![c] = "heard"]
  /\ ready' = ready - 1

(* A caller that is killed or finds the service gone; a reply that was for *)
(* it is lost with it.                                                     *)
GiveUp(c) ==
  /\ call[c] \in {"idle", "asked"}
  /\ call' = [call EXCEPT ![c] = "gone"]
  /\ ready' \in {ready, ready - 1} \cap 0 .. Cardinality(Asking \ {c})

(* Replies that end with what carried them, or with their server. *)
Withdraw == ready > 0 /\ ready' \in 0 .. ready - 1 /\ UNCHANGED call

Next == Answer \/ Withdraw \/ \E c \in Callers : Ask(c) \/ Hear(c) \/ GiveUp(c)

Spec == Init /\ [][Next]_vars

=============================================================================
