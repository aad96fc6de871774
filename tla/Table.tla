------------------------------- MODULE Table -------------------------------
(***************************************************************************)
(* What HW9's dining programs owe their philosophers: nobody eats while a  *)
(* neighbour does, since the two share a chopstick, and everybody eats     *)
(* NLOOPS times.                                                           *)
(***************************************************************************)
EXTENDS Naturals

CONSTANTS
  NUM_MEN,   \* the number of philosophers and of chopsticks
  NLOOPS     \* the meals of each philosopher

VARIABLES
  eating,    \* the philosophers who eat
  meals      \* the meals each has finished

vars == <<eating, meals>>

Men == 0 .. NUM_MEN - 1

RIGHT(id) == (id + 1) % NUM_MEN
LEFT(id)  == (id + NUM_MEN - 1) % NUM_MEN

Init == eating = {} /\ meals = [p \in Men |-> 0]

Start(p) ==
  /\ p \notin eating
  /\ {LEFT(p), RIGHT(p)} \cap eating = {}
  /\ meals[p] < NLOOPS
  /\ eating' = eating \cup {p}
  /\ UNCHANGED meals

Finish(p) ==
  /\ p \in eating
  /\ eating' = eating \ {p}
  /\ meals' = [meals EXCEPT ![p] = @ + 1]

Next == \E p \in Men : Start(p) \/ Finish(p)

Spec == Init /\ [][Next]_vars

=============================================================================
