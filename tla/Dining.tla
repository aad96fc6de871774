------------------------------- MODULE Dining -------------------------------
(***************************************************************************)
(* HW9/dining.c: every philosopher waits for its own chopstick, then for   *)
(* its neighbour's, eats, and posts both.  The chopsticks are semaphores   *)
(* of glibc that start at 1.                                               *)
(***************************************************************************)
EXTENDS Integers

CONSTANTS
  NUM_MEN,  \* the number of philosophers and of chopsticks, 2 or more
  NLOOPS    \* the rounds of each philosopher

VARIABLES
  ChopStick,  \* the value of each semaphore
  at,         \* the next statement of each philosopher
  i           \* the loop counter of each philosopher

vars == <<ChopStick, at, i>>

Men == 0 .. NUM_MEN - 1

Other(id) == (id + 1) % NUM_MEN

Init ==
  /\ ChopStick = [c \in Men |-> 1]
  /\ at = [id \in Men |-> "think"]
  /\ i = [id \in Men |-> 0]

sem_wait(id, from, chopstick, to) ==
  /\ at[id] = from
  /\ ChopStick[chopstick] > 0
  /\ ChopStick' = [ChopStick EXCEPT ![chopstick] = @ - 1]
  /\ at' = [at EXCEPT ![id] = to]

sem_post(id, from, chopstick, to) ==
  /\ at[id] = from
  /\ ChopStick' = [ChopStick EXCEPT ![chopstick] = @ + 1]
  /\ at' = [at EXCEPT ![id] = to]

Exit(id) ==
  /\ at[id] = "think"
  /\ i[id] = NLOOPS
  /\ at' = [at EXCEPT ![id] = "done"]
  /\ UNCHANGED <<ChopStick, i>>

DiningPhilosopher(id) ==
  \/ i[id] < NLOOPS /\ sem_wait(id, "think", id, "one") /\ UNCHANGED i
  \/ sem_wait(id, "one", Other(id), "eat") /\ UNCHANGED i
  \/ sem_post(id, "eat", id, "put_down") /\ UNCHANGED i
  \/ sem_post(id, "put_down", Other(id), "think") /\ i' = [i EXCEPT ![id] = @ + 1]
  \/ Exit(id)

Next == \E id \in Men : DiningPhilosopher(id)

Spec == Init /\ [][Next]_vars

(* A philosopher who can go on does go on. *)
FairSpec == Spec /\ \A id \in Men : WF_vars(DiningPhilosopher(id))

----------------------------------------------------------------------------
(* dining.c:105 reports that each philosopher has been through all of its  *)
(* rounds, and main joins them all.  When everybody holds its own          *)
(* chopstick, nobody ever gets there.                                      *)
EverybodyFinishes == <>(\A id \in Men : at[id] = "done")

=============================================================================
