------------------------------ MODULE Dining2 ------------------------------
(***************************************************************************)
(* HW9/dining2.c: philosophers who pick up both chopsticks or none.  The   *)
(* array State is guarded by the semaphore Mutex; Philosopher[p] is a      *)
(* private semaphore on which p waits until Test, run by p itself or by a  *)
(* neighbour who puts down, has made it EATING.  The semaphores are those  *)
(* of glibc.                                                               *)
(***************************************************************************)
EXTENDS Integers

CONSTANTS
  NUM_MEN,  \* the number of philosophers
  NLOOPS    \* the rounds of each philosopher

ASSUME SizeAssumption == NUM_MEN \in Nat /\ NUM_MEN > 2 /\ NLOOPS \in Nat

VARIABLES
  State,        \* THINKING, HUNGRY or EATING
  Mutex,        \* the value of the semaphore Mutex
  Philosopher,  \* the values of the private semaphores
  at,           \* the next statement of each philosopher
  i             \* the loop counter of each philosopher

vars == <<State, Mutex, Philosopher, at, i>>

Men == 0 .. NUM_MEN - 1

LEFT(id)  == (id + NUM_MEN - 1) % NUM_MEN
RIGHT(id) == (id + 1) % NUM_MEN

(* In the order of the code: PickUp up to await, then Eating and PutDown.  *)
PickUpLabels  == {"hungry", "test", "post"}
PutDownLabels == {"thinking", "test_left", "test_right", "release"}
Labels == {"think", "await", "eat", "done"} \cup PickUpLabels \cup PutDownLabels

Move(id, label) == at' = [at EXCEPT ![id] = label]

Init ==
  /\ State = [id \in Men |-> "THINKING"]
  /\ Mutex = 1
  /\ Philosopher = [id \in Men |-> 0]
  /\ at = [id \in Men |-> "think"]
  /\ i = [id \in Men |-> 0]

WaitMutex(id, from, to) ==
  /\ at[id] = from
  /\ Mutex > 0
  /\ Mutex' = Mutex - 1
  /\ Move(id, to)
  /\ UNCHANGED <<State, Philosopher, i>>

PostMutex(id, from, to) ==
  /\ at[id] = from
  /\ Mutex' = Mutex + 1
  /\ Move(id, to)
  /\ UNCHANGED <<State, Philosopher>>

SetState(id, from, state, to) ==
  /\ at[id] = from
  /\ State' = [State EXCEPT ![id] = state]
  /\ Move(id, to)
  /\ UNCHANGED <<Mutex, Philosopher, i>>

(* A seeded fault: only the left neighbour is looked at. *)
CanEatLeftOnly(id) == State[id] = "HUNGRY" /\ State[LEFT(id)] # "EATING"

CanEat(id) ==
  State[id] = "HUNGRY" /\ State[LEFT(id)] # "EATING" /\ State[RIGHT(id)] # "EATING"

(* Test: grants id its meal if it may eat now. *)
Test(id) ==
  IF CanEat(id)
  THEN /\ State' = [State EXCEPT ![id] = "EATING"]
       /\ Philosopher' = [Philosopher EXCEPT ![id] = @ + 1]
  ELSE UNCHANGED <<State, Philosopher>>

TestFrom(id, from, whom, to) ==
  /\ at[id] = from
  /\ Test(whom)
  /\ Move(id, to)
  /\ UNCHANGED <<Mutex, i>>

(* sem_wait(&Philosopher[id]): from here on id eats. *)
AwaitMeal(id) ==
  /\ at[id] = "await"
  /\ Philosopher[id] > 0
  /\ Philosopher' = [Philosopher EXCEPT ![id] = @ - 1]
  /\ Move(id, "eat")
  /\ UNCHANGED <<State, Mutex, i>>

(* A seeded fault: the philosopher does not wait for its grant. *)
PickUpWithoutAwait(id) ==
  \/ i[id] < NLOOPS /\ WaitMutex(id, "think", "hungry")
  \/ SetState(id, "hungry", "HUNGRY", "test")
  \/ TestFrom(id, "test", id, "post")
  \/ PostMutex(id, "post", "eat") /\ UNCHANGED i

PickUp(id) ==
  \/ i[id] < NLOOPS /\ WaitMutex(id, "think", "hungry")
  \/ SetState(id, "hungry", "HUNGRY", "test")
  \/ TestFrom(id, "test", id, "post")
  \/ PostMutex(id, "post", "await") /\ UNCHANGED i
  \/ AwaitMeal(id)

(* Seeded faults: the right neighbour is forgotten, and both neighbours    *)
(* are tested before the philosopher says that it has finished.            *)
PutDownForgetsRight(id) ==
  \/ WaitMutex(id, "eat", "thinking")
  \/ SetState(id, "thinking", "THINKING", "test_left")
  \/ TestFrom(id, "test_left", LEFT(id), "release")
  \/ PostMutex(id, "release", "think") /\ i' = [i EXCEPT ![id] = @ + 1]

PutDownTestsFirst(id) ==
  \/ WaitMutex(id, "eat", "test_left")
  \/ TestFrom(id, "test_left", LEFT(id), "test_right")
  \/ TestFrom(id, "test_right", RIGHT(id), "thinking")
  \/ SetState(id, "thinking", "THINKING", "release")
  \/ PostMutex(id, "release", "think") /\ i' = [i EXCEPT ![id] = @ + 1]

PutDown(id) ==
  \/ WaitMutex(id, "eat", "thinking")
  \/ SetState(id, "thinking", "THINKING", "test_left")
  \/ TestFrom(id, "test_left", LEFT(id), "test_right")
  \/ TestFrom(id, "test_right", RIGHT(id), "release")
  \/ PostMutex(id, "release", "think") /\ i' = [i EXCEPT ![id] = @ + 1]

Exit(id) ==
  /\ at[id] = "think"
  /\ i[id] = NLOOPS
  /\ Move(id, "done")
  /\ UNCHANGED <<State, Mutex, Philosopher, i>>

DiningPhilosopher(id) == PickUp(id) \/ PutDown(id) \/ Exit(id)

(* main has joined everybody. *)
Terminated == (\A id \in Men : at[id] = "done") /\ UNCHANGED vars

Next == (\E id \in Men : DiningPhilosopher(id)) \/ Terminated

Spec == Init /\ [][Next]_vars

(* A philosopher who can run does run; nobody is favoured at a semaphore.  *)
Fairness == \A id \in Men : WF_vars(DiningPhilosopher(id))

FairSpec == Spec /\ Fairness

----------------------------------------------------------------------------
TypeOK ==
  /\ State \in [Men -> {"THINKING", "HUNGRY", "EATING"}]
  /\ Mutex \in Nat
  /\ Philosopher \in [Men -> Nat]
  /\ at \in [Men -> Labels]
  /\ i \in [Men -> 0 .. NLOOPS]

Critical == PickUpLabels \cup PutDownLabels

(* One philosopher at a time looks at State. *)
MutexInv ==
  /\ Mutex \in {0, 1}
  /\ \A p, q \in Men : at[p] \in Critical /\ at[q] \in Critical => p = q
  /\ (Mutex = 0) <=> (\E p \in Men : at[p] \in Critical)

(* A grant and the state EATING go together: the private semaphore of p is *)
(* 1 exactly while p has been made EATING and has not noticed.             *)
GrantInv ==
  \A p \in Men :
    /\ Philosopher[p] = (IF State[p] = "EATING" /\ at[p] \in {"post", "await"} THEN 1 ELSE 0)
    /\ at[p] \in {"think", "hungry", "test_left", "test_right", "release", "done"}
         => State[p] = "THINKING"
    /\ at[p] = "test" => State[p] = "HUNGRY"
    /\ at[p] \in {"post", "await"} => State[p] \in {"HUNGRY", "EATING"}
    /\ at[p] \in {"eat", "thinking"} => State[p] = "EATING"

LoopInv == \A p \in Men : at[p] \notin {"think", "done"} => i[p] < NLOOPS

(* No two neighbours are in state EATING. *)
NeighboursInv == \A p \in Men : ~ (State[p] = "EATING" /\ State[RIGHT(p)] = "EATING")

IInv == TypeOK /\ MutexInv /\ GrantInv /\ LoopInv /\ NeighboursInv

(* No grant is forgotten: a hungry philosopher is kept waiting only by a   *)
(* neighbour who is EATING, or has a Test of its own state still ahead, by *)
(* itself or by a neighbour who is putting down.                           *)
NoForgottenGrant ==
  \A p \in Men :
    State[p] = "HUNGRY" =>
      \/ State[LEFT(p)] = "EATING" \/ State[RIGHT(p)] = "EATING"
      \/ at[p] = "test"
      \/ at[RIGHT(p)] = "test_left"
      \/ at[LEFT(p)] \in {"test_left", "test_right"}

(* Every philosopher gets through all of its meals. *)
EverybodyFinishes == <>(\A id \in Men : at[id] = "done")

(* Eating, from the wait for the private semaphore to State = THINKING.    *)
Meals == INSTANCE Table WITH
           eating <- {p \in Men : at[p] \in {"eat", "thinking"}},
           meals <- [p \in Men |->
                       i[p] + IF at[p] \in {"test_left", "test_right", "release"} THEN 1 ELSE 0]

(* dining2.c implements the table: a philosopher starts to eat only when   *)
(* neither neighbour eats.                                                 *)
ImplementsTable == Meals!Spec

=============================================================================
