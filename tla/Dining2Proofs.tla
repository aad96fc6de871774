--------------------------- MODULE Dining2Proofs ---------------------------
(***************************************************************************)
(* Proofs about dining2.c for any number of philosophers and rounds.       *)
(***************************************************************************)
EXTENDS Dining2, TLAPS

(* The neighbours of a philosopher are philosophers, not itself, and right *)
(* and left are inverse to each other.                                     *)
LEMMA Neighbours ==
  ASSUME NEW p \in Men
  PROVE  /\ RIGHT(p) \in Men /\ LEFT(p) \in Men
         /\ RIGHT(p) = (IF p = NUM_MEN - 1 THEN 0 ELSE p + 1)
         /\ LEFT(p) = (IF p = 0 THEN NUM_MEN - 1 ELSE p - 1)
         /\ RIGHT(p) # p /\ LEFT(p) # p
         /\ RIGHT(LEFT(p)) = p /\ LEFT(RIGHT(p)) = p
<1>1. /\ NUM_MEN \in Nat /\ NUM_MEN > 2 /\ p \in 0 .. NUM_MEN - 1
  BY SizeAssumption DEF Men
<1>2. \A a \in 0 .. NUM_MEN - 1 : RIGHT(a) = (IF a = NUM_MEN - 1 THEN 0 ELSE a + 1)
  BY <1>1 DEF RIGHT
<1>3. \A a \in 0 .. NUM_MEN - 1 : LEFT(a) = (IF a = 0 THEN NUM_MEN - 1 ELSE a - 1)
  <2> TAKE a \in 0 .. NUM_MEN - 1
  <2>1. CASE a = 0  BY <1>1, <2>1 DEF LEFT
  <2>2. CASE a # 0
    <3>1. a + NUM_MEN - 1 = (a - 1) + NUM_MEN /\ a - 1 \in 0 .. NUM_MEN - 1  BY <1>1, <2>2
    <3>2. (a + NUM_MEN - 1) % NUM_MEN = a - 1  BY <1>1, <3>1
    <3> QED  BY <3>2, <2>2 DEF LEFT
  <2> QED  BY <2>1, <2>2
<1> QED  BY <1>1, <1>2, <1>3 DEF Men

(* Test(whom) for a neighbour: it is only ever granted while it waits.     *)
LEMMA GrantToNeighbour ==
  ASSUME TypeOK, MutexInv, GrantInv,
         NEW id \in Men, NEW whom \in Men, whom # id,
         NEW from \in {"test_left", "test_right"}, NEW to \in {"test_right", "release"},
         TestFrom(id, from, whom, to)
  PROVE  GrantInv'
<1>1. at[id] = from /\ at' = [at EXCEPT ![id] = to]  BY DEF TestFrom, Move
<1>2. State[id] = "THINKING" /\ Philosopher[id] = 0  BY <1>1 DEF GrantInv
<1>3. CASE CanEat(whom)
  <2>1. /\ State' = [State EXCEPT ![whom] = "EATING"]
        /\ Philosopher' = [Philosopher EXCEPT ![whom] = Philosopher[whom] + 1]
    BY <1>3 DEF TestFrom, Test
  <2>2. at[whom] \notin Critical
    BY <1>1 DEF MutexInv, Critical, PickUpLabels, PutDownLabels
  <2>3. at[whom] = "await" /\ Philosopher[whom] = 0
    BY <2>2, <1>3
    DEF CanEat, GrantInv, TypeOK, Labels, Critical, PickUpLabels, PutDownLabels
  <2>4. Philosopher'[whom] = 1 /\ State'[whom] = "EATING" /\ at'[whom] = "await"
    BY <2>1, <2>3, <1>1 DEF TypeOK
  <2>5. \A p \in Men : p # whom =>
          Philosopher'[p] = Philosopher[p] /\ State'[p] = State[p]
    BY <2>1 DEF TypeOK
  <2>6. \A p \in Men : p # id => at'[p] = at[p]
    BY <1>1 DEF TypeOK
  <2>7. at'[id] \in {"test_right", "release"}
    BY <1>1 DEF TypeOK
  <2> QED  BY <2>4, <2>5, <2>6, <2>7, <1>2 DEF GrantInv
<1>4. CASE ~ CanEat(whom)
  <2>1. UNCHANGED <<State, Philosopher>>  BY <1>4 DEF TestFrom, Test
  <2> QED  BY <2>1, <1>1, <1>2 DEF GrantInv, TypeOK
<1> QED  BY <1>3, <1>4

LEMMA InitInvariant == Init => IInv
<1> SUFFICES ASSUME Init PROVE IInv  OBVIOUS
<1> USE SizeAssumption
<1>1. TypeOK  BY DEF Init, TypeOK, Labels
<1>2. MutexInv  BY DEF Init, MutexInv, Critical, PickUpLabels, PutDownLabels
<1>3. GrantInv  BY DEF Init, GrantInv
<1>4. LoopInv  BY DEF Init, LoopInv
<1>5. NeighboursInv  BY Neighbours DEF Init, NeighboursInv
<1> QED  BY <1>1, <1>2, <1>3, <1>4, <1>5 DEF IInv

LEMMA StepInvariant == IInv /\ [Next]_vars => IInv'
<1> SUFFICES ASSUME IInv, [Next]_vars PROVE IInv'  OBVIOUS
<1> USE SizeAssumption
<1>inv. TypeOK /\ MutexInv /\ GrantInv /\ LoopInv /\ NeighboursInv  BY DEF IInv
<1>1. ASSUME NEW id \in Men, i[id] < NLOOPS /\ WaitMutex(id, "think", "hungry") PROVE IInv'
  <2>1. TypeOK'  BY <1>inv, <1>1 DEF TypeOK, Labels, PickUpLabels, PutDownLabels, LoopInv, WaitMutex, Move
  <2>2. MutexInv'  BY <1>inv, <1>1 DEF TypeOK, MutexInv, Critical, PickUpLabels, PutDownLabels, WaitMutex, Move
  <2>3. GrantInv'  BY <1>inv, <1>1 DEF TypeOK, GrantInv, MutexInv, Critical, PickUpLabels, PutDownLabels, WaitMutex, Move
  <2>4. LoopInv'  BY <1>inv, <1>1 DEF TypeOK, LoopInv, WaitMutex, Move
  <2>5. NeighboursInv'  BY <1>inv, <1>1 DEF TypeOK, NeighboursInv, WaitMutex
  <2> QED  BY <2>1, <2>2, <2>3, <2>4, <2>5 DEF IInv
<1>2. ASSUME NEW id \in Men, SetState(id, "hungry", "HUNGRY", "test") PROVE IInv'
  <2>1. TypeOK'  BY <1>inv, <1>2, Neighbours DEF TypeOK, Labels, PickUpLabels, PutDownLabels, LoopInv, SetState, Move
  <2>2. MutexInv'  BY <1>inv, <1>2 DEF TypeOK, MutexInv, Critical, PickUpLabels, PutDownLabels, SetState, Move
  <2>3. GrantInv'  BY <1>inv, <1>2, Neighbours DEF TypeOK, GrantInv, MutexInv, Critical, PickUpLabels, PutDownLabels, SetState, Move
  <2>4. LoopInv'  BY <1>inv, <1>2 DEF TypeOK, LoopInv, SetState, Move
  <2>5. NeighboursInv'  BY <1>inv, <1>2, Neighbours DEF TypeOK, NeighboursInv, SetState
  <2> QED  BY <2>1, <2>2, <2>3, <2>4, <2>5 DEF IInv
<1>3. ASSUME NEW id \in Men, TestFrom(id, "test", id, "post") PROVE IInv'
  <2>1. TypeOK'  BY <1>inv, <1>3, Neighbours DEF TypeOK, Labels, PickUpLabels, PutDownLabels, LoopInv, TestFrom, Test, CanEat, Move
  <2>2. MutexInv'  BY <1>inv, <1>3 DEF TypeOK, MutexInv, Critical, PickUpLabels, PutDownLabels, TestFrom, Test, CanEat, Move
  <2>3. GrantInv'  BY <1>inv, <1>3, Neighbours DEF TypeOK, GrantInv, MutexInv, Critical, PickUpLabels, PutDownLabels, TestFrom, Test, CanEat, Move
  <2>4. LoopInv'  BY <1>inv, <1>3 DEF TypeOK, LoopInv, TestFrom, Test, CanEat, Move
  <2>5. NeighboursInv'  BY <1>inv, <1>3, Neighbours DEF TypeOK, NeighboursInv, TestFrom, Test, CanEat
  <2> QED  BY <2>1, <2>2, <2>3, <2>4, <2>5 DEF IInv
<1>4. ASSUME NEW id \in Men, PostMutex(id, "post", "await") /\ UNCHANGED i PROVE IInv'
  <2>1. TypeOK'  BY <1>inv, <1>4 DEF TypeOK, Labels, PickUpLabels, PutDownLabels, LoopInv, PostMutex, Move
  <2>2. MutexInv'  BY <1>inv, <1>4 DEF TypeOK, MutexInv, Critical, PickUpLabels, PutDownLabels, PostMutex, Move
  <2>3. GrantInv'  BY <1>inv, <1>4 DEF TypeOK, GrantInv, MutexInv, Critical, PickUpLabels, PutDownLabels, PostMutex, Move
  <2>4. LoopInv'  BY <1>inv, <1>4 DEF TypeOK, LoopInv, PostMutex, Move
  <2>5. NeighboursInv'  BY <1>inv, <1>4 DEF TypeOK, NeighboursInv, PostMutex
  <2> QED  BY <2>1, <2>2, <2>3, <2>4, <2>5 DEF IInv
<1>5. ASSUME NEW id \in Men, AwaitMeal(id) PROVE IInv'
  <2>1. TypeOK'  BY <1>inv, <1>5 DEF TypeOK, Labels, PickUpLabels, PutDownLabels, LoopInv, AwaitMeal, Move
  <2>2. MutexInv'  BY <1>inv, <1>5 DEF TypeOK, MutexInv, Critical, PickUpLabels, PutDownLabels, AwaitMeal, Move
  <2>3. GrantInv'  BY <1>inv, <1>5 DEF TypeOK, GrantInv, MutexInv, Critical, PickUpLabels, PutDownLabels, AwaitMeal, Move
  <2>4. LoopInv'  BY <1>inv, <1>5 DEF TypeOK, LoopInv, AwaitMeal, Move
  <2>5. NeighboursInv'  BY <1>inv, <1>5 DEF TypeOK, NeighboursInv, AwaitMeal
  <2> QED  BY <2>1, <2>2, <2>3, <2>4, <2>5 DEF IInv
<1>6. ASSUME NEW id \in Men, WaitMutex(id, "eat", "thinking") PROVE IInv'
  <2>1. TypeOK'  BY <1>inv, <1>6 DEF TypeOK, Labels, PickUpLabels, PutDownLabels, LoopInv, WaitMutex, Move
  <2>2. MutexInv'  BY <1>inv, <1>6 DEF TypeOK, MutexInv, Critical, PickUpLabels, PutDownLabels, WaitMutex, Move
  <2>3. GrantInv'  BY <1>inv, <1>6 DEF TypeOK, GrantInv, MutexInv, Critical, PickUpLabels, PutDownLabels, WaitMutex, Move
  <2>4. LoopInv'  BY <1>inv, <1>6 DEF TypeOK, LoopInv, WaitMutex, Move
  <2>5. NeighboursInv'  BY <1>inv, <1>6 DEF TypeOK, NeighboursInv, WaitMutex
  <2> QED  BY <2>1, <2>2, <2>3, <2>4, <2>5 DEF IInv
<1>7. ASSUME NEW id \in Men, SetState(id, "thinking", "THINKING", "test_left") PROVE IInv'
  <2>1. TypeOK'  BY <1>inv, <1>7, Neighbours DEF TypeOK, Labels, PickUpLabels, PutDownLabels, LoopInv, SetState, Move
  <2>2. MutexInv'  BY <1>inv, <1>7 DEF TypeOK, MutexInv, Critical, PickUpLabels, PutDownLabels, SetState, Move
  <2>3. GrantInv'  BY <1>inv, <1>7, Neighbours DEF TypeOK, GrantInv, MutexInv, Critical, PickUpLabels, PutDownLabels, SetState, Move
  <2>4. LoopInv'  BY <1>inv, <1>7 DEF TypeOK, LoopInv, SetState, Move
  <2>5. NeighboursInv'  BY <1>inv, <1>7, Neighbours DEF TypeOK, NeighboursInv, SetState
  <2> QED  BY <2>1, <2>2, <2>3, <2>4, <2>5 DEF IInv
<1>8. ASSUME NEW id \in Men, TestFrom(id, "test_left", LEFT(id), "test_right") PROVE IInv'
  <2>1. TypeOK'  BY <1>inv, <1>8, Neighbours DEF TypeOK, Labels, PickUpLabels, PutDownLabels, LoopInv, TestFrom, Test, CanEat, Move
  <2>2. MutexInv'  BY <1>inv, <1>8 DEF TypeOK, MutexInv, Critical, PickUpLabels, PutDownLabels, TestFrom, Test, CanEat, Move
  <2>3. GrantInv'  BY <1>inv, <1>8, Neighbours, GrantToNeighbour
  <2>4. LoopInv'  BY <1>inv, <1>8 DEF TypeOK, LoopInv, TestFrom, Test, CanEat, Move
  <2>5. NeighboursInv'  BY <1>inv, <1>8, Neighbours DEF TypeOK, NeighboursInv, TestFrom, Test, CanEat
  <2> QED  BY <2>1, <2>2, <2>3, <2>4, <2>5 DEF IInv
<1>9. ASSUME NEW id \in Men, TestFrom(id, "test_right", RIGHT(id), "release") PROVE IInv'
  <2>1. TypeOK'  BY <1>inv, <1>9, Neighbours DEF TypeOK, Labels, PickUpLabels, PutDownLabels, LoopInv, TestFrom, Test, CanEat, Move
  <2>2. MutexInv'  BY <1>inv, <1>9 DEF TypeOK, MutexInv, Critical, PickUpLabels, PutDownLabels, TestFrom, Test, CanEat, Move
  <2>3. GrantInv'  BY <1>inv, <1>9, Neighbours, GrantToNeighbour
  <2>4. LoopInv'  BY <1>inv, <1>9 DEF TypeOK, LoopInv, TestFrom, Test, CanEat, Move
  <2>5. NeighboursInv'  BY <1>inv, <1>9, Neighbours DEF TypeOK, NeighboursInv, TestFrom, Test, CanEat
  <2> QED  BY <2>1, <2>2, <2>3, <2>4, <2>5 DEF IInv
<1>10. ASSUME NEW id \in Men, PostMutex(id, "release", "think") /\ i' = [i EXCEPT ![id] = @ + 1] PROVE IInv'
  <2>1. TypeOK'  BY <1>inv, <1>10 DEF TypeOK, Labels, PickUpLabels, PutDownLabels, LoopInv, PostMutex, Move
  <2>2. MutexInv'  BY <1>inv, <1>10 DEF TypeOK, MutexInv, Critical, PickUpLabels, PutDownLabels, PostMutex, Move
  <2>3. GrantInv'  BY <1>inv, <1>10 DEF TypeOK, GrantInv, MutexInv, Critical, PickUpLabels, PutDownLabels, PostMutex, Move
  <2>4. LoopInv'  BY <1>inv, <1>10 DEF TypeOK, LoopInv, PostMutex, Move
  <2>5. NeighboursInv'  BY <1>inv, <1>10 DEF TypeOK, NeighboursInv, PostMutex
  <2> QED  BY <2>1, <2>2, <2>3, <2>4, <2>5 DEF IInv
<1>11. ASSUME NEW id \in Men, Exit(id) PROVE IInv'
  <2>1. TypeOK'  BY <1>inv, <1>11 DEF TypeOK, Labels, PickUpLabels, PutDownLabels, LoopInv, Exit, Move
  <2>2. MutexInv'  BY <1>inv, <1>11 DEF TypeOK, MutexInv, Critical, PickUpLabels, PutDownLabels, Exit, Move
  <2>3. GrantInv'  BY <1>inv, <1>11 DEF TypeOK, GrantInv, MutexInv, Critical, PickUpLabels, PutDownLabels, Exit, Move
  <2>4. LoopInv'  BY <1>inv, <1>11 DEF TypeOK, LoopInv, Exit, Move
  <2>5. NeighboursInv'  BY <1>inv, <1>11 DEF TypeOK, NeighboursInv, Exit
  <2> QED  BY <2>1, <2>2, <2>3, <2>4, <2>5 DEF IInv
<1>12. CASE UNCHANGED vars
  BY <1>inv, <1>12 DEF vars, IInv, TypeOK, MutexInv, GrantInv, LoopInv, NeighboursInv
<1> QED  BY <1>1, <1>2, <1>3, <1>4, <1>5, <1>6, <1>7, <1>8, <1>9, <1>10, <1>11, <1>12 DEF Next, DiningPhilosopher, PickUp, PutDown, Terminated

(* dining2.c:81-135.  The state array is read and written by one           *)
(* philosopher at a time, a grant is posted exactly once for each meal,    *)
(* and no two neighbours are EATING, however many philosophers there are.  *)
THEOREM Invariance == Spec => []IInv
BY InitInvariant, StepInvariant, PTL DEF Spec

----------------------------------------------------------------------------
LEMMA StepForgetsNobody ==
  IInv /\ NoForgottenGrant /\ [Next]_vars => NoForgottenGrant'
<1> SUFFICES ASSUME IInv, NoForgottenGrant, [Next]_vars, NEW p \in Men, State'[p] = "HUNGRY"
             PROVE  (\/ State[LEFT(p)] = "EATING" \/ State[RIGHT(p)] = "EATING"
                     \/ at[p] = "test"
                     \/ at[RIGHT(p)] = "test_left"
                     \/ at[LEFT(p)] \in {"test_left", "test_right"})'
  BY DEF NoForgottenGrant
<1> USE SizeAssumption
<1>inv. TypeOK /\ MutexInv /\ GrantInv  BY DEF IInv
<1>nb. /\ LEFT(p) \in Men /\ RIGHT(p) \in Men /\ LEFT(p) # p /\ RIGHT(p) # p
       /\ \A q \in Men : (LEFT(q) = p => q = RIGHT(p)) /\ (RIGHT(q) = p => q = LEFT(p))
       /\ \A q \in Men : LEFT(q) # q /\ RIGHT(q) # q /\ LEFT(q) \in Men /\ RIGHT(q) \in Men
       /\ LEFT(RIGHT(p)) = p /\ RIGHT(LEFT(p)) = p
  BY Neighbours
<1>old. State[p] = "HUNGRY" =>
          \/ State[LEFT(p)] = "EATING" \/ State[RIGHT(p)] = "EATING"
          \/ at[p] = "test"
          \/ at[RIGHT(p)] = "test_left"
          \/ at[LEFT(p)] \in {"test_left", "test_right"}
  BY DEF NoForgottenGrant
<1>1. CASE \E id \in Men : i[id] < NLOOPS /\ WaitMutex(id, "think", "hungry")
  BY <1>inv, <1>nb, <1>old, <1>1 DEF TypeOK, WaitMutex, Move
<1>2. CASE \E id \in Men : SetState(id, "hungry", "HUNGRY", "test")
  BY <1>inv, <1>nb, <1>old, <1>2 DEF TypeOK, GrantInv, SetState, Move
<1>3. CASE \E id \in Men : TestFrom(id, "test", id, "post")
  BY <1>inv, <1>nb, <1>old, <1>3 DEF TypeOK, GrantInv, TestFrom, Test, CanEat, Move
<1>4. CASE \E id \in Men : PostMutex(id, "post", "await") /\ UNCHANGED i
  BY <1>inv, <1>nb, <1>old, <1>4 DEF TypeOK, PostMutex, Move
<1>5. CASE \E id \in Men : AwaitMeal(id)
  BY <1>inv, <1>nb, <1>old, <1>5 DEF TypeOK, AwaitMeal, Move
<1>6. CASE \E id \in Men : WaitMutex(id, "eat", "thinking")
  BY <1>inv, <1>nb, <1>old, <1>6 DEF TypeOK, WaitMutex, Move
<1>7. CASE \E id \in Men : SetState(id, "thinking", "THINKING", "test_left")
  BY <1>inv, <1>nb, <1>old, <1>7 DEF TypeOK, GrantInv, SetState, Move
<1>8. ASSUME NEW id \in Men, TestFrom(id, "test_left", LEFT(id), "test_right")
      PROVE  (\/ State[LEFT(p)] = "EATING" \/ State[RIGHT(p)] = "EATING"
              \/ at[p] = "test"
              \/ at[RIGHT(p)] = "test_left"
              \/ at[LEFT(p)] \in {"test_left", "test_right"})'
  <2>1. at[id] = "test_left" /\ at' = [at EXCEPT ![id] = "test_right"]
    BY <1>8 DEF TestFrom, Move
  <2>2. CASE LEFT(id) = p
    <3>1. ~ CanEat(p)
      BY <1>inv, <1>8, <2>2 DEF TypeOK, TestFrom, Test
    <3>2. State' = State  BY <1>8, <2>2, <3>1 DEF TestFrom, Test
    <3> QED  BY <3>1, <3>2 DEF CanEat
  <2>3. CASE LEFT(id) # p
    <3>1. \A q \in Men : State[q] = "EATING" => State'[q] = "EATING"
      BY <1>inv, <1>8, <1>nb DEF TypeOK, TestFrom, Test
    <3>2. State[p] = "HUNGRY"
      BY <1>inv, <1>8, <2>3, <1>nb DEF TypeOK, TestFrom, Test
    <3>3. id # RIGHT(p)  BY <2>3, <1>nb
    <3> QED  BY <1>inv, <1>nb, <1>old, <2>1, <3>1, <3>2, <3>3 DEF TypeOK
  <2> QED  BY <2>2, <2>3
<1>9. ASSUME NEW id \in Men, TestFrom(id, "test_right", RIGHT(id), "release")
      PROVE  (\/ State[LEFT(p)] = "EATING" \/ State[RIGHT(p)] = "EATING"
              \/ at[p] = "test"
              \/ at[RIGHT(p)] = "test_left"
              \/ at[LEFT(p)] \in {"test_left", "test_right"})'
  <2>1. at[id] = "test_right" /\ at' = [at EXCEPT ![id] = "release"]
    BY <1>9 DEF TestFrom, Move
  <2>2. CASE RIGHT(id) = p
    <3>1. ~ CanEat(p)
      BY <1>inv, <1>9, <2>2 DEF TypeOK, TestFrom, Test
    <3>2. State' = State  BY <1>9, <2>2, <3>1 DEF TestFrom, Test
    <3> QED  BY <3>1, <3>2 DEF CanEat
  <2>3. CASE RIGHT(id) # p
    <3>1. \A q \in Men : State[q] = "EATING" => State'[q] = "EATING"
      BY <1>inv, <1>9, <1>nb DEF TypeOK, TestFrom, Test
    <3>2. State[p] = "HUNGRY"
      BY <1>inv, <1>9, <2>3, <1>nb DEF TypeOK, TestFrom, Test
    <3>3. id # LEFT(p)  BY <2>3, <1>nb
    <3> QED  BY <1>inv, <1>nb, <1>old, <2>1, <3>1, <3>2, <3>3 DEF TypeOK
  <2> QED  BY <2>2, <2>3
<1>10. CASE \E id \in Men : PostMutex(id, "release", "think") /\ i' = [i EXCEPT ![id] = @ + 1]
  BY <1>inv, <1>nb, <1>old, <1>10 DEF TypeOK, PostMutex, Move
<1>11. CASE \E id \in Men : Exit(id)
  BY <1>inv, <1>nb, <1>old, <1>11 DEF TypeOK, Exit, Move
<1>12. CASE UNCHANGED vars
  BY <1>old, <1>12 DEF vars
<1> QED  BY <1>1, <1>2, <1>3, <1>4, <1>5, <1>6, <1>7, <1>8, <1>9, <1>10, <1>11, <1>12 DEF Next, DiningPhilosopher, PickUp, PutDown, Terminated

(* dining2.c:118-135.  Whoever puts down tests both neighbours, so that a  *)
(* hungry philosopher always has somebody who is going to grant its meal.  *)
THEOREM NobodyForgotten == Spec => []NoForgottenGrant
<1>1. Init => NoForgottenGrant  BY DEF Init, NoForgottenGrant
<1> QED  BY <1>1, Invariance, StepForgetsNobody, PTL DEF Spec

----------------------------------------------------------------------------
LEMMA InitRefines == Init => Meals!Init
BY DEF Init, Meals!Init, Meals!Men, Men

LEMMA StepRefines == IInv /\ [Next]_vars => [Meals!Next]_(Meals!vars)
<1> SUFFICES ASSUME IInv, [Next]_vars PROVE [Meals!Next]_(Meals!vars)  OBVIOUS
<1> USE SizeAssumption
<1>inv. TypeOK /\ GrantInv /\ NeighboursInv /\ LoopInv  BY DEF IInv
<1> DEFINE Eating == {q \in Men : at[q] \in {"eat", "thinking"}}
           Eaten  == [q \in Men |->
                        i[q] + IF at[q] \in {"test_left", "test_right", "release"} THEN 1 ELSE 0]
<1>still. ASSUME Eating' = Eating, Eaten' = Eaten PROVE [Meals!Next]_(Meals!vars)
  BY <1>still DEF Meals!vars
<1>1. ASSUME NEW id \in Men, i[id] < NLOOPS /\ WaitMutex(id, "think", "hungry") PROVE [Meals!Next]_(Meals!vars)
  <2>1. Eating' = Eating  BY <1>inv, <1>1 DEF WaitMutex, Move, TypeOK
  <2>2. Eaten' = Eaten  BY <1>inv, <1>1 DEF WaitMutex, Move, TypeOK
  <2> QED  BY <2>1, <2>2, <1>still
<1>2. ASSUME NEW id \in Men, SetState(id, "hungry", "HUNGRY", "test") PROVE [Meals!Next]_(Meals!vars)
  <2>1. Eating' = Eating  BY <1>inv, <1>2 DEF SetState, Move, TypeOK
  <2>2. Eaten' = Eaten  BY <1>inv, <1>2 DEF SetState, Move, TypeOK
  <2> QED  BY <2>1, <2>2, <1>still
<1>3. ASSUME NEW id \in Men, TestFrom(id, "test", id, "post") PROVE [Meals!Next]_(Meals!vars)
  <2>1. Eating' = Eating  BY <1>inv, <1>3 DEF TestFrom, Move, TypeOK
  <2>2. Eaten' = Eaten  BY <1>inv, <1>3 DEF TestFrom, Move, TypeOK
  <2> QED  BY <2>1, <2>2, <1>still
<1>4. ASSUME NEW id \in Men, PostMutex(id, "post", "await") /\ UNCHANGED i PROVE [Meals!Next]_(Meals!vars)
  <2>1. Eating' = Eating  BY <1>inv, <1>4 DEF PostMutex, Move, TypeOK
  <2>2. Eaten' = Eaten  BY <1>inv, <1>4 DEF PostMutex, Move, TypeOK
  <2> QED  BY <2>1, <2>2, <1>still
<1>5. ASSUME NEW id \in Men, AwaitMeal(id) PROVE [Meals!Next]_(Meals!vars)
  <2>1. State[id] = "EATING" /\ id \notin Eating  BY <1>inv, <1>5 DEF AwaitMeal, GrantInv, TypeOK
  <2>2. LEFT(id) \notin Eating /\ RIGHT(id) \notin Eating
    BY <1>inv, <2>1, Neighbours DEF GrantInv, NeighboursInv
  <2>3. Eating' = Eating \cup {id}  BY <1>inv, <1>5 DEF AwaitMeal, Move, TypeOK
  <2>4. Eaten' = Eaten  BY <1>inv, <1>5 DEF AwaitMeal, Move, TypeOK
  <2>5. Eaten[id] < NLOOPS  BY <1>inv, <1>5 DEF AwaitMeal, LoopInv, TypeOK
  <2>6. Meals!LEFT(id) = LEFT(id) /\ Meals!RIGHT(id) = RIGHT(id) /\ Meals!Men = Men
    BY DEF Meals!LEFT, Meals!RIGHT, Meals!Men, LEFT, RIGHT, Men
  <2>7. Meals!Start(id)  BY <2>1, <2>2, <2>3, <2>4, <2>5, <2>6 DEF Meals!Start
  <2> QED  BY <2>6, <2>7 DEF Meals!Next
<1>6. ASSUME NEW id \in Men, WaitMutex(id, "eat", "thinking") PROVE [Meals!Next]_(Meals!vars)
  <2>1. Eating' = Eating  BY <1>inv, <1>6 DEF WaitMutex, Move, TypeOK
  <2>2. Eaten' = Eaten  BY <1>inv, <1>6 DEF WaitMutex, Move, TypeOK
  <2> QED  BY <2>1, <2>2, <1>still
<1>7. ASSUME NEW id \in Men, SetState(id, "thinking", "THINKING", "test_left") PROVE [Meals!Next]_(Meals!vars)
  <2>1. id \in Eating /\ Eating' = Eating \ {id}  BY <1>inv, <1>7 DEF SetState, Move, TypeOK
  <2>2. Eaten' = [Eaten EXCEPT ![id] = @ + 1]
    <3>1. at[id] = "thinking" /\ at' = [at EXCEPT ![id] = "test_left"] /\ i' = i
      BY <1>7 DEF SetState, Move
    <3>2. \A q \in Men : Eaten'[q] = IF q = id THEN Eaten[q] + 1 ELSE Eaten[q]
      BY <1>inv, <3>1 DEF TypeOK
    <3> QED  BY <3>2
  <2>3. Meals!Finish(id)  BY <2>1, <2>2 DEF Meals!Finish
  <2>4. Meals!Men = Men  BY DEF Meals!Men, Men
  <2> QED  BY <2>3, <2>4 DEF Meals!Next
<1>8. ASSUME NEW id \in Men, TestFrom(id, "test_left", LEFT(id), "test_right") PROVE [Meals!Next]_(Meals!vars)
  <2>1. Eating' = Eating  BY <1>inv, <1>8 DEF TestFrom, Move, TypeOK
  <2>2. Eaten' = Eaten  BY <1>inv, <1>8 DEF TestFrom, Move, TypeOK
  <2> QED  BY <2>1, <2>2, <1>still
<1>9. ASSUME NEW id \in Men, TestFrom(id, "test_right", RIGHT(id), "release") PROVE [Meals!Next]_(Meals!vars)
  <2>1. Eating' = Eating  BY <1>inv, <1>9 DEF TestFrom, Move, TypeOK
  <2>2. Eaten' = Eaten  BY <1>inv, <1>9 DEF TestFrom, Move, TypeOK
  <2> QED  BY <2>1, <2>2, <1>still
<1>10. ASSUME NEW id \in Men, PostMutex(id, "release", "think") /\ i' = [i EXCEPT ![id] = @ + 1] PROVE [Meals!Next]_(Meals!vars)
  <2>1. Eating' = Eating  BY <1>inv, <1>10 DEF PostMutex, Move, TypeOK
  <2>2. Eaten' = Eaten  BY <1>inv, <1>10 DEF PostMutex, Move, TypeOK
  <2> QED  BY <2>1, <2>2, <1>still
<1>11. ASSUME NEW id \in Men, Exit(id) PROVE [Meals!Next]_(Meals!vars)
  <2>1. Eating' = Eating  BY <1>inv, <1>11 DEF Exit, Move, TypeOK
  <2>2. Eaten' = Eaten  BY <1>inv, <1>11 DEF Exit, Move, TypeOK
  <2> QED  BY <2>1, <2>2, <1>still
<1>12. CASE UNCHANGED vars
  BY <1>12, <1>still DEF vars
<1> QED  BY <1>1, <1>2, <1>3, <1>4, <1>5, <1>6, <1>7, <1>8, <1>9, <1>10, <1>11, <1>12 DEF Next, DiningPhilosopher, PickUp, PutDown, Terminated

(* dining2.c implements the table: whoever starts to eat has neighbours    *)
(* who do not, and nobody eats more than NLOOPS meals.                     *)
THEOREM Refinement == Spec => ImplementsTable
BY InitRefines, StepRefines, Invariance, PTL DEF Spec, ImplementsTable, Meals!Spec

=============================================================================
