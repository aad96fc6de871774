------------------------- MODULE ProdConsSysVProofs -------------------------
(***************************************************************************)
(* Theorems about HW9/producer_s.c and consumer_s.c for every number of    *)
(* rounds, every buffer size and every data: whichever process starts      *)
(* first, whoever is killed, and whenever the kernel takes back what a     *)
(* process did to the semaphores, the segment stays a bounded FIFO buffer. *)
(***************************************************************************)
EXTENDS ProdConsSysV, TLAPS

(* The facts about the shared buffer, for processes. *)
Facts == INSTANCE ProdConsProofs WITH sem <- value, main <- "none"

Settings == {"set_empty", "set_full", "set_mutex"}
Removals == {"destroy_empty", "destroy_full", "destroy_mutex", "done"}

(* Where each process can be, and how many rounds it has to go there.      *)
LifeInv ==
  /\ \A p \in Workers : status[p] = "ready" <=> at[p] = "start"
  /\ at[P] \notin Settings /\ at[C] \notin Removals
  /\ \A p \in Workers : at[p] \in Claimed => i[p] < NLOOPS
  /\ at[P] \in Removals => i[P] = NLOOPS
  /\ \A p \in Workers : at[p] \in Starting => \A s \in Semaphores : adjust[p][s] = 0

(* Process p has got, or made, semaphore s. *)
Got(p, s) ==
  CASE s = "emptySem" -> at[p] \notin {"start", "get_empty"}
    [] s = "fullSem"  -> at[p] \notin {"start", "get_empty", "get_full"}
    [] s = "mutexSem" -> at[p] \notin Starting

(* A semaphore exists from the first semInit to its removal, and only then *)
(* does the kernel have something to take back from it.                    *)
Removed(s) ==
  CASE s = "emptySem" -> at[P] \in Removals \ {"destroy_empty"}
    [] s = "fullSem"  -> at[P] \in {"destroy_mutex", "done"}
    [] s = "mutexSem" -> at[P] = "done"

ExistInv ==
  \A s \in Semaphores :
    /\ value[s] = NoSem <=> (\A p \in Workers : ~ Got(p, s)) \/ Removed(s)
    /\ value[s] = NoSem => \A p \in Workers : adjust[p][s] = 0

(* Until the consumer has set the semaphores the producer gets stuck.      *)
SetupInv ==
  /\ ~ Settled =>
       /\ i[P] = 0 /\ i[C] = 0 /\ at[P] \in Starting \cup {"loop", "enter"}
       /\ value["mutexSem"] <= 0
       /\ \A p \in Workers : adjust[p]["mutexSem"] = 0
  /\ at[C] \in Starting \cup {"set_empty"} =>
       /\ at[P] \in Starting \cup {"loop"}
       /\ value["emptySem"] <= 0
       /\ \A p \in Workers : adjust[p]["emptySem"] = 0

(* What the kernel takes back from a process that has ended can only lower *)
(* the semaphore that the other process waits for.                         *)
SignInv == adjust[C]["emptySem"] <= 0 /\ adjust[P]["fullSem"] <= 0

(* Dead or alive, neither process has claimed more than the other provided. *)
LimitInv ==
  /\ Past(P, Claimed) <= MAX_BUF + Past(C, {"sleep"})
  /\ Past(C, Claimed) <= Past(P, {"sleep"})

(* As UnitsInv, and so also of a process when it starts. *)
SupplyInv ==
  /\ status[P] \in {"ready", "running"} =>
       value["emptySem"] <= MAX_BUF - Past(P, Claimed) + Past(C, {"sleep"})
  /\ status[C] \in {"ready", "running"} =>
       value["fullSem"] <= Past(P, {"sleep"}) - Past(C, Claimed)

SysInv ==
  /\ TypeOK /\ LifeInv /\ ExistInv /\ SetupInv /\ MutexInv /\ SignInv /\ LimitInv
  /\ SupplyInv /\ CounterInv /\ Buffer!IndexInv

USE SysVAssumption
    DEF P, C, Workers, Buffer!P, Buffer!C, Buffer!Workers, Semaphores, NoSem, Starting,
        Settings, Removals, Inside, Claimed, Buffer!BodyLabels, bufferVars, semlibVars, Move, End

LEMMA InitSysInv == Init => SysInv
<1> SUFFICES ASSUME Init PROVE SysInv
  OBVIOUS
<1> USE DEF Init, SemlibInit
<1>1. TypeOK
  BY DEF TypeOK, SemlibTypeOK, Buffer!Slots
<1>2. LifeInv /\ ExistInv /\ SetupInv /\ MutexInv /\ SignInv
  BY DEF LifeInv, ExistInv, SetupInv, MutexInv, SignInv, Settled, Got, Removed, B
<1>3. LimitInv /\ SupplyInv /\ CounterInv
  BY DEF LimitInv, SupplyInv, CounterInv, Past, B, Buffer!AfterCount
<1>4. Buffer!IndexInv
  BY DEF Buffer!IndexInv, Buffer!Past, Buffer!AfterAdvance, Buffer!AfterCount
<1> QED  BY <1>1, <1>2, <1>3, <1>4 DEF SysInv

(* The steps, value by value.  Process p goes from one label to another.   *)
Goes(p, from, to) ==
  /\ at[p] = from /\ at'[p] = to
  /\ \A q \in Workers \ {p} : at'[q] = at[q]

(* A semWait (n is -1) or semPost (n is 1) that succeeds. *)
SemStep(p, s, from, to, n) ==
  /\ status[p] = "running" /\ Goes(p, from, to)
  /\ value[s] # NoSem /\ value[s] + n >= 0 /\ value'[s] = value[s] + n
  /\ adjust'[p][s] = adjust[p][s] - n
  /\ \A q \in Workers \ {p} : adjust'[q][s] = adjust[q][s]
  /\ \A u \in Semaphores \ {s} :
       value'[u] = value[u] /\ \A q \in Workers : adjust'[q][u] = adjust[q][u]
  /\ UNCHANGED <<bufferVars, i, status>>

SemSteps ==
  \/ SemStep(P, "emptySem", "loop", "enter", -1) /\ i[P] < NLOOPS
  \/ SemStep(P, "mutexSem", "enter", "access", -1)
  \/ SemStep(P, "mutexSem", "leave", "signal", 1)
  \/ SemStep(P, "fullSem", "signal", "sleep", 1)
  \/ SemStep(C, "fullSem", "loop", "enter", -1) /\ i[C] < NLOOPS
  \/ SemStep(C, "mutexSem", "enter", "access", -1)
  \/ SemStep(C, "mutexSem", "leave", "signal", 1)
  \/ SemStep(C, "emptySem", "signal", "sleep", 1)

(* A process ends: by itself, in a call that fails, or killed. *)
EndStep(p) ==
  /\ status[p] = "running"
  /\ \E how \in {"exited", "failed", "killed"} : End(p, how)
  /\ UNCHANGED <<bufferVars, i, at, value, adjust>>

LEMMA CallSteps ==
  ASSUME TypeOK, NEW p \in Workers, status[p] = "running",
         (p = P /\ Producer) \/ (p = C /\ Consumer)
  PROVE  TypeOK' /\ (SemSteps \/ EndStep(p))
<1>1. ASSUME NEW s \in Semaphores, NEW from \in Claimed \cup {"loop"}, NEW to \in Claimed,
             Wait(p, s, from, to)
      PROVE  TypeOK' /\ (SemStep(p, s, from, to, -1) \/ EndStep(p))
  BY <1>1 DEF TypeOK, SemlibTypeOK, Wait, Call, semWait, Add, SemStep, EndStep, Goes
<1>2. ASSUME NEW s \in Semaphores, NEW from \in Claimed \cup {"loop"}, NEW to \in Claimed,
             Post(p, s, from, to)
      PROVE  TypeOK' /\ (SemStep(p, s, from, to, 1) \/ EndStep(p))
  BY <1>2 DEF TypeOK, SemlibTypeOK, Post, Call, semPost, Add, SemStep, EndStep, Goes
<1>3. CASE p = P /\ Producer
  BY <1>1, <1>2, <1>3 DEF Producer, SemSteps
<1>4. CASE p = C /\ Consumer
  BY <1>1, <1>2, <1>4 DEF Consumer, SemSteps
<1> QED  BY <1>3, <1>4

(* Labels of the loop apart from its body: a step between them, or into or *)
(* out of the body, leaves the counter and the indices exact.              *)
LEMMA BufferUnchanged ==
  ASSUME TypeOK, CounterInv, Buffer!IndexInv,
         UNCHANGED <<in, out, counter, reg, i>>,
         \A p \in Workers :
           /\ at'[p] \in Buffer!AfterAdvance <=> at[p] \in Buffer!AfterAdvance
           /\ at'[p] \in Buffer!AfterCount <=> at[p] \in Buffer!AfterCount
           /\ status'[p] = "running" /\ at'[p] = "count" =>
                status[p] = "running" /\ at[p] = "count"
  PROVE  CounterInv' /\ Buffer!IndexInv'
<1>1. CounterInv'
  BY DEF CounterInv, Past, B
<1>2. Buffer!IndexInv'
  BY DEF Buffer!IndexInv, Buffer!Past
<1> QED  BY <1>1, <1>2

LEMMA SemStepsInv ==
  ASSUME SysInv, TypeOK', SemSteps
  PROVE  SysInv'
<1>1. /\ value["emptySem"] \in Int /\ value["fullSem"] \in Int /\ value["mutexSem"] \in Int
      /\ \A p \in Workers, s \in Semaphores : adjust[p][s] \in Int
      /\ i[P] \in Nat /\ i[C] \in Nat
  BY DEF SysInv, TypeOK, SemlibTypeOK
<1> USE <1>1
<1>2. LifeInv'
  BY DEF SysInv, SemSteps, SemStep, Goes, LifeInv
<1>3. ExistInv'
  <2>1. \A s \in Semaphores : value[s] = NoSem <=> value'[s] = NoSem
    BY DEF SysInv, SemSteps, SemStep
  <2>2. \A s \in Semaphores : value[s] = NoSem => \A p \in Workers : adjust'[p][s] = adjust[p][s]
    BY DEF SysInv, SemSteps, SemStep
  <2>3. \A s \in Semaphores : Removed(s) <=> Removed(s)'
    BY DEF SemSteps, SemStep, Goes, Removed
  <2>4. \A p \in Workers, s \in Semaphores : Got(p, s) <=> Got(p, s)'
    BY DEF SemSteps, SemStep, Goes, Got
  <2> QED  BY <2>1, <2>2, <2>3, <2>4 DEF SysInv, ExistInv
<1>4. SetupInv'
  <2> USE DEF SysInv, SemStep, Goes, SetupInv, Settled
  <2>1. CASE SemStep(P, "emptySem", "loop", "enter", -1)  BY <2>1
  <2>2. CASE SemStep(P, "mutexSem", "enter", "access", -1)  BY <2>2
  <2>3. CASE SemStep(P, "mutexSem", "leave", "signal", 1)  BY <2>3
  <2>4. CASE SemStep(P, "fullSem", "signal", "sleep", 1)  BY <2>4
  <2>5. CASE (Settled /\ at[C] # "loop") \/ at[C] = "loop"  BY <2>5 DEF SemSteps
  <2> QED  BY <2>1, <2>2, <2>3, <2>4, <2>5 DEF SemSteps
<1>5. MutexInv'
  <2>1. Settled' <=> Settled
    BY DEF SemSteps, SemStep, Goes, Settled
  <2>2. ASSUME NEW p \in Workers, NEW s \in Semaphores \ {"mutexSem"},
               NEW from \in {"loop", "signal"}, NEW to \in {"enter", "sleep"},
               NEW n \in {-1, 1}, SemStep(p, s, from, to, n)
        PROVE  MutexInv'
    <3>1. \A q \in Workers : B(q, Inside)' = B(q, Inside)
      BY <2>2 DEF SemStep, Goes, B
    <3> QED  BY <2>1, <2>2, <3>1 DEF SysInv, MutexInv, SemStep
  <2>3. ASSUME NEW p \in Workers, SemStep(p, "mutexSem", "enter", "access", -1)
        PROVE  MutexInv'
    <3>1. /\ B(p, Inside) = 0 /\ B(p, Inside)' = 1
          /\ \A q \in Workers \ {p} : B(q, Inside)' = B(q, Inside)
      BY <2>3 DEF SemStep, Goes, B
    <3>2. /\ status' = status /\ status[p] = "running"
          /\ value["mutexSem"] # NoSem /\ value'["mutexSem"] = value["mutexSem"] - 1
          /\ \A q \in Workers \ {p} : adjust'[q]["mutexSem"] = adjust[q]["mutexSem"]
      BY <2>3 DEF SemStep
    <3>3. adjust[p]["mutexSem"] = 0 /\ adjust'[p]["mutexSem"] = 1
      BY <2>3, <3>1, <3>2 DEF SysInv, MutexInv, SemStep
    <3> HIDE DEF Inside
    <3>4. MutexInv
      BY DEF SysInv
    <3>5. adjust'[P]["mutexSem"] + adjust'[C]["mutexSem"]
            = adjust[P]["mutexSem"] + adjust[C]["mutexSem"] + 1
      BY <3>2, <3>3
    <3>6. \A q \in Workers :
            /\ adjust'[q]["mutexSem"] \in {0, 1}
            /\ status'[q] = "running" => adjust'[q]["mutexSem"] = B(q, Inside)'
      BY <3>1, <3>2, <3>3, <3>4 DEF MutexInv
    <3>7. value'["mutexSem"] + adjust'[P]["mutexSem"] + adjust'[C]["mutexSem"]
            = IF Settled THEN 1 ELSE 0
      <4>1. value["mutexSem"] + adjust[P]["mutexSem"] + adjust[C]["mutexSem"]
              = IF Settled THEN 1 ELSE 0
        BY <3>2, <3>4 DEF MutexInv
      <4>2. /\ adjust[P]["mutexSem"] \in Int /\ adjust[C]["mutexSem"] \in Int
            /\ adjust'[P]["mutexSem"] \in Int /\ adjust'[C]["mutexSem"] \in Int
        BY <3>6
      <4> QED  BY <3>2, <3>5, <4>1, <4>2
    <3> QED  BY <2>1, <3>6, <3>7 DEF MutexInv
  <2>4. ASSUME NEW p \in Workers, SemStep(p, "mutexSem", "leave", "signal", 1)
        PROVE  MutexInv'
    <3>1. /\ B(p, Inside) = 1 /\ B(p, Inside)' = 0
          /\ \A q \in Workers \ {p} : B(q, Inside)' = B(q, Inside)
      BY <2>4 DEF SemStep, Goes, B
    <3>2. /\ status' = status /\ status[p] = "running"
          /\ value["mutexSem"] # NoSem /\ value'["mutexSem"] = value["mutexSem"] + 1
          /\ \A q \in Workers \ {p} : adjust'[q]["mutexSem"] = adjust[q]["mutexSem"]
      BY <2>4 DEF SemStep
    <3>3. adjust[p]["mutexSem"] = 1 /\ adjust'[p]["mutexSem"] = 0
      BY <2>4, <3>1, <3>2 DEF SysInv, MutexInv, SemStep
    <3> HIDE DEF Inside
    <3>4. MutexInv
      BY DEF SysInv
    <3>5. adjust'[P]["mutexSem"] + adjust'[C]["mutexSem"]
            = adjust[P]["mutexSem"] + adjust[C]["mutexSem"] - 1
      BY <3>2, <3>3
    <3>6. \A q \in Workers :
            /\ adjust'[q]["mutexSem"] \in {0, 1}
            /\ status'[q] = "running" => adjust'[q]["mutexSem"] = B(q, Inside)'
      BY <3>1, <3>2, <3>3, <3>4 DEF MutexInv
    <3>7. value'["mutexSem"] + adjust'[P]["mutexSem"] + adjust'[C]["mutexSem"]
            = IF Settled THEN 1 ELSE 0
      <4>1. value["mutexSem"] + adjust[P]["mutexSem"] + adjust[C]["mutexSem"]
              = IF Settled THEN 1 ELSE 0
        BY <3>2, <3>4 DEF MutexInv
      <4>2. /\ adjust[P]["mutexSem"] \in Int /\ adjust[C]["mutexSem"] \in Int
            /\ adjust'[P]["mutexSem"] \in Int /\ adjust'[C]["mutexSem"] \in Int
        BY <3>6
      <4> QED  BY <3>2, <3>5, <4>1, <4>2
    <3> QED  BY <2>1, <3>6, <3>7 DEF MutexInv
  <2> QED
    BY <2>2, <2>3, <2>4 DEF SemSteps
<1>6. SignInv'
  BY <1>1 DEF SysInv, SemSteps, SemStep, SignInv
<1>7. LimitInv' /\ SupplyInv'
  <2> USE DEF SemStep, Goes, LimitInv, SupplyInv, Past, B
  <2>0. LimitInv /\ SupplyInv
    BY DEF SysInv
  <2>1. CASE SemStep(P, "emptySem", "loop", "enter", -1)  BY <2>0, <2>1
  <2>2. CASE SemStep(P, "mutexSem", "enter", "access", -1)  BY <2>0, <2>2
  <2>3. CASE SemStep(P, "mutexSem", "leave", "signal", 1)  BY <2>0, <2>3
  <2>4. CASE SemStep(P, "fullSem", "signal", "sleep", 1)  BY <2>0, <2>4
  <2>5. CASE SemStep(C, "fullSem", "loop", "enter", -1)  BY <2>0, <2>5
  <2>6. CASE SemStep(C, "mutexSem", "enter", "access", -1)  BY <2>0, <2>6
  <2>7. CASE SemStep(C, "mutexSem", "leave", "signal", 1)  BY <2>0, <2>7
  <2>8. CASE SemStep(C, "emptySem", "signal", "sleep", 1)  BY <2>0, <2>8
  <2> QED
    BY <2>1, <2>2, <2>3, <2>4, <2>5, <2>6, <2>7, <2>8 DEF SemSteps
<1>8. CounterInv' /\ Buffer!IndexInv'
  BY BufferUnchanged DEF SysInv, SemSteps, SemStep, Goes, Buffer!AfterAdvance, Buffer!AfterCount
<1> QED  BY <1>2, <1>3, <1>4, <1>5, <1>6, <1>7, <1>8 DEF SysInv

LEMMA EndStepInv ==
  ASSUME SysInv, NEW p \in Workers, EndStep(p)
  PROVE  SysInv'
<1>1. TypeOK'
  BY DEF SysInv, TypeOK, SemlibTypeOK, EndStep
<1> /\ status'[p] \in {"exited", "failed", "killed"}
    /\ \A q \in Workers \ {p} : status'[q] = status[q]
  BY DEF SysInv, TypeOK, EndStep
<1>2. LifeInv' /\ SetupInv' /\ ExistInv' /\ SignInv' /\ LimitInv'
  BY DEF SysInv, EndStep, LifeInv, SetupInv, Settled, ExistInv, Got, Removed, SignInv, LimitInv,
         Past, B
<1>3. MutexInv' /\ SupplyInv'
  BY DEF SysInv, EndStep, MutexInv, Settled, SupplyInv, Past, B
<1>4. CounterInv' /\ Buffer!IndexInv'
  BY BufferUnchanged DEF SysInv, EndStep
<1> QED  BY <1>1, <1>2, <1>3, <1>4 DEF SysInv

(* A step of a process that has not got its semaphores yet.  Which values  *)
(* the others see changes only when it makes a semaphore.                  *)
StartStep(p, to) ==
  /\ at[p] \in Starting /\ Goes(p, at[p], to)
  /\ status'[p] = "running"
  /\ \A q \in Workers \ {p} : status'[q] = status[q]
  /\ \A s \in Semaphores :
       IF Got(p, s)' <=> Got(p, s)
       THEN value'[s] = value[s]
       ELSE value'[s] = IF value[s] = NoSem THEN 0 ELSE value[s]
  /\ UNCHANGED <<bufferVars, i, adjust>>

StartSteps(p) ==
  \/ at[p] = "start" /\ status[p] = "ready" /\ StartStep(p, "get_empty")
  \/ /\ status[p] = "running"
     /\ \/ at[p] = "get_empty" /\ StartStep(p, "get_full")
        \/ at[p] = "get_full" /\ StartStep(p, "get_mutex")
        \/ at[p] = "get_mutex" /\ StartStep(p, IF p = P THEN "loop" ELSE "set_empty")

LEMMA StartsAndGets ==
  ASSUME SysInv, NEW p \in Workers, Start(p) \/ (status[p] = "running" /\ GetSems(p))
  PROVE  TypeOK' /\ StartSteps(p)
<1>1. CASE Start(p)
  BY <1>1 DEF SysInv, TypeOK, SemlibTypeOK, LifeInv, Start, StartSteps, StartStep, Goes, Got
<1>2. ASSUME NEW s \in Semaphores, NEW from \in Starting,
             NEW to \in Starting \cup {"loop", "set_empty"}, GetSem(p, s, from, to)
      PROVE  /\ TypeOK' /\ at[p] = from /\ Goes(p, from, to) /\ status' = status
             /\ value'[s] = (IF value[s] = NoSem THEN 0 ELSE value[s])
             /\ \A u \in Semaphores \ {s} : value'[u] = value[u]
             /\ UNCHANGED <<bufferVars, i, adjust>>
  BY <1>2 DEF SysInv, TypeOK, SemlibTypeOK, GetSem, semInit, Goes
<1>3. CASE status[p] = "running" /\ GetSem(p, "emptySem", "get_empty", "get_full")
  BY <1>2, <1>3 DEF StartSteps, StartStep, Goes, Got
<1>4. CASE status[p] = "running" /\ GetSem(p, "fullSem", "get_full", "get_mutex")
  BY <1>2, <1>4 DEF StartSteps, StartStep, Goes, Got
<1>5. CASE status[p] = "running"
           /\ GetSem(p, "mutexSem", "get_mutex", IF p = P THEN "loop" ELSE "set_empty")
  BY <1>2, <1>5 DEF StartSteps, StartStep, Goes, Got
<1> QED  BY <1>1, <1>3, <1>4, <1>5 DEF GetSems

LEMMA StartInv ==
  ASSUME SysInv, TypeOK', NEW p \in Workers, StartSteps(p)
  PROVE  SysInv'
<1>1. PICK to \in {"get_empty", "get_full", "get_mutex", "loop", "set_empty"} :
        /\ StartStep(p, to)
        /\ to = "loop" => p = P
        /\ to = "set_empty" => p = C
        /\ status[p] \in {"ready", "running"}
  BY DEF StartSteps
<1>2. /\ \A s \in Semaphores : value'[s] = IF value[s] = NoSem THEN value'[s] ELSE value[s]
      /\ \A s \in Semaphores : value'[s] = value[s] \/ value'[s] = 0
      /\ UNCHANGED <<bufferVars, i, adjust>>
  BY <1>1 DEF StartStep
<1>3. LifeInv'
  BY <1>1 DEF SysInv, StartStep, Goes, LifeInv
<1>4. SetupInv'
  BY <1>1, <1>2 DEF SysInv, TypeOK, SemlibTypeOK, StartStep, Goes, LifeInv, SetupInv, Settled
<1>5. at[P] \notin Removals /\ at'[P] \notin Removals
  BY <1>1 DEF SysInv, StartStep, Goes, SetupInv, Settled
<1>6. ExistInv'
  <2>1. \A s \in Semaphores : ~ Removed(s) /\ ~ Removed(s)'
    BY <1>5 DEF Removed
  <2>2. \A s \in Semaphores : Got(p, s) => Got(p, s)'
    BY <1>1 DEF StartStep, StartSteps, Goes, Got
  <2>3. \A q \in Workers \ {p}, s \in Semaphores : Got(q, s)' <=> Got(q, s)
    BY <1>1 DEF StartStep, Goes, Got
  <2>4. \A s \in Semaphores :
          /\ value'[s] = NoSem => value[s] = NoSem
          /\ Got(p, s)' /\ ~ Got(p, s) => value'[s] # NoSem
          /\ (Got(p, s)' <=> Got(p, s)) => value'[s] = value[s]
    BY <1>1 DEF StartStep
  <2>5. \A s \in Semaphores : value'[s] = NoSem <=> \A q \in Workers : ~ Got(q, s)'
    BY <2>1, <2>2, <2>3, <2>4 DEF SysInv, ExistInv
  <2> QED  BY <1>2, <2>1, <2>4, <2>5 DEF SysInv, ExistInv
<1>7. MutexInv'
  <2>1. \A q \in Workers : B(q, Inside)' = B(q, Inside)
    BY <1>1 DEF StartStep, Goes, B
  <2>2. B(p, Inside) = 0 /\ adjust[p]["mutexSem"] = 0
    BY <1>1 DEF SysInv, LifeInv, StartStep, B
  <2>3. Settled' <=> Settled
    BY <1>1 DEF StartStep, Goes, Settled
  <2>4. CASE value["mutexSem"] = NoSem
    <3>1. \A q \in Workers : at[q] \in Starting /\ adjust[q]["mutexSem"] = 0
      BY <1>5, <2>4 DEF SysInv, ExistInv, Got, Removed
    <3>2. ~ Settled'
      BY <2>3, <3>1 DEF Settled
    <3>3. \A q \in Workers : B(q, Inside)' = 0
      BY <2>1, <3>1 DEF B
    <3> QED  BY <1>2, <2>4, <3>1, <3>2, <3>3 DEF MutexInv
  <2>5. CASE value["mutexSem"] # NoSem
    <3>1. \A q \in Workers \ {p} : status'[q] = status[q]
      BY <1>1 DEF StartStep
    <3> QED  BY <1>2, <2>1, <2>2, <2>3, <2>5, <3>1 DEF SysInv, MutexInv
  <2> QED  BY <2>4, <2>5
<1>8. SignInv'
  BY <1>2 DEF SysInv, SignInv
<1>9. LimitInv' /\ SupplyInv'
  <2>1. /\ \A q \in Workers : Past(q, Claimed)' = Past(q, Claimed)
        /\ \A q \in Workers : Past(q, {"sleep"})' = Past(q, {"sleep"})
        /\ \A q \in Workers : Past(q, Claimed) \in Int /\ Past(q, {"sleep"}) \in Int
    BY <1>1, <1>2 DEF SysInv, TypeOK, StartStep, Goes, Past, B
  <2>2. LimitInv'
    BY <2>1 DEF SysInv, LimitInv
  <2>3. /\ 0 <= MAX_BUF - Past(P, Claimed) + Past(C, {"sleep"})
        /\ 0 <= Past(P, {"sleep"}) - Past(C, Claimed)
    BY <2>1 DEF SysInv, LimitInv
  <2>4. /\ status[p] \in {"ready", "running"}
        /\ \A q \in Workers \ {p} : status'[q] = status[q]
    BY <1>1 DEF StartStep
  <2>5. SupplyInv'
    BY <1>2, <2>1, <2>3, <2>4 DEF SysInv, SupplyInv
  <2> QED  BY <2>2, <2>5
<1>10. CounterInv' /\ Buffer!IndexInv'
  BY <1>1, <1>2, BufferUnchanged DEF SysInv, StartStep, Goes, Buffer!AfterAdvance, Buffer!AfterCount
<1> QED  BY <1>3, <1>4, <1>6, <1>7, <1>8, <1>9, <1>10 DEF SysInv

(* A SETVAL of the consumer. *)
SetStep(s, from, to) ==
  /\ status[C] = "running" /\ Goes(C, from, to)
  /\ value'[s] = InitialValue(s)
  /\ \A q \in Workers : adjust'[q][s] = 0
  /\ \A u \in Semaphores \ {s} :
       value'[u] = value[u] /\ \A q \in Workers : adjust'[q][u] = adjust[q][u]
  /\ UNCHANGED <<bufferVars, i, status>>

LEMMA SetValuesInv ==
  ASSUME SysInv, status[C] = "running", SetValues
  PROVE  SysInv'
<1>1. ASSUME NEW s \in Semaphores, NEW from \in Settings, NEW to \in Settings \cup {"loop"},
             SetValue(s, from, to)
      PROVE  TypeOK' /\ SetStep(s, from, to)
  BY <1>1 DEF SysInv, TypeOK, SemlibTypeOK, SetValue, semInitValue, Forget, InitialValue,
              SetStep, Goes
<1>2. /\ TypeOK'
      /\ \/ SetStep("emptySem", "set_empty", "set_full")
         \/ SetStep("fullSem", "set_full", "set_mutex")
         \/ SetStep("mutexSem", "set_mutex", "loop")
  BY <1>1 DEF SetValues
<1> USE <1>2 DEF SysInv, SetStep, Goes, InitialValue
<1>3. LifeInv' /\ SetupInv'
  BY DEF LifeInv, SetupInv, Settled
<1>4. ExistInv'
  <2>1. \A s \in Semaphores : ~ Removed(s) /\ ~ Removed(s)' /\ value[s] # NoSem
    BY DEF SetupInv, Settled, ExistInv, Got, Removed
  <2>2. \A s \in Semaphores : value'[s] # NoSem
    BY <2>1
  <2>3. \A s \in Semaphores : Got(C, s)'
    BY DEF Got
  <2> QED  BY <2>1, <2>2, <2>3 DEF ExistInv
<1>5. MutexInv'
  BY DEF MutexInv, Settled, B, SetupInv
<1>6. SignInv'
  BY DEF SignInv
<1>7. LimitInv' /\ SupplyInv'
  BY DEF TypeOK, SemlibTypeOK, LimitInv, SupplyInv, Past, B, SetupInv, Settled
<1>8. CounterInv' /\ Buffer!IndexInv'
  BY BufferUnchanged DEF Buffer!AfterAdvance, Buffer!AfterCount
<1> QED  BY <1>3, <1>4, <1>5, <1>6, <1>7, <1>8

(* What the lemmas on the shared buffer ask for. *)
LEMMA FactsApply ==
  ASSUME TypeOK
  PROVE  /\ Facts!BufferAssumption /\ Facts!Shape
         /\ \A p \in Workers : p \in Facts!Workers
         /\ "leave" \in Facts!AfterCount
         /\ \A p \in Workers : Body(p) => Facts!Body(p, "leave")
BY DEF TypeOK, Facts!BufferAssumption, Facts!Shape, Facts!Workers, Facts!P, Facts!C,
       Facts!Slots, Buffer!Slots, Facts!AnyLabel, Facts!Labels, Facts!BodyLabels, Facts!AfterCount,
       Body, Facts!Body, Facts!Store, Facts!AdvanceIn, Facts!Fetch, Facts!AdvanceOut,
       Facts!LoadCounter, Facts!StoreCounter, Facts!Wake, Facts!Move, Facts!Succ,
       Facts!bufferVars,
       Buffer!Store, Buffer!AdvanceIn, Buffer!Fetch, Buffer!AdvanceOut,
       Buffer!LoadCounter, Buffer!StoreCounter, Buffer!Wake, Buffer!Move, Buffer!Succ,
       Buffer!bufferVars

(* Two living processes are not both inside. *)
LEMMA ExclusionHolds == SysInv => Exclusion
BY DEF SysInv, TypeOK, SemlibTypeOK, ExistInv, Got, Removed, MutexInv, Exclusion, B, Settled

(* A process in the loop body: the semaphores do not tell its labels apart. *)
BodyMoves ==
  {<<"access", "advance">>, <<"advance", "load">>, <<"load", "count">>, <<"count", "leave">>,
   <<"sleep", "loop">>}

BodyStep(p, from, to) ==
  /\ <<from, to>> \in BodyMoves /\ Goes(p, from, to)
  /\ i'[p] = i[p] + (IF from = "sleep" THEN 1 ELSE 0)
  /\ \A q \in Workers \ {p} : i'[q] = i[q]

LEMMA BodySteps ==
  ASSUME SysInv, NEW p \in Workers, Body(p), UNCHANGED <<value, adjust, status>>
  PROVE  /\ TypeOK'
         /\ \E from, to \in Claimed \cup {"loop"} : BodyStep(p, from, to)
<1> USE DEF BodyStep, BodyMoves, Goes
<1>1. Facts!Shape'
  BY FactsApply, Facts!BodySteps DEF SysInv
<1>2. \E from, to \in Claimed \cup {"loop"} : BodyStep(p, from, to)
  BY DEF SysInv, TypeOK, Body, Buffer!Store, Buffer!AdvanceIn, Buffer!Fetch,
         Buffer!AdvanceOut, Buffer!LoadCounter, Buffer!StoreCounter, Buffer!Wake, Buffer!Move
<1>3. at' \in [Workers -> Claimed \cup Settings \cup Removals \cup Starting \cup {"loop"}]
  BY DEF SysInv, TypeOK, Body, Buffer!Store, Buffer!AdvanceIn, Buffer!Fetch,
         Buffer!AdvanceOut, Buffer!LoadCounter, Buffer!StoreCounter, Buffer!Wake, Buffer!Move
<1>4. i' \in [Workers -> 0 .. NLOOPS]
  <2>1. \A q \in Workers : i'[q] \in 0 .. NLOOPS
    BY <1>2 DEF SysInv, TypeOK, LifeInv
  <2> QED
    BY <1>1, <2>1 DEF Facts!Shape, Facts!Workers, Facts!P, Facts!C
<1>5. TypeOK'
  BY <1>1, <1>3, <1>4 DEF SysInv, TypeOK, SemlibTypeOK, Facts!Shape, Facts!Workers, Facts!P,
                          Facts!C, Facts!Slots, Buffer!Slots
<1> QED  BY <1>2, <1>5

LEMMA BodyInv ==
  ASSUME SysInv, NEW p \in Workers, status[p] = "running", Body(p),
         UNCHANGED <<value, adjust, status>>
  PROVE  SysInv'
<1>1. TypeOK'
  BY BodySteps
<1>2. PICK from \in Claimed \cup {"loop"}, to \in Claimed \cup {"loop"} : BodyStep(p, from, to)
  BY BodySteps
<1>3. /\ \A q \in Workers : i[q] \in Nat
      /\ at[p] \in Claimed \cup {"loop"} /\ at'[p] \in Claimed \cup {"loop"}
      /\ \A q \in Workers \ {p} : at'[q] = at[q] /\ i'[q] = i[q]
  BY <1>2 DEF SysInv, TypeOK, BodyStep, Goes
<1> USE DEF BodyStep, BodyMoves, Goes
<1>4. LifeInv'
  BY <1>2, <1>3 DEF SysInv, LifeInv
<1>5. ExistInv' /\ SignInv'
  BY <1>2, <1>3 DEF SysInv, ExistInv, Got, Removed, SignInv
<1>6. SetupInv'
  BY <1>2, <1>3 DEF SysInv, SetupInv, Settled
<1>7. \A q \in Workers : /\ Past(q, Claimed)' = Past(q, Claimed)
                         /\ Past(q, {"sleep"})' = Past(q, {"sleep"})
                         /\ B(q, Inside)' = B(q, Inside)
  BY <1>2, <1>3 DEF Past, B
<1>8. MutexInv'
  <2>1. Settled' <=> Settled
    BY <1>2 DEF Settled
  <2> QED  BY <1>7, <2>1 DEF SysInv, MutexInv
<1>9. LimitInv' /\ SupplyInv'
  BY <1>7 DEF SysInv, LimitInv, SupplyInv
<1>10. CounterInv'
  <2>1. PICK alive \in SUBSET Workers : alive = {q \in Workers : status[q] = "running"}
    OBVIOUS
  <2>2. Facts!CounterFor(alive)
    BY <2>1 DEF SysInv, CounterInv, Facts!CounterFor, Past, B, Facts!Past, Facts!AfterCount,
                Buffer!AfterCount, Facts!P, Facts!C
  <2>3. p \in alive /\ alive \in SUBSET Facts!Workers
    BY <2>1 DEF Facts!Workers, Facts!P, Facts!C
  <2>4. at[p] \in Facts!BodyLabels => \A q \in alive \ {p} : at[q] \notin Facts!BodyLabels
    BY <2>1, ExclusionHolds DEF Exclusion, Facts!BodyLabels
  <2>5. Facts!CounterFor(alive)'
    BY <2>2, <2>3, <2>4, FactsApply, Facts!BodyCounter DEF SysInv
  <2> QED
    BY <2>1, <2>5 DEF CounterInv, Facts!CounterFor, Past, B, Facts!Past, Facts!AfterCount,
                      Buffer!AfterCount, Facts!P, Facts!C
<1>11. Buffer!IndexInv'
  <2>1. Facts!IndexInv
    BY DEF SysInv, Buffer!IndexInv, Facts!IndexInv, Buffer!Past, Facts!Past,
           Buffer!AfterAdvance, Facts!AfterAdvance, Buffer!AfterCount, Facts!AfterCount,
           Facts!P, Facts!C
  <2>2. Facts!IndexInv'
    BY <2>1, FactsApply, Facts!BodyIndex DEF SysInv
  <2> QED
    BY <2>2 DEF Buffer!IndexInv, Facts!IndexInv, Buffer!Past, Facts!Past,
           Buffer!AfterAdvance, Facts!AfterAdvance, Buffer!AfterCount, Facts!AfterCount,
           Facts!P, Facts!C
<1> QED  BY <1>1, <1>4, <1>5, <1>6, <1>8, <1>9, <1>10, <1>11 DEF SysInv

(* The producer removes the semaphores. *)
RemoveStep(from, to) ==
  /\ i[P] = NLOOPS /\ Goes(P, from, to)
  /\ \A s \in Semaphores :
       IF Removed(s)' <=> Removed(s)
       THEN value'[s] = value[s] /\ \A q \in Workers : adjust'[q][s] = adjust[q][s]
       ELSE value'[s] = NoSem /\ \A q \in Workers : adjust'[q][s] = 0
  /\ UNCHANGED <<bufferVars, i, status>>

LEMMA CleanupInv ==
  ASSUME SysInv, status[P] = "running", Cleanup
  PROVE  SysInv'
<1>1. /\ TypeOK'
      /\ \/ RemoveStep("loop", "destroy_empty")
         \/ RemoveStep("destroy_empty", "destroy_full")
         \/ RemoveStep("destroy_full", "destroy_mutex")
         \/ RemoveStep("destroy_mutex", "done")
  <2> USE DEF SysInv, TypeOK, SemlibTypeOK, LifeInv, RemoveStep, Goes, Removed, semDestroy,
              Forget, Destroy
  <2>1. CASE at[P] = "loop" /\ i[P] = NLOOPS /\ Move(P, "destroy_empty")
             /\ UNCHANGED <<bufferVars, i, semlibVars, status>>
    BY <2>1
  <2>2. CASE Destroy("emptySem", "destroy_empty", "destroy_full")  BY <2>2
  <2>3. CASE Destroy("fullSem", "destroy_full", "destroy_mutex")   BY <2>3
  <2>4. CASE Destroy("mutexSem", "destroy_mutex", "done")          BY <2>4
  <2> QED  BY <2>1, <2>2, <2>3, <2>4 DEF Cleanup
<1>2. Settled /\ Settled'
  BY <1>1 DEF SysInv, RemoveStep, Goes, SetupInv, Settled
<1> USE <1>1, <1>2 DEF RemoveStep, Goes
<1>3. LifeInv' /\ SetupInv'
  BY DEF SysInv, LifeInv, SetupInv, Settled
<1>4. ExistInv'
  <2>1. \A s \in Semaphores : Removed(s) => Removed(s)'
    BY DEF Removed
  <2>2. \A s \in Semaphores : Got(P, s) /\ Got(P, s)'
    BY DEF Got
  <2> QED  BY <2>1, <2>2 DEF SysInv, ExistInv
<1>5. MutexInv'
  <2>1. \A q \in Workers : B(q, Inside)' = B(q, Inside)
    BY DEF B
  <2> QED  BY <2>1 DEF SysInv, MutexInv
<1>6. SignInv'
  BY DEF SysInv, SignInv
<1>7. LimitInv' /\ SupplyInv'
  <2>1. /\ \A q \in Workers : Past(q, Claimed)' = Past(q, Claimed)
        /\ \A q \in Workers : Past(q, {"sleep"})' = Past(q, {"sleep"})
        /\ \A q \in Workers : Past(q, Claimed) \in Int /\ Past(q, {"sleep"}) \in Int
    BY DEF SysInv, TypeOK, Past, B
  <2>2. \A s \in Semaphores : value'[s] = value[s] \/ value'[s] = NoSem
    OBVIOUS
  <2> QED  BY <2>1, <2>2 DEF SysInv, LimitInv, SupplyInv
<1>8. CounterInv' /\ Buffer!IndexInv'
  BY BufferUnchanged DEF SysInv, Buffer!AfterAdvance, Buffer!AfterCount
<1> QED  BY <1>3, <1>4, <1>5, <1>6, <1>7, <1>8 DEF SysInv

(* The kernel takes back what a process that has ended did to a semaphore. *)
LEMMA UndoInv ==
  ASSUME SysInv, NEW p \in Workers, UndoOf(p)
  PROVE  SysInv'
<1>1. PICK s \in Semaphores : Undo(p, s)
  BY DEF UndoOf
<1>2. /\ Ended(p) /\ adjust[p][s] # 0 /\ adjust'[p][s] = 0
      /\ value'[s] = IF value[s] + adjust[p][s] < 0 THEN 0 ELSE value[s] + adjust[p][s]
      /\ \A q \in Workers \ {p} : adjust'[q][s] = adjust[q][s]
      /\ \A u \in Semaphores \ {s} :
           value'[u] = value[u] /\ \A q \in Workers : adjust'[q][u] = adjust[q][u]
      /\ UNCHANGED <<bufferVars, i, at, status>>
  BY <1>1 DEF SysInv, TypeOK, SemlibTypeOK, UndoOf, Undo
<1>3. TypeOK'
  BY <1>1 DEF SysInv, TypeOK, SemlibTypeOK, UndoOf, Undo
<1>4. value[s] # NoSem /\ value[s] \in Nat /\ value'[s] # NoSem
  BY <1>2, <1>3 DEF SysInv, TypeOK, SemlibTypeOK, ExistInv
<1>5. LifeInv'
  BY <1>2 DEF SysInv, LifeInv
<1>6. ExistInv'
  <2>1. \A u \in Semaphores :
          /\ Removed(u)' <=> Removed(u)
          /\ \A q \in Workers : Got(q, u)' <=> Got(q, u)
    BY <1>2 DEF Got, Removed
  <2>2. \A u \in Semaphores :
          /\ value'[u] = NoSem <=> value[u] = NoSem
          /\ value[u] = NoSem => \A q \in Workers : adjust'[q][u] = adjust[q][u]
    BY <1>2, <1>4
  <2> QED  BY <2>1, <2>2 DEF SysInv, ExistInv
<1>7. MutexInv' /\ SetupInv'
  BY <1>2, <1>4 DEF SysInv, MutexInv, SetupInv, Settled, Ended, B
<1>8. SignInv'
  BY <1>2 DEF SysInv, SignInv
<1>9. LimitInv' /\ SupplyInv'
  <2>1. /\ \A q \in Workers : Past(q, Claimed)' = Past(q, Claimed)
        /\ \A q \in Workers : Past(q, {"sleep"})' = Past(q, {"sleep"})
        /\ \A q \in Workers : Past(q, Claimed) \in Int /\ Past(q, {"sleep"}) \in Int
    BY <1>2 DEF SysInv, TypeOK, Past, B
  <2>2. LimitInv'
    BY <2>1 DEF SysInv, LimitInv
  <2>3. \A u \in Semaphores : adjust[p][u] <= 0 => value'[u] <= value[u] \/ value'[u] = 0
    BY <1>2, <1>4 DEF SysInv, TypeOK, SemlibTypeOK
  <2>4. /\ 0 <= MAX_BUF - Past(P, Claimed) + Past(C, {"sleep"})
        /\ 0 <= Past(P, {"sleep"}) - Past(C, Claimed)
        /\ \A u \in Semaphores : value[u] \in Int /\ value'[u] \in Int
    BY <1>3, <2>1 DEF SysInv, LimitInv, TypeOK, SemlibTypeOK
  <2>5. CASE p = P
    <3>1. value'["fullSem"] <= value["fullSem"] \/ value'["fullSem"] = 0
      BY <2>3, <2>5 DEF SysInv, SignInv
    <3> QED  BY <1>2, <2>1, <2>2, <2>4, <2>5, <3>1 DEF SysInv, SupplyInv, Ended
  <2>6. CASE p = C
    <3>1. value'["emptySem"] <= value["emptySem"] \/ value'["emptySem"] = 0
      BY <2>3, <2>6 DEF SysInv, SignInv
    <3> QED  BY <1>2, <2>1, <2>2, <2>4, <2>6, <3>1 DEF SysInv, SupplyInv, Ended
  <2> QED  BY <2>5, <2>6
<1>10. CounterInv' /\ Buffer!IndexInv'
  BY <1>2, BufferUnchanged DEF SysInv
<1> QED  BY <1>3, <1>5, <1>6, <1>7, <1>8, <1>9, <1>10 DEF SysInv

(* Every step preserves the invariant. *)
LEMMA NextSysInv == SysInv /\ [Next]_vars => SysInv'
<1> SUFFICES ASSUME SysInv, [Next]_vars PROVE SysInv'
  OBVIOUS
<1>1. ASSUME UNCHANGED vars PROVE SysInv'
  <2> USE <1>1 DEF SysInv, vars
  <2>1. TypeOK' /\ LifeInv' /\ ExistInv' /\ SetupInv' /\ SignInv'
    BY DEF TypeOK, SemlibTypeOK, LifeInv, ExistInv, Got, Removed, SetupInv, Settled, SignInv
  <2>2. MutexInv' /\ LimitInv' /\ SupplyInv'
    BY DEF MutexInv, Settled, LimitInv, SupplyInv, Past, B
  <2>3. CounterInv' /\ Buffer!IndexInv'
    BY BufferUnchanged
  <2> QED  BY <2>1, <2>2, <2>3
<1>2. ASSUME NEW p \in Workers, Run(p) PROVE SysInv'
  <2>1. status[p] = "running"
    BY <1>2 DEF Run
  <2>2. CASE (p = P /\ Producer) \/ (p = C /\ Consumer)
    BY <2>1, <2>2, CallSteps, SemStepsInv, EndStepInv DEF SysInv
  <2>3. CASE p = P /\ Cleanup
    BY <2>1, <2>3, CleanupInv
  <2>4. CASE p = C /\ SetValues
    BY <2>1, <2>4, SetValuesInv
  <2>5. CASE Body(p) /\ UNCHANGED <<semlibVars, status>>
    BY <2>1, <2>5, BodyInv
  <2>7. CASE GetSems(p)
    BY <2>1, <2>7, StartsAndGets, StartInv
  <2>6. CASE Return(p)
    BY <2>1, <2>6, EndStepInv DEF Return, EndStep
  <2> QED  BY <1>2, <2>2, <2>3, <2>4, <2>5, <2>6, <2>7 DEF Run
<1>3. ASSUME NEW p \in Workers, Killed(p) PROVE SysInv'
  BY <1>3, EndStepInv DEF Killed, EndStep
<1>4. ASSUME NEW p \in Workers, Start(p) PROVE SysInv'
  BY <1>4, StartsAndGets, StartInv
<1> QED  BY <1>1, <1>2, <1>3, <1>4, UndoInv DEF Next

----------------------------------------------------------------------------
(* The buffer has room for the item that is stored, and holds the one that *)
(* is fetched: whoever died, no more was claimed than the other provided.  *)
LEMMA Capacity == SysInv => Buffer!CapacityInv
<1> SUFFICES ASSUME SysInv PROVE Buffer!CapacityInv
  OBVIOUS
<1>1. ASSUME NEW p \in Workers
      PROVE  /\ Past(p, {"sleep"}) \in Nat /\ Buffer!Past(p, Buffer!AfterAccess) \in Nat
             /\ Past(p, Claimed) \in Nat
             /\ Past(p, {"sleep"}) <= Buffer!Past(p, Buffer!AfterAccess)
             /\ Buffer!Past(p, Buffer!AfterAccess) <= Past(p, Claimed)
             /\ at[p] = "access" => Buffer!Past(p, Buffer!AfterAccess) < Past(p, Claimed)
  BY DEF SysInv, TypeOK, Past, B, Buffer!Past, Buffer!AfterAccess, Buffer!AfterAdvance,
         Buffer!AfterCount
<1> QED
  BY <1>1 DEF SysInv, LimitInv, Buffer!CapacityInv, Buffer!Stored, Buffer!Fetched

LEMMA SysInvImplies == SysInv => IInv
BY Capacity, ExclusionHolds DEF SysInv, SupplyInv, UnitsInv, IInv

(* For every NLOOPS, MAX_BUF and set of items, whoever is killed and when:  *)
(* two living processes are never both inside, the mutex is lent to one    *)
(* process and comes back, no process finds more slots or items than there *)
(* are, the counter and the indices are exact for those that live.         *)
THEOREM Invariance == Spec => []IInv
<1>1. Spec => []SysInv
  BY InitSysInv, NextSysInv, PTL DEF Spec
<1> QED  BY <1>1, SysInvImplies, PTL

(* The facts speak of the same buffer and the same queue. *)
LEMMA SameBuffer ==
  /\ SysInv => Facts!BufferInv
  /\ [Facts!FIFO!Next]_Facts!FIFO!vars => [Buffer!FIFO!Next]_Buffer!FIFO!vars
<1> USE DEF Buffer!Stored, Facts!Stored, Buffer!Fetched, Facts!Fetched, Buffer!Past, Facts!Past,
        Buffer!AfterAccess, Facts!AfterAccess, Buffer!AfterAdvance, Facts!AfterAdvance,
        Buffer!AfterCount, Facts!AfterCount, Facts!P, Facts!C
<1>1. SysInv => Facts!BufferInv
  <2> SUFFICES ASSUME SysInv PROVE Facts!BufferInv
    OBVIOUS
  <2>1. Facts!Shape
    BY FactsApply DEF SysInv
  <2>2. Facts!IndexInv
    BY DEF SysInv, Buffer!IndexInv, Facts!IndexInv
  <2>3. Facts!CapacityInv
    BY Capacity DEF Buffer!CapacityInv, Facts!CapacityInv
  <2> QED  BY <2>1, <2>2, <2>3 DEF Facts!BufferInv
<1>2. Facts!Queue = Buffer!Queue /\ Facts!Queue' = Buffer!Queue'
  BY DEF Facts!Queue, Buffer!Queue
<1>3. [Facts!FIFO!Next]_Facts!FIFO!vars => [Buffer!FIFO!Next]_Buffer!FIFO!vars
  BY <1>2
  DEF Facts!FIFO!Next, Facts!FIFO!vars, Facts!FIFO!Put, Facts!FIFO!Get,
      Buffer!FIFO!Next, Buffer!FIFO!vars, Buffer!FIFO!Put, Buffer!FIFO!Get
<1> QED  BY <1>1, <1>3

LEMMA InitRefines == Init => Buffer!FIFO!Init
BY DEF Init, Buffer!FIFO!Init, Buffer!Queue, Buffer!Stored, Buffer!Fetched, Buffer!Past,
       Buffer!AfterAccess, Buffer!AfterAdvance, Buffer!AfterCount

LEMMA NextRefines ==
  SysInv /\ SysInv' /\ [Next]_vars => [Buffer!FIFO!Next]_Buffer!FIFO!vars
<1> SUFFICES ASSUME SysInv, SysInv', [Next]_vars
             PROVE  [Facts!FIFO!Next]_Facts!FIFO!vars
  BY SameBuffer
<1>1. Facts!BufferInv /\ Facts!BufferInv'
  BY SameBuffer, PTL
<1>2. ASSUME NEW p \in Workers, Body(p) PROVE [Facts!FIFO!Next]_Facts!FIFO!vars
  BY <1>1, <1>2, FactsApply, Facts!BodyRefines DEF SysInv
<1>3. ASSUME UNCHANGED <<buf, data, i>>,
             \A p \in Workers : at[p] \in Facts!AfterAccess <=> at'[p] \in Facts!AfterAccess
      PROVE  UNCHANGED Facts!FIFO!vars
  BY <1>1, <1>3, FactsApply, Facts!SyncRefines
  DEF SysInv, Facts!BufferInv, Facts!Workers, Facts!P, Facts!C
<1> USE DEF Facts!AfterAccess, Facts!AfterAdvance, Facts!AfterCount
<1>4. ASSUME NEW p \in Workers, Start(p) \/ Killed(p) \/ UndoOf(p) \/ Return(p)
      PROVE  UNCHANGED Facts!FIFO!vars
  BY <1>3, <1>4 DEF SysInv, TypeOK, LifeInv, Start, Killed, UndoOf, Return
<1>5. ASSUME Cleanup \/ SetValues PROVE UNCHANGED Facts!FIFO!vars
  BY <1>3, <1>5 DEF SysInv, TypeOK, Cleanup, Destroy, SetValues, SetValue
<1>6. ASSUME NEW p \in Workers, status[p] = "running",
             (p = P /\ Producer) \/ (p = C /\ Consumer)
      PROVE  UNCHANGED Facts!FIFO!vars
  BY <1>3, <1>6, CallSteps DEF SysInv, SemSteps, SemStep, Goes, EndStep
<1>7. ASSUME UNCHANGED vars PROVE UNCHANGED Facts!FIFO!vars
  BY <1>3, <1>7 DEF vars
<1>8. ASSUME NEW p \in Workers, status[p] = "running", GetSems(p)
      PROVE  UNCHANGED Facts!FIFO!vars
  BY <1>3, <1>8, StartsAndGets DEF SysInv, StartSteps, StartStep, Goes
<1> QED  BY <1>2, <1>4, <1>5, <1>6, <1>7, <1>8 DEF Next, Run

(* The segment of producer_s.c and consumer_s.c is a bounded FIFO buffer,  *)
(* whoever starts first, and whoever is killed and when: no item is        *)
(* overwritten, fetched twice or out of order.                             *)
THEOREM Refinement == Spec => ImplementsBuffer
<1>1. Spec => []SysInv
  BY InitSysInv, NextSysInv, PTL DEF Spec
<1> QED
  BY <1>1, InitRefines, NextRefines, PTL
  DEF Spec, ImplementsBuffer, Buffer!ImplementsBuffer, Buffer!FIFO!Spec

=============================================================================
