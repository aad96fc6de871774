---------------------------- MODULE SipcThreads -----------------------------
(***************************************************************************)
(* HW9/sipc_m.c: the request and the reply between two threads, sipc2 who  *)
(* asks and sipc1 who answers, over one buffer.  It is built with a mutex  *)
(* and two condition variables, or with SEMAPHORE defined and the          *)
(* semaphores of semlib2.c, each used here as Semaphore promises.          *)
(***************************************************************************)
EXTENDS Naturals, FiniteSets

CONSTANT Nobody

Threads == {"sipc1", "sipc2"}
Sems    == {"sipc1Sem", "sipc2Sem", "MutexSem"}
OwnSem  == [sipc1 |-> "sipc1Sem", sipc2 |-> "sipc2Sem"]
Other   == [sipc1 |-> "sipc2", sipc2 |-> "sipc1"]

VARIABLES
  variant,  \* cond or sem
  main,     \* the next statement of main
  at,       \* [Threads -> the next statement]
  dir,      \* whose turn it is: 1 or 2
  Mutex,    \* the thread that holds the mutex, or Nobody
  asleep,   \* the threads asleep on their condition variable
  value,    \* [Sems -> value]
  buf,      \* who wrote the buffer last
  read      \* [Threads -> who wrote what the thread printed]

lockVars == <<dir, Mutex, asleep, value>>
dataVars == <<buf, read>>
vars == <<variant, main, at, lockVars, dataVars>>

InitAt(label) ==
  /\ main = label
  /\ at = [t \in Threads |-> "unborn"]
  /\ dir = 0 /\ Mutex = Nobody /\ asleep = {}
  /\ value = [s \in Sems |-> 0]
  /\ buf = Nobody
  /\ read = [t \in Threads |-> Nobody]

Init   == variant \in {"cond", "sem"} /\ InitAt("init")
NotRun == variant = "cond" /\ InitAt("off")

Go(t, from, to) == at[t] = from /\ at' = [at EXCEPT ![t] = to]

(* The conditions, the mutex and the semaphores are made, and sipc2 is to  *)
(* begin; then the threads are.                                            *)
MainInit ==
  /\ main = "init" /\ main' = "create"
  /\ dir' = 2
  /\ value' = IF variant = "cond" THEN value
              ELSE [value EXCEPT !["sipc2Sem"] = 1, !["MutexSem"] = 1]
  /\ UNCHANGED <<variant, at, Mutex, asleep, dataVars>>

MainCreate ==
  /\ main = "create"
  /\ \/ Go("sipc1", "unborn", IF variant = "cond" THEN "lock" ELSE "turn") /\ UNCHANGED main
     \/ /\ at["sipc1"] # "unborn"
        /\ Go("sipc2", "unborn", IF variant = "cond" THEN "lock" ELSE "turn")
        /\ main' = "join"
  /\ UNCHANGED <<variant, lockVars, dataVars>>

(* Both joined; the conditions, the mutex and the semaphores are destroyed *)
(* as they are.                                                            *)
MainJoin ==
  /\ main = "join" /\ main' = "done"
  /\ \A t \in Threads : at[t] = "exit"
  /\ UNCHANGED <<variant, at, lockVars, dataVars>>

Lock(t, from, to) ==
  /\ Go(t, from, to)
  /\ Mutex = Nobody /\ Mutex' = t
  /\ UNCHANGED <<variant, main, dir, asleep, value, dataVars>>

Unlock(t, from, to) ==
  /\ Go(t, from, to)
  /\ Mutex' = Nobody
  /\ UNCHANGED <<variant, main, dir, asleep, value, dataVars>>

(* while (dir != turn) pthread_cond_wait: the thread sleeps without the    *)
(* mutex, takes it again when it has been woken up, and looks again.       *)
Look(t, turn, from, sleep, to) ==
  /\ IF dir = turn
       THEN Go(t, from, to) /\ UNCHANGED <<Mutex, asleep>>
       ELSE /\ Go(t, from, sleep)
            /\ Mutex' = Nobody
            /\ asleep' = asleep \cup {t}
  /\ UNCHANGED <<variant, main, dir, value, dataVars>>

Wake(t, sleep, from) == t \notin asleep /\ Lock(t, sleep, from)

(* A condition variable may wake its thread up for no reason. *)
Spurious(t) ==
  /\ t \in asleep
  /\ asleep' = asleep \ {t}
  /\ UNCHANGED <<variant, main, at, dir, Mutex, value, dataVars>>

(* A seeded fault: the condition variable of the thread itself.            *)
SignalOwn(t, from, to) ==
  /\ Go(t, from, to)
  /\ asleep' = asleep \ {t}
  /\ UNCHANGED <<variant, main, dir, Mutex, value, dataVars>>

Signal(t, from, to) ==
  /\ Go(t, from, to)
  /\ asleep' = asleep \ {Other[t]}
  /\ UNCHANGED <<variant, main, dir, Mutex, value, dataVars>>

sem_wait(t, s, from, to) ==
  /\ Go(t, from, to)
  /\ value[s] > 0 /\ value' = [value EXCEPT ![s] = @ - 1]
  /\ UNCHANGED <<variant, main, dir, Mutex, asleep, dataVars>>

sem_post(t, s, from, to) ==
  /\ Go(t, from, to)
  /\ value' = [value EXCEPT ![s] = @ + 1]
  /\ UNCHANGED <<variant, main, dir, Mutex, asleep, dataVars>>

(* printf and sprintf of buf, and the turn to the other one. *)
Read(t, from, to) ==
  /\ Go(t, from, to)
  /\ read' = [read EXCEPT ![t] = buf]
  /\ UNCHANGED <<variant, main, lockVars, buf>>

Write(t, from, to) ==
  /\ Go(t, from, to)
  /\ buf' = t
  /\ UNCHANGED <<variant, main, lockVars, read>>

Pass(t, turn, from, to) ==
  /\ Go(t, from, to)
  /\ dir' = turn
  /\ UNCHANGED <<variant, main, Mutex, asleep, value, dataVars>>

ByVariant(cond, sem) == IF variant = "cond" THEN cond ELSE sem

(* The statements between the locks that open and close the buffer. *)
Leave(t, next) ==
  \/ Signal(t, "signal", "unlock")
  \/ Unlock(t, "unlock", next)
  \/ sem_post(t, "MutexSem", "leave", "hand")
  \/ sem_post(t, OwnSem[Other[t]], "hand", next)

sipc1 ==
  \/ Lock("sipc1", "lock", "look")
  \/ Look("sipc1", 1, "look", "sleep", "read")
  \/ Wake("sipc1", "sleep", "look")
  \/ sem_wait("sipc1", "sipc1Sem", "turn", "enter")
  \/ sem_wait("sipc1", "MutexSem", "enter", "read")
  \/ Read("sipc1", "read", "write")
  \/ Write("sipc1", "write", "pass")
  \/ Pass("sipc1", 2, "pass", ByVariant("signal", "leave"))
  \/ Leave("sipc1", "exit")

(* sipc2 ends without giving the mutex, or MutexSem, back. *)
sipc2 ==
  \/ Lock("sipc2", "lock", "look")
  \/ Look("sipc2", 2, "look", "sleep", "write")
  \/ Wake("sipc2", "sleep", "look")
  \/ sem_wait("sipc2", "sipc2Sem", "turn", "enter")
  \/ sem_wait("sipc2", "MutexSem", "enter", "write")
  \/ Write("sipc2", "write", "pass")
  \/ Pass("sipc2", 1, "pass", ByVariant("signal", "leave"))
  \/ Leave("sipc2", ByVariant("lock2", "turn2"))
  \/ Lock("sipc2", "lock2", "look2")
  \/ Look("sipc2", 2, "look2", "sleep2", "read")
  \/ Wake("sipc2", "sleep2", "look2")
  \/ sem_wait("sipc2", "sipc2Sem", "turn2", "enter2")
  \/ sem_wait("sipc2", "MutexSem", "enter2", "read")
  \/ Read("sipc2", "read", "exit")

Main == MainInit \/ MainCreate \/ MainJoin

Next == Main \/ sipc1 \/ sipc2 \/ \E t \in Threads : Spurious(t)

Spec == Init /\ [][Next]_vars

(* Threads that can run do, and get a mutex that is free again and again.  *)
Fairness == WF_vars(Main) /\ SF_vars(sipc1) /\ SF_vars(sipc2)

----------------------------------------------------------------------------
Inside == {"read", "write", "pass", "signal", "unlock", "leave"}

TypeOK ==
  /\ variant \in {"cond", "sem"}
  /\ main \in {"off", "init", "create", "join", "done"}
  /\ at \in [Threads -> Inside \cup
               {"unborn", "lock", "look", "sleep", "turn", "enter", "hand", "lock2", "look2",
                "sleep2", "turn2", "enter2", "exit"}]
  /\ dir \in 0 .. 2
  /\ Mutex \in Threads \cup {Nobody}
  /\ asleep \subseteq Threads
  /\ value \in [Sems -> {0, 1}]
  /\ buf \in Threads \cup {Nobody} /\ read \in [Threads -> Threads \cup {Nobody}]

(* One thread at a time is at the buffer, and it is the one whose turn it  *)
(* is; a thread that is asleep waits for a turn that the other will give,  *)
(* or has a signal on the way.                                             *)
Exclusion ==
  /\ ~ \A t \in Threads : at[t] \in Inside
  /\ at["sipc1"] \in {"read", "write", "pass"} => dir = 1
  /\ at["sipc2"] \in {"read", "write", "pass"} => dir = 2
  /\ "sipc1" \in asleep => dir = 2 \/ at["sipc2"] = "signal"
  /\ "sipc2" \in asleep => dir = 1 \/ at["sipc1"] = "signal"

(* Both threads end, however the two start and whoever signals too early.  *)
BothEnd == main = "init" ~> main = "done"

RepliesMatch == main = "done" => read["sipc2"] = "sipc1" /\ read["sipc1"] = "sipc2"

(* sipc2 is the caller. *)
Asked == dir = 1 \/ at["sipc2"] \in {"lock2", "look2", "sleep2", "turn2", "enter2", "read"}

Call ==
  IF at["sipc2"] = "exit" THEN "heard"
  ELSE IF Asked THEN "asked" ELSE "idle"

Ready == IF Call = "asked" /\ dir = 2 THEN 1 ELSE 0

=============================================================================
