------------------------------ MODULE SipcSem -------------------------------
(***************************************************************************)
(* HW9/sipc1.c and sipc2.c: the request and the reply of SipcFlag, with    *)
(* the turns kept by two semaphores of semlib.c, sem1 for sipc1 and sem2   *)
(* for sipc2.  sipc2 sets both, sipc1 removes everything a second after    *)
(* its reply.  Any process may be killed at any statement; the kernel then *)
(* takes back what it did to the semaphores.  The programs may be run      *)
(* again and again; two runs of the same program do not overlap.           *)
(***************************************************************************)
EXTENDS Integers, FiniteSets, Ipc, Semlib

CONSTANTS  \* and Semlib's: Processes, all these runs; Semaphores, {"sem1", "sem2"}
  Clients,  \* the runs of sipc2
  Servers,  \* the runs of sipc1
  MaxKills, \* how many processes the user kills at most
  Nobody    \* the author of what is in a new segment

VARIABLES  \* and those of Ipc, for the shared memory, and of Semlib
  life,              \* [Semaphores -> how often it has been made]
  id,                \* [Processes -> the life of each semaphore it got]
  area,              \* [Segments -> who wrote it last]
  at,                \* [Processes -> the next statement]
  read,              \* [Processes -> who wrote what the process printed]
  user               \* how careful the user is: careful, any

Segments   == 1 .. Cardinality(Processes)

ipcVars == <<key, made, held>>
semlibVars == <<value, adjust>>
idVars == <<life, id>>
vars == <<ipcVars, semlibVars, idVars, area, at, read, user>>

InitAt(label) ==
  /\ IpcInit(Processes) /\ SemlibInit
  /\ life = [s \in Semaphores |-> 0]
  /\ id = [p \in Processes |-> life]
  /\ area = [s \in Segments |-> Nobody]
  /\ at = [p \in Processes |-> label]
  /\ read = [p \in Processes |-> Nobody]

(* The user kills anybody, and runs sipc2 again also after one that found  *)
(* its semaphores removed; a careful user kills only a sipc1 that has not  *)
(* written its reply, and stops at a failure.                              *)
Init   == user \in {"careful", "any"} /\ InitAt("start")
NotRun == user = "careful" /\ InitAt("off")

Go(p, from, to) == at[p] = from /\ at' = [at EXCEPT ![p] = to]

Ended(p)   == at[p] \in {"done", "failed", "killed"}
Running(p) == at[p] \notin {"off", "start"} /\ ~ Ended(p)

(* The kernel has nothing of p to take back. *)
Cleared(p) == \A s \in Semaphores : adjust[p][s] = 0

(* shmget, shmat, which fails when the segment has been removed since, and *)
(* a call of semInit.                                                      *)
Start(p, role) ==
  /\ \A q \in role : at[q] = "start" \/ (Ended(q) /\ Cleared(q))
  /\ user = "careful" => \A q \in role : at[q] # "failed"
  /\ Go(p, "start", "attach")
  /\ GetOrMake(p)
  /\ UNCHANGED <<semlibVars, idVars, area, read, user>>

Attach(p) ==
  /\ Go(p, "attach", IF held[p] = key THEN "init2" ELSE "failed")
  /\ UNCHANGED <<ipcVars, semlibVars, idVars, area, read, user>>

GetSem(p, s, from, to) ==
  /\ Go(p, from, to)
  /\ semInit({s})
  /\ life' = [life EXCEPT ![s] = IF value[s] = NoSem THEN @ + 1 ELSE @]
  /\ id' = [id EXCEPT ![p][s] = life'[s]]
  /\ UNCHANGED <<ipcVars, area, read, user>>

GetSems(p, to) == GetSem(p, "sem2", "init2", "init1") \/ GetSem(p, "sem1", "init1", to)

(* A call of semlib, which fails, and its process exits, when the          *)
(* semaphore it got has been removed, also while it waits.                 *)
Valid(p, s) == value[s] # NoSem /\ id[p][s] = life[s]

Semop(p, s, semop, from, to) ==
  /\ \/ Valid(p, s) /\ Go(p, from, to) /\ semop
     \/ ~ Valid(p, s) /\ Go(p, from, "failed") /\ UNCHANGED semlibVars
  /\ UNCHANGED <<ipcVars, idVars, area, read, user>>

SetValue(p, s, n, from, to) == Semop(p, s, semInitValue(s, n), from, to)
Wait(p, s, from, to) == Semop(p, s, semWait(p, s), from, to)
Post(p, s, from, to) == Semop(p, s, semPost(p, s), from, to)

Read(p, from, to) ==
  /\ Go(p, from, to)
  /\ read' = [read EXCEPT ![p] = area[held[p]]]
  /\ UNCHANGED <<ipcVars, semlibVars, idVars, area, user>>

Write(p, from, to) ==
  /\ Go(p, from, to)
  /\ area' = [area EXCEPT ![held[p]] = p]
  /\ UNCHANGED <<ipcVars, semlibVars, idVars, read, user>>

(* Removing, after the sleep: the shared memory, then each semaphore.      *)
RemoveSegment(p) ==
  /\ Go(p, "asleep", "destroy1")
  /\ Remove
  /\ UNCHANGED <<semlibVars, idVars, area, read, user>>

Destroy(p, s, from, to) ==
  /\ Go(p, from, to)
  /\ semDestroy(s)
  /\ UNCHANGED <<ipcVars, idVars, area, read, user>>

(* A seeded fault: sem2 is not removed. *)
ServerKeepsSem2(p) ==
  \/ Wait(p, "sem1", "wait", "read")
  \/ Read(p, "read", "write")
  \/ Write(p, "write", "post")
  \/ Post(p, "sem2", "post", "asleep")
  \/ RemoveSegment(p)
  \/ Destroy(p, "sem1", "destroy1", "done")

(* A seeded fault: sipc2 is told before the reply is there. *)
ServerPostsFirst(p) ==
  \/ Wait(p, "sem1", "wait", "read")
  \/ Read(p, "read", "post")
  \/ Post(p, "sem2", "post", "write")
  \/ Write(p, "write", "asleep")
  \/ RemoveSegment(p)
  \/ Destroy(p, "sem1", "destroy1", "destroy2")
  \/ Destroy(p, "sem2", "destroy2", "done")

Server(p) ==
  \/ Wait(p, "sem1", "wait", "read")
  \/ Read(p, "read", "write")
  \/ Write(p, "write", "post")
  \/ Post(p, "sem2", "post", "asleep")
  \/ RemoveSegment(p)
  \/ Destroy(p, "sem1", "destroy1", "destroy2")
  \/ Destroy(p, "sem2", "destroy2", "done")

Client(p) ==
  \/ SetValue(p, "sem2", 1, "set2", "set1")
  \/ SetValue(p, "sem1", 0, "set1", "wait")
  \/ Wait(p, "sem2", "wait", "write")
  \/ Write(p, "write", "post")
  \/ Post(p, "sem1", "post", "await")
  \/ Wait(p, "sem2", "await", "read")
  \/ Read(p, "read", "done")

Killed(p) ==
  /\ Running(p) /\ Cardinality({q \in Processes : at[q] = "killed"}) < MaxKills
  /\ user = "any" \/ (p \in Servers /\ at[p] \in {"wait", "read", "write"})
  /\ at' = [at EXCEPT ![p] = "killed"]
  /\ UNCHANGED <<ipcVars, semlibVars, idVars, area, read, user>>

UndoOf(p) ==
  /\ Ended(p)
  /\ \E s \in Semaphores : Undo(p, s)
  /\ UNCHANGED <<ipcVars, idVars, area, at, read, user>>

Next ==
  \/ \E p \in Servers :
       Start(p, Servers) \/ Attach(p) \/ GetSems(p, "wait") \/ Server(p)
  \/ \E p \in Clients :
       Start(p, Clients) \/ Attach(p) \/ GetSems(p, "set2") \/ Client(p)
  \/ \E p \in Processes : Killed(p) \/ UndoOf(p)

Spec == Init /\ [][Next]_vars

(* Processes run, the kernel clears up after them, and the user goes on    *)
(* starting sipc1.  Nobody has to be killed.                               *)
Fairness ==
  /\ WF_vars(\E p \in Servers :
               Start(p, Servers) \/ Attach(p) \/ GetSems(p, "wait") \/ Server(p))
  /\ WF_vars(\E p \in Clients : Attach(p) \/ GetSems(p, "set2") \/ Client(p))
  /\ WF_vars(\E p \in Processes : UndoOf(p))

----------------------------------------------------------------------------
TypeOK ==
  /\ key \in Segments \cup {NoObject} /\ made \in 0 .. Cardinality(Processes)
  /\ held \in [Processes -> Segments \cup {NoObject}]
  /\ SemlibTypeOK
  /\ life \in [Semaphores -> Nat] /\ id \in [Processes -> [Semaphores -> Nat]]
  /\ area \in [Segments -> Processes \cup {Nobody}]
  /\ at \in [Processes -> {"off", "start", "attach", "init2", "init1", "set2",
                           "set1", "wait", "read", "write", "post", "await",
                           "asleep", "destroy1", "destroy2", "done", "failed",
                           "killed"}]
  /\ read \in [Processes -> Processes \cup {Nobody}]

(* The two are never both at the area, if a sipc1 is killed early or not.  *)
Exclusion ==
  user = "careful" =>
    \A c \in Clients, s \in Servers :
      ~ (at[c] \in {"write", "post", "read"} /\ at[s] \in {"read", "write", "post"})

(* A client that attached the segment a server was about to remove, but    *)
(* got the semaphores after it had removed them: it may read its own       *)
(* request.                                                                *)
Late(c) ==
  \E s \in Servers : held[s] = held[c] /\ at[s] = "done" /\ read[s] # c

RepliesMatch ==
  user = "careful" =>
    \A c \in Clients :
      at[c] = "done" => (read[c] \in Servers /\ read[read[c]] = c) \/ Late(c)

(* Whoever is killed, a client that waits for its reply gets it or finds   *)
(* the semaphores removed, as long as there are runs of sipc1 left, unless *)
(* one of them was killed in the middle of its removal.                    *)
HalfRemoved == \E s \in Servers : at[s] = "killed" /\ held[s] # key

WaitEnds ==
  \A c \in Clients :
    at[c] = "await" ~> (at[c] # "await" \/ HalfRemoved \/ \A s \in Servers : Ended(s))

Call(c) ==
  CASE at[c] \in {"off", "start", "attach", "init2", "init1", "set2", "set1",
                  "wait", "write", "post"} -> "idle"
    [] at[c] \in {"await", "read"} -> "asked"
    [] at[c] = "done" -> "heard"
    [] at[c] \in {"failed", "killed"} -> "gone"

Ready ==
  Cardinality({c \in Clients :
    at[c] = "read" \/ (at[c] = "await" /\ Valid(c, "sem2") /\ value["sem2"] > 0)})

=============================================================================
