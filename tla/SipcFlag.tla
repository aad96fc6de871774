------------------------------ MODULE SipcFlag ------------------------------
(***************************************************************************)
(* HW8/sipc1.c and sipc2.c: sipc2 writes a request to a segment of shared  *)
(* memory, raises the flag at its start and spins until the flag is down;  *)
(* sipc1 spins until it is up, reads the request, writes its reply over it *)
(* and lowers the flag.  A second later sipc1 removes the segment.  The    *)
(* programs may be run again and again; two runs of the same program do    *)
(* not overlap.                                                            *)
(***************************************************************************)
EXTENDS Naturals, FiniteSets, Ipc

CONSTANTS
  Clients,  \* the runs of sipc2
  Servers,  \* the runs of sipc1
  Nobody    \* the author of what is in a new segment

VARIABLES  \* and those of Ipc: the segment SHM_KEY names, what each has attached
  flag,              \* [Segments -> *pInt]
  area,              \* [Segments -> who wrote pData last]
  at,                \* [Processes -> the next statement]
  read               \* [Processes -> who wrote what the process printed]

Processes == Clients \cup Servers
Segments  == 1 .. Cardinality(Processes)

ipcVars == <<key, made, held>>
vars == <<ipcVars, flag, area, at, read>>

InitAt(label) ==
  /\ IpcInit(Processes)
  /\ flag = [s \in Segments |-> 0]
  /\ area = [s \in Segments |-> Nobody]
  /\ at = [p \in Processes |-> label]
  /\ read = [p \in Processes |-> Nobody]

Init   == InitAt("start")
NotRun == InitAt("off")

Go(p, from, to) == at[p] = from /\ at' = [at EXCEPT ![p] = to]

Ended(p) == at[p] \in {"done", "failed"}

(* shmget. *)
Start(p, role) ==
  /\ \A q \in role : at[q] = "start" \/ Ended(q)
  /\ Go(p, "start", "attach")
  /\ GetOrMake(p)
  /\ UNCHANGED <<flag, area, read>>

(* shmat, which fails when the segment has been removed since: nobody has  *)
(* it attached any more.                                                   *)
Attach(p, to) ==
  /\ Go(p, "attach", IF held[p] = key THEN to ELSE "failed")
  /\ UNCHANGED <<ipcVars, flag, area, read>>

(* printf and sprintf of pData. *)
Read(p, from, to) ==
  /\ Go(p, from, to)
  /\ read' = [read EXCEPT ![p] = area[held[p]]]
  /\ UNCHANGED <<ipcVars, flag, area>>

Write(p, from, to) ==
  /\ Go(p, from, to)
  /\ area' = [area EXCEPT ![held[p]] = p]
  /\ UNCHANGED <<ipcVars, flag, read>>

(* *pInt = n, and a pass of the loop that spins on it. *)
SetFlag(p, n, from, to) ==
  /\ Go(p, from, to)
  /\ flag' = [flag EXCEPT ![held[p]] = n]
  /\ UNCHANGED <<ipcVars, area, read>>

SpinUntil(p, n, from, to) ==
  /\ Go(p, from, to)
  /\ flag[held[p]] = n
  /\ UNCHANGED <<ipcVars, flag, area, read>>

(* shmdt and IPC_RMID, after the sleep. *)
RemoveSegment(p) ==
  /\ Go(p, "asleep", "done")
  /\ Remove
  /\ UNCHANGED <<flag, area, read>>

(* A seeded fault: the flag stays up. *)
ServerKeepsFlag(p) ==
  \/ SpinUntil(p, 1, "spin", "read")
  \/ Read(p, "read", "write")
  \/ Write(p, "write", "asleep")
  \/ RemoveSegment(p)

Server(p) ==
  \/ SpinUntil(p, 1, "spin", "read")
  \/ Read(p, "read", "write")
  \/ Write(p, "write", "lower")
  \/ SetFlag(p, 0, "lower", "asleep")
  \/ RemoveSegment(p)

(* A seeded fault: the flag goes up before the request is there. *)
ClientFlagFirst(p) ==
  \/ SetFlag(p, 1, "write", "raise")
  \/ Write(p, "raise", "spin")
  \/ SpinUntil(p, 0, "spin", "read")
  \/ Read(p, "read", "done")

Client(p) ==
  \/ Write(p, "write", "raise")
  \/ SetFlag(p, 1, "raise", "spin")
  \/ SpinUntil(p, 0, "spin", "read")
  \/ Read(p, "read", "done")

Next ==
  \/ \E p \in Servers : Start(p, Servers) \/ Attach(p, "spin") \/ Server(p)
  \/ \E p \in Clients : Start(p, Clients) \/ Attach(p, "write") \/ Client(p)

Spec == Init /\ [][Next]_vars

(* Processes run, and the user goes on starting sipc1. *)
Fairness ==
  /\ WF_vars(\E p \in Servers : Start(p, Servers) \/ Attach(p, "spin") \/ Server(p))
  /\ WF_vars(\E p \in Clients : Attach(p, "write") \/ Client(p))

----------------------------------------------------------------------------
TypeOK ==
  /\ key \in Segments \cup {NoObject} /\ made \in 0 .. Cardinality(Processes)
  /\ held \in [Processes -> Segments \cup {NoObject}]
  /\ flag \in [Segments -> {0, 1}]
  /\ area \in [Segments -> Processes \cup {Nobody}]
  /\ at \in [Processes -> {"off", "start", "attach", "spin", "read", "write",
                           "raise", "lower", "asleep", "done", "failed"}]
  /\ read \in [Processes -> Processes \cup {Nobody}]

(* The flag says whose turn it is: while it is up the client is not in the *)
(* area, while it is down the server is not.                               *)
FlagInv ==
  \A p \in Processes : held[p] # NoObject =>
    /\ p \in Servers /\ at[p] \in {"read", "write", "lower"} => flag[held[p]] = 1
    /\ p \in Clients /\ at[p] \in {"write", "raise", "read"} => flag[held[p]] = 0

(* A client on a segment whose server has already replied, and will remove *)
(* it: nobody else comes to this segment.                                  *)
Late(c) ==
  \E s \in Servers :
    held[s] = held[c] /\ at[s] \in {"asleep", "done"} /\ read[s] # c

CallIsAnswered == \A c \in Clients : at[c] = "spin" ~> (at[c] = "done" \/ Late(c))

RepliesMatch ==
  \A c \in Clients : at[c] = "done" => read[c] \in Servers /\ read[read[c]] = c

(* The call of c and the replies that wait, as Service sees them. *)
Call(c) ==
  CASE at[c] \in {"off", "start", "attach", "write", "raise"} -> "idle"
    [] at[c] \in {"spin", "read"} -> "asked"
    [] at[c] = "done" -> "heard"
    [] at[c] = "failed" -> "gone"

Ready ==
  Cardinality({c \in Clients : Call(c) = "asked" /\ flag[held[c]] = 0})

=============================================================================
