------------------------------ MODULE MsgQueue ------------------------------
(***************************************************************************)
(* HW8/msgq1.c and msgq2.c: msgq1 makes a message queue, answers one       *)
(* request and removes the queue a second later; msgq2 sends a request to  *)
(* the queue and takes a message of type MSG_REPLY out of it.  A reply     *)
(* carries no name: with several msgq2 running, whoever comes first has it.*)
(* Two runs of msgq1 do not overlap.                                       *)
(***************************************************************************)
EXTENDS Naturals, Sequences, FiniteSets, Ipc

CONSTANTS
  Clients,  \* the runs of msgq2
  Servers,  \* the runs of msgq1
  Nobody

VARIABLES  \* and those of Ipc: the queue MSG_KEY names, the one each got
  queue,             \* who sent each message in it: a client's is a MSG_REQUEST
  at,                \* [Processes -> the next statement]
  read               \* [Processes -> who sent the message the process received]

Processes == Clients \cup Servers

ipcVars == <<key, made, held>>
vars == <<ipcVars, queue, at, read>>

InitAt(label) ==
  /\ IpcInit(Processes)
  /\ queue = <<>>
  /\ at = [p \in Processes |-> label]
  /\ read = [p \in Processes |-> Nobody]

Init   == InitAt("start")
NotRun == InitAt("off")

Go(p, from, to) == at[p] = from /\ at' = [at EXCEPT ![p] = to]

Ended(p) == at[p] \in {"done", "failed"}

StartServer(p) ==
  /\ \A q \in Servers : at[q] = "start" \/ Ended(q)
  /\ Go(p, "start", "receive")
  /\ GetOrMake(p)
  /\ UNCHANGED <<queue, read>>

(* A call on a queue that is there; on one that was removed it fails, also *)
(* while a process waits in it, and the process exits.                     *)
Valid(p) == held[p] = key

Send(p, from, to) ==
  /\ Go(p, from, to)
  /\ Valid(p)
  /\ queue' = Append(queue, p)
  /\ UNCHANGED <<ipcVars, read>>

(* The first message whose sender is in from. *)
Receive(p, senders, from, to) ==
  /\ Go(p, from, to)
  /\ Valid(p)
  /\ \E n \in 1 .. Len(queue) :
       /\ queue[n] \in senders /\ \A m \in 1 .. n - 1 : queue[m] \notin senders
       /\ read' = [read EXCEPT ![p] = queue[n]]
       /\ queue' = SubSeq(queue, 1, n - 1) \o SubSeq(queue, n + 1, Len(queue))
  /\ UNCHANGED ipcVars

Fail(p, from) ==
  /\ ~ Valid(p)
  /\ Go(p, from, "failed")
  /\ UNCHANGED <<ipcVars, queue, read>>

(* A seeded fault: msgctl is not called. *)
KeepQueue(p) ==
  /\ Go(p, "asleep", "done")
  /\ UNCHANGED <<ipcVars, queue, read>>

(* msgctl, after the sleep: the messages go with the queue. *)
RemoveQueue(p) ==
  /\ Go(p, "asleep", "done")
  /\ Remove
  /\ queue' = <<>>
  /\ UNCHANGED read

(* msgrcv of type 0: any message. *)
Server(p) ==
  \/ Receive(p, Processes, "receive", "reply")
  \/ Send(p, "reply", "asleep")
  \/ RemoveQueue(p)

(* msgget without IPC_CREAT. *)
StartClient(p) ==
  /\ \/ key # NoObject /\ Go(p, "start", "send") /\ Get(p)
     \/ key = NoObject /\ Go(p, "start", "failed") /\ UNCHANGED ipcVars
  /\ UNCHANGED <<queue, read>>

(* A seeded fault: msgrcv of type 0, as in msgq1. *)
ClientTakesAny(p) ==
  \/ Send(p, "send", "await")
  \/ Receive(p, Processes, "await", "done")
  \/ \E from \in {"send", "await"} : Fail(p, from)

Client(p) ==
  \/ Send(p, "send", "await")
  \/ Receive(p, Servers, "await", "done")
  \/ \E from \in {"send", "await"} : Fail(p, from)

Next ==
  \/ \E p \in Servers : StartServer(p) \/ Server(p)
  \/ \E p \in Clients : StartClient(p) \/ Client(p)

Spec == Init /\ [][Next]_vars

(* Processes run. *)
Fairness ==
  /\ WF_vars(\E p \in Servers : Server(p))
  /\ \A p \in Clients : WF_vars(Client(p))

----------------------------------------------------------------------------
TypeOK ==
  /\ key \in 0 .. made /\ made \in 0 .. Cardinality(Servers)
  /\ held \in [Processes -> 0 .. made]
  /\ queue \in Seq(Processes) /\ Len(queue) <= Cardinality(Processes)
  /\ at \in [Processes -> {"off", "start", "receive", "reply", "asleep", "send", "await",
                           "done", "failed"}]
  /\ read \in [Processes -> Processes \cup {Nobody}]

(* msgq1 takes a message of any type, its own replies too, but while it    *)
(* takes one there are only requests in the queue.                         *)
ServerTakesRequests ==
  \A s \in Servers :
    /\ at[s] = "receive" => \A n \in DOMAIN queue : queue[n] \in Clients
    /\ at[s] \notin {"off", "start", "done"} => Valid(s)

Waiting == {c \in Clients : at[c] = "await"}

(* Nobody who has got the queue stays in it: removing it wakes up those    *)
(* who got no reply.                                                       *)
NobodyIsLeft == \A c \in Clients : at[c] = "send" ~> Ended(c)

Call(c) ==
  CASE at[c] \in {"off", "start", "send"} -> "idle"
    [] at[c] = "await"  -> "asked"
    [] at[c] = "done"   -> "heard"
    [] at[c] = "failed" -> "gone"

Ready == Cardinality({n \in DOMAIN queue : queue[n] \in Servers})

=============================================================================
