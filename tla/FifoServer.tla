----------------------------- MODULE FifoServer -----------------------------
(***************************************************************************)
(* HW8/fifos.c and fifoc.c: a server reads requests from the FIFO          *)
(* SERV_FIFO; a client makes a FIFO of its own, sends its name with the    *)
(* request and reads the reply from there.  Any process may be killed; the *)
(* user interrupts the server to end it, and may start it again.  A FIFO   *)
(* file outlives the server that was killed, and the requests in it are    *)
(* there for the next one while some process has the FIFO open.  Two runs  *)
(* of the server do not overlap.                                           *)
(***************************************************************************)
EXTENDS Naturals, Sequences, FiniteSets, Ipc

CONSTANTS
  Clients,  \* the runs of fifoc
  Servers,  \* the runs of fifos
  Nobody

VARIABLES  \* and those of Ipc: the FIFO SERV_FIFO names, the one each has open
  queue,             \* [Fifos -> the clients whose requests are in it]
  msg,               \* [Servers -> the client whose request was read last]
  replied,           \* the clients that have a reply in their own FIFO
  at                 \* [Processes -> the next statement]

Processes == Clients \cup Servers
Fifos     == 1 .. Cardinality(Servers)

ipcVars == <<key, made, held>>
vars == <<ipcVars, queue, msg, replied, at>>

InitAt(label) ==
  /\ IpcInit(Processes)
  /\ queue = [f \in Fifos |-> <<>>]
  /\ msg = [s \in Servers |-> Nobody]
  /\ replied = {}
  /\ at = [p \in Processes |-> label]

Init   == InitAt("start")
NotRun == InitAt("off")

Go(p, from, to) == at[p] = from /\ at' = [at EXCEPT ![p] = to]

Ended(p)   == at[p] \in {"done", "failed", "killed"}
Running(p) == at[p] \notin {"off", "start"} /\ ~ Ended(p)

(* The end of a process closes what it has open, and a FIFO that nobody    *)
(* has open loses what is in it.                                           *)
Exit(p, how) ==
  /\ at' = [at EXCEPT ![p] = how]
  /\ held' = [held EXCEPT ![p] = NoObject]
  /\ queue' = [f \in Fifos |-> IF \E q \in Processes : held'[q] = f THEN queue[f] ELSE <<>>]
  /\ UNCHANGED made

MayStart(p) == at[p] = "start" /\ \A q \in Servers : ~ Running(q)

(* A seeded fault: the server exits when the file is there.                *)
StartServerOnNewFile(p) ==
  /\ MayStart(p)
  /\ IF key = NoObject
       THEN Go(p, "start", "receive") /\ GetOrMake(p)
       ELSE Go(p, "start", "failed") /\ UNCHANGED ipcVars
  /\ UNCHANGED <<queue, msg, replied>>

(* mkfifo and open: a file that is there is as good as a new one.          *)
StartServer(p) ==
  /\ MayStart(p)
  /\ Go(p, "start", "receive")
  /\ GetOrMake(p)
  /\ UNCHANGED <<queue, msg, replied>>

Receive(p) ==
  /\ Go(p, "receive", "open")
  /\ queue[held[p]] # <<>>
  /\ msg' = [msg EXCEPT ![p] = Head(queue[held[p]])]
  /\ queue' = [queue EXCEPT ![held[p]] = Tail(@)]
  /\ UNCHANGED <<ipcVars, replied>>

(* open for writing waits for somebody who has the FIFO open: of a client  *)
(* that was killed, for ever.                                              *)
Open(p) ==
  /\ Go(p, "open", "reply")
  /\ Running(msg[p])
  /\ UNCHANGED <<ipcVars, queue, msg, replied>>

(* write and close; SIGPIPE ends the server when the client is gone.       *)
Reply(p) ==
  /\ at[p] = "reply"
  /\ IF Running(msg[p])
       THEN /\ Go(p, "reply", "receive")
            /\ replied' = replied \cup {msg[p]}
            /\ UNCHANGED <<ipcVars, queue>>
       ELSE Exit(p, "killed") /\ UNCHANGED <<key, replied>>
  /\ UNCHANGED msg

Server(p) == Receive(p) \/ Open(p) \/ Reply(p)

(* SIGINT at any statement, also in one that blocks.                       *)
SigIntHandler(p) ==
  /\ Running(p)
  /\ key' = NoObject
  /\ Exit(p, "done")
  /\ UNCHANGED <<msg, replied>>

(* mkfifo and open of its own FIFO, and open of SERV_FIFO.                 *)
StartClient(p) ==
  /\ \/ key # NoObject /\ Go(p, "start", "send") /\ Get(p)
     \/ key = NoObject /\ Go(p, "start", "failed") /\ UNCHANGED ipcVars
  /\ UNCHANGED <<queue, msg, replied>>

Send(p) ==
  /\ Go(p, "send", "await")
  /\ queue' = [queue EXCEPT ![held[p]] = Append(@, p)]
  /\ UNCHANGED <<ipcVars, msg, replied>>

ReadReply(p) ==
  /\ at[p] = "await" /\ p \in replied
  /\ Exit(p, "done")
  /\ UNCHANGED <<key, msg, replied>>

Client(p) == Send(p) \/ ReadReply(p)

Killed(p) ==
  /\ Running(p)
  /\ Exit(p, "killed")
  /\ UNCHANGED <<key, msg, replied>>

Next ==
  \/ \E p \in Servers : StartServer(p) \/ Server(p) \/ SigIntHandler(p)
  \/ \E p \in Clients : StartClient(p) \/ Client(p)
  \/ \E p \in Processes : Killed(p)

Spec == Init /\ [][Next]_vars

(* Processes run, and the user goes on starting the server.  Nobody has to *)
(* interrupt or kill it.                                                   *)
Fairness ==
  /\ WF_vars(\E p \in Servers : StartServer(p) \/ Server(p))
  /\ \A p \in Clients : WF_vars(Client(p))

----------------------------------------------------------------------------
TypeOK ==
  /\ key \in Fifos \cup {NoObject} /\ made \in 0 .. Cardinality(Servers)
  /\ held \in [Processes -> Fifos \cup {NoObject}]
  /\ queue \in [Fifos -> Seq(Clients)]
  /\ \A f \in Fifos : Len(queue[f]) <= Cardinality(Clients)
  /\ msg \in [Servers -> Clients \cup {Nobody}]
  /\ replied \subseteq Clients
  /\ at \in [Processes -> {"off", "start", "receive", "open", "reply", "send", "await",
                           "done", "failed", "killed"}]

(* A request in the FIFO that is still SERV_FIFO is answered, by this      *)
(* server or by one started after it was killed, unless the server was     *)
(* killed with just this request read, or a client was killed, for whose   *)
(* FIFO the server may wait.                                               *)
Read(c)      == \E s \in Servers : at[s] = "killed" /\ msg[s] = c
Unlinked(c)  == held[c] # key
NoServerLeft == \A s \in Servers : at[s] \in {"done", "killed"}

RequestsSurviveACrash ==
  \A c \in Clients :
    at[c] = "await" ~>
      \/ Ended(c) \/ Unlinked(c) \/ Read(c)
      \/ NoServerLeft \/ \E d \in Clients : at[d] = "killed"

Call(c) ==
  CASE at[c] \in {"off", "start", "send"} -> "idle"
    [] at[c] = "await" -> "asked"
    [] at[c] = "done"  -> "heard"
    [] at[c] \in {"failed", "killed"} -> "gone"

Ready == Cardinality({c \in replied : at[c] = "await"})

=============================================================================
