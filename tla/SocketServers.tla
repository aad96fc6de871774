---------------------------- MODULE SocketServers ----------------------------
(***************************************************************************)
(* HW10's servers other than select.c, and their clients: select_t.c has   *)
(* a thread for each of four sockets; tcps.c, sgs.c, udps.c, ucos.c and    *)
(* ucls.c serve one socket each; tcps_mp.c forks a child for each TCP      *)
(* connection and waits for it.  A client sends one request and waits for  *)
(* one reply; it may be killed at any time, and nothing makes one that has *)
(* connected write.  A UDP message may be lost.                            *)
(***************************************************************************)
EXTENDS Naturals, Sequences, FiniteSets

CONSTANTS
  Clients,  \* the clients, each run once
  Nobody

Kinds   == {"tcp", "udp", "uco", "ucl"}
Streams == {"tcp", "uco"}
Unix    == {"uco", "ucl"}

Serves ==
  [select_t |-> Kinds,
   tcps |-> {"tcp"}, tcps_mp |-> {"tcp"}, sgs |-> {"tcp"},
   udps |-> {"udp"}, ucos |-> {"uco"}, ucls |-> {"ucl"}]

VARIABLES
  server,   \* the program that serves
  state,    \* up, stopped, died
  kind,     \* [Clients -> the socket each sends its request to]
  at,       \* [Kinds -> what the server does at the socket]
  conn,     \* [Kinds -> the client being served, or Nobody]
  queue,    \* [Kinds -> connections or datagrams waiting at the socket]
  client,   \* [Clients -> idle, connected, sent, answered, heard, cut, gone]
  lost      \* the clients whose request or reply was lost

choiceVars == <<server, kind>>
serverVars == <<state, at, conn>>
vars == <<choiceVars, serverVars, queue, client, lost>>

InitAs(label) ==
  /\ kind \in [Clients -> Serves[server]]
  /\ state = label
  /\ at = [k \in Kinds |-> "next"] /\ conn = [k \in Kinds |-> Nobody]
  /\ queue = [k \in Kinds |-> <<>>]
  /\ client = [c \in Clients |-> "idle"] /\ lost = {}

Init   == server \in DOMAIN Serves /\ InitAs("up")
NotRun == server = "tcps" /\ InitAs("off")

Up == state = "up"

Go(k, from, to) == Up /\ at[k] = from /\ at' = [at EXCEPT ![k] = to]

(* A seeded fault: the four are served by one process.                     *)
TakeInTurn(k) ==
  /\ \A j \in Kinds : at[j] = "next"
  /\ Go(k, "next", IF k \notin Streams THEN "write"
                   ELSE IF server = "tcps_mp" THEN "fork" ELSE "read")
  /\ queue[k] # <<>>
  /\ conn' = [conn EXCEPT ![k] = Head(queue[k])]
  /\ queue' = [queue EXCEPT ![k] = Tail(@)]
  /\ UNCHANGED <<choiceVars, state, client, lost>>

(* accept or recvfrom: each thread waits at its own socket.                *)
Take(k) ==
  /\ Go(k, "next", IF k \notin Streams THEN "write"
                   ELSE IF server = "tcps_mp" THEN "fork" ELSE "read")
  /\ queue[k] # <<>>
  /\ conn' = [conn EXCEPT ![k] = Head(queue[k])]
  /\ queue' = [queue EXCEPT ![k] = Tail(@)]
  /\ UNCHANGED <<choiceVars, state, client, lost>>

(* A seeded fault: the connection stays open. *)
FinishWithoutClose(k) == k \in Kinds /\ UNCHANGED conn

Finish(k) == conn' = [conn EXCEPT ![k] = Nobody]

Becomes(c, new) == client' = [client EXCEPT ![c] = IF @ = "gone" THEN @ ELSE new]

(* The child serves the connection; if there is none, the parent closes it *)
(* as if it had been served.                                               *)
Fork(k) ==
  /\ UNCHANGED <<choiceVars, state, queue, lost>>
  /\ \/ Go(k, "fork", "read") /\ UNCHANGED <<conn, client>>
     \/ Go(k, "fork", "next") /\ Finish(k) /\ Becomes(conn[k], "cut")

(* read blocks until the client has written or closed.                     *)
ReadRequest(k) ==
  /\ Go(k, "read", "write")
  /\ client[conn[k]] \in {"sent", "gone"}
  /\ UNCHANGED <<choiceVars, state, conn, queue, client, lost>>

(* A write to a Unix-domain peer that has closed raises SIGPIPE, a sendto  *)
(* fails, and with the process all its threads end; over TCP and UDP the   *)
(* reply leaves unhindered.                                                *)
ReplyFails(k) == client[conn[k]] = "gone" /\ k \in Unix

Reply(k) ==
  /\ Go(k, "write", "next")
  /\ Finish(k)
  /\ UNCHANGED <<choiceVars, queue>>
  /\ \/ /\ ReplyFails(k)
        /\ state' = "died"
        /\ UNCHANGED <<client, lost>>
     \/ /\ ~ ReplyFails(k)
        /\ Becomes(conn[k], "answered")
        /\ UNCHANGED <<state, lost>>
     \/ /\ k = "udp"
        /\ lost' = lost \cup {conn[k]}
        /\ UNCHANGED <<state, client>>

ProcessTcpRequest == Take("tcp") \/ ReadRequest("tcp") \/ Reply("tcp")
ProcessUdpRequest == Take("udp") \/ Reply("udp")
ProcessUcoRequest == Take("uco") \/ ReadRequest("uco") \/ Reply("uco")
ProcessUclRequest == Take("ucl") \/ Reply("ucl")

(* The loops of the programs; select_t runs its four at the same time.     *)
select_t ==
  /\ server = "select_t"
  /\ ProcessTcpRequest \/ ProcessUdpRequest \/ ProcessUcoRequest \/ ProcessUclRequest

tcps    == server = "tcps" /\ ProcessTcpRequest
sgs     == server = "sgs" /\ ProcessTcpRequest
tcps_mp == server = "tcps_mp" /\ (ProcessTcpRequest \/ Fork("tcp"))
udps    == server = "udps" /\ ProcessUdpRequest
ucos    == server = "ucos" /\ ProcessUcoRequest
ucls    == server = "ucls" /\ ProcessUclRequest

Server == select_t \/ tcps \/ sgs \/ tcps_mp \/ udps \/ ucos \/ ucls

(* SIGINT, which the children of tcps_mp get as well.                      *)
CloseServer == Up /\ state' = "stopped" /\ UNCHANGED <<choiceVars, at, conn, queue, client, lost>>

Enqueue(c) == queue' = [queue EXCEPT ![kind[c]] = Append(@, c)]

Connect(c) ==
  /\ state # "off" /\ client[c] = "idle" /\ kind[c] \in Streams
  /\ client' = [client EXCEPT ![c] = IF Up THEN "connected" ELSE "cut"]
  /\ IF Up THEN Enqueue(c) ELSE UNCHANGED queue
  /\ UNCHANGED <<choiceVars, serverVars, lost>>

Write(c) ==
  /\ Up /\ client[c] = "connected"
  /\ client' = [client EXCEPT ![c] = "sent"]
  /\ UNCHANGED <<choiceVars, serverVars, queue, lost>>

(* sendto over UDP tells nobody what became of the message; to a Unix-     *)
(* domain socket that is not there it fails.                               *)
SendTo(c) ==
  /\ state # "off" /\ client[c] = "idle" /\ kind[c] \notin Streams
  /\ UNCHANGED <<choiceVars, serverVars>>
  /\ \/ /\ Up
        /\ client' = [client EXCEPT ![c] = "sent"]
        /\ Enqueue(c) /\ UNCHANGED lost
     \/ /\ kind[c] = "udp"
        /\ client' = [client EXCEPT ![c] = "sent"]
        /\ lost' = lost \cup {c} /\ UNCHANGED queue
     \/ /\ ~ Up /\ kind[c] = "ucl"
        /\ client' = [client EXCEPT ![c] = "cut"]
        /\ UNCHANGED <<queue, lost>>

(* read or recvfrom of the reply; a connection ends with the server that   *)
(* has not answered it, a datagram socket does not.                        *)
Hear(c) ==
  /\ \/ client[c] = "answered" /\ client' = [client EXCEPT ![c] = "heard"]
     \/ /\ client[c] \in {"connected", "sent"} /\ kind[c] \in Streams
        /\ ~ Up /\ client' = [client EXCEPT ![c] = "cut"]
  /\ UNCHANGED <<choiceVars, serverVars, queue, lost>>

Killed(c) ==
  /\ client[c] \in {"connected", "sent", "answered"}
  /\ client' = [client EXCEPT ![c] = "gone"]
  /\ UNCHANGED <<choiceVars, serverVars, queue, lost>>

StreamClient(c)   == Connect(c) \/ Write(c) \/ Hear(c)
DatagramClient(c) == SendTo(c) \/ Hear(c)

Next ==
  \/ Server \/ CloseServer
  \/ \E c \in Clients : StreamClient(c) \/ DatagramClient(c) \/ Killed(c)

Spec == Init /\ [][Next]_vars

(* Each thread of the server runs when it can, and a client reads the      *)
(* reply that is there.                                                    *)
Fairness ==
  /\ WF_vars(ProcessTcpRequest \/ Fork("tcp")) /\ WF_vars(ProcessUdpRequest)
  /\ WF_vars(ProcessUcoRequest) /\ WF_vars(ProcessUclRequest)
  /\ \A c \in Clients : WF_vars(Hear(c))

----------------------------------------------------------------------------
TypeOK ==
  /\ server \in DOMAIN Serves /\ kind \in [Clients -> Serves[server]]
  /\ state \in {"off", "up", "stopped", "died"}
  /\ at \in [Kinds -> {"next", "fork", "read", "write"}]
  /\ conn \in [Kinds -> Clients \cup {Nobody}]
  /\ queue \in [Kinds -> Seq(Clients)]
  /\ client \in [Clients -> {"idle", "connected", "sent", "answered", "heard", "cut", "gone"}]
  /\ lost \subseteq Clients

(* Only a client killed while a Unix-domain socket serves it can end the   *)
(* server; whoever has been answered is nowhere in the server any more.    *)
ServedOnce ==
  /\ state = "died" => \E c \in Clients : client[c] = "gone" /\ kind[c] \in Unix
  /\ \A c \in Clients :
       client[c] \in {"answered", "heard"} =>
         \A k \in Kinds : conn[k] # c /\ \A n \in DOMAIN queue[k] : queue[k][n] # c

(* A client that connects and stays silent keeps its own socket's thread   *)
(* waiting, but no other: every request is answered, unless its client is  *)
(* killed or cut off, the message is lost, the server ends, or somebody    *)
(* silent is before it at the same socket.                                 *)
Held(k) == at[k] = "read" /\ client[conn[k]] = "connected"

SilentClientHoldsOnlyItsService ==
  \A c \in Clients :
    client[c] = "sent" ~>
      (client[c] \in {"heard", "cut", "gone"} \/ c \in lost \/ ~ Up \/ Held(kind[c]))

(* A client whose connection is closed without a reply prints its own      *)
(* request as if it were one (tcpc.c:40); here it gives up.                *)
Call(c) ==
  CASE client[c] \in {"idle", "connected"} -> "idle"
    [] client[c] \in {"sent", "answered"} -> "asked"
    [] client[c] = "heard" -> "heard"
    [] client[c] \in {"cut", "gone"} -> "gone"

Ready == Cardinality({c \in Clients : client[c] = "answered"})

=============================================================================
