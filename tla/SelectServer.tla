---------------------------- MODULE SelectServer ----------------------------
(***************************************************************************)
(* HW10/select.c: one process that answers requests on four sockets, TCP,  *)
(* UDP, Unix-domain stream (UCO) and Unix-domain datagram (UCL), and its   *)
(* clients tcpc.c, udpc.c, ucoc.c and uclc.c, which send one request and   *)
(* wait for its reply.  A client may be killed while it waits.             *)
(***************************************************************************)
EXTENDS Naturals, Sequences, FiniteSets

CONSTANTS
  Clients,  \* the clients, each run once
  Nobody,   \* not a client
  Kind      \* [Clients -> Kinds], the socket each sends its request to

Kinds    == {"tcp", "udp", "uco", "ucl"}
Streams  == {"tcp", "uco"}

VARIABLES
  server,   \* select, round, read, stopped, died
  fdvar,    \* the sockets select found readable
  count,    \* the passes left of while (count--)
  conn,     \* the connection being read, or Nobody
  queue,    \* [Kinds -> connections or datagrams waiting at the socket]
  client    \* [Clients -> idle, connected, sent, answered, gone]

serverVars == <<server, fdvar, count, conn>>
vars == <<serverVars, queue, client>>

Up == server \in {"select", "round", "read"}

Init ==
  /\ server = "select" /\ fdvar = {} /\ count = 0 /\ conn = Nobody
  /\ queue = [k \in Kinds |-> <<>>]
  /\ client = [c \in Clients |-> "idle"]

Select ==
  /\ server = "select"
  /\ fdvar' = {k \in Kinds : queue[k] # <<>>}
  /\ fdvar' # {}
  /\ count' = Cardinality(fdvar')
  /\ server' = "round"
  /\ UNCHANGED <<conn, queue, client>>

(* The else-if chain: nothing clears fdvar, so every pass of a round turns *)
(* to the same socket.                                                     *)
First ==
  IF "tcp" \in fdvar THEN "tcp"
  ELSE IF "udp" \in fdvar THEN "udp"
  ELSE IF "uco" \in fdvar THEN "uco" ELSE "ucl"

Dequeue(k) == queue[k] # <<>> /\ queue' = [queue EXCEPT ![k] = Tail(@)]

(* accept, which blocks on an empty queue. *)
Accept ==
  /\ server = "round" /\ First \in Streams
  /\ Dequeue(First)
  /\ conn' = Head(queue[First])
  /\ server' = "read"
  /\ UNCHANGED <<fdvar, count, client>>

Answer(c) == client' = [client EXCEPT ![c] = IF @ = "gone" THEN @ ELSE "answered"]

NextPass ==
  /\ count' = count - 1
  /\ server' = IF count' = 0 THEN "select" ELSE "round"

(* A write to a Unix-domain peer that has closed raises SIGPIPE, a sendto  *)
(* fails; over TCP and UDP the reply of a request leaves unhindered.       *)
ReplyFails(c) == client[c] = "gone" /\ Kind[c] \in {"uco", "ucl"}

Reply(c) ==
  IF ReplyFails(c) THEN server' = "died" /\ UNCHANGED <<count, client>>
                   ELSE NextPass /\ Answer(c)

(* The rest of ProcessTcpRequest and ProcessUcoRequest; read blocks until  *)
(* the client has written or closed.                                       *)
ProcessStream ==
  /\ server = "read"
  /\ client[conn] \in {"sent", "gone"}
  /\ Reply(conn)
  /\ conn' = Nobody
  /\ UNCHANGED <<fdvar, queue>>

(* ProcessUdpRequest and ProcessUclRequest; recvfrom blocks on an empty    *)
(* queue.                                                                  *)
ProcessDatagram ==
  /\ server = "round" /\ First \notin Streams
  /\ Dequeue(First)
  /\ Reply(Head(queue[First]))
  /\ UNCHANGED <<fdvar, conn>>

Server == Select \/ Accept \/ ProcessStream \/ ProcessDatagram

(* SIGINT. *)
CloseServer == Up /\ server' = "stopped" /\ UNCHANGED <<fdvar, count, conn, queue, client>>

Enqueue(c) == queue' = [queue EXCEPT ![Kind[c]] = Append(@, c)]

Connect(c) ==
  /\ Up /\ client[c] = "idle" /\ Kind[c] \in Streams
  /\ client' = [client EXCEPT ![c] = "connected"]
  /\ Enqueue(c)
  /\ UNCHANGED serverVars

Write(c) ==
  /\ Up /\ client[c] = "connected"
  /\ client' = [client EXCEPT ![c] = "sent"]
  /\ UNCHANGED <<serverVars, queue>>

SendTo(c) ==
  /\ Up /\ client[c] = "idle" /\ Kind[c] \notin Streams
  /\ client' = [client EXCEPT ![c] = "sent"]
  /\ Enqueue(c)
  /\ UNCHANGED serverVars

Killed(c) ==
  /\ client[c] \in {"connected", "sent"}
  /\ client' = [client EXCEPT ![c] = "gone"]
  /\ UNCHANGED <<serverVars, queue>>

Next == Server \/ CloseServer \/ \E c \in Clients : Connect(c) \/ Write(c) \/ SendTo(c) \/ Killed(c)

Spec == Init /\ [][Next]_vars

(* The server runs when it can, and a client that has connected writes.    *)
FairSpec == Spec /\ WF_vars(Server) /\ \A c \in Clients : WF_vars(Write(c))

----------------------------------------------------------------------------
(* A client that sends a request is answered, unless it is killed or the   *)
(* server ends: select.c:274-275 handles the UDP request when the UDP      *)
(* socket is set.  But a round that finds two sockets ready turns twice to *)
(* the first, and blocks there.                                            *)
EveryRequestIsAnswered ==
  \A c \in Clients : client[c] = "sent" ~> (client[c] \in {"answered", "gone"} \/ ~ Up)

=============================================================================
