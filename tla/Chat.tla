-------------------------------- MODULE Chat --------------------------------
(***************************************************************************)
(* proj/: the chat server chats.c, one process that serves every client    *)
(* from a select loop, and the clients chatc.c, each with one thread at    *)
(* the keyboard and one that shows what the server sends.                  *)
(*                                                                         *)
(* A user connects once, so the user names its connection.  What users     *)
(* type is numbered: 0 is the ID and k > 0 the user's k-th line.           *)
(*                                                                         *)
(* TCP keeps no boundaries between what is sent: one recv returns the      *)
(* string sent first and, of what follows it, as much as has arrived and   *)
(* fits the buffer.  Both programs read a buffer up to its first NUL, so   *)
(* what follows in it is lost; the tail of a string that was cut counts as *)
(* the string.  Strings fit the buffers of the program that receives them. *)
(***************************************************************************)
EXTENDS Integers, Sequences, FiniteSets, FiniteSetsExt

CONSTANTS
  Users,       \* those who may start chatc, once each
  Nobody,      \* what the fields of Client hold before their first use
  Sockfd,      \* the server's listening socket
  MAX_CLIENT,  \* the slots of Client
  MaxOnline,   \* how many connections the users keep at a time
  Talkers,     \* bound: the users who type more than an ID
  MaxLines     \* bound: the lines each of them types

ASSUME ChatAssumption ==
  /\ Nobody \notin Users /\ Sockfd \notin Users /\ Talkers \subseteq Users
  /\ MAX_CLIENT \in Nat \ {0} /\ MaxOnline \in Nat /\ MaxLines \in Nat

VARIABLES
  server,    \* what the server is doing: select, login, round, stopped, died
  Client,    \* [Slots -> sockfd, inUse, uid]
  fdvar,     \* the sockets select found readable
  count,     \* how many of them are still to be served
  i,         \* the slot the for loop has come to; MAX_CLIENT outside it
  id,        \* the slot given to the user who is logging in
  backlog,   \* connections that wait for accept
  client,    \* [Users -> idle, naming, chatting, gone]
  typed,     \* [Users -> how many lines each has typed]
  link,      \* [Users -> the server's end of the connection]
  toServer,  \* [Users -> strings under way to the server]
  toClient,  \* [Users -> relayed lines under way to the user]
  shown      \* [Users -> the lines on the user's screen]

serverVars == <<server, Client, fdvar, count, i, id>>
userVars   == <<client, typed, shown>>
vars == <<serverVars, userVars, backlog, link, toServer, toClient>>

Slots   == 0 .. MAX_CLIENT - 1
LogOut  == MaxLines + 1
Line(uid, k) == [uid |-> uid, line |-> k]
Lines   == [uid : Users \cup {Nobody}, line : 1 .. LogOut]

Up == server \in {"select", "login", "round"}

(* What may be left in a socket by a recv that has returned its first string. *)
Rests(queue) == {SubSeq(queue, n, Len(queue)) : n \in 2 .. Len(queue) + 1}

(* A socket is readable when there is data, the end of it, or an error.    *)
(* link: fin when the user has closed, broken when it has moreover refused *)
(* a relayed line, reset when it closed with lines unread.                 *)
Readable(u) == toServer[u] # <<>> \/ link[u] # "open"
EndOfFile(u) == toServer[u] = <<>> /\ link[u] \in {"fin", "broken"}
RecvFails(u) == toServer[u] = <<>> /\ link[u] = "reset"

InUse == {j \in Slots : Client[j].inUse}

(* The slots from first on that the for loop still finds set in fdvar.     *)
Set(first) == {j \in InUse : j >= first /\ Client[j].sockfd \in fdvar}

Unused == [j \in Slots |-> [sockfd |-> Nobody, inUse |-> FALSE, uid |-> Nobody]]

Init ==
  /\ server = "select"
  /\ Client = Unused
  /\ fdvar = {} /\ count = 0 /\ i = MAX_CLIENT /\ id = 0
  /\ backlog = <<>>
  /\ client = [u \in Users |-> "idle"]
  /\ typed = [u \in Users |-> 0]
  /\ link = [u \in Users |-> "open"]
  /\ toServer = [u \in Users |-> <<>>]
  /\ toClient = [u \in Users |-> <<>>]
  /\ shown = [u \in Users |-> <<>>]

----------------------------------------------------------------------------
(* The server. *)

Select ==
  /\ server = "select"
  /\ fdvar' = (IF backlog = <<>> THEN {} ELSE {Sockfd})
              \cup {u \in {Client[j].sockfd : j \in InUse} : Readable(u)}
  /\ fdvar' # {}
  /\ count' = Cardinality(fdvar')
  /\ server' = "round"
  /\ i' = IF Sockfd \in fdvar' THEN MAX_CLIENT ELSE 0
  /\ UNCHANGED <<Client, id, backlog, userVars, link, toServer, toClient>>

(* With every slot in use GetID falls off its end; the caller then gets    *)
(* whatever the register held, here any slot.                              *)
GetID == IF InUse = Slots THEN Slots ELSE {Min(Slots \ InUse)}

(* The top of while (count).  accept would block on an empty backlog.      *)
Accept ==
  /\ server = "round"
  /\ Sockfd \in fdvar /\ Set(i) = {}
  /\ backlog # <<>>
  /\ \E j \in GetID :
       /\ Client' = [Client EXCEPT ![j].inUse = TRUE, ![j].sockfd = Head(backlog)]
       /\ id' = j
  /\ backlog' = Tail(backlog)
  /\ server' = "login"
  /\ UNCHANGED <<fdvar, count, i, userVars, link, toServer, toClient>>

(* One readable socket has been served; after the last one the next pass   *)
(* of the outer loop clears fdvar.                                         *)
Served(next) ==
  /\ count' = count - 1
  /\ id' = 0
  /\ IF count' = 0
     THEN server' = "select" /\ i' = MAX_CLIENT /\ fdvar' = {}
     ELSE server' = "round" /\ i' = next /\ UNCHANGED fdvar

(* A seeded fault: the login is not counted. *)
LogInNotCounted ==
  LET u == Client[id].sockfd
  IN /\ server = "login"
     /\ \/ /\ toServer[u] # <<>>
           /\ Client' = [Client EXCEPT ![id].uid = u]
           /\ \E rest \in Rests(toServer[u]) : toServer' = [toServer EXCEPT ![u] = rest]
        \/ EndOfFile(u) /\ UNCHANGED <<Client, toServer>>
     /\ server' = "round" /\ i' = 0
     /\ UNCHANGED <<count, fdvar, id, backlog, userVars, link, toClient>>

(* The blocking recv of the uid, in which all other users wait.  At the    *)
(* end of file the slot keeps the uid of its former user.                  *)
LogIn ==
  LET u == Client[id].sockfd
  IN /\ server = "login"
     /\ \/ /\ toServer[u] # <<>>
           /\ Client' = [Client EXCEPT ![id].uid = u]
           /\ \E rest \in Rests(toServer[u]) : toServer' = [toServer EXCEPT ![u] = rest]
        \/ EndOfFile(u) /\ UNCHANGED <<Client, toServer>>
     /\ Served(0)
     /\ UNCHANGED <<backlog, userVars, link, toClient>>

(* The process ends and its sockets close. *)
Exit(how) ==
  /\ server' = how
  /\ Client' = Unused /\ backlog' = <<>>
  /\ fdvar' = {} /\ count' = 0 /\ i' = MAX_CLIENT /\ id' = 0

(* A seeded fault: the sender is not left out. *)
OthersAndSender(from) == InUse

(* The sockets SendToOtherClients reaches, in the order of the slots: a    *)
(* send to a user who has closed is refused by that user's host, and the   *)
(* next one is an error, by signal or by return value, that ends the       *)
(* server.                                                                 *)
Others(from)  == InUse \ {from}
Failing(from) == {j \in Others(from) : link[Client[j].sockfd] \in {"broken", "reset"}}
Reached(from) ==
  {Client[j].sockfd : j \in {k \in Others(from) : \A f \in Failing(from) : k < f}}

SendToOtherClients(from, msg) ==
  /\ toClient' = [u \in Users |->
                    IF u \in Reached(from) /\ link[u] = "open" THEN Append(toClient[u], msg)
                    ELSE toClient[u]]
  /\ \E refused \in SUBSET {u \in Reached(from) : link[u] = "fin"} :
       link' = [u \in Users |-> IF u \in refused THEN "broken" ELSE link[u]]

(* A seeded fault: the slot of a user who has left stays in use. *)
FreeNothing(j) == UNCHANGED Client

(* Twice, in ProcessClient and in its caller. *)
Free(j) == Client' = [Client EXCEPT ![j].inUse = FALSE]

(* A line that has been read goes to the others, or word that the user has *)
(* left.                                                                   *)
ProcessClient(j) ==
  LET u == Client[j].sockfd
  IN /\ server = "round"
     /\ Set(i) # {} /\ j = Min(Set(i))
     /\ \/ /\ toServer[u] # <<>>
           /\ \E rest \in Rests(toServer[u]) : toServer' = [toServer EXCEPT ![u] = rest]
           /\ SendToOtherClients(j, Line(Client[j].uid, Head(toServer[u])))
           /\ IF Failing(j) = {} THEN Served(j + 1) /\ UNCHANGED <<Client, backlog>>
              ELSE Exit("died")
        \/ /\ EndOfFile(u)
           /\ SendToOtherClients(j, Line(Client[j].uid, LogOut))
           /\ IF Failing(j) = {} THEN Served(j + 1) /\ Free(j) /\ UNCHANGED backlog
              ELSE Exit("died")
           /\ UNCHANGED toServer
     /\ UNCHANGED userVars

(* recv < 0, for the uid or in ProcessClient. *)
RecvError ==
  /\ \/ server = "login" /\ RecvFails(Client[id].sockfd)
     \/ server = "round" /\ Set(i) # {} /\ RecvFails(Client[Min(Set(i))].sockfd)
  /\ Exit("died")
  /\ UNCHANGED <<userVars, link, toServer, toClient>>

(* SIGINT. *)
CloseServer ==
  /\ Up
  /\ Exit("stopped")
  /\ UNCHANGED <<userVars, link, toServer, toClient>>

Server == Select \/ Accept \/ LogIn \/ (\E j \in Slots : ProcessClient(j)) \/ RecvError

----------------------------------------------------------------------------
(* The clients. *)

Online == {u \in Users : client[u] \in {"naming", "chatting"}}

(* The connections the server has not closed yet. *)
Held == {backlog[n] : n \in DOMAIN backlog} \cup {Client[j].sockfd : j \in InUse}

Connect(u) ==
  /\ client[u] = "idle" /\ Up
  /\ Cardinality(Online \cup Held) < MaxOnline
  /\ client' = [client EXCEPT ![u] = "naming"]
  /\ backlog' = Append(backlog, u)
  /\ UNCHANGED <<serverVars, typed, shown, link, toServer, toClient>>

(* KeyboardInput: the ID first, then one line after the other. *)
TypeID(u) ==
  /\ client[u] = "naming" /\ Up
  /\ client' = [client EXCEPT ![u] = "chatting"]
  /\ toServer' = [toServer EXCEPT ![u] = Append(@, 0)]
  /\ UNCHANGED <<serverVars, typed, shown, backlog, link, toClient>>

TypeLine(u) ==
  /\ client[u] = "chatting" /\ Up
  /\ u \in Talkers /\ typed[u] < MaxLines
  /\ typed' = [typed EXCEPT ![u] = @ + 1]
  /\ toServer' = [toServer EXCEPT ![u] = Append(@, typed'[u])]
  /\ UNCHANGED <<serverVars, client, shown, backlog, link, toClient>>

(* ServerInput prints the buffer up to its first NUL. *)
ServerInput(u) ==
  /\ u \in Online
  /\ toClient[u] # <<>>
  /\ shown' = [shown EXCEPT ![u] = Append(@, Head(toClient[u]))]
  /\ \E rest \in Rests(toClient[u]) : toClient' = [toClient EXCEPT ![u] = rest]
  /\ UNCHANGED <<serverVars, client, typed, backlog, link, toServer>>

(* A seeded fault: ServerInput takes the end of file for an empty line. *)
ServerNotMissed(u) == FALSE /\ UNCHANGED vars

(* The end of file, or an error, once the server is gone: exit(1). *)
ServerTerminated(u) ==
  /\ u \in Online /\ ~ Up
  /\ toClient[u] = <<>>
  /\ client' = [client EXCEPT ![u] = "gone"]
  /\ UNCHANGED <<serverVars, typed, shown, backlog, link, toServer, toClient>>

(* SIGINT.  A socket closed with data unread resets the connection. *)
CloseClient(u) ==
  /\ u \in Online
  /\ client' = [client EXCEPT ![u] = "gone"]
  /\ link' = [link EXCEPT ![u] = IF toClient[u] = <<>> THEN "fin" ELSE "reset"]
  /\ toClient' = [toClient EXCEPT ![u] = <<>>]
  /\ UNCHANGED <<serverVars, typed, shown, backlog, toServer>>

KeyboardInput(u) == TypeID(u) \/ TypeLine(u)
ReadServer(u)    == ServerInput(u) \/ ServerTerminated(u)

Next ==
  \/ Server \/ CloseServer
  \/ \E u \in Users : Connect(u) \/ KeyboardInput(u) \/ ReadServer(u) \/ CloseClient(u)

Spec == Init /\ [][Next]_vars

(* The server's process and the threads that read from it run when they    *)
(* can; nothing is assumed of those who type.                              *)
FairSpec == Spec /\ WF_vars(Server) /\ \A u \in Users : WF_vars(ReadServer(u))

(* The same, with users who do type an ID once they are connected.         *)
NamingSpec == FairSpec /\ \A u \in Users : WF_vars(TypeID(u))

----------------------------------------------------------------------------
TypeOK ==
  /\ server \in {"select", "login", "round", "stopped", "died"}
  /\ Client \in [Slots -> [sockfd : Users \cup {Nobody}, inUse : BOOLEAN,
                           uid : Users \cup {Nobody}]]
  /\ fdvar \in SUBSET (Users \cup {Sockfd})
  /\ count \in 0 .. MAX_CLIENT + 1
  /\ i \in 0 .. MAX_CLIENT /\ id \in Slots
  /\ backlog \in Seq(Users)
  /\ client \in [Users -> {"idle", "naming", "chatting", "gone"}]
  /\ typed \in [Users -> 0 .. MaxLines]
  /\ link \in [Users -> {"open", "fin", "broken", "reset"}]
  /\ toServer \in [Users -> Seq(0 .. MaxLines)]
  /\ toClient \in [Users -> Seq(Lines)]
  /\ shown \in [Users -> Seq(Lines)]

(* No connection is in two slots, twice in the backlog, or in both, and    *)
(* the slots suffice for those who hold one.                               *)
SlotsInv ==
  /\ \A j \in InUse : Client[j].sockfd \in Users
  /\ \A j, k \in InUse : Client[j].sockfd = Client[k].sockfd => j = k
  /\ \A m, n \in DOMAIN backlog : backlog[m] = backlog[n] => m = n
  /\ \A j \in InUse, n \in DOMAIN backlog : Client[j].sockfd # backlog[n]
  /\ IsFiniteSet(Online \cup Held) /\ Cardinality(Online \cup Held) <= MaxOnline

(* In a round, count is the number of readable sockets still to be served, *)
(* and the loop has them all ahead: accept and recv do not block on a      *)
(* socket already served, and while (count) does not spin.                 *)
RoundInv ==
  server \in {"round", "login"} =>
    /\ count > 0
    /\ LET waiting == IF server = "round" /\ Sockfd \in fdvar /\ i = MAX_CLIENT
                      THEN Cardinality(Set(0)) + 1
                      ELSE IF server = "login" THEN Cardinality(Set(0)) + 1
                      ELSE Cardinality(Set(i))
       IN count = waiting
    /\ server = "round" /\ Set(i) = {} => Sockfd \in fdvar /\ backlog # <<>>

(* Users connect once, and accept gets none whom select has found readable. *)
ConnectInv ==
  /\ \A u \in Users : u \in Held \cup fdvar => client[u] # "idle"
  /\ \A n \in DOMAIN backlog : backlog[n] \notin fdvar
  /\ server = "login" => id \in InUse /\ Client[id].sockfd \notin fdvar

(* What a user has sent and the server not read comes after what it has    *)
(* read, nothing comes before the ID, and only those who leave close.      *)
SentInv ==
  \A u \in Users :
    /\ client[u] \in {"idle", "naming"} => toServer[u] = <<>> /\ typed[u] = 0
    /\ link[u] # "open" => client[u] = "gone"
    /\ \A n \in DOMAIN toServer[u] :
         /\ toServer[u][n] <= typed[u]
         /\ \A m \in 1 .. n - 1 : toServer[u][m] < toServer[u][n]

(* A slot bears the uid of its user, or is in the login that reads it, or  *)
(* its user has left without a uid and its uid is a former user's.         *)
Departed(v) == v \in Users => client[v] = "gone" /\ v \notin Held

Named(j) ==
  LET u == Client[j].sockfd
  IN Client[j].uid = u /\ client[u] # "naming" /\ \A n \in DOMAIN toServer[u] : toServer[u][n] > 0

NamesInv ==
  \A j \in Slots :
    \/ j \in InUse /\ Named(j)
    \/ /\ Departed(Client[j].uid)
       /\ \/ j \notin InUse
          \/ server = "login" /\ id = j
          \/ client[Client[j].sockfd] = "gone" /\ toServer[Client[j].sockfd] = <<>>

(* The lines a user sees, now or when they arrive: each is older than all  *)
(* that its author has sent and the server not read, or its author's last. *)
Transmitted(u) == shown[u] \o toClient[u]

LinesInv ==
  \A u \in Users : \A n \in DOMAIN Transmitted(u) :
    LET v == Transmitted(u)[n].uid
        k == Transmitted(u)[n].line
    IN /\ v # u
       /\ k = LogOut => Departed(v)
       /\ k # LogOut =>
            /\ v \in Users /\ k <= typed[v]
            /\ \A m \in DOMAIN toServer[v] : k < toServer[v][m]
            /\ \A m \in 1 .. n - 1 : Transmitted(u)[m].uid = v => Transmitted(u)[m].line < k

IInv ==
  TypeOK /\ SlotsInv /\ RoundInv /\ ConnectInv /\ SentInv /\ NamesInv /\ LinesInv

(* What a screen shows is true: another user's line, which that user did   *)
(* type, each at most once and in the order typed, and none after the      *)
(* log-out, which is reported only of a user who has left.  Lines may be   *)
(* missing.                                                                *)
Transcript ==
  \A u \in Users :
    LET lines == Transmitted(u)
    IN \A n \in DOMAIN lines :
         LET v == lines[n].uid
         IN /\ v # u
            /\ lines[n].line # LogOut =>
                 /\ lines[n].line <= typed[v]
                 /\ \A m \in 1 .. n - 1 : lines[m].uid = v => lines[m].line < lines[n].line
            /\ lines[n].line = LogOut /\ v \in Users => client[v] = "gone"

(* What u has sent, its log-out included, is read in the end. *)
IsServed(u) == Readable(u) ~> (~ Readable(u) \/ u \notin Held \/ ~ Up)

(* The header, chats.c:183, says that new connections and requests are     *)
(* handled with select.  The uid is not: under FairSpec a user who         *)
(* connects and types nothing holds up everybody.  Under NamingSpec, where *)
(* nobody does that, all that is sent is read.                             *)
EverybodyIsServed == \A u \in Users : IsServed(u)

(* No client outlives the server. *)
StopsWithServer == (~ Up) ~> (Online = {})

=============================================================================
