--------------------------- MODULE ExchangesProofs ---------------------------
(***************************************************************************)
(* The safety properties of Exchanges, for any number of runs and whatever *)
(* the segments held before.  A part for each of its programs gives the    *)
(* inductive invariant Inv, with Init => Inv and Inv /\ [Next]_vars => Inv' *)
(* and what follows from it; the theorems put them together:               *)
(*                                                                         *)
(*   PipeTurns      TurnInv     Counting, Alternation                      *)
(*   SocketServers  SocketInv   AnsweredOnce                               *)
(*   SipcThreads    ThreadInv   Exclude, Matched                           *)
(*   SipcSem        SemInv      Exclude, Matched                           *)
(*   SipcFlag       FlagsInv    Matched                                    *)
(*   FifoPair       PairInv     Matched                                    *)
(*   MsgQueue       QueueInv    Invariance                                 *)
(*   FifoServer     FifoInv     Invariance                                 *)
(***************************************************************************)
EXTENDS Exchanges, TLAPS, FiniteSetTheorems, SequenceTheorems

(* The child is born by the fork, before which nothing has happened. *)
BirthInv ==
  /\ turnAt["child"] = "unborn" <=> turnAt["parent"] \in {"off", "begin", "fork"}
  /\ turnAt["child"] = "unborn" =>
       turnRound = [p \in Turns!Both |-> 0] /\ turnPfd1 = 0 /\ turnPfd2 = 0
  /\ turnAt["parent"] = "begin" /\ turnProgram = "mipc" => turnArea = 0
  /\ turnAt["parent"] = "fork" /\ Turns!Counts => turnArea = 0

(* A process that is in the body of its loop has a pass to go, one that is *)
(* past it has none.  sync.c has no update in its body.                    *)
LoopInv ==
  \A p \in Turns!Both :
    /\ turnAt[p] \in {"load", "store"} => Turns!Counts
    /\ turnAt[p] \in Turns!Updating \cup {"wait"} => turnRound[p] < Rounds
    /\ turnAt[p] \in {"end", "done"} => turnRound[p] = Rounds

(* How often the counter has been updated, by where the turn is. *)
AreaInv ==
  Turns!Counts /\ turnAt["child"] # "unborn" /\ turnAt["parent"] \notin {"end", "done"} =>
    /\ turnAt["parent"] \in {"loop", "load", "store"} => turnArea = 2 * turnRound["parent"]
    /\ turnAt["parent"] = "tell" \/ turnPfd1 = 1 \/ turnAt["child"] \in {"load", "store"} =>
         turnArea = 2 * turnRound["parent"] + 1
    /\ turnAt["child"] = "tell" \/ turnPfd2 = 1 => turnArea = 2 * turnRound["parent"] + 2

TurnInv ==
  /\ Turns!TypeOK /\ BirthInv /\ LoopInv /\ Turns!OneTurn /\ Turns!Behind
  /\ AreaInv /\ Turns!CountInv /\ CounterMatches

(* The parts of a state of Exchanges, and of its steps, that matter here. *)
LEMMA StartOfTurns == Init => Turns!Init \/ Turns!NotRun
BY DEF Init

LEMMA StepOfTurns == [Next]_vars => Turns!Next \/ UNCHANGED turnVars
BY DEF Next, vars, FlagStep, SemStep, ThreadsStep, TurnsStep, QueueStep, FifoStep,
       PairStep, SocketsStep

LEMMA InitTurns == Init => TurnInv
BY StartOfTurns, ExchangesAssumption
DEF Turns!Init, Turns!NotRun, Turns!InitAt, TurnInv, Turns!TypeOK, BirthInv, LoopInv,
    Turns!OneTurn, Turns!Behind, AreaInv, Turns!CountInv, CounterMatches,
    Turns!CounterMatches, Turns!Both, Turns!Counts, Turns!Updating, Turns!Turn

LEMMA NextTurns == TurnInv /\ [Next]_vars => TurnInv'
<1> SUFFICES ASSUME TurnInv, Turns!Next \/ UNCHANGED turnVars
             PROVE  TurnInv'
  BY StepOfTurns
<1> USE ExchangesAssumption
    DEF TurnInv, Turns!TypeOK, BirthInv, LoopInv, Turns!OneTurn, Turns!Behind, AreaInv,
        Turns!CountInv, CounterMatches, Turns!CounterMatches, Turns!Both, Turns!Counts,
        Turns!Updating, Turns!Turn, Turns!i, Turns!Go
<1>1. CASE Turns!Begin
  BY <1>1 DEF Turns!Begin, Turns!pipeVars, Turns!areaVars
<1>2. CASE Turns!Fork
  BY <1>2 DEF Turns!Fork, Turns!pipeVars, Turns!areaVars
<1>3. CASE Turns!Loop("parent", IF Turns!Counts THEN "load" ELSE "tell")
  BY <1>3 DEF Turns!Loop, Turns!pipeVars, Turns!areaVars
<1>4. CASE Turns!Load("parent")
  BY <1>4 DEF Turns!Load, Turns!pipeVars, Turns!areaVars
<1>5. CASE Turns!Store("parent")
  BY <1>5 DEF Turns!Store, Turns!pipeVars, Turns!areaVars
<1>6. CASE Turns!TELL_CHILD
  BY <1>6 DEF Turns!TELL_CHILD, Turns!pipeVars, Turns!areaVars
<1>7. CASE Turns!WAIT_CHILD
  BY <1>7 DEF Turns!WAIT_CHILD, Turns!AfterPass, Turns!pipeVars, Turns!areaVars
<1>8. CASE Turns!End("parent")
  BY <1>8 DEF Turns!End, Turns!pipeVars, Turns!areaVars
<1>9. CASE Turns!Loop("child", "wait")
  BY <1>9 DEF Turns!Loop, Turns!pipeVars, Turns!areaVars
<1>10. CASE Turns!WAIT_PARENT
  BY <1>10 DEF Turns!WAIT_PARENT, Turns!pipeVars, Turns!areaVars
<1>11. CASE Turns!Load("child")
  BY <1>11 DEF Turns!Load, Turns!pipeVars, Turns!areaVars
<1>12. CASE Turns!Store("child")
  BY <1>12 DEF Turns!Store, Turns!pipeVars, Turns!areaVars
<1>13. CASE Turns!TELL_PARENT
  BY <1>13 DEF Turns!TELL_PARENT, Turns!AfterPass, Turns!pipeVars, Turns!areaVars
<1>14. CASE Turns!End("child")
  BY <1>14 DEF Turns!End, Turns!pipeVars, Turns!areaVars
<1>15. CASE UNCHANGED turnVars
  BY <1>15 DEF turnVars
<1> QED
  BY <1>1, <1>2, <1>3, <1>4, <1>5, <1>6, <1>7, <1>8, <1>9, <1>10, <1>11,
     <1>12, <1>13, <1>14, <1>15 DEF Turns!Next, Turns!Parent, Turns!Child

(* The counter in shared memory is what each process expects               *)
(* (HW8/mipc.c:43,55, mipc_shm.c:58,77), for any number of rounds and any  *)
(* old counter in the segment.                                             *)
THEOREM Counting == Spec => []CounterMatches
<1>1. Init => TurnInv
  BY InitTurns
<1>2. TurnInv /\ [Next]_vars => TurnInv'
  BY NextTurns
<1>3. TurnInv => CounterMatches
  BY DEF TurnInv
<1> QED
  BY <1>1, <1>2, <1>3, PTL DEF Spec

(* The turn is in one place, in all three programs: synclib.c lets one of  *)
(* the two run between a tell and the wait that answers it.                *)
THEOREM Alternation == Spec => [](Turns!OneTurn /\ Turns!Behind)
<1>1. Init => TurnInv
  BY InitTurns
<1>2. TurnInv /\ [Next]_vars => TurnInv'
  BY NextTurns
<1>3. TurnInv => Turns!OneTurn /\ Turns!Behind
  BY DEF TurnInv
<1> QED
  BY <1>1, <1>2, <1>3, PTL DEF Spec

----------------------------------------------------------------------------
(* A client is at one socket, its own, and there in one place: waiting,    *)
(* being served, or not there at all.                                      *)
Waits(k, c) == \E n \in DOMAIN sockQueue[k] : sockQueue[k][n] = c

PlaceInv ==
  /\ \A c \in Clients, k \in Sockets!Kinds :
       /\ sockConn[k] = c => sockKind[c] = k /\ ~ Waits(k, c)
       /\ Waits(k, c) => sockKind[c] = k
       /\ sockClient[c] \in {"idle", "answered", "heard"} =>
            sockConn[k] # c /\ ~ Waits(k, c)
  /\ \A k \in Sockets!Kinds : \A m, n \in DOMAIN sockQueue[k] :
       sockQueue[k][m] = sockQueue[k][n] => m = n

(* Whoever serves has somebody to serve, and only a client that has gone   *)
(* from a Unix-domain socket ends the server.                              *)
ServeInv ==
  /\ \A k \in Sockets!Kinds : sockAt[k] # "next" => sockConn[k] \in Clients
  /\ sockState = "died" => \E c \in Clients : sockClient[c] = "gone" /\ sockKind[c] \in Sockets!Unix

SocketInv == Sockets!TypeOK /\ PlaceInv /\ ServeInv

LEMMA StartOfSockets == Init => Sockets!Init \/ Sockets!NotRun
BY DEF Init

LEMMA StepOfSockets == [Next]_vars => Sockets!Next \/ UNCHANGED sockVars
BY DEF Next, vars, FlagStep, SemStep, ThreadsStep, TurnsStep, QueueStep, FifoStep,
       PairStep, SocketsStep

LEMMA InitSockets == Init => SocketInv
<1> SUFFICES ASSUME Sockets!Init \/ Sockets!NotRun
             PROVE  SocketInv
  BY StartOfSockets
<1> USE ExchangesAssumption
    DEF Sockets!Init, Sockets!NotRun, Sockets!InitAs, Sockets!Kinds
<1>1. Sockets!TypeOK
  <2>1. sockServer \in DOMAIN Sockets!Serves
    BY DEF Sockets!Serves
  <2>2. sockQueue \in [Sockets!Kinds -> Seq(Clients)]
    <3>1. <<>> \in Seq(Clients)
      OBVIOUS
    <3> QED
      BY <3>1
  <2> QED
    BY <2>1, <2>2 DEF Sockets!TypeOK
<1>2. PlaceInv
  BY DEF PlaceInv, Waits
<1>3. ServeInv
  BY DEF ServeInv
<1> QED
  BY <1>1, <1>2, <1>3 DEF SocketInv

LEMMA SocketSteps ==
  ASSUME Sockets!Next \/ UNCHANGED sockVars
  PROVE  \/ \E k \in Sockets!Kinds : \/ Sockets!Take(k) \/ Sockets!Fork(k)
                                     \/ Sockets!ReadRequest(k) \/ Sockets!Reply(k)
         \/ Sockets!CloseServer
         \/ \E c \in Clients : \/ Sockets!Connect(c) \/ Sockets!Write(c) \/ Sockets!SendTo(c)
                               \/ Sockets!Hear(c) \/ Sockets!Killed(c)
         \/ UNCHANGED sockVars
BY DEF Sockets!Next, Sockets!Server, Sockets!select_t, Sockets!tcps, Sockets!sgs,
       Sockets!tcps_mp, Sockets!udps, Sockets!ucos, Sockets!ucls,
       Sockets!ProcessTcpRequest, Sockets!ProcessUdpRequest, Sockets!ProcessUcoRequest,
       Sockets!ProcessUclRequest, Sockets!StreamClient, Sockets!DatagramClient, Sockets!Kinds

LEMMA SocketsType ==
  ASSUME Sockets!TypeOK, ServeInv, Sockets!Next \/ UNCHANGED sockVars
  PROVE  Sockets!TypeOK'
<1> USE DEF Sockets!TypeOK, Sockets!choiceVars, Sockets!serverVars, Sockets!Up, Sockets!Go,
            Sockets!Finish, Sockets!Becomes, Sockets!Enqueue
<1>1. ASSUME NEW k \in Sockets!Kinds, Sockets!Take(k)
      PROVE  Sockets!TypeOK'
  <2>1. Head(sockQueue[k]) \in Clients /\ Tail(sockQueue[k]) \in Seq(Clients)
    BY <1>1 DEF Sockets!Take
  <2> QED
    BY <1>1, <2>1 DEF Sockets!Take
<1>2. ASSUME NEW k \in Sockets!Kinds, Sockets!Fork(k) \/ Sockets!ReadRequest(k) \/ Sockets!Reply(k)
      PROVE  Sockets!TypeOK'
  <2>1. UNCHANGED <<sockServer, sockKind, sockQueue>>
    BY <1>2 DEF Sockets!Fork, Sockets!ReadRequest, Sockets!Reply
  <2>2. sockState' \in {"off", "up", "stopped", "died"}
    BY <1>2 DEF Sockets!Fork, Sockets!ReadRequest, Sockets!Reply
  <2>3. sockAt' \in [Sockets!Kinds -> {"next", "fork", "read", "write"}]
    BY <1>2 DEF Sockets!Fork, Sockets!ReadRequest, Sockets!Reply
  <2>4. sockConn' \in [Sockets!Kinds -> Clients \cup {Nobody}]
    BY <1>2 DEF Sockets!Fork, Sockets!ReadRequest, Sockets!Reply
  <2>5. sockClient' \in [Clients -> {"idle", "connected", "sent", "answered", "heard", "cut", "gone"}]
    BY <1>2 DEF Sockets!Fork, Sockets!ReadRequest, Sockets!Reply
  <2>6. sockLost' \subseteq Clients
    BY <1>2 DEF ServeInv, Sockets!Fork, Sockets!ReadRequest, Sockets!Reply
  <2> QED
    BY <2>1, <2>2, <2>3, <2>4, <2>5, <2>6
<1>3. CASE Sockets!CloseServer
  BY <1>3 DEF Sockets!CloseServer
<1>4. ASSUME NEW c \in Clients, Sockets!Connect(c) \/ Sockets!SendTo(c)
      PROVE  Sockets!TypeOK'
  <2>1. sockKind[c] \in Sockets!Kinds
    BY DEF Sockets!Serves, Sockets!Kinds
  <2>2. Append(sockQueue[sockKind[c]], c) \in Seq(Clients)
    BY <2>1
  <2> QED
    BY <1>4, <2>1, <2>2 DEF Sockets!Connect, Sockets!SendTo
<1>5. ASSUME NEW c \in Clients, Sockets!Write(c) \/ Sockets!Hear(c) \/ Sockets!Killed(c)
      PROVE  Sockets!TypeOK'
  BY <1>5 DEF Sockets!Write, Sockets!Hear, Sockets!Killed
<1>6. CASE UNCHANGED sockVars
  BY <1>6 DEF sockVars
<1> QED
  BY <1>1, <1>2, <1>3, <1>4, <1>5, <1>6, SocketSteps

(* Whoever is gone stays gone, and clients do not change their socket.     *)
LEMMA GoneForGood ==
  ASSUME Sockets!TypeOK, Sockets!Next \/ UNCHANGED sockVars
  PROVE  /\ sockKind' = sockKind
         /\ \A c \in Clients : sockClient[c] = "gone" => sockClient'[c] = "gone"
<1> USE DEF Sockets!TypeOK, Sockets!choiceVars, Sockets!serverVars, Sockets!Becomes
<1>1. ASSUME NEW k \in Sockets!Kinds, \/ Sockets!Take(k) \/ Sockets!Fork(k)
                                      \/ Sockets!ReadRequest(k) \/ Sockets!Reply(k)
      PROVE  /\ sockKind' = sockKind
             /\ \A c \in Clients : sockClient[c] = "gone" => sockClient'[c] = "gone"
  BY <1>1 DEF Sockets!Take, Sockets!Fork, Sockets!ReadRequest, Sockets!Reply
<1>2. ASSUME NEW d \in Clients, \/ Sockets!Connect(d) \/ Sockets!Write(d) \/ Sockets!SendTo(d)
                                \/ Sockets!Hear(d) \/ Sockets!Killed(d)
      PROVE  /\ sockKind' = sockKind
             /\ \A c \in Clients : sockClient[c] = "gone" => sockClient'[c] = "gone"
  BY <1>2 DEF Sockets!Connect, Sockets!Write, Sockets!SendTo, Sockets!Hear, Sockets!Killed
<1> QED
  BY <1>1, <1>2, SocketSteps DEF Sockets!CloseServer, sockVars

LEMMA SocketsServe ==
  ASSUME SocketInv, Sockets!Next \/ UNCHANGED sockVars
  PROVE  ServeInv'
<1> USE DEF SocketInv, Sockets!TypeOK, Sockets!choiceVars, Sockets!serverVars, Sockets!Up,
            Sockets!Go, Sockets!Finish
<1>1. \A k \in Sockets!Kinds : sockAt'[k] # "next" => sockConn'[k] \in Clients
  <2>1. ASSUME NEW k \in Sockets!Kinds, Sockets!Take(k)
        PROVE  \A j \in Sockets!Kinds : sockAt'[j] # "next" => sockConn'[j] \in Clients
    <3>1. Head(sockQueue[k]) \in Clients
      BY <2>1 DEF Sockets!Take
    <3> QED
      BY <2>1, <3>1 DEF Sockets!Take, ServeInv
  <2>2. ASSUME NEW k \in Sockets!Kinds, Sockets!Fork(k) \/ Sockets!ReadRequest(k) \/ Sockets!Reply(k)
        PROVE  \A j \in Sockets!Kinds : sockAt'[j] # "next" => sockConn'[j] \in Clients
    BY <2>2 DEF Sockets!Fork, Sockets!ReadRequest, Sockets!Reply, ServeInv
  <2>3. ASSUME UNCHANGED <<sockAt, sockConn>>
        PROVE  \A j \in Sockets!Kinds : sockAt'[j] # "next" => sockConn'[j] \in Clients
    BY <2>3 DEF ServeInv
  <2> QED
    BY <2>1, <2>2, <2>3, SocketSteps
    DEF Sockets!CloseServer, Sockets!Connect, Sockets!Write, Sockets!SendTo, Sockets!Hear,
        Sockets!Killed, sockVars
<1>2. sockState' = "died" =>
        \E c \in Clients : sockClient'[c] = "gone" /\ sockKind'[c] \in Sockets!Unix
  <2>1. ASSUME NEW k \in Sockets!Kinds, Sockets!Reply(k), Sockets!ReplyFails(k)
        PROVE  \E c \in Clients : sockClient[c] = "gone" /\ sockKind[c] \in Sockets!Unix
    BY <2>1 DEF Sockets!Reply, Sockets!ReplyFails, ServeInv, PlaceInv
  <2>2. \/ sockState' # "died" \/ sockState' = sockState
        \/ \E k \in Sockets!Kinds : Sockets!Reply(k) /\ Sockets!ReplyFails(k)
    BY SocketSteps
    DEF Sockets!Take, Sockets!Fork, Sockets!ReadRequest, Sockets!Reply, Sockets!CloseServer,
        Sockets!Connect, Sockets!Write, Sockets!SendTo, Sockets!Hear, Sockets!Killed, sockVars
  <2> QED
    BY <2>1, <2>2, GoneForGood DEF ServeInv
<1> QED
  BY <1>1, <1>2 DEF ServeInv

(* How the queue of a socket changes when its first is taken, and when     *)
(* somebody comes who is not there.                                        *)
LEMMA QueueOfDistinct ==
  ASSUME NEW S, NEW q \in Seq(S), \A m, n \in DOMAIN q : q[m] = q[n] => m = n
  PROVE  /\ q # <<>> =>
              LET t == Tail(q) IN
                /\ \A m, n \in DOMAIN t : t[m] = t[n] => m = n
                /\ \A n \in DOMAIN t : t[n] # Head(q) /\ \E m \in DOMAIN q : q[m] = t[n]
                /\ Head(q) \in S /\ \E m \in DOMAIN q : q[m] = Head(q)
         /\ \A e \in S : (\A n \in DOMAIN q : q[n] # e) =>
              LET a == Append(q, e) IN
                /\ \A m, n \in DOMAIN a : a[m] = a[n] => m = n
                /\ \A n \in DOMAIN a : a[n] = e \/ \E m \in DOMAIN q : q[m] = a[n]
<1>1. ASSUME q # <<>>
      PROVE  LET t == Tail(q) IN
                /\ \A m, n \in DOMAIN t : t[m] = t[n] => m = n
                /\ \A n \in DOMAIN t : t[n] # Head(q) /\ \E m \in DOMAIN q : q[m] = t[n]
                /\ Head(q) \in S /\ \E m \in DOMAIN q : q[m] = Head(q)
  <2>1. /\ Tail(q) \in Seq(S) /\ Len(Tail(q)) = Len(q) - 1 /\ Len(q) \in Nat /\ Len(q) > 0
        /\ \A n \in 1 .. Len(Tail(q)) : Tail(q)[n] = q[n + 1]
        /\ Head(q) = q[1] /\ DOMAIN q = 1 .. Len(q) /\ DOMAIN Tail(q) = 1 .. Len(Tail(q))
    BY <1>1
  <2> QED
    BY <2>1
<1>2. ASSUME NEW e \in S, \A n \in DOMAIN q : q[n] # e
      PROVE  LET a == Append(q, e) IN
                /\ \A m, n \in DOMAIN a : a[m] = a[n] => m = n
                /\ \A n \in DOMAIN a : a[n] = e \/ \E m \in DOMAIN q : q[m] = a[n]
  <2>1. /\ Append(q, e) \in Seq(S) /\ Len(Append(q, e)) = Len(q) + 1 /\ Len(q) \in Nat
        /\ \A n \in 1 .. Len(q) : Append(q, e)[n] = q[n]
        /\ Append(q, e)[Len(q) + 1] = e
        /\ DOMAIN q = 1 .. Len(q) /\ DOMAIN Append(q, e) = 1 .. Len(q) + 1
    OBVIOUS
  <2> QED
    BY <2>1, <1>2
<1> QED
  BY <1>1, <1>2

LEMMA SocketsPlace ==
  ASSUME SocketInv, Sockets!Next \/ UNCHANGED sockVars
  PROVE  PlaceInv'
<1> USE ExchangesAssumption
    DEF SocketInv, Sockets!TypeOK, Sockets!choiceVars, Sockets!serverVars, Sockets!Up,
        Sockets!Go, Sockets!Finish, Sockets!Becomes
<1>1. ASSUME NEW k \in Sockets!Kinds, Sockets!Take(k)
      PROVE  PlaceInv'
  <2>0. sockQueue[k] \in Seq(Clients) /\ sockQueue[k] # <<>>
    BY <1>1 DEF Sockets!Take
  <2>h. PICK h \in Clients : h = Head(sockQueue[k])
    BY <2>0
  <2>1. /\ sockQueue' = [sockQueue EXCEPT ![k] = Tail(sockQueue[k])]
        /\ sockConn' = [sockConn EXCEPT ![k] = h]
        /\ UNCHANGED <<sockKind, sockClient>>
    BY <1>1, <2>h DEF Sockets!Take
  <2>2. Waits(k, h)
    BY <2>0, <2>h, QueueOfDistinct DEF PlaceInv, Waits
  <2>3. \A j \in Sockets!Kinds, c \in Clients : Waits(j, c)' => Waits(j, c)
    BY <2>0, <2>1, QueueOfDistinct DEF PlaceInv, Waits
  <2>4. ~ Waits(k, h)'
    <3>1. \A n \in DOMAIN Tail(sockQueue[k]) : Tail(sockQueue[k])[n] # h
      BY <2>0, <2>h, QueueOfDistinct DEF PlaceInv
    <3> QED
      BY <2>1, <3>1 DEF Waits
  <2>5. \A j \in Sockets!Kinds : \A m, n \in DOMAIN sockQueue'[j] :
          sockQueue'[j][m] = sockQueue'[j][n] => m = n
    BY <2>0, <2>1, QueueOfDistinct DEF PlaceInv
  <2>6. \A c \in Clients, j \in Sockets!Kinds :
          /\ sockConn'[j] = c => sockKind'[c] = j /\ ~ Waits(j, c)'
          /\ Waits(j, c)' => sockKind'[c] = j
          /\ sockClient'[c] \in {"idle", "answered", "heard"} =>
               sockConn'[j] # c /\ ~ Waits(j, c)'
    <3> TAKE c \in Clients, j \in Sockets!Kinds
    <3>1. CASE j = k /\ c = h
      BY <2>1, <2>2, <2>4, <3>1 DEF PlaceInv
    <3>2. CASE j = k /\ c # h
      BY <2>1, <2>3, <3>2 DEF PlaceInv
    <3>3. CASE j # k
      BY <2>1, <2>3, <3>3 DEF PlaceInv
    <3> QED
      BY <3>1, <3>2, <3>3
  <2> QED
    BY <2>5, <2>6 DEF PlaceInv
<1>2. ASSUME NEW k \in Sockets!Kinds, Sockets!Fork(k) \/ Sockets!ReadRequest(k) \/ Sockets!Reply(k)
      PROVE  PlaceInv'
  <2>1. UNCHANGED <<sockKind, sockQueue>>
    BY <1>2 DEF Sockets!Fork, Sockets!ReadRequest, Sockets!Reply
  <2>2. \A c \in Clients, j \in Sockets!Kinds : Waits(j, c)' <=> Waits(j, c)
    BY <2>1 DEF Waits
  <2>3. \A j \in Sockets!Kinds : sockConn'[j] = sockConn[j] \/ sockConn'[j] = Nobody
    BY <1>2 DEF Sockets!Fork, Sockets!ReadRequest, Sockets!Reply
  <2>4. \A c \in Clients :
          \/ sockClient'[c] = sockClient[c]
          \/ sockClient'[c] \in {"answered", "cut"} /\ sockConn[k] = c /\ sockConn'[k] = Nobody
    BY <1>2 DEF Sockets!Fork, Sockets!ReadRequest, Sockets!Reply
  <2>5. \A c \in Clients, j \in Sockets!Kinds :
          /\ sockConn'[j] = c => sockKind'[c] = j /\ ~ Waits(j, c)'
          /\ Waits(j, c)' => sockKind'[c] = j
          /\ sockClient'[c] \in {"idle", "answered", "heard"} =>
               sockConn'[j] # c /\ ~ Waits(j, c)'
    BY <2>1, <2>2, <2>3, <2>4 DEF PlaceInv
  <2> QED
    BY <2>1, <2>5 DEF PlaceInv
<1>3. ASSUME NEW d \in Clients, Sockets!Connect(d) \/ Sockets!SendTo(d), Sockets!Enqueue(d)
      PROVE  PlaceInv'
  <2>1. /\ sockKind[d] \in Sockets!Kinds /\ sockQueue[sockKind[d]] \in Seq(Clients)
        /\ sockQueue' = [sockQueue EXCEPT ![sockKind[d]] = Append(sockQueue[sockKind[d]], d)]
        /\ UNCHANGED <<sockKind, sockConn>> /\ sockClient[d] = "idle"
    BY <1>3 DEF Sockets!Connect, Sockets!SendTo, Sockets!Enqueue, Sockets!Serves, Sockets!Kinds
  <2>2. /\ sockClient'[d] \notin {"idle", "answered", "heard"}
        /\ \A c \in Clients : c # d => sockClient'[c] = sockClient[c]
    BY <1>3 DEF Sockets!Connect, Sockets!SendTo
  <2>3. \A n \in DOMAIN sockQueue[sockKind[d]] : sockQueue[sockKind[d]][n] # d
    BY <2>1 DEF PlaceInv, Waits
  <2>4. \A c \in Clients, j \in Sockets!Kinds :
          Waits(j, c)' => Waits(j, c) \/ (c = d /\ j = sockKind[d])
    BY <2>1, <2>3, QueueOfDistinct DEF PlaceInv, Waits
  <2>5. \A j \in Sockets!Kinds : \A m, n \in DOMAIN sockQueue'[j] :
          sockQueue'[j][m] = sockQueue'[j][n] => m = n
    BY <2>1, <2>3, QueueOfDistinct DEF PlaceInv
  <2>6. \A c \in Clients, j \in Sockets!Kinds :
          /\ sockConn'[j] = c => sockKind'[c] = j /\ ~ Waits(j, c)'
          /\ Waits(j, c)' => sockKind'[c] = j
          /\ sockClient'[c] \in {"idle", "answered", "heard"} =>
               sockConn'[j] # c /\ ~ Waits(j, c)'
    BY <2>1, <2>2, <2>4 DEF PlaceInv
  <2> QED
    BY <2>5, <2>6 DEF PlaceInv
<1>4. ASSUME UNCHANGED <<sockKind, sockConn, sockQueue>>,
             \A c \in Clients : \/ sockClient'[c] = sockClient[c]
                                \/ sockClient'[c] \in {"connected", "sent", "cut", "gone"}
                                \/ sockClient[c] = "answered" /\ sockClient'[c] = "heard"
      PROVE  PlaceInv'
  <2>1. \A c \in Clients, j \in Sockets!Kinds : Waits(j, c)' <=> Waits(j, c)
    BY <1>4 DEF Waits
  <2> QED
    BY <1>4, <2>1 DEF PlaceInv
<1>5. ASSUME NEW d \in Clients, \/ Sockets!Connect(d) \/ Sockets!SendTo(d) \/ Sockets!Write(d)
                                \/ Sockets!Hear(d) \/ Sockets!Killed(d)
      PROVE  \/ (Sockets!Connect(d) \/ Sockets!SendTo(d)) /\ Sockets!Enqueue(d)
             \/ /\ UNCHANGED <<sockKind, sockConn, sockQueue>>
                /\ \A c \in Clients : \/ sockClient'[c] = sockClient[c]
                                      \/ sockClient'[c] \in {"connected", "sent", "cut", "gone"}
                                      \/ sockClient[c] = "answered" /\ sockClient'[c] = "heard"
  BY <1>5 DEF Sockets!Connect, Sockets!SendTo, Sockets!Write, Sockets!Hear, Sockets!Killed
<1>6. CASE Sockets!CloseServer \/ UNCHANGED sockVars
  BY <1>4, <1>6 DEF Sockets!CloseServer, sockVars
<1> QED
  BY <1>1, <1>2, <1>3, <1>4, <1>5, <1>6, SocketSteps

(* Over sockets, whoever has been answered is in the server no more, for   *)
(* any number of clients, whoever is killed when (HW10/select_t.c:140-396  *)
(* and the servers of one socket).                                         *)
THEOREM AnsweredOnce == Spec => []ServedOnce
<1>1. Init => SocketInv
  BY InitSockets
<1>2. SocketInv /\ [Next]_vars => SocketInv'
  BY StepOfSockets, SocketsType, SocketsPlace, SocketsServe DEF SocketInv
<1>3. SocketInv => ServedOnce
  BY DEF SocketInv, PlaceInv, ServeInv, Waits, ServedOnce, Sockets!ServedOnce
<1> QED
  BY <1>1, <1>2, <1>3, PTL DEF Spec

----------------------------------------------------------------------------
(* sipc_m.c: sipc2 asks, sipc1 answers, sipc2 reads.  Who has got how far  *)
(* says whose turn it is ...                                               *)
Before == {"unborn", "lock", "look", "sleep", "turn", "enter"}
After  == {"signal", "unlock", "leave", "hand", "exit"}
Back   == {"lock2", "look2", "sleep2", "turn2"}

OrderInv ==
  /\ \/ thrDir = 2 /\ thrAt["sipc1"] \in Before /\ thrAt["sipc2"] \in Before \cup {"write", "pass"}
     \/ /\ thrDir = 1 /\ thrAt["sipc1"] \in Before \cup {"read", "write", "pass"}
        /\ thrAt["sipc2"] \in {"signal", "unlock", "leave", "hand"} \cup Back
     \/ /\ thrDir = 2 /\ thrAt["sipc1"] \in After
        /\ thrAt["sipc2"] \in Back \cup {"enter2", "read", "exit"}
  /\ thrAt["sipc1"] \in {"enter", "read", "write", "pass"} => thrAt["sipc2"] \in Back
  /\ thrAt["sipc2"] \in {"enter2", "read", "exit"} => thrAt["sipc1"] = "exit"
  /\ thrAt["sipc1"] = "unborn" => thrAt["sipc2"] = "unborn"

(* ... and who holds the mutex and sleeps,                                 *)
CondInv ==
  thrVariant = "cond" =>
    /\ \A t \in Threads!Threads :
         /\ thrAt[t] \notin {"turn", "enter", "leave", "hand", "turn2", "enter2"}
         /\ thrMutex = t <=> \/ thrAt[t] \in {"look", "read", "write", "pass", "signal", "unlock",
                                              "look2"}
                             \/ t = "sipc2" /\ thrAt[t] = "exit"
    /\ \A t \in thrAsleep : thrAt[t] \in {"sleep", "sleep2"}
    /\ "sipc1" \in thrAsleep => thrDir = 2 \/ thrAt["sipc2"] = "signal"
    /\ "sipc2" \in thrAsleep => thrDir = 1 \/ thrAt["sipc1"] = "signal"
    /\ thrAt["sipc2"] # "sleep"
    /\ \A s \in Threads!Sems : thrValue[s] = 0

(* or what the semaphores are worth.                                       *)
ValueInv ==
  thrVariant = "sem" =>
    /\ \A t \in Threads!Threads :
         thrAt[t] \in {"unborn", "turn", "enter", "read", "write", "pass", "leave", "hand",
                       "turn2", "enter2", "exit"}
    /\ thrMutex = Nobody /\ thrAsleep = {}
    /\ thrValue["sipc1Sem"] = IF thrAt["sipc1"] = "turn" /\ thrAt["sipc2"] = "turn2" THEN 1 ELSE 0
    /\ thrValue["sipc2Sem"] =
         IF \/ thrAt["sipc2"] \in {"unborn", "turn"}
            \/ thrAt["sipc1"] = "exit" /\ thrAt["sipc2"] = "turn2" THEN 1 ELSE 0
    /\ thrValue["MutexSem"] =
         IF \/ \E t \in Threads!Threads : thrAt[t] \in {"read", "write", "pass", "leave"}
            \/ thrAt["sipc2"] = "exit" THEN 0 ELSE 1

(* What is in the buffer and what has been read.                           *)
DataInv ==
  /\ thrAt["sipc2"] \notin Before \cup {"write"} /\ thrAt["sipc1"] \in Before \cup {"read", "write"} =>
       thrBuf = "sipc2"
  /\ thrAt["sipc1"] \in {"pass"} \cup After => thrBuf = "sipc1"
  /\ thrAt["sipc1"] \in {"write", "pass"} \cup After => thrRead["sipc1"] = "sipc2"
  /\ thrAt["sipc2"] = "exit" => thrRead["sipc2"] = "sipc1"

(* main makes the locks, then the threads, and waits for both.             *)
MainInv ==
  /\ thrMain \in {"off", "init"} =>
       /\ thrAt = [t \in Threads!Threads |-> "unborn"] /\ thrMutex = Nobody /\ thrAsleep = {}
       /\ thrValue = [s \in Threads!Sems |-> 0] /\ thrDir = 0
  /\ thrMain = "create" => thrAt["sipc2"] = "unborn"
  /\ thrMain \in {"join", "done"} => thrAt["sipc2"] # "unborn"
  /\ thrMain = "done" => \A t \in Threads!Threads : thrAt[t] = "exit"
  /\ thrMain \notin {"off", "init"} => OrderInv /\ CondInv /\ ValueInv

ThreadInv == Threads!TypeOK /\ MainInv /\ DataInv

LEMMA StartOfThreads == Init => Threads!Init \/ Threads!NotRun
BY DEF Init

LEMMA StepOfThreads == [Next]_vars => Threads!Next \/ UNCHANGED thrVars
BY DEF Next, vars, FlagStep, SemStep, ThreadsStep, TurnsStep, QueueStep, FifoStep,
       PairStep, SocketsStep

LEMMA InitThreads == Init => ThreadInv
BY StartOfThreads, ExchangesAssumption
DEF Threads!Init, Threads!NotRun, Threads!InitAt, ThreadInv, MainInv, DataInv, Before, After,
    Threads!TypeOK, Threads!Threads, Threads!Sems, Threads!Inside

LEMMA ThreadsExclude == ThreadInv => Threads!Exclusion /\ Threads!RepliesMatch
BY ExchangesAssumption
DEF ThreadInv, Threads!TypeOK, MainInv, DataInv, OrderInv, CondInv, ValueInv, Before, After, Back,
    Threads!Exclusion, Threads!RepliesMatch, Threads!Threads, Threads!Inside

LEMMA NextThreads == ThreadInv /\ [Next]_vars => ThreadInv'
<1> SUFFICES ASSUME ThreadInv, Threads!Next \/ UNCHANGED thrVars
             PROVE  ThreadInv'
  BY StepOfThreads
<1> USE ExchangesAssumption
    DEF ThreadInv, Threads!TypeOK, MainInv, DataInv, OrderInv, CondInv, ValueInv, Before,
        After, Back, Threads!Threads, Threads!Sems, Threads!Inside, Threads!Go, Threads!Other,
        Threads!OwnSem, Threads!lockVars, Threads!dataVars
<1>1. CASE Threads!MainInit
  BY <1>1 DEF Threads!MainInit
<1>2. CASE Threads!MainCreate
  BY <1>2 DEF Threads!MainCreate
<1>3. CASE Threads!MainJoin
  BY <1>3 DEF Threads!MainJoin
<1>4. CASE Threads!Lock("sipc1", "lock", "look")
  BY <1>4 DEF Threads!Lock
<1>5. CASE Threads!Look("sipc1", 1, "look", "sleep", "read")
  <2>1. CASE thrDir = 1
    <3>1. /\ thrAt["sipc1"] = "look" /\ thrAt' = [thrAt EXCEPT !["sipc1"] = "read"]
          /\ UNCHANGED <<thrVariant, thrMain, thrDir, thrMutex, thrAsleep, thrValue, thrBuf, thrRead>>
      BY <1>5, <2>1 DEF Threads!Look
    <3>2. Threads!TypeOK' /\ DataInv'
      BY <3>1
    <3>3. (OrderInv /\ CondInv)'
      BY <2>1, <3>1
    <3>4. ValueInv'
      BY <3>1
    <3> QED
      BY <3>1, <3>2, <3>3, <3>4
  <2>2. CASE thrDir # 1
    <3>1. /\ thrAt["sipc1"] = "look" /\ thrAt' = [thrAt EXCEPT !["sipc1"] = "sleep"]
          /\ thrMutex' = Nobody /\ thrAsleep' = thrAsleep \cup {"sipc1"}
          /\ UNCHANGED <<thrVariant, thrMain, thrDir, thrValue, thrBuf, thrRead>>
      BY <1>5, <2>2 DEF Threads!Look
    <3>2. Threads!TypeOK' /\ DataInv'
      BY <3>1
    <3>3. (OrderInv /\ CondInv)'
      BY <2>2, <3>1
    <3>4. ValueInv'
      BY <3>1
    <3> QED
      BY <3>1, <3>2, <3>3, <3>4
  <2> QED
    BY <2>1, <2>2
<1>6. CASE Threads!Wake("sipc1", "sleep", "look")
  BY <1>6 DEF Threads!Wake, Threads!Lock
<1>7. CASE Threads!sem_wait("sipc1", "sipc1Sem", "turn", "enter")
  BY <1>7 DEF Threads!sem_wait
<1>8. CASE Threads!sem_wait("sipc1", "MutexSem", "enter", "read")
  BY <1>8 DEF Threads!sem_wait
<1>9. CASE Threads!Read("sipc1", "read", "write")
  BY <1>9 DEF Threads!Read
<1>10. CASE Threads!Write("sipc1", "write", "pass")
  BY <1>10 DEF Threads!Write
<1>11. CASE Threads!Pass("sipc1", 2, "pass", Threads!ByVariant("signal", "leave"))
  BY <1>11 DEF Threads!Pass, Threads!ByVariant
<1>12. CASE Threads!Signal("sipc1", "signal", "unlock")
  BY <1>12 DEF Threads!Signal
<1>13. CASE Threads!Unlock("sipc1", "unlock", "exit")
  BY <1>13 DEF Threads!Unlock
<1>14. CASE Threads!sem_post("sipc1", "MutexSem", "leave", "hand")
  BY <1>14 DEF Threads!sem_post
<1>15. CASE Threads!sem_post("sipc1", "sipc2Sem", "hand", "exit")
  BY <1>15 DEF Threads!sem_post
<1>16. CASE Threads!Lock("sipc2", "lock", "look")
  BY <1>16 DEF Threads!Lock
<1>17. CASE Threads!Look("sipc2", 2, "look", "sleep", "write")
  <2>1. CASE thrDir = 2
    <3>1. /\ thrAt["sipc2"] = "look" /\ thrAt' = [thrAt EXCEPT !["sipc2"] = "write"]
          /\ UNCHANGED <<thrVariant, thrMain, thrDir, thrMutex, thrAsleep, thrValue, thrBuf, thrRead>>
      BY <1>17, <2>1 DEF Threads!Look
    <3>2. Threads!TypeOK' /\ DataInv'
      BY <3>1
    <3>3. (OrderInv /\ CondInv)'
      BY <2>1, <3>1
    <3>4. ValueInv'
      BY <3>1
    <3> QED
      BY <3>1, <3>2, <3>3, <3>4
  <2>2. CASE thrDir # 2
    <3>1. /\ thrAt["sipc2"] = "look" /\ thrAt' = [thrAt EXCEPT !["sipc2"] = "sleep"]
          /\ thrMutex' = Nobody /\ thrAsleep' = thrAsleep \cup {"sipc2"}
          /\ UNCHANGED <<thrVariant, thrMain, thrDir, thrValue, thrBuf, thrRead>>
      BY <1>17, <2>2 DEF Threads!Look
    <3>2. Threads!TypeOK' /\ DataInv'
      BY <3>1
    <3>3. (OrderInv /\ CondInv)'
      BY <2>2, <3>1
    <3>4. ValueInv'
      BY <3>1
    <3> QED
      BY <3>1, <3>2, <3>3, <3>4
  <2> QED
    BY <2>1, <2>2
<1>18. CASE Threads!Wake("sipc2", "sleep", "look")
  BY <1>18 DEF Threads!Wake, Threads!Lock
<1>19. CASE Threads!sem_wait("sipc2", "sipc2Sem", "turn", "enter")
  BY <1>19 DEF Threads!sem_wait
<1>20. CASE Threads!sem_wait("sipc2", "MutexSem", "enter", "write")
  BY <1>20 DEF Threads!sem_wait
<1>21. CASE Threads!Write("sipc2", "write", "pass")
  BY <1>21 DEF Threads!Write
<1>22. CASE Threads!Pass("sipc2", 1, "pass", Threads!ByVariant("signal", "leave"))
  BY <1>22 DEF Threads!Pass, Threads!ByVariant
<1>23. CASE Threads!Signal("sipc2", "signal", "unlock")
  BY <1>23 DEF Threads!Signal
<1>24. CASE Threads!Unlock("sipc2", "unlock", Threads!ByVariant("lock2", "turn2"))
  BY <1>24 DEF Threads!Unlock, Threads!ByVariant
<1>25. CASE Threads!sem_post("sipc2", "MutexSem", "leave", "hand")
  BY <1>25 DEF Threads!sem_post
<1>26. CASE Threads!sem_post("sipc2", "sipc1Sem", "hand", Threads!ByVariant("lock2", "turn2"))
  BY <1>26 DEF Threads!sem_post, Threads!ByVariant
<1>27. CASE Threads!Lock("sipc2", "lock2", "look2")
  BY <1>27 DEF Threads!Lock
<1>28. CASE Threads!Look("sipc2", 2, "look2", "sleep2", "read")
  <2>1. CASE thrDir = 2
    <3>1. /\ thrAt["sipc2"] = "look2" /\ thrAt' = [thrAt EXCEPT !["sipc2"] = "read"]
          /\ UNCHANGED <<thrVariant, thrMain, thrDir, thrMutex, thrAsleep, thrValue, thrBuf, thrRead>>
      BY <1>28, <2>1 DEF Threads!Look
    <3>2. Threads!TypeOK' /\ DataInv'
      BY <3>1
    <3>3. (OrderInv /\ CondInv)'
      BY <2>1, <3>1
    <3>4. ValueInv'
      BY <3>1
    <3> QED
      BY <3>1, <3>2, <3>3, <3>4
  <2>2. CASE thrDir # 2
    <3>1. /\ thrAt["sipc2"] = "look2" /\ thrAt' = [thrAt EXCEPT !["sipc2"] = "sleep2"]
          /\ thrMutex' = Nobody /\ thrAsleep' = thrAsleep \cup {"sipc2"}
          /\ UNCHANGED <<thrVariant, thrMain, thrDir, thrValue, thrBuf, thrRead>>
      BY <1>28, <2>2 DEF Threads!Look
    <3>2. Threads!TypeOK' /\ DataInv'
      BY <3>1
    <3>3. (OrderInv /\ CondInv)'
      BY <2>2, <3>1
    <3>4. ValueInv'
      BY <3>1
    <3> QED
      BY <3>1, <3>2, <3>3, <3>4
  <2> QED
    BY <2>1, <2>2
<1>29. CASE Threads!Wake("sipc2", "sleep2", "look2")
  BY <1>29 DEF Threads!Wake, Threads!Lock
<1>30. CASE Threads!sem_wait("sipc2", "sipc2Sem", "turn2", "enter2")
  BY <1>30 DEF Threads!sem_wait
<1>31. CASE Threads!sem_wait("sipc2", "MutexSem", "enter2", "read")
  BY <1>31 DEF Threads!sem_wait
<1>32. CASE Threads!Read("sipc2", "read", "exit")
  BY <1>32 DEF Threads!Read
<1>33. CASE \E t \in Threads!Threads : Threads!Spurious(t)
  BY <1>33 DEF Threads!Spurious
<1>34. CASE UNCHANGED thrVars
  BY <1>34 DEF thrVars
<1> QED
  BY <1>1, <1>2, <1>3, <1>4, <1>5, <1>6, <1>7, <1>8, <1>9, <1>10, <1>11, <1>12,
     <1>13, <1>14, <1>15, <1>16, <1>17, <1>18, <1>19, <1>20, <1>21, <1>22, <1>23,
     <1>24, <1>25, <1>26, <1>27, <1>28, <1>29, <1>30, <1>31, <1>32, <1>33, <1>34
  DEF Threads!Next, Threads!Main, Threads!sipc1, Threads!sipc2, Threads!Leave

----------------------------------------------------------------------------
(* The processes that have started, and how many they are after one moved. *)
Started(P, at) == {p \in P : at[p] \notin {"off", "start"}}

LEMMA StartedCount ==
  ASSUME NEW P, IsFiniteSet(P), NEW at
  PROVE  /\ Cardinality(P) \in Nat /\ Cardinality(Started(P, at)) \in Nat
         /\ Cardinality(Started(P, at)) <= Cardinality(P)
BY FS_CardinalityType, FS_Subset DEF Started

LEMMA StartedMoves ==
  ASSUME NEW P, IsFiniteSet(P), NEW at, NEW bt, NEW p \in P,
         \A q \in P \ {p} : bt[q] = at[q], bt[p] \notin {"off", "start"}
  PROVE  Cardinality(Started(P, bt)) =
           Cardinality(Started(P, at)) + (IF at[p] \in {"off", "start"} THEN 1 ELSE 0)
<1>1. Started(P, bt) = Started(P, at) \cup {p}
  BY DEF Started
<1>2. IsFiniteSet(Started(P, at))
  BY FS_Subset DEF Started
<1>3. p \in Started(P, at) <=> at[p] \notin {"off", "start"}
  BY DEF Started
<1>4. Cardinality(Started(P, at)) \in Nat
  BY <1>2, FS_CardinalityType
<1>5. Cardinality(Started(P, at) \cup {p}) =
        IF p \in Started(P, at) THEN Cardinality(Started(P, at)) ELSE Cardinality(Started(P, at)) + 1
  BY <1>2, FS_AddElement
<1> QED
  BY <1>1, <1>3, <1>4, <1>5

(* All the runs of the two programs. *)
Runs == Clients \cup Servers

LEMMA RunsFinite == IsFiniteSet(Runs)
BY ExchangesAssumption, FS_Union DEF Runs

----------------------------------------------------------------------------
(* HW9/sipc1.c and sipc2.c.                                                *)
Common == {"off", "start", "attach", "init2", "init1", "wait", "read", "write", "post", "done",
           "failed", "killed"}
OfClient == {"set2", "set1", "await"}
OfServer == {"asleep", "destroy1", "destroy2"}

(* The segment that has the name, and the one each process has got;        *)
SemFound ==
  /\ semMade \in Nat /\ semKey \in 0 .. semMade
  /\ semMade <= Cardinality(Started(Runs, semAt))
  /\ semHeld \in [Runs -> Nat]
  /\ \A p \in Runs : semHeld[p] <= semMade
  /\ \A p \in Started(Runs, semAt) : semHeld[p] > 0

(* the semaphores and what is to be undone, nothing if one is not there;   *)
SemCount ==
  /\ semValue \in [{"sem1", "sem2"} -> Nat \cup {-1}]
  /\ semAdjust \in [Runs -> [{"sem1", "sem2"} -> Int]]
  /\ \A s \in {"sem1", "sem2"}, p \in Runs : semValue[s] = -1 => semAdjust[p][s] = 0

(* the semaphores each process has got;                                    *)
SemLives ==
  /\ semLife \in [{"sem1", "sem2"} -> Nat] /\ semId \in [Runs -> [{"sem1", "sem2"} -> Nat]]
  /\ \A s \in {"sem1", "sem2"}, p \in Runs : semId[p][s] <= semLife[s]

(* where each process is;                                                  *)
SemPlaces ==
  /\ semAt \in [Runs -> Common \cup OfClient \cup OfServer]
  /\ \A p \in Clients : semAt[p] \notin OfServer
  /\ \A p \in Servers : semAt[p] \notin OfClient

(* and what has been written and read.                                     *)
SemData ==
  /\ semArea \in [1 .. Cardinality(Runs) -> Runs \cup {Nobody}]
  /\ semRead \in [Runs -> Runs \cup {Nobody}]

SemShape ==
  semUser \in {"careful", "any"} /\ SemFound /\ SemCount /\ SemLives /\ SemPlaces /\ SemData

(* A call of the library or an shmat that succeeds, and one that ends its  *)
(* process.                                                                *)
semKept == <<semKey, semMade, semHeld, semLife, semId, semArea, semRead, semUser>>

Does(p, s, semop, from, to) ==
  Sem!Valid(p, s) /\ Sem!Go(p, from, to) /\ semop /\ UNCHANGED semKept

Attached(p) ==
  /\ semHeld[p] = semKey /\ semAt[p] = "attach" /\ semAt' = [semAt EXCEPT ![p] = "init2"]
  /\ UNCHANGED semKept /\ UNCHANGED <<semValue, semAdjust>>

Fails(p) ==
  /\ \/ /\ \E s \in {"sem1", "sem2"} : ~ Sem!Valid(p, s)
        /\ semAt[p] \in {"set2", "set1", "wait", "post", "await"}
     \/ semAt[p] = "attach" /\ semHeld[p] # semKey
  /\ semAt' = [semAt EXCEPT ![p] = "failed"]
  /\ UNCHANGED semKept /\ UNCHANGED <<semValue, semAdjust>>

ClientMove(p) ==
  \/ Sem!Start(p, Clients)
  \/ Attached(p)
  \/ Sem!GetSem(p, "sem2", "init2", "init1")
  \/ Sem!GetSem(p, "sem1", "init1", "set2")
  \/ Does(p, "sem2", Sem!semInitValue("sem2", 1), "set2", "set1")
  \/ Does(p, "sem1", Sem!semInitValue("sem1", 0), "set1", "wait")
  \/ Does(p, "sem2", Sem!semWait(p, "sem2"), "wait", "write")
  \/ Sem!Write(p, "write", "post")
  \/ Does(p, "sem1", Sem!semPost(p, "sem1"), "post", "await")
  \/ Does(p, "sem2", Sem!semWait(p, "sem2"), "await", "read")
  \/ Sem!Read(p, "read", "done")

ServerMove(p) ==
  \/ Sem!Start(p, Servers)
  \/ Attached(p)
  \/ Sem!GetSem(p, "sem2", "init2", "init1")
  \/ Sem!GetSem(p, "sem1", "init1", "wait")
  \/ Does(p, "sem1", Sem!semWait(p, "sem1"), "wait", "read")
  \/ Sem!Read(p, "read", "write")
  \/ Sem!Write(p, "write", "post")
  \/ Does(p, "sem2", Sem!semPost(p, "sem2"), "post", "asleep")
  \/ Sem!RemoveSegment(p)
  \/ Sem!Destroy(p, "sem1", "destroy1", "destroy2")
  \/ Sem!Destroy(p, "sem2", "destroy2", "done")

LEMMA SemSteps ==
  ASSUME Sem!Next \/ UNCHANGED semVars
  PROVE  \/ \E p \in Clients : ClientMove(p)
         \/ \E p \in Servers : ServerMove(p)
         \/ \E p \in Runs : Fails(p) \/ Sem!Killed(p) \/ Sem!UndoOf(p)
         \/ UNCHANGED semVars
<1>1. ASSUME NEW p \in Clients,
             Sem!Start(p, Clients) \/ Sem!Attach(p) \/ Sem!GetSems(p, "set2") \/ Sem!Client(p)
      PROVE  ClientMove(p) \/ Fails(p)
  BY <1>1 DEF ClientMove, Fails, Does, Attached, Sem!Attach, semKept, Sem!Client, Sem!GetSems, Sem!SetValue, Sem!Wait,
              Sem!Post, Sem!Semop, Sem!Go, Sem!ipcVars, Sem!semlibVars, Sem!idVars
<1>2. ASSUME NEW p \in Servers,
             Sem!Start(p, Servers) \/ Sem!Attach(p) \/ Sem!GetSems(p, "wait") \/ Sem!Server(p)
      PROVE  ServerMove(p) \/ Fails(p)
  BY <1>2 DEF ServerMove, Fails, Does, Attached, Sem!Attach, semKept, Sem!Server, Sem!GetSems, Sem!SetValue, Sem!Wait,
              Sem!Post, Sem!Semop, Sem!Go, Sem!ipcVars, Sem!semlibVars, Sem!idVars
<1> QED
  BY <1>1, <1>2 DEF Sem!Next, Runs

LEMMA SemSegments == Sem!Segments = 1 .. Cardinality(Runs)
BY DEF Sem!Segments, Runs, Cardinality, Sem!Cardinality

LEMMA InitSem == (Sem!Init \/ Sem!NotRun) => SemShape
<1> SUFFICES ASSUME Sem!Init \/ Sem!NotRun
             PROVE  SemShape
  OBVIOUS
<1> USE DEF Sem!Init, Sem!NotRun, Sem!InitAt, Sem!IpcInit, Sem!SemlibInit, Sem!NoObject, Sem!NoSem
<1>1. Cardinality(Started(Runs, semAt)) \in Nat
  BY RunsFinite, StartedCount
<1>2. Started(Runs, semAt) = {}
  BY DEF Started, Runs
<1>3. semArea = [s \in 1 .. Cardinality(Runs) |-> Nobody]
  BY SemSegments
<1>4. SemPlaces
  BY DEF SemPlaces, Runs, Common, OfClient, OfServer
<1>5. SemData
  BY <1>3 DEF SemData, Runs
<1>6. SemFound
  BY <1>1, <1>2 DEF SemFound, Runs
<1>7. SemCount /\ SemLives
  BY DEF SemCount, SemLives, Runs
<1> QED
  BY <1>4, <1>5, <1>6, <1>7 DEF SemShape

LEMMA NextSemPlaces ==
  ASSUME SemPlaces, Sem!Next \/ UNCHANGED semVars
  PROVE  SemPlaces'
<1> USE DEF SemPlaces, Runs, Common, OfClient, OfServer, Sem!Go
<1>1. ASSUME NEW p \in Clients, ClientMove(p)
      PROVE  SemPlaces'
  <2>1. \E to \in (Common \cup OfClient) \ {"off", "start"} : semAt' = [semAt EXCEPT ![p] = to]
    BY <1>1 DEF ClientMove, Sem!Start, Sem!GetSem, Does, Attached, Sem!Write, Sem!Read
  <2> QED
    BY <2>1, ExchangesAssumption
<1>2. ASSUME NEW p \in Servers, ServerMove(p)
      PROVE  SemPlaces'
  <2>1. \E to \in (Common \cup OfServer) \ {"off", "start"} : semAt' = [semAt EXCEPT ![p] = to]
    BY <1>2 DEF ServerMove, Sem!Start, Sem!GetSem, Does, Attached, Sem!Write, Sem!Read, Sem!RemoveSegment,
                Sem!Destroy
  <2> QED
    BY <2>1, ExchangesAssumption
<1>3. ASSUME NEW p \in Runs, Fails(p) \/ Sem!Killed(p)
      PROVE  SemPlaces'
  BY <1>3 DEF Fails, Sem!Killed
<1> QED
  BY <1>1, <1>2, <1>3, SemSteps DEF Sem!UndoOf, semVars

LEMMA NextSemFound ==
  ASSUME SemShape, Sem!Next \/ UNCHANGED semVars
  PROVE  SemFound'
<1> USE DEF SemShape, SemFound, SemPlaces
<1>1. ASSUME NEW p \in Runs, UNCHANGED semMade, UNCHANGED semHeld, semKey' \in {semKey, 0},
             \E to : to \notin {"off", "start"} /\ semAt' = [semAt EXCEPT ![p] = to],
             semAt[p] \notin {"off", "start"}
      PROVE  SemFound'
  <2>1. Started(Runs, semAt)' = Started(Runs, semAt)
    BY <1>1 DEF Started
  <2>2. (semMade \in Nat /\ semKey \in 0 .. semMade)'
    BY <1>1
  <2>3. (semMade <= Cardinality(Started(Runs, semAt)))'
    BY <1>1, <2>1
  <2>4. (semHeld \in [Runs -> Nat] /\ \A q \in Runs : semHeld[q] <= semMade)'
    BY <1>1
  <2>5. (\A q \in Started(Runs, semAt) : semHeld[q] > 0)'
    BY <1>1, <2>1
  <2> QED
    BY <2>2, <2>3, <2>4, <2>5
<1>2. ASSUME NEW p \in Runs, NEW role, Sem!Start(p, role)
      PROVE  SemFound'
  <2>1. /\ semAt[p] = "start" /\ semAt' = [semAt EXCEPT ![p] = "attach"]
        /\ semKey' = (IF semKey = 0 THEN semMade + 1 ELSE semKey)
        /\ semMade' = (IF semKey = 0 THEN semMade + 1 ELSE semMade)
        /\ semHeld' = [semHeld EXCEPT ![p] = semKey']
    BY <1>2 DEF Sem!Start, Sem!Go, Sem!GetOrMake, Sem!NoObject
  <2>2. Cardinality(Started(Runs, semAt)') = Cardinality(Started(Runs, semAt)) + 1
    <3>1. semAt'[p] = "attach" /\ \A q \in Runs \ {p} : semAt'[q] = semAt[q]
      BY <2>1
    <3>2. Cardinality(Started(Runs, semAt')) = Cardinality(Started(Runs, semAt)) + 1
      BY <2>1, <3>1, StartedMoves, RunsFinite
    <3>3. Started(Runs, semAt)' = Started(Runs, semAt')
      BY DEF Started
    <3> QED
      BY <3>2, <3>3
  <2>3. Cardinality(Started(Runs, semAt)) \in Nat
    BY StartedCount, RunsFinite
  <2>4. Started(Runs, semAt)' = Started(Runs, semAt) \cup {p}
    BY <2>1 DEF Started
  <2>5. (semMade \in Nat /\ semKey \in 0 .. semMade)' /\ semKey' > 0
    BY <2>1
  <2>6. (semMade <= Cardinality(Started(Runs, semAt)))'
    BY <2>1, <2>2, <2>3
  <2>7. (semHeld \in [Runs -> Nat] /\ \A q \in Runs : semHeld[q] <= semMade)'
    BY <2>1, <2>5
  <2>8. (\A q \in Started(Runs, semAt) : semHeld[q] > 0)'
    BY <2>1, <2>4, <2>5
  <2> QED
    BY <2>5, <2>6, <2>7, <2>8
<1>3. ASSUME UNCHANGED <<semKey, semMade, semHeld, semAt>>
      PROVE  SemFound'
  BY <1>3
<1> USE DEF Runs
<1>4. ASSUME NEW p \in Clients, ClientMove(p), ~ Sem!Start(p, Clients)
      PROVE  SemFound'
  <2>1. /\ \E to : to \notin {"off", "start"} /\ semAt' = [semAt EXCEPT ![p] = to]
        /\ semAt[p] \notin {"off", "start"} /\ UNCHANGED <<semKey, semMade, semHeld>>
    BY <1>4 DEF ClientMove, Sem!GetSem, Does, Attached, Sem!Write, Sem!Read, Sem!Go, semKept, Sem!ipcVars
  <2> QED
    BY <1>1, <2>1
<1>5. ASSUME NEW p \in Servers, ServerMove(p), ~ Sem!Start(p, Servers)
      PROVE  SemFound'
  <2>1. /\ \E to : to \notin {"off", "start"} /\ semAt' = [semAt EXCEPT ![p] = to]
        /\ semAt[p] \notin {"off", "start"} /\ UNCHANGED <<semMade, semHeld>>
        /\ semKey' \in {semKey, 0}
    BY <1>5 DEF ServerMove, Sem!GetSem, Does, Attached, Sem!Write, Sem!Read, Sem!Go, semKept, Sem!ipcVars,
                Sem!RemoveSegment, Sem!Destroy, Sem!Remove, Sem!NoObject
  <2> QED
    BY <1>1, <2>1
<1>6. ASSUME NEW p \in Runs, Fails(p) \/ Sem!Killed(p)
      PROVE  SemFound'
  BY <1>1, <1>6 DEF Fails, semKept, Sem!Killed, Sem!Running, Sem!ipcVars
<1> QED
  BY <1>2, <1>3, <1>4, <1>5, <1>6, SemSteps DEF Sem!UndoOf, Sem!ipcVars, semVars

(* A step does one thing to the semaphores.                                *)
LEMMA SemOps ==
  ASSUME SemShape, Sem!Next \/ UNCHANGED semVars
  PROVE  \/ \E p \in Runs, s \in {"sem1", "sem2"} :
              \/ Sem!semInit({s}) \/ Sem!semDestroy(s) \/ Sem!Undo(p, s)
              \/ semValue[s] >= 0 /\ \/ Sem!semInitValue(s, 0) \/ Sem!semInitValue(s, 1)
                                     \/ Sem!Running(p) /\ (Sem!semWait(p, s) \/ Sem!semPost(p, s))
         \/ UNCHANGED <<semValue, semAdjust>>
<1>1. \A s \in {"sem1", "sem2"} : semValue[s] # -1 => semValue[s] >= 0
  BY DEF SemShape, SemCount
<1>2. ASSUME NEW p \in Clients, ClientMove(p)
      PROVE  \/ \E s \in {"sem1", "sem2"} :
              \/ Sem!semInit({s}) \/ Sem!semDestroy(s) \/ Sem!Undo(p, s)
              \/ semValue[s] >= 0 /\ \/ Sem!semInitValue(s, 0) \/ Sem!semInitValue(s, 1)
                                     \/ Sem!Running(p) /\ (Sem!semWait(p, s) \/ Sem!semPost(p, s))
             \/ UNCHANGED <<semValue, semAdjust>>
  BY <1>1, <1>2 DEF ClientMove, Sem!Start, Sem!GetSem, Does, Attached, Sem!Valid, Sem!NoSem, Sem!Write,
                    Sem!Read, Sem!semlibVars, Sem!Running, Sem!Ended, Sem!Go
<1>3. ASSUME NEW p \in Servers, ServerMove(p)
      PROVE  \/ \E s \in {"sem1", "sem2"} :
              \/ Sem!semInit({s}) \/ Sem!semDestroy(s) \/ Sem!Undo(p, s)
              \/ semValue[s] >= 0 /\ \/ Sem!semInitValue(s, 0) \/ Sem!semInitValue(s, 1)
                                     \/ Sem!Running(p) /\ (Sem!semWait(p, s) \/ Sem!semPost(p, s))
             \/ UNCHANGED <<semValue, semAdjust>>
  BY <1>1, <1>3 DEF ServerMove, Sem!Start, Sem!GetSem, Does, Attached, Sem!Valid, Sem!NoSem, Sem!Write,
                    Sem!Read, Sem!RemoveSegment, Sem!Destroy, Sem!semlibVars, Sem!Running,
                    Sem!Ended, Sem!Go
<1>4. ASSUME NEW p \in Runs, Fails(p) \/ Sem!Killed(p)
      PROVE  UNCHANGED <<semValue, semAdjust>>
  BY <1>4 DEF Fails, Sem!Killed, Sem!semlibVars
<1> QED
  BY <1>2, <1>3, <1>4, SemSteps DEF Runs, Sem!UndoOf, semVars

LEMMA NextSemCount ==
  ASSUME SemShape, Sem!Next \/ UNCHANGED semVars
  PROVE  SemCount'
<1> USE DEF SemShape, SemCount, Sem!Forget, Sem!Add, Sem!NoSem
<1>1. ASSUME NEW s \in {"sem1", "sem2"}, Sem!semInit({s})
      PROVE  SemCount'
  BY <1>1 DEF Sem!semInit
<1>2. ASSUME NEW s \in {"sem1", "sem2"}, Sem!semDestroy(s)
      PROVE  SemCount'
  BY <1>2 DEF Sem!semDestroy, Runs
<1>3. ASSUME NEW s \in {"sem1", "sem2"}, Sem!semInitValue(s, 0) \/ Sem!semInitValue(s, 1)
      PROVE  SemCount'
  BY <1>3 DEF Sem!semInitValue, Runs
<1>4. ASSUME NEW s \in {"sem1", "sem2"}, NEW p \in Runs, semValue[s] >= 0,
             Sem!semWait(p, s) \/ Sem!semPost(p, s)
      PROVE  SemCount'
  BY <1>4 DEF Sem!semWait, Sem!semPost
<1>5. ASSUME NEW s \in {"sem1", "sem2"}, NEW p \in Runs, Sem!Undo(p, s)
      PROVE  SemCount'
  BY <1>5 DEF Sem!Undo
<1>6. ASSUME UNCHANGED <<semValue, semAdjust>>
      PROVE  SemCount'
  BY <1>6
<1> QED
  BY <1>1, <1>2, <1>3, <1>4, <1>5, <1>6, SemOps

LEMMA NextSemLives ==
  ASSUME SemShape, Sem!Next \/ UNCHANGED semVars
  PROVE  SemLives'
<1>1. ASSUME NEW p \in Runs, NEW s \in {"sem1", "sem2"}, NEW from, NEW to,
             Sem!GetSem(p, s, from, to)
      PROVE  SemLives'
  BY <1>1 DEF Sem!GetSem, SemShape, SemLives
<1>2. ASSUME UNCHANGED <<semLife, semId>>
      PROVE  SemLives'
  BY <1>2 DEF SemShape, SemLives
<1>3. ASSUME NEW p \in Clients, ClientMove(p)
      PROVE  SemLives'
  BY <1>1, <1>2, <1>3
  DEF Runs, ClientMove, Sem!Start, Does, Attached, semKept, Sem!Write, Sem!Read, Sem!idVars
<1>4. ASSUME NEW p \in Servers, ServerMove(p)
      PROVE  SemLives'
  BY <1>1, <1>2, <1>4
  DEF Runs, ServerMove, Sem!Start, Does, Attached, semKept, Sem!Write, Sem!Read, Sem!RemoveSegment,
      Sem!Destroy, Sem!idVars
<1> QED
  BY <1>2, <1>3, <1>4, SemSteps DEF Fails, semKept, Sem!Killed, Sem!UndoOf, Sem!idVars, semVars

LEMMA NextSemData ==
  ASSUME SemShape, Sem!Next \/ UNCHANGED semVars
  PROVE  SemData'
<1>1. ASSUME NEW p \in Runs, semAt[p] \notin {"off", "start"}
      PROVE  semHeld[p] \in 1 .. Cardinality(Runs)
  BY <1>1, RunsFinite, StartedCount DEF SemShape, SemFound, Started
<1>2. ASSUME NEW p \in Runs, NEW from, NEW to, from \notin {"off", "start"},
             Sem!Read(p, from, to) \/ Sem!Write(p, from, to)
      PROVE  SemData'
  BY <1>1, <1>2 DEF Sem!Read, Sem!Write, Sem!Go, SemShape, SemData
<1>3. ASSUME UNCHANGED <<semArea, semRead>>
      PROVE  SemData'
  BY <1>3 DEF SemShape, SemData
<1>4. ASSUME NEW p \in Clients, ClientMove(p)
      PROVE  SemData'
  BY <1>2, <1>3, <1>4 DEF Runs, ClientMove, Sem!Start, Sem!GetSem, Does, Attached, semKept
<1>5. ASSUME NEW p \in Servers, ServerMove(p)
      PROVE  SemData'
  BY <1>2, <1>3, <1>5
  DEF Runs, ServerMove, Sem!Start, Sem!GetSem, Does, Attached, semKept, Sem!RemoveSegment, Sem!Destroy
<1> QED
  BY <1>3, <1>4, <1>5, SemSteps DEF Fails, semKept, Sem!Killed, Sem!UndoOf, semVars

LEMMA SemUserStays ==
  ASSUME Sem!Next \/ UNCHANGED semVars
  PROVE  UNCHANGED semUser
BY SemSteps
DEF ClientMove, ServerMove, Sem!Start, Sem!GetSem, Does, Attached, semKept, Sem!Read, Sem!Write,
    Sem!RemoveSegment, Sem!Destroy, Fails, Sem!Killed, Sem!UndoOf, semVars

LEMMA NextSemShape ==
  ASSUME SemShape, Sem!Next \/ UNCHANGED semVars
  PROVE  SemShape'
BY NextSemPlaces, NextSemFound, NextSemCount, NextSemLives, NextSemData, SemUserStays DEF SemShape
----------------------------------------------------------------------------
(* Two runs of the same program do not overlap, and a careful user stops   *)
(* at the first failure.                                                   *)
Present(p) == Sem!Running(p) \/ ~ Sem!Cleared(p)

RunInv ==
  /\ \A p \in Runs : semAt[p] \in {"off", "start"} => ~ Present(p)
  /\ \A p, q \in Clients : Present(p) /\ Present(q) => p = q
  /\ \A p, q \in Servers : Present(p) /\ Present(q) => p = q
  /\ \A p, q \in Clients : semAt[p] = "failed" => ~ Sem!Running(q)
  /\ \A p \in Clients : semAt[p] # "killed"

(* What the end of a process would do to the semaphores; a sipc1 finds     *)
(* neither them nor, between shmget and shmat, the segment removed, as     *)
(* only another sipc1 would have removed them.                             *)
AdjustInv ==
  /\ \A c \in Clients : semAdjust[c]["sem1"] <= 0
  /\ \A s \in Servers :
       /\ semAdjust[s]["sem2"] <= 0 /\ semAdjust[s]["sem1"] \in {0, 1}
       /\ semAdjust[s]["sem1"] = 1 =>
            semAt[s] \in {"read", "write", "post", "asleep", "destroy1", "killed"}

ValidInv ==
  \A s \in Servers :
    /\ semAt[s] \in {"init1", "wait", "read", "write", "post", "asleep", "destroy1", "destroy2"} =>
         Sem!Valid(s, "sem2")
    /\ semAt[s] \in {"wait", "read", "write", "post", "asleep", "destroy1"} => Sem!Valid(s, "sem1")
    /\ semAt[s] = "attach" => semHeld[s] = semKey
    /\ semAt[s] # "failed"

(* The turn is with a sipc1 that has taken it, or that was killed with it  *)
(* and whose wait is not yet undone, ...                                   *)
Holds(s) ==
  semAt[s] \in {"read", "write", "post"} \/ (semAt[s] = "killed" /\ semAdjust[s]["sem1"] > 0)

Quiet == semValue["sem1"] <= 0 /\ \A s \in Servers : ~ Holds(s)

(* ... or in sem1, and only while a sipc2 waits for its reply or failed to *)
(* get one.                                                                *)
TokenInv ==
  /\ semValue["sem1"] <= 1
  /\ \A s \in Servers : Holds(s) => semValue["sem1"] <= 0 /\ \A t \in Servers : Holds(t) => t = s
  /\ (\A c \in Clients : semAt[c] \notin {"await", "failed"}) => Quiet

(* What sem2 is worth to the sipc2 that set it.                            *)
ReplyOf(c) ==
  /\ semAt[c] \in {"set1", "wait"} => semValue["sem2"] <= 1
  /\ semAt[c] \in {"write", "post"} => semValue["sem2"] <= 0
  /\ semAt[c] = "await" /\ semValue["sem2"] > 0 => Quiet

ReplyInv == \A c \in Clients : Sem!Valid(c, "sem2") => ReplyOf(c)

CareInv == RunInv /\ AdjustInv /\ ValidInv /\ TokenInv /\ ReplyInv

(* The segment a process got has the name until it is removed.             *)
Serving  == {"attach", "init2", "init1", "wait", "read", "write", "post", "asleep"}
Removing == {"destroy1", "destroy2", "done"}
Replied  == Removing \cup {"asleep"}

SegmentInv ==
  /\ \A s \in Servers : /\ semAt[s] \in Serving => semHeld[s] = semKey
                        /\ semAt[s] \in Removing => semHeld[s] # semKey
  /\ \A c \in Clients : semAt[c] \notin {"off", "start"} =>
       \/ semHeld[c] = semKey
       \/ \E s \in Servers : semHeld[s] = semHeld[c] /\ semAt[s] \in Removing

(* The segment of c is one whose sipc1 has replied to another.             *)
Old(c) ==
  \E s \in Servers : semHeld[s] = semHeld[c] /\ semAt[s] \in Replied /\ semRead[s] # c

(* A request is there and read by nobody until it is posted, ...           *)
RequestInv ==
  \A c \in Clients :
    /\ semAt[c] \notin {"post", "await", "read", "done", "failed"} =>
         \A n \in DOMAIN semArea : semArea[n] # c
    /\ semAt[c] \notin {"await", "read", "done", "failed"} => \A s \in Servers : semRead[s] # c
    /\ semAt[c] = "post" => semArea[semHeld[c]] = c

(* ... then it is what the sipc1 with the turn reads and answers, ...      *)
AnswerInv ==
  \A c \in Clients : semAt[c] = "await" /\ ~ Quiet =>
    /\ \A s \in Servers : semAt[s] \in Replied => semRead[s] # c
    /\ \/ Old(c)
       \/ /\ (\A s \in Servers : semAt[s] # "post") => semArea[semHeld[c]] = c
          /\ \A s \in Servers : semAt[s] = "write" => semRead[s] = c
          /\ \A s \in Servers : semAt[s] = "post" => semArea[semHeld[c]] = s /\ semRead[s] = c

(* ... and what is there when sem2 has been posted is the answer.          *)
Answers(s, c) == s \in Servers /\ semRead[s] = c /\ semAt[s] \in Replied

HeardInv ==
  \A c \in Clients :
    /\ \/ semAt[c] = "read"
       \/ semAt[c] = "await" /\ Sem!Valid(c, "sem2") /\ semValue["sem2"] > 0
       => Answers(semArea[semHeld[c]], c) \/ Sem!Late(c)
    /\ semAt[c] = "done" => Answers(semRead[c], c) \/ Sem!Late(c)

SemReplyInv == SegmentInv /\ RequestInv /\ AnswerInv /\ HeardInv

SemInv == SemShape /\ (semUser = "careful" => CareInv /\ SemReplyInv)

(* One process moves, unless it is the kernel that undoes something, and   *)
(* the one that moves is running or starts.                                *)
StartsSem(p) ==
  \/ p \in Clients /\ Sem!Start(p, Clients)
  \/ p \in Servers /\ Sem!Start(p, Servers)

LEMMA SemMoves ==
  ASSUME SemShape, Sem!Next \/ UNCHANGED semVars
  PROVE  \/ UNCHANGED semAt
         \/ \E p \in Runs, to \in (Common \cup OfClient \cup OfServer) \ {"off", "start"} :
              /\ semAt' = [semAt EXCEPT ![p] = to]
              /\ Sem!Running(p) \/ (StartsSem(p) /\ to = "attach")
<1> USE DEF Runs, Common, OfClient, OfServer, StartsSem, Sem!Go, Sem!Running, Sem!Ended
<1>1. ASSUME NEW p \in Clients, ClientMove(p)
      PROVE  \E to \in (Common \cup OfClient \cup OfServer) \ {"off", "start"} :
               /\ semAt' = [semAt EXCEPT ![p] = to]
               /\ Sem!Running(p) \/ (StartsSem(p) /\ to = "attach")
  <2>1. CASE Sem!Start(p, Clients)
    <3>1. semAt' = [semAt EXCEPT ![p] = "attach"] /\ StartsSem(p)
      BY <2>1 DEF Sem!Start
    <3>2. "attach" \in (Common \cup OfClient \cup OfServer) \ {"off", "start"}
      OBVIOUS
    <3> QED
      BY <3>1, <3>2
  <2>2. CASE ~ Sem!Start(p, Clients)
    <3>1. Sem!Running(p)
      BY <1>1, <2>2 DEF ClientMove, Sem!GetSem, Does, Attached, Sem!Write, Sem!Read
    <3>2. \E to \in (Common \cup OfClient \cup OfServer) \ {"off", "start"} :
            semAt' = [semAt EXCEPT ![p] = to]
      BY <1>1, <2>2 DEF ClientMove, Sem!GetSem, Does, Attached, Sem!Write, Sem!Read
    <3> QED
      BY <3>1, <3>2
  <2> QED
    BY <2>1, <2>2
<1>2. ASSUME NEW p \in Servers, ServerMove(p)
      PROVE  \E to \in (Common \cup OfClient \cup OfServer) \ {"off", "start"} :
               /\ semAt' = [semAt EXCEPT ![p] = to]
               /\ Sem!Running(p) \/ (StartsSem(p) /\ to = "attach")
  <2>1. CASE Sem!Start(p, Servers)
    <3>1. semAt' = [semAt EXCEPT ![p] = "attach"] /\ StartsSem(p)
      BY <2>1 DEF Sem!Start
    <3>2. "attach" \in (Common \cup OfClient \cup OfServer) \ {"off", "start"}
      OBVIOUS
    <3> QED
      BY <3>1, <3>2
  <2>2. CASE ~ Sem!Start(p, Servers)
    <3>1. Sem!Running(p)
      BY <1>2, <2>2 DEF ServerMove, Sem!GetSem, Does, Attached, Sem!Write, Sem!Read, Sem!RemoveSegment,
                        Sem!Destroy
    <3>2. \E to \in (Common \cup OfClient \cup OfServer) \ {"off", "start"} :
            semAt' = [semAt EXCEPT ![p] = to]
      BY <1>2, <2>2 DEF ServerMove, Sem!GetSem, Does, Attached, Sem!Write, Sem!Read, Sem!RemoveSegment,
                        Sem!Destroy
    <3> QED
      BY <3>1, <3>2
  <2> QED
    BY <2>1, <2>2
<1> QED
  BY <1>1, <1>2, SemSteps DEF Fails, Sem!Killed, Sem!UndoOf, semVars

LEMMA SemPresence ==
  ASSUME SemShape, Sem!Next \/ UNCHANGED semVars, NEW q \in Runs
  PROVE  /\ Sem!Running(q)' => Sem!Running(q) \/ StartsSem(q)
         /\ Present(q)' => Present(q) \/ StartsSem(q)
<1>1. Sem!Running(q)' => Sem!Running(q) \/ StartsSem(q)
  BY SemMoves DEF Sem!Running, Sem!Ended, SemShape, SemPlaces
<1>2. Sem!Cleared(q) /\ ~ Sem!Running(q) => Sem!Cleared(q)'
  <2> SUFFICES ASSUME Sem!Cleared(q), ~ Sem!Running(q)
               PROVE  Sem!Cleared(q)'
    OBVIOUS
  <2> USE DEF SemShape, SemCount, Sem!Cleared
  <2>1. ASSUME NEW p \in Runs, NEW s \in {"sem1", "sem2"},
               Sem!semInit({s}) \/ Sem!semDestroy(s) \/ Sem!Undo(p, s)
        PROVE  Sem!Cleared(q)'
    BY <2>1 DEF Sem!semInit, Sem!semDestroy, Sem!Undo, Sem!Forget, Runs
  <2>2. ASSUME NEW s \in {"sem1", "sem2"}, Sem!semInitValue(s, 0) \/ Sem!semInitValue(s, 1)
        PROVE  Sem!Cleared(q)'
    BY <2>2 DEF Sem!semInitValue, Sem!Forget, Runs
  <2>3. ASSUME NEW p \in Runs, NEW s \in {"sem1", "sem2"}, Sem!Running(p),
               Sem!semWait(p, s) \/ Sem!semPost(p, s)
        PROVE  Sem!Cleared(q)'
    BY <2>3 DEF Sem!semWait, Sem!semPost, Sem!Add
  <2> QED
    BY <2>1, <2>2, <2>3, SemOps
<1> QED
  BY <1>1, <1>2 DEF Present

LEMMA NextRunInv ==
  ASSUME SemShape, semUser = "careful", RunInv, Sem!Next \/ UNCHANGED semVars
  PROVE  RunInv'
<1>1. \A p \in Runs : semAt'[p] \in {"off", "start"} => ~ Present(p)'
  <2> SUFFICES ASSUME NEW p \in Runs, semAt'[p] \in {"off", "start"}
               PROVE  ~ Present(p)'
    OBVIOUS
  <2>1. semAt'[p] = semAt[p]
    BY SemMoves DEF SemShape, SemPlaces
  <2>2. ~ StartsSem(p)
    BY DEF StartsSem, Sem!Start, Sem!Go, SemShape, SemPlaces
  <2> QED
    BY <2>1, <2>2, SemPresence DEF RunInv
<1>2. ASSUME NEW p \in Runs, NEW q \in Runs, StartsSem(p), p # q,
             {p, q} \subseteq Clients \/ {p, q} \subseteq Servers
      PROVE  ~ Present(q) /\ semAt[q] # "failed" /\ ~ StartsSem(q)
  <2>1. ~ Present(q) /\ semAt[q] # "failed"
    BY <1>2, ExchangesAssumption
    DEF StartsSem, Sem!Start, Sem!Ended, Sem!Running, Present, RunInv
  <2>2. semAt' = [semAt EXCEPT ![p] = "attach"]
    BY <1>2 DEF StartsSem, Sem!Start, Sem!Go
  <2>3. ASSUME StartsSem(q)
        PROVE  semAt[q] = "start" /\ semAt'[q] = "attach"
    BY <2>3 DEF StartsSem, Sem!Start, Sem!Go, SemShape, SemPlaces
  <2> QED
    BY <1>2, <2>1, <2>2, <2>3 DEF SemShape, SemPlaces
<1>3. \A p, q \in Clients : Present(p)' /\ Present(q)' => p = q
  BY <1>2, SemPresence DEF RunInv, Runs
<1>4. \A p, q \in Servers : Present(p)' /\ Present(q)' => p = q
  BY <1>2, SemPresence DEF RunInv, Runs
<1>5. \A p, q \in Clients : semAt'[p] = "failed" => ~ Sem!Running(q)'
  <2> SUFFICES ASSUME NEW p \in Clients, NEW q \in Clients, semAt'[p] = "failed", Sem!Running(q)'
               PROVE  FALSE
    OBVIOUS
  <2>1. p # q
    BY DEF Sem!Running, Sem!Ended
  <2>2. Sem!Running(q) \/ StartsSem(q)
    BY SemPresence DEF Runs
  <2>3. semAt[p] # "failed"
    BY <1>2, <2>1, <2>2 DEF RunInv, Runs
  <2>4. Sem!Running(p) /\ semAt'[q] = semAt[q]
    BY <2>1, <2>3, SemMoves DEF SemShape, SemPlaces, Runs
  <2>5. Sem!Running(q)
    BY <2>4 DEF Sem!Running, Sem!Ended
  <2> QED
    BY <2>1, <2>4, <2>5 DEF RunInv, Present
<1>6. \A p \in Clients : semAt'[p] # "killed"
  <2>1. ASSUME NEW p \in Clients, ClientMove(p)
        PROVE  \A c \in Clients : semAt'[c] # "killed"
    <3>1. \E to : to # "killed" /\ semAt' = [semAt EXCEPT ![p] = to]
      BY <2>1 DEF ClientMove, Sem!Start, Sem!GetSem, Does, Attached, Sem!Write, Sem!Read, Sem!Go
    <3> QED
      BY <3>1 DEF RunInv, SemShape, SemPlaces, Runs
  <2>2. ASSUME NEW p \in Servers, ServerMove(p)
        PROVE  \A c \in Clients : semAt'[c] = semAt[c]
    BY <2>2, ExchangesAssumption
    DEF ServerMove, Sem!Start, Sem!GetSem, Does, Attached, Sem!Write, Sem!Read, Sem!RemoveSegment,
        Sem!Destroy, Sem!Go, SemShape, SemPlaces, Runs
  <2>3. ASSUME NEW p \in Runs, Fails(p) \/ Sem!Killed(p)
        PROVE  \A c \in Clients : semAt'[c] # "killed"
    BY <2>3, ExchangesAssumption DEF Fails, Sem!Killed, RunInv, SemShape, SemPlaces, Runs
  <2> QED
    BY <2>1, <2>2, <2>3, SemSteps DEF Sem!UndoOf, semVars, RunInv
<1> QED
  BY <1>1, <1>3, <1>4, <1>5, <1>6 DEF RunInv

(* What a step of one program leaves alone.                                *)
LEMMA SemOthers ==
  ASSUME SemShape
  PROVE  /\ \A p \in Clients : ClientMove(p) => \A q \in Runs : q # p => semAt'[q] = semAt[q]
         /\ \A p \in Servers : ServerMove(p) => \A q \in Runs : q # p => semAt'[q] = semAt[q]
         /\ \A p \in Runs : Fails(p) \/ Sem!Killed(p) => \A q \in Runs : q # p => semAt'[q] = semAt[q]
<1>1. ASSUME NEW p \in Clients, ClientMove(p)
      PROVE  \A q \in Runs : q # p => semAt'[q] = semAt[q]
  <2>1. \E to : semAt' = [semAt EXCEPT ![p] = to]
    BY <1>1 DEF ClientMove, Sem!Start, Sem!GetSem, Does, Attached, Sem!Write, Sem!Read, Sem!Go
  <2> QED
    BY <2>1 DEF SemShape, SemPlaces
<1>2. ASSUME NEW p \in Servers, ServerMove(p)
      PROVE  \A q \in Runs : q # p => semAt'[q] = semAt[q]
  <2>1. \E to : semAt' = [semAt EXCEPT ![p] = to]
    BY <1>2 DEF ServerMove, Sem!Start, Sem!GetSem, Does, Attached, Sem!Write, Sem!Read, Sem!RemoveSegment,
                Sem!Destroy, Sem!Go
  <2> QED
    BY <2>1 DEF SemShape, SemPlaces
<1>3. ASSUME NEW p \in Runs, Fails(p) \/ Sem!Killed(p)
      PROVE  \A q \in Runs : q # p => semAt'[q] = semAt[q]
  BY <1>3 DEF Fails, Sem!Killed, SemShape, SemPlaces
<1> QED
  BY <1>1, <1>2, <1>3

LEMMA NextAdjustInv ==
  ASSUME SemShape, semUser = "careful", RunInv, AdjustInv, ValidInv, Sem!Next \/ UNCHANGED semVars
  PROVE  AdjustInv'
<1> USE ExchangesAssumption DEF Runs
<1>a. \A p \in Runs, s \in {"sem1", "sem2"} : semAdjust[p][s] \in Int
  BY DEF SemShape, SemCount
<1>1. ASSUME NEW p \in Clients, ClientMove(p)
      PROVE  AdjustInv'
  <2>1. \A s \in Servers : semAt'[s] = semAt[s]
    BY <1>1, SemOthers
  <2>2. \/ UNCHANGED semAdjust
        \/ \E s \in {"sem1", "sem2"} : Sem!Forget(s)
        \/ semAdjust' = [semAdjust EXCEPT ![p]["sem1"] = @ - 1]
        \/ semAdjust' = [semAdjust EXCEPT ![p]["sem2"] = @ - (-1)]
    BY <1>1 DEF ClientMove, Sem!Start, Sem!GetSem, Does, Attached, Sem!Write, Sem!Read, Sem!semlibVars,
                Sem!semInit, Sem!semInitValue, Sem!semWait, Sem!semPost, Sem!Add
  <2>3. CASE \E s \in {"sem1", "sem2"} : Sem!Forget(s)
    BY <2>1, <2>3 DEF AdjustInv, Sem!Forget, SemShape, SemCount
  <2>4. CASE semAdjust' = [semAdjust EXCEPT ![p]["sem1"] = @ - 1]
    BY <1>a, <2>1, <2>4 DEF AdjustInv, SemShape, SemCount
  <2>5. CASE semAdjust' = [semAdjust EXCEPT ![p]["sem2"] = @ - (-1)]
    BY <1>a, <2>1, <2>5 DEF AdjustInv, SemShape, SemCount
  <2> QED
    BY <2>1, <2>2, <2>3, <2>4, <2>5 DEF AdjustInv
<1>2. ASSUME NEW p \in Servers, ServerMove(p)
      PROVE  AdjustInv'
  <2>1. \A s \in Servers : s # p => semAt'[s] = semAt[s]
    BY <1>2, SemOthers
  <2>2. \/ UNCHANGED semAdjust /\ semAt[p] \notin {"destroy1", "wait"}
        \/ Sem!Forget("sem1") /\ semAt[p] = "destroy1"
        \/ Sem!Forget("sem2") /\ semAt[p] = "destroy2"
        \/ /\ semAdjust' = [semAdjust EXCEPT ![p]["sem1"] = @ - (-1)]
           /\ semAt[p] = "wait" /\ semAt'[p] = "read"
        \/ semAdjust' = [semAdjust EXCEPT ![p]["sem2"] = @ - 1] /\ semAt[p] = "post"
    BY <1>2 DEF ServerMove, Sem!Start, Sem!GetSem, Does, Attached, Sem!Write, Sem!Read, Sem!semlibVars,
                Sem!semInit, Sem!semWait, Sem!semPost, Sem!Add, Sem!RemoveSegment, Sem!Destroy,
                Sem!semDestroy, Sem!Go, SemShape, SemPlaces
  <2>3. semAt[p] \in {"read", "write", "post", "asleep"} =>
          semAt'[p] \in {"read", "write", "post", "asleep", "destroy1"}
    BY <1>2 DEF ServerMove, Sem!Start, Sem!GetSem, Does, Attached, Sem!Write, Sem!Read,
                Sem!RemoveSegment, Sem!Destroy, Sem!Go, SemShape, SemPlaces
  <2>4. semAt[p] # "killed"
    BY <1>2 DEF ServerMove, Sem!Start, Sem!GetSem, Does, Attached, Sem!Write, Sem!Read,
                Sem!RemoveSegment, Sem!Destroy, Sem!Go
  <2>5. CASE Sem!Forget("sem1") /\ semAt[p] = "destroy1"
    BY <2>1, <2>5 DEF AdjustInv, Sem!Forget, SemShape, SemCount
  <2>6. CASE Sem!Forget("sem2") /\ semAt[p] = "destroy2"
    BY <2>1, <2>6 DEF AdjustInv, Sem!Forget, SemShape, SemCount
  <2>7. CASE /\ semAdjust' = [semAdjust EXCEPT ![p]["sem1"] = @ - (-1)]
             /\ semAt[p] = "wait" /\ semAt'[p] = "read"
    BY <1>a, <2>1, <2>7 DEF AdjustInv, SemShape, SemCount
  <2>8. CASE semAdjust' = [semAdjust EXCEPT ![p]["sem2"] = @ - 1] /\ semAt[p] = "post"
    BY <1>a, <2>1, <2>3, <2>8 DEF AdjustInv, SemShape, SemCount
  <2>9. CASE UNCHANGED semAdjust /\ semAt[p] \notin {"destroy1", "wait"}
    BY <2>1, <2>3, <2>4, <2>9 DEF AdjustInv
  <2> QED
    BY <2>2, <2>5, <2>6, <2>7, <2>8, <2>9
<1>3. ASSUME NEW p \in Runs, Sem!Killed(p)
      PROVE  AdjustInv'
  BY <1>3 DEF Sem!Killed, Sem!semlibVars, AdjustInv, SemShape, SemPlaces
<1>4. ASSUME NEW p \in Runs, Fails(p)
      PROVE  AdjustInv'
  BY <1>4 DEF Fails, AdjustInv, ValidInv, Sem!Valid, SemShape, SemPlaces
<1>5. ASSUME NEW p \in Runs, Sem!UndoOf(p)
      PROVE  AdjustInv'
  BY <1>5 DEF Sem!UndoOf, Sem!Undo, AdjustInv, SemShape, SemCount
<1>6. CASE UNCHANGED semVars
  BY <1>6 DEF semVars, AdjustInv
<1> QED
  BY <1>1, <1>2, <1>3, <1>4, <1>5, <1>6, SemSteps

(* Who has got a semaphore keeps it until a sipc1 destroys it, and who has *)
(* lost it gets another only from semInit.                                 *)
Destroys(p, x) ==
  \/ x = "sem1" /\ Sem!Destroy(p, "sem1", "destroy1", "destroy2")
  \/ x = "sem2" /\ Sem!Destroy(p, "sem2", "destroy2", "done")

GetsSem(p, x) ==
  \/ x = "sem2" /\ Sem!GetSem(p, x, "init2", "init1")
  \/ x = "sem1" /\ p \in Clients /\ Sem!GetSem(p, x, "init1", "set2")
  \/ x = "sem1" /\ p \in Servers /\ Sem!GetSem(p, x, "init1", "wait")

LEMMA SemLifeSteps ==
  ASSUME SemShape, Sem!Next \/ UNCHANGED semVars, NEW x \in {"sem1", "sem2"}
  PROVE  \/ \E p \in Servers : Destroys(p, x) /\ UNCHANGED <<semLife, semId>>
         \/ \E p \in Runs : GetsSem(p, x)
         \/ /\ \A q \in Runs : semId'[q][x] = semId[q][x]
            /\ semLife'[x] = semLife[x]
            /\ semValue'[x] = -1 <=> semValue[x] = -1
<1> DEFINE Same == /\ \A q \in Runs : semId'[q][x] = semId[q][x]
                   /\ semLife'[x] = semLife[x]
                   /\ semValue'[x] = -1 <=> semValue[x] = -1
<1>1. ASSUME UNCHANGED <<semLife, semId, semValue>>
      PROVE  Same
  BY <1>1
<1>2. ASSUME NEW p \in Runs, NEW y \in {"sem1", "sem2"}, NEW from, NEW to, y # x,
             Sem!GetSem(p, y, from, to)
      PROVE  Same
  BY <1>2 DEF Sem!GetSem, Sem!semInit, SemShape, SemLives, SemCount
<1>3. ASSUME NEW y \in {"sem1", "sem2"}, UNCHANGED <<semLife, semId>>, semValue[y] # -1,
             \E n \in Nat : semValue' = [semValue EXCEPT ![y] = n]
      PROVE  Same
  BY <1>3 DEF SemShape, SemCount
<1>4. ASSUME NEW p \in Runs, NEW y \in {"sem1", "sem2"}, NEW from, NEW to,
             \/ Does(p, y, Sem!semInitValue(y, 0), from, to)
             \/ Does(p, y, Sem!semInitValue(y, 1), from, to)
             \/ Does(p, y, Sem!semWait(p, y), from, to)
             \/ Does(p, y, Sem!semPost(p, y), from, to)
      PROVE  Same
  <2>1. semValue[y] \in Nat /\ semValue[y] # -1
    BY <1>4 DEF Does, Sem!Valid, Sem!NoSem, SemShape, SemCount
  <2>2. \E n \in Nat : semValue' = [semValue EXCEPT ![y] = n]
    BY <1>4, <2>1 DEF Does, Sem!semInitValue, Sem!semWait, Sem!semPost, Sem!Add
  <2> QED
    BY <1>3, <1>4, <2>1, <2>2 DEF Does, semKept
<1>5. ASSUME NEW p \in Runs, Sem!UndoOf(p)
      PROVE  Same
  <2>1. PICK y \in {"sem1", "sem2"} : Sem!Undo(p, y)
    BY <1>5 DEF Sem!UndoOf
  <2>2. semValue[y] \in Nat /\ semValue[y] # -1
    BY <2>1 DEF Sem!Undo, SemShape, SemCount
  <2>3. semAdjust[p][y] \in Int
    BY DEF SemShape, SemCount
  <2>4. semValue' = [semValue EXCEPT ![y] = IF semValue[y] + semAdjust[p][y] < 0
                                              THEN 0 ELSE semValue[y] + semAdjust[p][y]]
    BY <2>1 DEF Sem!Undo, SemShape, SemCount
  <2>5. (IF semValue[y] + semAdjust[p][y] < 0 THEN 0 ELSE semValue[y] + semAdjust[p][y]) \in Nat
    BY <2>2, <2>3
  <2> QED
    BY <1>3, <1>5, <2>2, <2>4, <2>5 DEF Sem!UndoOf, Sem!idVars
<1>6. ASSUME NEW p \in Servers, NEW y \in {"sem1", "sem2"}, NEW from, NEW to, y # x,
             Sem!Destroy(p, y, from, to)
      PROVE  Same
  BY <1>6 DEF Sem!Destroy, Sem!semDestroy, Sem!idVars, SemShape, SemCount
<1>7. ASSUME NEW p \in Clients, ClientMove(p), ~ GetsSem(p, x)
      PROVE  Same
  <2>1. CASE \/ Sem!GetSem(p, "sem2", "init2", "init1") \/ Sem!GetSem(p, "sem1", "init1", "set2")
    BY <1>2, <1>7, <2>1 DEF GetsSem, Runs
  <2>2. CASE \/ Sem!Start(p, Clients) \/ Attached(p) \/ Sem!Write(p, "write", "post") \/ Sem!Read(p, "read", "done")
    BY <1>1, <2>2 DEF Sem!Start, Attached, semKept, Sem!Write, Sem!Read, Sem!semlibVars, Sem!idVars
  <2> HIDE DEF Same
  <2> QED
    BY <1>4, <1>7, <2>1, <2>2 DEF ClientMove, Runs
<1>8. ASSUME NEW p \in Servers, ServerMove(p), ~ GetsSem(p, x)
      PROVE  Same \/ (Destroys(p, x) /\ UNCHANGED <<semLife, semId>>)
  <2>1. CASE \/ Sem!GetSem(p, "sem2", "init2", "init1") \/ Sem!GetSem(p, "sem1", "init1", "wait")
    BY <1>2, <1>8, <2>1 DEF GetsSem, Runs
  <2>2. CASE \/ Sem!Start(p, Servers) \/ Attached(p) \/ Sem!Write(p, "write", "post") \/ Sem!Read(p, "read", "write")
             \/ Sem!RemoveSegment(p)
    BY <1>1, <2>2 DEF Sem!Start, Attached, semKept, Sem!Write, Sem!Read, Sem!RemoveSegment, Sem!semlibVars, Sem!idVars
  <2>3. CASE \/ Sem!Destroy(p, "sem1", "destroy1", "destroy2")
             \/ Sem!Destroy(p, "sem2", "destroy2", "done")
    BY <1>6, <2>3 DEF Destroys, Sem!Destroy, Sem!idVars
  <2> HIDE DEF Same
  <2> QED
    BY <1>4, <1>8, <2>1, <2>2, <2>3 DEF ServerMove, Runs
<1>9. ASSUME NEW p \in Runs, Fails(p) \/ Sem!Killed(p)
      PROVE  Same
  BY <1>1, <1>9 DEF Fails, semKept, Sem!Killed, Sem!semlibVars, Sem!idVars
<1> HIDE DEF Same
<1>10. CASE UNCHANGED semVars
  BY <1>1, <1>10 DEF semVars
<1>11. ASSUME NEW p \in Runs, Fails(p) \/ Sem!Killed(p) \/ Sem!UndoOf(p)
       PROVE  Same
  BY <1>5, <1>9, <1>11
<1>12. Clients \subseteq Runs /\ Servers \subseteq Runs
  BY DEF Runs
<1>13. CASE \E p \in Clients : ClientMove(p)
  <2>1. PICK p \in Clients : ClientMove(p)
    BY <1>13
  <2>2. p \in Runs
    BY <1>12
  <2>3. GetsSem(p, x) \/ Same
    BY <1>7, <2>1
  <2> QED
    BY <2>2, <2>3 DEF Same
<1>14. CASE \E p \in Servers : ServerMove(p)
  <2>1. PICK p \in Servers : ServerMove(p)
    BY <1>14
  <2>2. p \in Runs
    BY <1>12
  <2>3. GetsSem(p, x) \/ Same \/ (Destroys(p, x) /\ UNCHANGED <<semLife, semId>>)
    BY <1>8, <2>1
  <2> QED
    BY <2>2, <2>3 DEF Same
<1> QED
  BY <1>10, <1>11, <1>13, <1>14, SemSteps DEF Same

LEMMA ValidStays ==
  ASSUME SemShape, Sem!Next \/ UNCHANGED semVars, NEW q \in Runs, NEW x \in {"sem1", "sem2"},
         Sem!Valid(q, x), \A p \in Servers : ~ Destroys(p, x)
  PROVE  Sem!Valid(q, x)'
<1> USE DEF Sem!Valid, Sem!NoSem
<1>1. ASSUME NEW p \in Runs, GetsSem(p, x)
      PROVE  Sem!Valid(q, x)'
  BY <1>1 DEF GetsSem, Sem!GetSem, Sem!semInit, Sem!NoSem, SemShape, SemLives, SemCount
<1> QED
  BY <1>1, SemLifeSteps

LEMMA GetsValid ==
  ASSUME SemShape, NEW q \in Runs, NEW x \in {"sem1", "sem2"}, GetsSem(q, x)
  PROVE  Sem!Valid(q, x)'
BY DEF GetsSem, Sem!GetSem, Sem!semInit, Sem!NoSem, Sem!Valid, SemShape, SemLives, SemCount

(* Only a sipc1 that is there moves.                                       *)
LEMMA OneServer ==
  ASSUME SemShape, RunInv, NEW p \in Servers, ServerMove(p), NEW s \in Servers, s # p
  PROVE  ~ Present(s)
<1>1. CASE Sem!Start(p, Servers)
  BY <1>1 DEF Sem!Start, Sem!Ended, Present, Sem!Running, RunInv, Runs
<1>2. CASE ~ Sem!Start(p, Servers)
  <2>1. Sem!Running(p)
    BY <1>2 DEF ServerMove, Sem!GetSem, Does, Attached, Sem!Write, Sem!Read, Sem!RemoveSegment,
                Sem!Destroy, Sem!Go, Sem!Running, Sem!Ended
  <2> QED
    BY <2>1 DEF Present, RunInv
<1> QED
  BY <1>1, <1>2

LEMMA OneClient ==
  ASSUME SemShape, RunInv, NEW p \in Clients, ClientMove(p), NEW c \in Clients, c # p
  PROVE  ~ Present(c)
<1>1. CASE Sem!Start(p, Clients)
  BY <1>1 DEF Sem!Start, Sem!Ended, Present, Sem!Running, RunInv, Runs
<1>2. CASE ~ Sem!Start(p, Clients)
  <2>1. Sem!Running(p)
    BY <1>2 DEF ClientMove, Sem!GetSem, Does, Attached, Sem!Write, Sem!Read, Sem!Go, Sem!Running, Sem!Ended
  <2> QED
    BY <2>1 DEF Present, RunInv
<1> QED
  BY <1>1, <1>2

(* The shared memory: made or got at the start, removed by one sipc1.      *)
Gets(p) ==
  /\ semAt[p] = "start" /\ semAt' = [semAt EXCEPT ![p] = "attach"]
  /\ semKey' = (IF semKey = 0 THEN semMade + 1 ELSE semKey)
  /\ semHeld' = [semHeld EXCEPT ![p] = semKey']
  /\ UNCHANGED <<semArea, semRead>>

Removes(p) ==
  /\ semAt[p] = "asleep" /\ semAt' = [semAt EXCEPT ![p] = "destroy1"]
  /\ semKey' = 0
  /\ UNCHANGED <<semHeld, semArea, semRead>>

LEMMA SegmentSteps ==
  ASSUME SemShape, Sem!Next \/ UNCHANGED semVars
  PROVE  \/ \E p \in Runs : Gets(p)
         \/ \E p \in Servers : Removes(p) /\ ServerMove(p)
         \/ /\ UNCHANGED <<semKey, semHeld>>
            /\ \A p \in Runs : semAt[p] = "start" => semAt'[p] = "start"
            /\ \A s \in Servers : semAt[s] = "asleep" => semAt'[s] # "destroy1"
<1> USE DEF Runs
<1>a. ASSUME NEW p \in Runs, NEW role, Sem!Start(p, role)
      PROVE  Gets(p)
  BY <1>a DEF Sem!Start, Sem!GetOrMake, Sem!NoObject, Sem!Go, Gets
<1>b. ASSUME NEW p \in Runs, semAt[p] # "start", UNCHANGED <<semKey, semHeld>>,
             semAt[p] = "asleep" => semAt'[p] # "destroy1",
             \A q \in Runs : q # p => semAt'[q] = semAt[q]
      PROVE  /\ UNCHANGED <<semKey, semHeld>>
             /\ \A q \in Runs : semAt[q] = "start" => semAt'[q] = "start"
             /\ \A s \in Servers : semAt[s] = "asleep" => semAt'[s] # "destroy1"
  BY <1>b
<1>1. ASSUME NEW p \in Clients, ClientMove(p), ~ Sem!Start(p, Clients)
      PROVE  /\ semAt[p] # "start" /\ UNCHANGED <<semKey, semHeld>>
             /\ semAt[p] = "asleep" => semAt'[p] # "destroy1"
             /\ \A q \in Runs : q # p => semAt'[q] = semAt[q]
  <2>1. semAt[p] # "start" /\ UNCHANGED <<semKey, semHeld>>
    BY <1>1 DEF ClientMove, Sem!GetSem, Does, Attached, semKept, Sem!Write, Sem!Read, Sem!Go, Sem!ipcVars
  <2> QED
    BY <1>1, <2>1, SemOthers DEF SemShape, SemPlaces, OfServer
<1>2. ASSUME NEW p \in Servers, ServerMove(p), ~ Sem!Start(p, Servers), ~ Sem!RemoveSegment(p)
      PROVE  /\ semAt[p] # "start" /\ UNCHANGED <<semKey, semHeld>>
             /\ semAt[p] = "asleep" => semAt'[p] # "destroy1"
             /\ \A q \in Runs : q # p => semAt'[q] = semAt[q]
  <2>1. semAt[p] # "start" /\ UNCHANGED <<semKey, semHeld>> /\ semAt[p] # "asleep"
    BY <1>2 DEF ServerMove, Sem!GetSem, Does, Attached, semKept, Sem!Write, Sem!Read, Sem!Destroy, Sem!Go,
                Sem!ipcVars
  <2> QED
    BY <1>2, <2>1, SemOthers
<1>3. ASSUME NEW p \in Servers, Sem!RemoveSegment(p)
      PROVE  Removes(p)
  BY <1>3 DEF Sem!RemoveSegment, Sem!Remove, Sem!NoObject, Sem!Go, Removes
<1>4. ASSUME NEW p \in Runs, Fails(p) \/ Sem!Killed(p)
      PROVE  /\ semAt[p] # "start" /\ UNCHANGED <<semKey, semHeld>>
             /\ semAt[p] = "asleep" => semAt'[p] # "destroy1"
             /\ \A q \in Runs : q # p => semAt'[q] = semAt[q]
  <2>1. /\ semAt[p] # "start" /\ UNCHANGED <<semKey, semHeld>>
        /\ semAt'[p] \in {"failed", "killed"}
    BY <1>4 DEF Fails, semKept, Sem!Killed, Sem!Running, Sem!ipcVars, SemShape, SemPlaces
  <2> QED
    BY <1>4, <2>1, SemOthers
<1>5. ASSUME UNCHANGED <<semKey, semHeld, semAt>>
      PROVE  /\ \A p \in Runs : semAt[p] = "start" => semAt'[p] = "start"
             /\ \A s \in Servers : semAt[s] = "asleep" => semAt'[s] # "destroy1"
  BY <1>5
<1> QED
  BY <1>a, <1>b, <1>1, <1>2, <1>3, <1>4, <1>5, SemSteps DEF Sem!UndoOf, Sem!ipcVars, semVars

(* Where a sipc1 needs its semaphores.                                     *)
Needs(x) ==
  IF x = "sem1" THEN {"wait", "read", "write", "post", "asleep", "destroy1"}
  ELSE {"init1", "wait", "read", "write", "post", "asleep", "destroy1", "destroy2"}

LEMMA NextValidInv ==
  ASSUME SemShape, RunInv, ValidInv, Sem!Next \/ UNCHANGED semVars
  PROVE  ValidInv'
<1> USE DEF Runs
<1>1. \A s \in Servers, x \in {"sem1", "sem2"} : semAt[s] \in Needs(x) => Sem!Valid(s, x)
  BY DEF ValidInv, Needs
<1>2. ASSUME NEW s \in Servers, NEW x \in {"sem1", "sem2"}, semAt'[s] \in Needs(x)
      PROVE  Sem!Valid(s, x)' \/ (semAt[s] \in Needs(x) /\ \A p \in Servers : ~ Destroys(p, x))
  <2>1. CASE \E p \in Servers : ServerMove(p)
    <3>1. PICK p \in Servers : ServerMove(p)
      BY <2>1
    <3>2. CASE s = p
      <4>1. GetsSem(p, x) \/ (semAt[s] \in Needs(x) /\ ~ Destroys(p, x))
        BY <1>2, <3>1, <3>2
        DEF ServerMove, GetsSem, Destroys, Needs, Sem!Start, Sem!GetSem, Does, Attached, Sem!Write, Sem!Read,
            Sem!RemoveSegment, Sem!Destroy, Sem!Go, SemShape, SemPlaces
      <4>2. \A q \in Servers : Destroys(q, x) => q = p
        BY <3>1, <3>2, OneServer DEF Destroys, Sem!Destroy, Sem!Go, Present, Sem!Running, Sem!Ended
      <4> QED
        BY <3>2, <4>1, <4>2, GetsValid
    <3>3. CASE s # p
      <4>1. ~ Present(s) /\ semAt'[s] = semAt[s]
        BY <3>1, <3>3, OneServer, SemOthers
      <4> QED
        BY <1>2, <4>1 DEF Present, Sem!Running, Sem!Ended, Needs
    <3> QED
      BY <3>2, <3>3
  <2>2. CASE \/ \E p \in Clients : ClientMove(p)
             \/ \E p \in Runs : Fails(p) \/ Sem!Killed(p) \/ Sem!UndoOf(p)
             \/ UNCHANGED semVars
    <3>1. semAt'[s] = semAt[s]
      BY <1>2, <2>2, SemOthers, ExchangesAssumption
      DEF Fails, Sem!Killed, Sem!UndoOf, semVars, Needs, SemShape, SemPlaces
    <3>2. ASSUME NEW p \in Servers, Destroys(p, x)
          PROVE  FALSE
      <4>1. /\ semAt[p] \in {"destroy1", "destroy2"} /\ semAt'[p] \in {"destroy2", "done"}
            /\ semAt'[p] # semAt[p]
        BY <3>2 DEF Destroys, Sem!Destroy, Sem!Go, SemShape, SemPlaces
      <4> QED
        BY <2>2, <4>1, SemOthers, ExchangesAssumption
        DEF Fails, Sem!Killed, Sem!UndoOf, semVars, SemShape, SemPlaces
    <3> QED
      BY <1>2, <3>1, <3>2
  <2> QED
    BY <2>1, <2>2, SemSteps
<1>3. \A s \in Servers, x \in {"sem1", "sem2"} : semAt'[s] \in Needs(x) => Sem!Valid(s, x)'
  BY <1>1, <1>2, ValidStays
<1>4. \A s \in Servers : semAt'[s] = "attach" => semHeld'[s] = semKey'
  <2> SUFFICES ASSUME NEW s \in Servers, semAt'[s] = "attach"
               PROVE  semHeld'[s] = semKey'
    OBVIOUS
  <2>1. semAt[s] \in {"attach", "start"}
    <3>1. ASSUME NEW p \in Servers, ServerMove(p)
          PROVE  semAt[s] \in {"attach", "start"}
      <4>1. CASE s = p
        BY <3>1, <4>1
        DEF ServerMove, Sem!Start, Sem!GetSem, Does, Attached, Sem!Write, Sem!Read,
            Sem!RemoveSegment, Sem!Destroy, Sem!Go, SemShape, SemPlaces
      <4> QED
        BY <3>1, <4>1, SemOthers
    <3>2. ASSUME NEW p \in Clients, ClientMove(p)
          PROVE  semAt'[s] = semAt[s]
      BY <3>2, SemOthers, ExchangesAssumption
    <3>3. ASSUME NEW p \in Runs, Fails(p) \/ Sem!Killed(p)
          PROVE  semAt'[s] = semAt[s]
      BY <3>3 DEF Fails, Sem!Killed, SemShape, SemPlaces
    <3> QED
      BY <3>1, <3>2, <3>3, SemSteps DEF Sem!UndoOf, semVars
  <2>2. semAt[s] = "attach" => semHeld[s] = semKey /\ semHeld[s] > 0
    BY DEF ValidInv, SemShape, SemFound, Started
  <2>3. ASSUME NEW p \in Runs, Gets(p)
        PROVE  semHeld'[s] = semKey'
    BY <2>1, <2>2, <2>3 DEF Gets, SemShape, SemPlaces, SemFound
  <2>4. ASSUME NEW p \in Servers, Removes(p), ServerMove(p)
        PROVE  FALSE
    <3>1. s # p
      BY <2>4 DEF Removes, SemShape, SemPlaces
    <3>2. semAt[s] = "attach" /\ ~ Present(s)
      BY <2>4, <3>1, OneServer, SemOthers
    <3> QED
      BY <3>2 DEF Present, Sem!Running, Sem!Ended
  <2> QED
    BY <2>1, <2>2, <2>3, <2>4, SegmentSteps
<1>5. \A s \in Servers : semAt'[s] # "failed"
  <2>1. ASSUME NEW p \in Servers, ServerMove(p)
        PROVE  \A s \in Servers : semAt'[s] # "failed"
    <3>1. \E to : to # "failed" /\ semAt' = [semAt EXCEPT ![p] = to]
      BY <2>1 DEF ServerMove, Sem!Start, Sem!GetSem, Does, Attached, Sem!Write, Sem!Read,
                  Sem!RemoveSegment, Sem!Destroy, Sem!Go
    <3> QED
      BY <3>1 DEF ValidInv, SemShape, SemPlaces
  <2>2. ASSUME NEW p \in Clients, ClientMove(p)
        PROVE  \A s \in Servers : semAt'[s] # "failed"
    BY <2>2, SemOthers, ExchangesAssumption DEF ValidInv
  <2>3. ASSUME NEW p \in Runs, Fails(p)
        PROVE  p \notin Servers
    BY <2>3 DEF Fails, ValidInv, SemShape, SemPlaces, OfClient
  <2>4. ASSUME NEW p \in Runs, Fails(p)
        PROVE  \A s \in Servers : semAt'[s] # "failed"
    BY <2>3, <2>4, SemOthers DEF ValidInv
  <2>5. ASSUME NEW p \in Runs, Sem!Killed(p)
        PROVE  \A s \in Servers : semAt'[s] # "failed"
    BY <2>5 DEF Sem!Killed, ValidInv, SemShape, SemPlaces
  <2> QED
    BY <2>1, <2>2, <2>4, <2>5, SemSteps DEF Sem!UndoOf, semVars, ValidInv
<1> QED
  BY <1>3, <1>4, <1>5 DEF ValidInv, Needs

(* The turn: it is posted, taken, given back by the kernel, or it stays    *)
(* where it is, unless it is lost.                                         *)
PostsTurn(p) == Does(p, "sem1", Sem!semPost(p, "sem1"), "post", "await")
TakesTurn(p) == Does(p, "sem1", Sem!semWait(p, "sem1"), "wait", "read")
TurnIsBack(p) ==
  semAt[p] = "killed" /\ semAdjust[p]["sem1"] = 1 /\ Sem!Undo(p, "sem1") /\ UNCHANGED semAt

TurnStays ==
  /\ \A s \in Servers : Holds(s)' => Holds(s)
  /\ semValue'["sem1"] <= semValue["sem1"] \/ semValue'["sem1"] <= 0

LEMMA TurnSteps ==
  ASSUME SemShape, semUser = "careful", RunInv, AdjustInv, ValidInv, Sem!Next \/ UNCHANGED semVars
  PROVE  \/ \E p \in Clients : ClientMove(p) /\ PostsTurn(p)
         \/ \E p \in Servers : \/ ServerMove(p) /\ TakesTurn(p)
                               \/ TurnIsBack(p)
         \/ TurnStays
<1> USE ExchangesAssumption DEF Runs
<1>a. /\ semValue["sem1"] \in Int
      /\ \A p \in Runs, s \in {"sem1", "sem2"} : semAdjust[p][s] \in Int
  BY DEF SemShape, SemCount
<1>b. ASSUME UNCHANGED <<semValue, semAdjust>>, \A s \in Servers : semAt'[s] = semAt[s]
      PROVE  TurnStays
  BY <1>a, <1>b DEF TurnStays, Holds
<1>c. ASSUME NEW y \in {"sem1", "sem2"}, Sem!semInit({y}), \A s \in Servers : semAt'[s] = semAt[s]
      PROVE  TurnStays
  BY <1>a, <1>c DEF TurnStays, Holds, Sem!semInit, SemShape, SemCount
<1>1. ASSUME NEW p \in Clients, ClientMove(p), ~ PostsTurn(p)
      PROVE  TurnStays
  <2>1. \A s \in Servers : semAt'[s] = semAt[s]
    BY <1>1, SemOthers
  <2>2. CASE \/ Sem!Start(p, Clients) \/ Attached(p) \/ Sem!Write(p, "write", "post") \/ Sem!Read(p, "read", "done")
    BY <1>b, <2>1, <2>2 DEF Sem!Start, Attached, semKept, Sem!Write, Sem!Read, Sem!semlibVars
  <2>3. CASE Sem!GetSem(p, "sem2", "init2", "init1") \/ Sem!GetSem(p, "sem1", "init1", "set2")
    BY <1>c, <2>1, <2>3 DEF Sem!GetSem
  <2>4. CASE \/ Does(p, "sem2", Sem!semInitValue("sem2", 1), "set2", "set1")
             \/ Does(p, "sem1", Sem!semInitValue("sem1", 0), "set1", "wait")
    <3>1. PICK y \in {"sem1", "sem2"}, n \in {0, 1} : Sem!semInitValue(y, n) /\ (y = "sem1" => n = 0)
      BY <2>4 DEF Does
    <3>2. semValue'["sem1"] = semValue["sem1"] \/ semValue'["sem1"] = 0
      BY <3>1 DEF Sem!semInitValue, SemShape, SemCount
    <3>3. \A s \in Servers : semAdjust'[s]["sem1"] \in {semAdjust[s]["sem1"], 0}
      BY <3>1 DEF Sem!semInitValue, Sem!Forget, SemShape, SemCount
    <3> QED
      BY <1>a, <2>1, <3>2, <3>3 DEF TurnStays, Holds
  <2>5. CASE \/ Does(p, "sem2", Sem!semWait(p, "sem2"), "wait", "write")
             \/ Does(p, "sem2", Sem!semWait(p, "sem2"), "await", "read")
    <3>1. /\ semValue'["sem1"] = semValue["sem1"]
          /\ \A s \in Servers : semAdjust'[s]["sem1"] = semAdjust[s]["sem1"]
      BY <2>5 DEF Does, Sem!semWait, Sem!Add, SemShape, SemCount
    <3> QED
      BY <1>a, <2>1, <3>1 DEF TurnStays, Holds
  <2> QED
    BY <1>1, <2>2, <2>3, <2>4, <2>5 DEF ClientMove, PostsTurn
<1>2. ASSUME NEW p \in Servers, ServerMove(p), ~ TakesTurn(p)
      PROVE  TurnStays
  <2>1. \A s \in Servers : s # p => semAt'[s] = semAt[s]
    BY <1>2, SemOthers
  <2>2. Holds(p)' => Holds(p)
    BY <1>2
    DEF ServerMove, TakesTurn, Sem!Start, Sem!GetSem, Does, Attached, Sem!Write, Sem!Read, Sem!RemoveSegment,
        Sem!Destroy, Sem!Go, Holds, SemShape, SemPlaces
  <2>3. CASE \/ Sem!Start(p, Servers) \/ Attached(p) \/ Sem!Write(p, "write", "post") \/ Sem!Read(p, "read", "write")
             \/ Sem!RemoveSegment(p)
    BY <1>a, <2>1, <2>2, <2>3
    DEF Sem!Start, Attached, semKept, Sem!Write, Sem!Read, Sem!RemoveSegment, Sem!semlibVars, TurnStays, Holds
  <2>4. CASE Sem!GetSem(p, "sem2", "init2", "init1") \/ Sem!GetSem(p, "sem1", "init1", "wait")
    BY <1>a, <2>1, <2>2, <2>4 DEF Sem!GetSem, Sem!semInit, TurnStays, Holds, SemShape, SemCount
  <2>5. CASE Does(p, "sem2", Sem!semPost(p, "sem2"), "post", "asleep")
    <3>1. /\ semValue'["sem1"] = semValue["sem1"]
          /\ \A s \in Servers : semAdjust'[s]["sem1"] = semAdjust[s]["sem1"]
      BY <2>5 DEF Does, Sem!semPost, Sem!Add, SemShape, SemCount
    <3> QED
      BY <1>a, <2>1, <2>2, <3>1 DEF TurnStays, Holds
  <2>6. CASE \/ Sem!Destroy(p, "sem1", "destroy1", "destroy2")
             \/ Sem!Destroy(p, "sem2", "destroy2", "done")
    <3>1. semValue'["sem1"] \in {semValue["sem1"], -1}
      BY <2>6 DEF Sem!Destroy, Sem!semDestroy, Sem!NoSem, SemShape, SemCount
    <3>2. \A s \in Servers : semAdjust'[s]["sem1"] \in {semAdjust[s]["sem1"], 0}
      BY <2>6 DEF Sem!Destroy, Sem!semDestroy, Sem!Forget, SemShape, SemCount
    <3> QED
      BY <1>a, <2>1, <2>2, <3>1, <3>2 DEF TurnStays, Holds
  <2> QED
    BY <1>2, <2>3, <2>4, <2>5, <2>6 DEF ServerMove, TakesTurn
<1>3. ASSUME NEW p \in Runs, Fails(p)
      PROVE  TurnStays
  <2>1. p \in Clients
    BY <1>3 DEF Fails, ValidInv, SemShape, SemPlaces, OfClient
  <2> QED
    BY <1>3, <1>b, <2>1, SemOthers DEF Fails
<1>4. ASSUME NEW p \in Runs, Sem!Killed(p)
      PROVE  TurnStays
  <2>1. p \in Servers /\ semAt[p] \in {"wait", "read", "write"}
    BY <1>4 DEF Sem!Killed
  <2>2. semAdjust[p]["sem1"] > 0 => Holds(p)
    BY <2>1, <1>a DEF AdjustInv, Holds
  <2>3. UNCHANGED <<semValue, semAdjust>> /\ semAt'[p] = "killed"
    BY <1>4 DEF Sem!Killed, Sem!semlibVars, SemShape, SemPlaces
  <2>4. \A s \in Servers : s # p => semAt'[s] = semAt[s]
    BY <1>4, SemOthers
  <2>5. \A s \in Servers : Holds(s)' => Holds(s)
    BY <2>2, <2>3, <2>4 DEF Holds
  <2> QED
    BY <1>a, <2>3, <2>5 DEF TurnStays
<1>5. ASSUME NEW p \in Runs, Sem!UndoOf(p)
      PROVE  TurnStays \/ (p \in Servers /\ TurnIsBack(p))
  <2>1. PICK y \in {"sem1", "sem2"} : Sem!Undo(p, y)
    BY <1>5 DEF Sem!UndoOf
  <2>2. semValue[y] \in Nat /\ UNCHANGED semAt /\ Sem!Ended(p)
    BY <1>5, <2>1 DEF Sem!Undo, Sem!UndoOf, SemShape, SemCount
  <2>3. \A s \in Servers : semAdjust'[s]["sem1"] \in {semAdjust[s]["sem1"], 0}
    BY <2>1 DEF Sem!Undo, SemShape, SemCount
  <2>4. \A s \in Servers : Holds(s)' => Holds(s)
    BY <1>a, <2>2, <2>3 DEF Holds
  <2>5. CASE y = "sem2"
    BY <1>a, <2>1, <2>4, <2>5 DEF Sem!Undo, TurnStays, SemShape, SemCount
  <2>6. CASE y = "sem1" /\ semAdjust[p]["sem1"] <= 0
    <3>1. semValue'["sem1"] \in {0, semValue["sem1"] + semAdjust[p]["sem1"]}
      BY <2>1, <2>6 DEF Sem!Undo, SemShape, SemCount
    <3> QED
      BY <1>a, <2>4, <2>6, <3>1 DEF TurnStays
  <2>7. CASE y = "sem1" /\ ~ (semAdjust[p]["sem1"] <= 0)
    <3>1. p \in Servers /\ semAdjust[p]["sem1"] = 1
      BY <1>a, <2>7 DEF AdjustInv
    <3>2. semAt[p] = "killed"
      BY <2>2, <3>1 DEF AdjustInv, Sem!Ended
    <3> QED
      BY <2>1, <2>2, <2>7, <3>1, <3>2 DEF TurnIsBack
  <2> QED
    BY <2>1, <2>5, <2>6, <2>7
<1>6. CASE UNCHANGED semVars
  BY <1>6, <1>b DEF semVars
<1> QED
  BY <1>1, <1>2, <1>3, <1>4, <1>5, <1>6, SemSteps

(* While a sipc2 is before its wait for the reply, nobody waits or failed. *)
LEMMA NobodyAwaits ==
  ASSUME SemShape, RunInv, NEW p \in Clients, Sem!Running(p), semAt[p] # "await", NEW c \in Clients
  PROVE  semAt[c] \notin {"await", "failed"}
BY DEF RunInv, Present, Sem!Running, Sem!Ended

(* A sipc2 that stops waiting has its reply, and the turn is nowhere.      *)
LEMMA AwaitEnds ==
  ASSUME SemShape, semUser = "careful", RunInv, ReplyInv, Sem!Next \/ UNCHANGED semVars,
         NEW c \in Clients, semAt[c] \in {"await", "failed"}, semAt'[c] \notin {"await", "failed"}
  PROVE  Quiet
<1> USE ExchangesAssumption DEF Runs
<1>1. ASSUME NEW p \in Clients, ClientMove(p)
      PROVE  Quiet
  <2>1. p = c
    BY <1>1, SemOthers
  <2>2. Does(c, "sem2", Sem!semWait(c, "sem2"), "await", "read")
    BY <1>1, <2>1
    DEF ClientMove, Sem!Start, Sem!GetSem, Does, Attached, Sem!Write, Sem!Read, Sem!Go, SemShape, SemPlaces
  <2>3. Sem!Valid(c, "sem2") /\ semValue["sem2"] > 0 /\ semAt[c] = "await"
    BY <2>2 DEF Does, Sem!semWait, Sem!Go
  <2> QED
    BY <2>3 DEF ReplyInv, ReplyOf
<1>2. ASSUME NEW p \in Servers, ServerMove(p)
      PROVE  FALSE
  BY <1>2, SemOthers
<1>3. ASSUME NEW p \in Runs, Fails(p) \/ Sem!Killed(p)
      PROVE  FALSE
  BY <1>3, SemOthers DEF Fails, Sem!Killed, SemShape, SemPlaces
<1> QED
  BY <1>1, <1>2, <1>3, SemSteps DEF Sem!UndoOf, semVars

LEMMA QuietStays ==
  ASSUME SemShape, SemShape', Quiet, TurnStays
  PROVE  Quiet'
<1>1. semValue["sem1"] \in Int /\ semValue'["sem1"] \in Int
  BY DEF SemShape, SemCount
<1>2. semValue'["sem1"] <= 0
  BY <1>1 DEF Quiet, TurnStays
<1>3. \A s \in Servers : ~ Holds(s)'
  BY DEF Quiet, TurnStays
<1> QED
  BY <1>2, <1>3 DEF Quiet

LEMMA NextTokenInv ==
  ASSUME SemShape, semUser = "careful", CareInv, Sem!Next \/ UNCHANGED semVars
  PROVE  TokenInv'
<1> USE ExchangesAssumption DEF Runs, CareInv
<1>a. /\ semValue["sem1"] \in Int /\ semValue'["sem1"] \in Int
      /\ SemShape'
  BY NextSemShape DEF SemShape, SemCount
<1>1. ASSUME NEW p \in Clients, ClientMove(p), PostsTurn(p)
      PROVE  TokenInv'
  <2>1. Quiet
    <3>1. Sem!Running(p) /\ semAt[p] = "post"
      BY <1>1 DEF PostsTurn, Does, Sem!Go, Sem!Running, Sem!Ended
    <3> QED
      BY <3>1, NobodyAwaits DEF TokenInv
  <2>2. \A s \in Servers : semAt'[s] = semAt[s] /\ semAdjust'[s]["sem1"] = semAdjust[s]["sem1"]
    BY <1>1, SemOthers DEF PostsTurn, Does, Sem!semPost, Sem!Add, SemShape, SemCount
  <2>3. semValue'["sem1"] = semValue["sem1"] + 1
    BY <1>1 DEF PostsTurn, Does, Sem!semPost, Sem!Add, SemShape, SemCount
  <2>4. semAt'[p] = "await"
    BY <1>1 DEF PostsTurn, Does, Sem!Go, SemShape, SemPlaces
  <2>5. \A s \in Servers : ~ Holds(s)'
    BY <2>1, <2>2 DEF Holds, Quiet
  <2>6. semValue'["sem1"] <= 1
    BY <1>a, <2>1, <2>3 DEF Quiet
  <2> QED
    BY <2>4, <2>5, <2>6 DEF TokenInv
<1>2. ASSUME NEW p \in Servers, ServerMove(p), TakesTurn(p)
      PROVE  TokenInv'
  <2>1. semValue["sem1"] = 1 /\ semValue'["sem1"] = 0
    BY <1>1, <1>2, <1>a DEF TakesTurn, Does, Sem!semWait, Sem!Add, SemShape, SemCount, TokenInv
  <2>2. \A s \in Servers : ~ Holds(s)
    BY <2>1 DEF TokenInv
  <2>3. \A s \in Servers : s # p =>
          semAt'[s] = semAt[s] /\ semAdjust'[s]["sem1"] = semAdjust[s]["sem1"]
    BY <1>2, SemOthers DEF TakesTurn, Does, Sem!semWait, Sem!Add, SemShape, SemCount
  <2>4. \A s \in Servers : s # p => ~ Holds(s)'
    BY <2>2, <2>3 DEF Holds
  <2>5. \A c \in Clients : semAt'[c] = semAt[c]
    BY <1>2, SemOthers
  <2>6. ~ Quiet
    BY <2>1 DEF Quiet
  <2>7. PICK c \in Clients : semAt[c] \in {"await", "failed"}
    BY <2>6 DEF TokenInv
  <2> QED
    BY <2>1, <2>4, <2>5, <2>7 DEF TokenInv
<1>3. ASSUME NEW p \in Servers, TurnIsBack(p)
      PROVE  TokenInv'
  <2>1. Holds(p)
    BY <1>3 DEF TurnIsBack, Holds
  <2>2. semValue["sem1"] = 0
    BY <1>3, <2>1, <1>a DEF TokenInv, TurnIsBack, Sem!Undo, SemShape, SemCount
  <2>3. semValue'["sem1"] = 1 /\ semAdjust'[p]["sem1"] = 0
    BY <1>3, <2>2 DEF TurnIsBack, Sem!Undo, SemShape, SemCount
  <2>4. \A s \in Servers : s # p =>
          semAt'[s] = semAt[s] /\ semAdjust'[s]["sem1"] = semAdjust[s]["sem1"]
    BY <1>3 DEF TurnIsBack, Sem!Undo, SemShape, SemCount
  <2>5. \A s \in Servers : ~ Holds(s)'
    BY <1>3, <2>1, <2>3, <2>4 DEF TokenInv, Holds, TurnIsBack
  <2>6. ~ Quiet
    BY <2>1 DEF Quiet
  <2>7. PICK c \in Clients : semAt[c] \in {"await", "failed"}
    BY <2>6 DEF TokenInv
  <2> QED
    BY <1>3, <2>3, <2>5, <2>7 DEF TokenInv, TurnIsBack
<1>4. CASE TurnStays
  <2>1. semValue'["sem1"] <= 1
    BY <1>4, <1>a DEF TokenInv, TurnStays
  <2>2. \A s \in Servers :
          Holds(s)' => semValue'["sem1"] <= 0 /\ \A t \in Servers : Holds(t)' => t = s
    BY <1>4, <1>a DEF TokenInv, TurnStays
  <2>3. ASSUME \A c \in Clients : semAt'[c] \notin {"await", "failed"}
        PROVE  Quiet'
    <3>1. Quiet
      BY <2>3, AwaitEnds DEF TokenInv
    <3> QED
      BY <1>a, <1>4, <3>1, QuietStays
  <2> QED
    BY <2>1, <2>2, <2>3 DEF TokenInv
<1> QED
  BY <1>1, <1>2, <1>3, <1>4, TurnSteps

LEMMA ValidWas ==
  ASSUME SemShape, Sem!Next \/ UNCHANGED semVars, NEW q \in Runs, NEW x \in {"sem1", "sem2"},
         Sem!Valid(q, x)', ~ GetsSem(q, x)
  PROVE  Sem!Valid(q, x)
<1> USE DEF Sem!Valid, Sem!NoSem
<1>1. ASSUME NEW p \in Runs, GetsSem(p, x)
      PROVE  Sem!Valid(q, x)
  <2>1. p # q
    BY <1>1
  <2>2. /\ semId[q][x] \in Nat /\ semLife[x] \in Nat /\ semId[q][x] <= semLife[x]
        /\ semId'[q][x] = semId[q][x]
    BY <1>1, <2>1 DEF GetsSem, Sem!GetSem, SemShape, SemLives
  <2>3. semLife'[x] = IF semValue[x] = -1 THEN semLife[x] + 1 ELSE semLife[x]
    BY <1>1 DEF GetsSem, Sem!GetSem, Sem!NoSem, SemShape, SemLives
  <2>4. semId'[q][x] = semLife'[x]
    OBVIOUS
  <2>5. semValue[x] # -1
    BY <2>2, <2>3, <2>4
  <2> QED
    BY <2>2, <2>3, <2>4, <2>5
<1>2. ASSUME NEW p \in Servers, Destroys(p, x)
      PROVE  Sem!Valid(q, x)
  BY <1>2 DEF Destroys, Sem!Destroy, Sem!semDestroy, Sem!NoSem, SemShape, SemCount
<1> QED
  BY <1>1, <1>2, SemLifeSteps

(* Once a sipc2 waits for its reply only a reply changes what sem2 is worth *)
(* to it, and before that only itself.                                     *)
Early == {"set1", "wait", "write", "post"}

LEMMA NextReplyInv ==
  ASSUME SemShape, semUser = "careful", CareInv, Sem!Next \/ UNCHANGED semVars
  PROVE  ReplyInv'
<1> USE ExchangesAssumption DEF Runs, CareInv
<1>a. /\ semValue["sem1"] \in Int /\ semValue'["sem1"] \in Int
      /\ semValue["sem2"] \in Int /\ semValue'["sem2"] \in Int
      /\ SemShape'
  BY NextSemShape DEF SemShape, SemCount
<1> SUFFICES ASSUME NEW c \in Clients, Sem!Valid(c, "sem2")',
                    semAt'[c] \in Early \cup {"await"}
             PROVE  ReplyOf(c)'
  BY DEF ReplyInv, ReplyOf, Early
<1> USE DEF Early, ReplyOf
<1>b. Sem!Valid(c, "sem2")
  BY ValidWas DEF GetsSem, Sem!GetSem, Sem!Go, SemShape, SemPlaces
<1>c. ReplyOf(c)
  BY <1>b DEF ReplyInv
<1>d. ASSUME semAt'[c] = semAt[c], semValue'["sem2"] <= semValue["sem2"] \/ semValue'["sem2"] <= 0,
             TurnStays
      PROVE  ReplyOf(c)'
  <2>1. semValue'["sem2"] > 0 => semValue["sem2"] > 0
    BY <1>a, <1>d
  <2> QED
    BY <1>a, <1>c, <1>d, <2>1, QuietStays
<1>1. ASSUME NEW p \in Clients, ClientMove(p)
      PROVE  ReplyOf(c)'
  <2>1. p = c
    <3>1. CASE p # c
      <4>1. ~ Present(c) /\ semAt'[c] = semAt[c]
        BY <1>1, <3>1, OneClient, SemOthers
      <4> QED
        BY <4>1 DEF Present, Sem!Running, Sem!Ended
    <3> QED
      BY <3>1
  <2>2. CASE Does(c, "sem2", Sem!semInitValue("sem2", 1), "set2", "set1")
    BY <1>a, <2>2 DEF Does, Sem!semInitValue, Sem!Go, SemShape, SemCount, SemPlaces
  <2>3. CASE Does(c, "sem1", Sem!semInitValue("sem1", 0), "set1", "wait")
    BY <1>a, <1>c, <2>3 DEF Does, Sem!semInitValue, Sem!Go, SemShape, SemCount, SemPlaces
  <2>4. CASE Does(c, "sem2", Sem!semWait(c, "sem2"), "wait", "write")
    BY <1>a, <1>c, <2>4 DEF Does, Sem!semWait, Sem!Add, Sem!Go, SemShape, SemCount, SemPlaces
  <2>5. CASE Sem!Write(c, "write", "post")
    BY <1>a, <1>c, <2>5 DEF Sem!Write, Sem!semlibVars, Sem!Go, SemShape, SemCount, SemPlaces
  <2>6. CASE Does(c, "sem1", Sem!semPost(c, "sem1"), "post", "await")
    BY <1>a, <1>c, <2>6 DEF Does, Sem!semPost, Sem!Add, Sem!Go, SemShape, SemCount, SemPlaces
  <2>7. CASE \/ Sem!Start(c, Clients) \/ Attached(c)
             \/ Sem!GetSem(c, "sem2", "init2", "init1") \/ Sem!GetSem(c, "sem1", "init1", "set2")
             \/ Does(c, "sem2", Sem!semWait(c, "sem2"), "await", "read")
             \/ Sem!Read(c, "read", "done")
    BY <2>7 DEF Sem!Start, Sem!GetSem, Does, Attached, Sem!Read, Sem!Go, SemShape, SemPlaces
  <2> QED
    BY <1>1, <2>1, <2>2, <2>3, <2>4, <2>5, <2>6, <2>7 DEF ClientMove
<1>2. ASSUME NEW p \in Servers, ServerMove(p)
      PROVE  ReplyOf(c)'
  <2>1. semAt'[c] = semAt[c]
    BY <1>2, SemOthers
  <2>2. CASE Does(p, "sem2", Sem!semPost(p, "sem2"), "post", "asleep")
    <3>1. Holds(p)
      BY <2>2 DEF Holds, Does, Sem!Go
    <3>2. semAt[c] = "await"
      <4>1. PICK d \in Clients : semAt[d] \in {"await", "failed"}
        BY <3>1 DEF TokenInv, Quiet
      <4>2. CASE semAt[c] # "await"
        BY <2>1, <4>1, <4>2, NobodyAwaits DEF Sem!Running, Sem!Ended
      <4> QED
        BY <4>2
    <3>3. /\ semValue'["sem1"] = semValue["sem1"]
          /\ \A s \in Servers : semAdjust'[s]["sem1"] = semAdjust[s]["sem1"]
      BY <2>2 DEF Does, Sem!semPost, Sem!Add, SemShape, SemCount
    <3>4. semAt'[p] = "asleep" /\ \A s \in Servers : s # p => semAt'[s] = semAt[s]
      BY <2>2 DEF Does, Sem!Go, SemShape, SemPlaces
    <3>5. Quiet'
      BY <3>1, <3>3, <3>4 DEF Quiet, TokenInv, Holds
    <3> QED
      BY <2>1, <3>2, <3>5
  <2>3. CASE TakesTurn(p)
    <3>1. semValue'["sem2"] = semValue["sem2"] /\ semValue["sem1"] > 0
      BY <2>3 DEF TakesTurn, Does, Sem!semWait, Sem!Add, SemShape, SemCount
    <3> QED
      BY <1>c, <2>1, <3>1, <1>a DEF Quiet
  <2>4. CASE ~ TakesTurn(p) /\ ~ Does(p, "sem2", Sem!semPost(p, "sem2"), "post", "asleep")
    <3>1. TurnStays
      <4>1. semAt'[p] # semAt[p]
        BY <1>2 DEF ServerMove, Sem!Start, Sem!GetSem, Does, Attached, Sem!Write, Sem!Read,
                    Sem!RemoveSegment, Sem!Destroy, Sem!Go, SemShape, SemPlaces
      <4>2. ASSUME NEW q \in Clients, ClientMove(q)
            PROVE  FALSE
        BY <4>1, <4>2, SemOthers
      <4>3. ASSUME NEW q \in Servers, TakesTurn(q)
            PROVE  FALSE
        <5>1. semAt'[q] # semAt[q]
          BY <4>3 DEF TakesTurn, Does, Sem!Go, SemShape, SemPlaces
        <5> QED
          BY <1>2, <2>4, <4>3, <5>1, SemOthers
      <4> QED
        BY <4>1, <4>2, <4>3, TurnSteps DEF TurnIsBack
    <3>2. semValue'["sem2"] = semValue["sem2"] \/ semValue'["sem2"] <= 0
      BY <1>2, <1>a, <2>4
      DEF ServerMove, TakesTurn, Sem!Start, Sem!GetSem, Does, Attached, Sem!Write, Sem!Read,
          Sem!RemoveSegment, Sem!Destroy, Sem!semDestroy, Sem!NoSem, Sem!semInit, Sem!semlibVars,
          SemShape, SemCount
    <3> QED
      BY <1>d, <2>1, <3>1, <3>2, <1>a
  <2> QED
    BY <2>2, <2>3, <2>4
<1>3. ASSUME NEW p \in Runs, Fails(p) \/ Sem!Killed(p)
      PROVE  ReplyOf(c)'
  <2>1. semAt'[c] = semAt[c] /\ UNCHANGED <<semValue, semAdjust>> /\ semAt' # semAt
    BY <1>3, SemOthers
    DEF Fails, Sem!Killed, Sem!Running, Sem!Ended, Sem!semlibVars, SemShape, SemPlaces
  <2>2. TurnStays
    <3>1. ASSUME NEW q \in Clients, PostsTurn(q)
          PROVE  FALSE
      BY <2>1, <3>1 DEF PostsTurn, Does, Sem!semPost, Sem!Add, SemShape, SemCount
    <3>2. ASSUME NEW q \in Servers, TakesTurn(q) \/ TurnIsBack(q)
          PROVE  FALSE
      BY <2>1, <3>2
      DEF TakesTurn, TurnIsBack, Does, Sem!semWait, Sem!Add, Sem!Undo, SemShape, SemCount
    <3> QED
      BY <3>1, <3>2, TurnSteps
  <2> QED
    BY <1>d, <2>1, <2>2, <1>a
<1>4. ASSUME NEW p \in Runs, Sem!UndoOf(p)
      PROVE  ReplyOf(c)'
  <2>1. PICK y \in {"sem1", "sem2"} : Sem!Undo(p, y)
    BY <1>4 DEF Sem!UndoOf
  <2>2. semAt' = semAt /\ Sem!Ended(p) /\ semAdjust[p][y] # 0
    BY <1>4, <2>1 DEF Sem!UndoOf, Sem!Undo
  <2>3. p \in Servers
    <3>1. Present(p) /\ Present(c) /\ p # c
      BY <2>2 DEF Present, Sem!Cleared, Sem!Running, Sem!Ended
    <3> QED
      BY <3>1 DEF RunInv
  <2>4. CASE TurnStays
    <3>1. semAdjust[p]["sem2"] \in Int /\ semAdjust[p]["sem2"] <= 0
      BY <2>3 DEF AdjustInv, SemShape, SemCount
    <3>2. semValue'["sem2"] \in {semValue["sem2"], 0, semValue["sem2"] + semAdjust[p]["sem2"]}
      BY <2>1 DEF Sem!Undo, SemShape, SemCount
    <3> QED
      BY <1>a, <1>d, <2>2, <2>4, <3>1, <3>2
  <2>5. CASE ~ TurnStays
    <3>1. ASSUME NEW q \in Clients, ClientMove(q)
          PROVE  FALSE
      BY <2>2, <3>1
      DEF ClientMove, Sem!Start, Sem!GetSem, Does, Attached, Sem!Write, Sem!Read, Sem!Go, SemShape, SemPlaces
    <3>2. ASSUME NEW q \in Servers, TakesTurn(q)
          PROVE  FALSE
      BY <2>2, <3>2 DEF TakesTurn, Does, Sem!Go, SemShape, SemPlaces
    <3>3. PICK q \in Servers : TurnIsBack(q)
      BY <2>5, <3>1, <3>2, TurnSteps
    <3>4. ~ Quiet
      BY <3>3 DEF Quiet, Holds, TurnIsBack
    <3>5. semValue'["sem2"] = semValue["sem2"]
      BY <3>3 DEF TurnIsBack, Sem!Undo, SemShape, SemCount
    <3> QED
      BY <1>c, <2>2, <3>4, <3>5
  <2> QED
    BY <2>4, <2>5
<1>5. CASE UNCHANGED semVars
  <2>1. UNCHANGED <<semAt, semValue, semAdjust>>
    BY <1>5 DEF semVars
  <2>2. Quiet => Quiet'
    BY <2>1 DEF Quiet, Holds
  <2> QED
    BY <1>c, <2>1, <2>2
<1> QED
  BY <1>1, <1>2, <1>3, <1>4, <1>5, SemSteps

LEMMA NextCareInv ==
  ASSUME SemShape, semUser = "careful", CareInv, Sem!Next \/ UNCHANGED semVars
  PROVE  CareInv'
BY NextRunInv, NextAdjustInv, NextValidInv, NextTokenInv, NextReplyInv DEF CareInv

(* A process is moved by its program, or it fails, or it is killed.        *)
LEMMA ServerSteps ==
  ASSUME SemShape, semUser = "careful", ValidInv, Sem!Next \/ UNCHANGED semVars, NEW s \in Servers
  PROVE  \/ semAt'[s] = semAt[s]
         \/ ServerMove(s)
         \/ semAt[s] \in {"wait", "read", "write"} /\ semAt'[s] = "killed" /\ UNCHANGED semKept
<1> USE ExchangesAssumption DEF Runs
<1>1. ASSUME NEW p \in Clients, ClientMove(p)
      PROVE  semAt'[s] = semAt[s]
  BY <1>1, SemOthers
<1>2. ASSUME NEW p \in Servers, ServerMove(p), p # s
      PROVE  semAt'[s] = semAt[s]
  BY <1>2, SemOthers
<1>3. ASSUME NEW p \in Runs, Fails(p)
      PROVE  semAt'[s] = semAt[s]
  <2>1. p \in Clients
    BY <1>3 DEF Fails, ValidInv, SemShape, SemPlaces, OfClient
  <2> QED
    BY <1>3, <2>1, SemOthers
<1>4. ASSUME NEW p \in Runs, Sem!Killed(p)
      PROVE  \/ semAt'[s] = semAt[s]
             \/ semAt[s] \in {"wait", "read", "write"} /\ semAt'[s] = "killed" /\ UNCHANGED semKept
  BY <1>4 DEF Sem!Killed, semKept, Sem!ipcVars, Sem!idVars, SemShape, SemPlaces
<1> QED
  BY <1>1, <1>2, <1>3, <1>4, SemSteps DEF Sem!UndoOf, semVars

LEMMA ClientSteps ==
  ASSUME SemShape, semUser = "careful", Sem!Next \/ UNCHANGED semVars, NEW c \in Clients
  PROVE  \/ semAt'[c] = semAt[c]
         \/ ClientMove(c)
         \/ /\ semAt[c] \in {"attach", "set2", "set1", "wait", "post", "await"} /\ semAt'[c] = "failed"
            /\ UNCHANGED semKept /\ UNCHANGED <<semValue, semAdjust>>
<1> USE ExchangesAssumption DEF Runs
<1>1. ASSUME NEW p \in Servers, ServerMove(p)
      PROVE  semAt'[c] = semAt[c]
  BY <1>1, SemOthers
<1>2. ASSUME NEW p \in Clients, ClientMove(p), p # c
      PROVE  semAt'[c] = semAt[c]
  BY <1>2, SemOthers
<1>3. ASSUME NEW p \in Runs, Fails(p)
      PROVE  \/ semAt'[c] = semAt[c]
             \/ /\ semAt[c] \in {"attach", "set2", "set1", "wait", "post", "await"} /\ semAt'[c] = "failed"
                /\ UNCHANGED semKept /\ UNCHANGED <<semValue, semAdjust>>
  BY <1>3 DEF Fails, SemShape, SemPlaces
<1>4. ASSUME NEW p \in Runs, Sem!Killed(p)
      PROVE  semAt'[c] = semAt[c]
  BY <1>4 DEF Sem!Killed, SemShape, SemPlaces
<1> QED
  BY <1>1, <1>2, <1>3, <1>4, SemSteps DEF Sem!UndoOf, semVars

LEMMA ServerWay ==
  ASSUME SemShape, semUser = "careful", ValidInv, Sem!Next \/ UNCHANGED semVars, NEW s \in Servers
  PROVE  /\ semAt'[s] \in Serving => semAt[s] \in Serving \cup {"start"}
         /\ semAt'[s] \in Removing => semAt[s] \in Removing \cup {"asleep"}
         /\ semAt[s] \in Removing => semAt'[s] \in Removing
         /\ semAt[s] = "asleep" => semAt'[s] \in {"asleep", "destroy1"}
         /\ semAt'[s] = "asleep" => semAt[s] \in {"post", "asleep"}
<1>1. CASE ServerMove(s)
  BY <1>1
  DEF ServerMove, Sem!Start, Sem!GetSem, Does, Attached, Sem!Write, Sem!Read, Sem!RemoveSegment, Sem!Destroy,
      Sem!Go, SemShape, SemPlaces, Serving, Removing, Runs
<1> QED
  BY <1>1, ServerSteps DEF Serving, Removing

LEMMA NextSegmentInv ==
  ASSUME SemShape, semUser = "careful", CareInv, SegmentInv, Sem!Next \/ UNCHANGED semVars
  PROVE  SegmentInv'
<1> USE ExchangesAssumption DEF Runs, CareInv, SegmentInv, Serving, Removing
<1>a. \A p \in Runs : semAt[p] \notin {"off", "start"} =>
        semHeld[p] > 0 /\ semHeld[p] \in Nat /\ semHeld[p] <= semMade
  BY DEF SemShape, SemFound, Started
<1>b. semMade \in Nat /\ semKey \in Nat
  BY DEF SemShape, SemFound
<1>1. ASSUME NEW p \in Runs, Gets(p)
      PROVE  SegmentInv'
  <2>1. /\ semAt'[p] = "attach" /\ semHeld'[p] = semKey' /\ semAt[p] = "start"
        /\ \A q \in Runs : q # p => semAt'[q] = semAt[q] /\ semHeld'[q] = semHeld[q]
        /\ semKey' = IF semKey = 0 THEN semMade + 1 ELSE semKey
    BY <1>1 DEF Gets, SemShape, SemPlaces, SemFound
  <2>2. \A q \in Runs : semAt[q] \notin {"off", "start"} /\ semHeld[q] = semKey => semKey' = semKey
    BY <1>a, <2>1
  <2>3. \A q \in Runs :
          semAt[q] \notin {"off", "start"} /\ semHeld[q] # semKey => semHeld[q] # semKey'
    BY <1>a, <1>b, <2>1
  <2>4. \A s \in Servers : semAt'[s] \in Serving => semHeld'[s] = semKey'
    BY <2>1, <2>2 DEF Serving
  <2>5. \A s \in Servers : semAt'[s] \in Removing => semHeld'[s] # semKey'
    BY <2>1, <2>3 DEF Removing
  <2>6. \A s \in Servers : semAt[s] \in Removing => semAt'[s] = semAt[s] /\ semHeld'[s] = semHeld[s]
    BY <2>1 DEF Removing
  <2>7. \A c \in Clients : semAt'[c] \notin {"off", "start"} =>
                  \/ semHeld'[c] = semKey'
                  \/ \E s \in Servers : semHeld'[s] = semHeld'[c] /\ semAt'[s] \in Removing
    <3> SUFFICES ASSUME NEW c \in Clients, semAt'[c] \notin {"off", "start"}, c # p
                 PROVE  \/ semHeld'[c] = semKey'
                        \/ \E s \in Servers : semHeld'[s] = semHeld'[c] /\ semAt'[s] \in Removing
      BY <2>1
    <3>1. semAt[c] \notin {"off", "start"} /\ semHeld'[c] = semHeld[c]
      BY <2>1
    <3> QED
      BY <2>2, <2>6, <3>1
  <2> QED
    BY <2>4, <2>5, <2>7
<1>2. ASSUME NEW p \in Servers, Removes(p), ServerMove(p)
      PROVE  SegmentInv'
  <2>1. /\ semAt'[p] = "destroy1" /\ semAt[p] = "asleep" /\ semKey' = 0 /\ semHeld' = semHeld
        /\ \A q \in Runs : q # p => semAt'[q] = semAt[q]
    BY <1>2 DEF Removes, SemShape, SemPlaces
  <2>2. \A s \in Servers : semAt'[s] \notin Serving
    BY <1>2, <2>1, OneServer DEF Present, Sem!Running, Sem!Ended, Serving
  <2>3. \A s \in Servers : semAt'[s] \in Removing => semHeld'[s] # semKey'
    BY <1>a, <2>1 DEF Removing
  <2>4. semHeld[p] = semKey /\ semAt'[p] \in Removing
    BY <2>1 DEF Serving, Removing
  <2>5. \A s \in Servers : semAt[s] \in Removing => semAt'[s] \in Removing
    BY ServerWay
  <2>6. \A c \in Clients : semAt'[c] = semAt[c]
    BY <2>1
  <2> QED
    BY <2>1, <2>2, <2>3, <2>4, <2>5, <2>6
<1>3. ASSUME UNCHANGED <<semKey, semHeld>>,
             \A p \in Runs : semAt[p] = "start" => semAt'[p] = "start",
             \A s \in Servers : semAt[s] = "asleep" => semAt'[s] # "destroy1"
      PROVE  SegmentInv'
  <2>1. \A s \in Servers : /\ semAt'[s] \in Serving => semAt[s] \in Serving
                           /\ semAt'[s] \in Removing <=> semAt[s] \in Removing
    BY <1>3, ServerWay DEF Serving, Removing
  <2>2. \A c \in Clients : semAt'[c] \notin {"off", "start"} => semAt[c] \notin {"off", "start"}
    <3>1. ASSUME NEW c \in Clients, semAt[c] = "off"
          PROVE  semAt'[c] = "off"
      <4>1. ~ ClientMove(c)
        BY <3>1 DEF ClientMove, Sem!Start, Sem!GetSem, Does, Attached, Sem!Write, Sem!Read, Sem!Go
      <4> QED
        BY <3>1, <4>1, ClientSteps
    <3> QED
      BY <1>3, <3>1
  <2> QED
    BY <1>3, <2>1, <2>2
<1> QED
  BY <1>1, <1>2, <1>3, SegmentSteps

(* The shared memory is written and read by one process at a time.         *)
Writes(p) ==
  /\ semAt[p] = "write" /\ semAt'[p] = "post"
  /\ semArea' = [semArea EXCEPT ![semHeld[p]] = p] /\ UNCHANGED semRead

Reads(p) ==
  /\ semAt[p] = "read" /\ semAt'[p] = (IF p \in Clients THEN "done" ELSE "write")
  /\ semRead' = [semRead EXCEPT ![p] = semArea[semHeld[p]]] /\ UNCHANGED semArea

LEMMA DataSteps ==
  ASSUME SemShape, Sem!Next \/ UNCHANGED semVars
  PROVE  \/ \E p \in Clients : ClientMove(p) /\ (Writes(p) \/ Reads(p))
         \/ \E p \in Servers : ServerMove(p) /\ (Writes(p) \/ Reads(p))
         \/ UNCHANGED <<semArea, semRead>>
<1> USE ExchangesAssumption DEF Runs
<1>1. ASSUME NEW p \in Clients, ClientMove(p)
      PROVE  Writes(p) \/ Reads(p) \/ UNCHANGED <<semArea, semRead>>
  BY <1>1
  DEF ClientMove, Sem!Start, Sem!GetSem, Does, Attached, semKept, Sem!Write, Sem!Read, Sem!Go, Writes, Reads,
      SemShape, SemPlaces
<1>2. ASSUME NEW p \in Servers, ServerMove(p)
      PROVE  Writes(p) \/ Reads(p) \/ UNCHANGED <<semArea, semRead>>
  <2>1. p \notin Clients
    OBVIOUS
  <2> QED
    BY <1>2, <2>1
    DEF ServerMove, Sem!Start, Sem!GetSem, Does, Attached, semKept, Sem!Write, Sem!Read, Sem!RemoveSegment,
        Sem!Destroy, Sem!Go, Writes, Reads, SemShape, SemPlaces
<1> QED
  BY <1>1, <1>2, SemSteps DEF Fails, semKept, Sem!Killed, Sem!UndoOf, semVars

LEMMA HeldStays ==
  ASSUME SemShape, Sem!Next \/ UNCHANGED semVars, NEW p \in Runs, semAt[p] \notin {"off", "start"}
  PROVE  /\ semHeld'[p] = semHeld[p] /\ semHeld[p] \in DOMAIN semArea
<1>1. semHeld'[p] = semHeld[p]
  BY SegmentSteps DEF Gets, Removes, SemShape, SemFound
<1>2. semHeld[p] \in 1 .. Cardinality(Runs)
  BY RunsFinite, StartedCount DEF SemShape, SemFound, Started
<1> QED
  BY <1>1, <1>2 DEF SemShape, SemData

LEMMA RepliedStays ==
  ASSUME SemShape, semUser = "careful", ValidInv, Sem!Next \/ UNCHANGED semVars, NEW s \in Servers,
         semAt[s] \in Replied
  PROVE  /\ semAt'[s] \in Replied /\ semRead'[s] = semRead[s] /\ semHeld'[s] = semHeld[s]
         /\ semAt[s] = "done" => semAt'[s] = "done"
<1>1. semAt'[s] \in Replied
  BY ServerWay DEF Replied, Serving, Removing
<1>2. semRead'[s] = semRead[s]
  BY DataSteps, ExchangesAssumption DEF Writes, Reads, Replied, Removing, SemShape, SemData, Runs
<1>3. semHeld'[s] = semHeld[s]
  BY HeldStays DEF Replied, Removing, Runs
<1>4. ASSUME semAt[s] = "done"
      PROVE  semAt'[s] = "done"
  <2>1. ~ ServerMove(s)
    BY <1>4 DEF ServerMove, Sem!Start, Sem!GetSem, Does, Attached, Sem!Write, Sem!Read, Sem!RemoveSegment,
                Sem!Destroy, Sem!Go
  <2> QED
    BY <1>4, <2>1, ServerSteps
<1> QED
  BY <1>1, <1>2, <1>3, <1>4

LEMMA OldStays ==
  ASSUME SemShape, semUser = "careful", ValidInv, Sem!Next \/ UNCHANGED semVars, NEW c \in Clients,
         semAt[c] \notin {"off", "start"}
  PROVE  /\ Old(c) => Old(c)'
         /\ Sem!Late(c) => Sem!Late(c)'
         /\ \A s : Answers(s, c) => Answers(s, c)'
<1>1. semHeld'[c] = semHeld[c]
  BY HeldStays DEF Runs
<1>2. Old(c) => Old(c)'
  BY <1>1, RepliedStays DEF Old
<1>3. Sem!Late(c) => Sem!Late(c)'
  BY <1>1, RepliedStays DEF Sem!Late, Replied, Removing
<1>4. \A s : Answers(s, c) => Answers(s, c)'
  BY RepliedStays DEF Answers
<1> QED
  BY <1>2, <1>3, <1>4

(* Whoever is at the shared memory has it for itself.                      *)
LEMMA NoTurn ==
  ASSUME SemShape, RunInv, TokenInv, NEW c \in Clients, Sem!Running(c), semAt[c] # "await"
  PROVE  Quiet
BY NobodyAwaits DEF TokenInv

LEMMA ClientWay ==
  ASSUME SemShape, semUser = "careful", RunInv, Sem!Next \/ UNCHANGED semVars, NEW c \in Clients
  PROVE  /\ semAt[c] \in {"await", "read", "done", "failed"} =>
              semAt'[c] \in {"await", "read", "done", "failed"}
         /\ semAt[c] = "post" => semAt'[c] \in {"post", "await", "failed"}
         /\ semAt'[c] = "post" => semAt[c] = "post" \/ (semAt[c] = "write" /\ ClientMove(c))
         /\ semAt'[c] = "await" => semAt[c] = "await" \/ (ClientMove(c) /\ PostsTurn(c))
         /\ semAt'[c] = "read" => \/ semAt[c] = "read"
                                  \/ semAt[c] = "await" /\ Sem!Valid(c, "sem2") /\ semValue["sem2"] > 0
         /\ semAt'[c] = "done" => semAt[c] = "done" \/ (semAt[c] = "read" /\ Reads(c))
<1>1. CASE ClientMove(c)
  BY <1>1
  DEF ClientMove, Sem!Start, Sem!GetSem, Does, Attached, Sem!Write, Sem!Read, Sem!Go, PostsTurn, Sem!semWait,
      Reads, SemShape, SemPlaces, Runs
<1> QED
  BY <1>1, ClientSteps

LEMMA NextRequestInv ==
  ASSUME SemShape, semUser = "careful", CareInv, RequestInv, Sem!Next \/ UNCHANGED semVars
  PROVE  RequestInv'
<1> USE ExchangesAssumption DEF Runs, CareInv
<1>a. /\ semArea \in [1 .. Cardinality(Runs) -> Runs \cup {Nobody}]
      /\ semRead \in [Runs -> Runs \cup {Nobody}]
  BY DEF SemShape, SemData
<1>b. \A p \in Runs : semAt[p] \in {"read", "write"} => semHeld[p] \in DOMAIN semArea
  BY HeldStays
<1> SUFFICES ASSUME NEW c \in Clients
             PROVE  /\ semAt'[c] \notin {"post", "await", "read", "done", "failed"} =>
                         \A n \in DOMAIN semArea' : semArea'[n] # c
                    /\ semAt'[c] \notin {"await", "read", "done", "failed"} =>
                         \A s \in Servers : semRead'[s] # c
                    /\ semAt'[c] = "post" => semArea'[semHeld'[c]] = c
  BY DEF RequestInv
<1>c. /\ semAt[c] \notin {"post", "await", "read", "done", "failed"} =>
           \A n \in DOMAIN semArea : semArea[n] # c
      /\ semAt[c] \notin {"await", "read", "done", "failed"} => \A s \in Servers : semRead[s] # c
      /\ semAt[c] = "post" => semArea[semHeld[c]] = c
  BY DEF RequestInv
<1>1. ASSUME semAt'[c] \notin {"post", "await", "read", "done", "failed"}
      PROVE  \A n \in DOMAIN semArea' : semArea'[n] # c
  <2>1. semAt[c] \notin {"post", "await", "read", "done", "failed"}
    BY <1>1, ClientWay
  <2> QED
    BY <1>1, <1>a, <1>b, <1>c, <2>1, DataSteps DEF Writes, Reads
<1>2. ASSUME semAt'[c] \notin {"await", "read", "done", "failed"}
      PROVE  \A s \in Servers : semRead'[s] # c
  <2>1. semAt[c] \notin {"await", "read", "done", "failed"}
    BY <1>2, ClientWay
  <2>2. ASSUME NEW p \in Servers, Reads(p)
        PROVE  semArea[semHeld[p]] # c
    <3>1. semAt[p] = "read" /\ Holds(p)
      BY <2>2 DEF Reads, Holds
    <3>2. semAt[c] # "post"
      BY <3>1, NoTurn DEF Quiet, Sem!Running, Sem!Ended
    <3> QED
      BY <1>b, <1>c, <2>1, <3>1, <3>2
  <2> QED
    BY <1>a, <1>c, <2>1, <2>2, DataSteps DEF Writes, Reads
<1>3. ASSUME semAt'[c] = "post"
      PROVE  semArea'[semHeld'[c]] = c
  <2>1. CASE semAt[c] = "write" /\ ClientMove(c)
    <3>1. Writes(c) /\ semHeld'[c] = semHeld[c]
      BY <2>1, HeldStays
      DEF ClientMove, Sem!Start, Sem!GetSem, Does, Attached, Sem!Write, Sem!Read, Sem!Go, Writes, SemShape,
          SemPlaces
    <3> QED
      BY <1>a, <1>b, <2>1, <3>1 DEF Writes
  <2>2. CASE semAt[c] = "post"
    <3>1. semHeld'[c] = semHeld[c]
      BY <2>2, HeldStays
    <3>2. ASSUME NEW p \in Servers, Writes(p)
          PROVE  FALSE
      BY <2>2, <3>2, NoTurn DEF Writes, Holds, Quiet, Sem!Running, Sem!Ended
    <3>3. ASSUME NEW p \in Clients, ClientMove(p), Writes(p)
          PROVE  FALSE
      BY <2>2, <3>3, OneClient DEF Writes, Present, Sem!Running, Sem!Ended
    <3> QED
      BY <1>c, <2>2, <3>1, <3>2, <3>3, DataSteps DEF Reads
  <2> QED
    BY <1>3, <2>1, <2>2, ClientWay
<1> QED
  BY <1>1, <1>2, <1>3

(* The turn comes from sem1, and goes when the reply is posted.            *)
LEMMA TurnBegins ==
  ASSUME SemShape, semUser = "careful", CareInv, Sem!Next \/ UNCHANGED semVars, Quiet, ~ Quiet'
  PROVE  \E p \in Clients : ClientMove(p) /\ PostsTurn(p)
<1>1. ~ TurnStays
  BY QuietStays, NextSemShape
<1>2. \A p \in Servers : ~ TakesTurn(p) /\ ~ TurnIsBack(p)
  <2>1. semValue["sem1"] \in Int
    BY DEF SemShape, SemCount
  <2>2. \A p \in Servers : TakesTurn(p) => semValue["sem1"] > 0
    BY DEF TakesTurn, Does, Sem!semWait
  <2> QED
    BY <2>1, <2>2 DEF Quiet, TurnIsBack, Holds
<1> QED
  BY <1>1, <1>2, TurnSteps DEF CareInv

LEMMA TurnEnds ==
  ASSUME SemShape, semUser = "careful", CareInv, Sem!Next \/ UNCHANGED semVars,
         NEW p \in Servers, semAt[p] = "post", semAt'[p] # "post"
  PROVE  Quiet' /\ semAt'[p] = "asleep"
<1>1. ServerMove(p)
  BY ServerSteps DEF CareInv
<1>2. Does(p, "sem2", Sem!semPost(p, "sem2"), "post", "asleep")
  BY <1>1 DEF ServerMove, Sem!Start, Sem!GetSem, Does, Attached, Sem!Write, Sem!Read, Sem!RemoveSegment,
              Sem!Destroy, Sem!Go
<1>3. /\ semAt'[p] = "asleep" /\ \A s \in Servers : s # p => semAt'[s] = semAt[s]
      /\ semValue'["sem1"] = semValue["sem1"]
      /\ \A s \in Servers : semAdjust'[s]["sem1"] = semAdjust[s]["sem1"]
  BY <1>2 DEF Does, Sem!Go, Sem!semPost, Sem!Add, SemShape, SemPlaces, SemCount, Runs
<1>4. Holds(p)
  BY DEF Holds
<1> QED
  BY <1>3, <1>4 DEF Quiet, Holds, CareInv, TokenInv

LEMMA NextAnswerInv ==
  ASSUME SemShape, semUser = "careful", CareInv, SemReplyInv, Sem!Next \/ UNCHANGED semVars
  PROVE  AnswerInv'
<1> USE ExchangesAssumption DEF Runs, CareInv, SemReplyInv
<1>a. /\ semArea \in [1 .. Cardinality(Runs) -> Runs \cup {Nobody}]
      /\ semRead \in [Runs -> Runs \cup {Nobody}]
  BY DEF SemShape, SemData
<1> SUFFICES ASSUME NEW c \in Clients, semAt'[c] = "await", ~ Quiet'
             PROVE  /\ \A s \in Servers : semAt'[s] \in Replied => semRead'[s] # c
                    /\ \/ Old(c)'
                       \/ /\ (\A s \in Servers : semAt'[s] # "post") => semArea'[semHeld'[c]] = c
                          /\ \A s \in Servers : semAt'[s] = "write" => semRead'[s] = c
                          /\ \A s \in Servers : semAt'[s] = "post" =>
                               semArea'[semHeld'[c]] = s /\ semRead'[s] = c
  BY DEF AnswerInv
<1>1. CASE Quiet
  <2>1. PICK p \in Clients : ClientMove(p) /\ PostsTurn(p)
    BY <1>1, TurnBegins
  <2>2. p = c
    BY <2>1, OneClient, SemOthers DEF Present, Sem!Running, Sem!Ended
  <2>3. semAt[c] = "post" /\ UNCHANGED <<semArea, semRead, semHeld>>
    BY <2>1, <2>2 DEF PostsTurn, Does, Sem!Go, semKept
  <2>4. \A s \in Servers : semAt'[s] = semAt[s] /\ semAt[s] \notin {"write", "post"}
    BY <1>1, <2>1, SemOthers DEF Quiet, Holds
  <2> QED
    BY <2>3, <2>4 DEF RequestInv
<1>2. CASE ~ Quiet
  <2>1. semAt[c] = "await"
    <3>1. CASE ClientMove(c) /\ PostsTurn(c)
      <4>1. Sem!Running(c) /\ semAt[c] # "await"
        BY <3>1 DEF PostsTurn, Does, Sem!Go, Sem!Running, Sem!Ended
      <4> QED
        BY <1>2, <4>1, NoTurn
    <3> QED
      BY <3>1, ClientWay
  <2>2. \A s \in Servers : semAt[s] \in Replied => semRead[s] # c
    BY <1>2, <2>1 DEF AnswerInv
  <2>3. \A s \in Servers : semAt[s] = "post" => semAt'[s] = "post"
    BY TurnEnds
  <2>4. \A s \in Servers : semAt'[s] \in Replied => semAt[s] \in Replied
    BY <2>3, ServerWay DEF Replied, Serving, Removing
  <2>5. \A s \in Servers : semAt'[s] \in Replied => semRead'[s] # c
    BY <2>2, <2>4, RepliedStays
  <2>6. Old(c) => Old(c)'
    BY <2>1, OldStays
  <2>7. ASSUME ~ Old(c)
        PROVE  /\ (\A s \in Servers : semAt'[s] # "post") => semArea'[semHeld'[c]] = c
               /\ \A s \in Servers : semAt'[s] = "write" => semRead'[s] = c
               /\ \A s \in Servers : semAt'[s] = "post" =>
                    semArea'[semHeld'[c]] = s /\ semRead'[s] = c
    <3>1. /\ (\A s \in Servers : semAt[s] # "post") => semArea[semHeld[c]] = c
          /\ \A s \in Servers : semAt[s] = "write" => semRead[s] = c
          /\ \A s \in Servers : semAt[s] = "post" => semArea[semHeld[c]] = s /\ semRead[s] = c
      BY <1>2, <2>1, <2>7 DEF AnswerInv
    <3>2. semHeld[c] = semKey
      BY <2>1, <2>2, <2>7 DEF SegmentInv, Serving, Removing, Old, Replied
    <3>3. semHeld'[c] = semHeld[c] /\ semHeld[c] \in DOMAIN semArea
      BY <2>1, HeldStays
    <3>4. \A p \in Clients : ~ (ClientMove(p) /\ (Writes(p) \/ Reads(p)))
      <4>1. ASSUME NEW p \in Clients, ClientMove(p), Writes(p) \/ Reads(p)
            PROVE  FALSE
        BY <2>1, <4>1, OneClient DEF Writes, Reads, Present, Sem!Running, Sem!Ended
      <4> QED
        BY <4>1
    <3>5. \A s \in Servers : /\ semAt'[s] = "write" => semAt[s] = "write" \/ semAt[s] = "read"
                             /\ semAt'[s] = "post" => semAt[s] = "post" \/ semAt[s] = "write"
      <4> SUFFICES ASSUME NEW s \in Servers
                   PROVE  /\ semAt'[s] = "write" => semAt[s] = "write" \/ semAt[s] = "read"
                          /\ semAt'[s] = "post" => semAt[s] = "post" \/ semAt[s] = "write"
        OBVIOUS
      <4>1. CASE ServerMove(s)
        BY <4>1 DEF ServerMove, Sem!Start, Sem!GetSem, Does, Attached, Sem!Write, Sem!Read,
                    Sem!RemoveSegment, Sem!Destroy, Sem!Go, SemShape, SemPlaces
      <4> QED
        BY <4>1, ServerSteps
    <3>6. CASE \E p \in Servers : ServerMove(p) /\ Writes(p)
      <4>1. PICK p \in Servers : ServerMove(p) /\ Writes(p)
        BY <3>6
      <4>2. semHeld[p] = semKey /\ semRead[p] = c
        BY <3>1, <4>1 DEF Writes, SegmentInv, Serving, Removing
      <4>3. semArea'[semHeld'[c]] = p /\ semRead'[p] = c /\ semAt'[p] = "post"
        BY <1>a, <3>2, <3>3, <4>1, <4>2 DEF Writes
      <4>4. \A s \in Servers : s # p => semAt'[s] \notin {"write", "post"}
        BY <4>1, OneServer, SemOthers DEF Present, Sem!Running, Sem!Ended
      <4> QED
        BY <4>3, <4>4
    <3>7. CASE \E p \in Servers : ServerMove(p) /\ Reads(p)
      <4>1. PICK p \in Servers : ServerMove(p) /\ Reads(p)
        BY <3>7
      <4>2. \A s \in Servers : s # p => semAt[s] \notin {"read", "write", "post"}
        BY <4>1, OneServer DEF Present, Sem!Running, Sem!Ended
      <4>3. semHeld[p] = semKey /\ semArea[semHeld[c]] = c
        BY <3>1, <4>1, <4>2 DEF Reads, SegmentInv, Serving, Removing
      <4>4. semArea'[semHeld'[c]] = c /\ semRead'[p] = c /\ semAt'[p] = "write"
        BY <1>a, <3>2, <3>3, <4>1, <4>3 DEF Reads
      <4>5. \A s \in Servers : s # p => semAt'[s] \notin {"write", "post"}
        BY <4>1, <4>2, SemOthers
      <4> QED
        BY <4>4, <4>5
    <3>8. CASE UNCHANGED <<semArea, semRead>>
      <4>1. ASSUME NEW s \in Servers, semAt[s] = "write", semAt'[s] = "post"
            PROVE  FALSE
        <5>1. ServerMove(s)
          BY <4>1, ServerSteps
        <5>2. Writes(s)
          BY <4>1, <5>1
          DEF ServerMove, Sem!Start, Sem!GetSem, Does, Attached, Sem!Write, Sem!Read, Sem!RemoveSegment,
              Sem!Destroy, Sem!Go, Writes
        <5>3. semHeld[s] = semKey /\ s # c
          BY <4>1 DEF SegmentInv, Serving, Removing
        <5>4. semArea'[semHeld[c]] = s
          BY <1>a, <3>2, <3>3, <5>2, <5>3 DEF Writes
        <5>5. \A t \in Servers : semAt[t] # "post"
          BY <4>1, <5>1, OneServer DEF Present, Sem!Running, Sem!Ended
        <5> QED
          BY <3>1, <3>8, <5>3, <5>4, <5>5
      <4>2. ASSUME NEW s \in Servers, semAt[s] = "read", semAt'[s] = "write"
            PROVE  semRead'[s] = c
        <5>1. ServerMove(s)
          BY <4>2, ServerSteps
        <5>2. Reads(s)
          BY <4>2, <5>1
          DEF ServerMove, Sem!Start, Sem!GetSem, Does, Attached, Sem!Write, Sem!Read, Sem!RemoveSegment,
              Sem!Destroy, Sem!Go, Reads
        <5> QED
          BY <3>7, <5>1, <5>2, <4>2, <3>1, <3>2, <3>3, <1>a, OneServer
          DEF Reads, SegmentInv, Serving, Removing, Present, Sem!Running, Sem!Ended
      <4>3. (\A s \in Servers : semAt'[s] # "post") => \A s \in Servers : semAt[s] # "post"
        BY <2>3
      <4> QED
        BY <3>1, <3>3, <3>5, <3>8, <4>1, <4>2, <4>3
    <3> QED
      BY <3>4, <3>6, <3>7, <3>8, DataSteps
  <2> QED
    BY <2>5, <2>6, <2>7
<1> QED
  BY <1>1, <1>2

LEMMA NextHeardInv ==
  ASSUME SemShape, semUser = "careful", CareInv, SemReplyInv, Sem!Next \/ UNCHANGED semVars
  PROVE  HeardInv'
<1> USE ExchangesAssumption DEF Runs, CareInv, SemReplyInv
<1>a. /\ semArea \in [1 .. Cardinality(Runs) -> Runs \cup {Nobody}]
      /\ semRead \in [Runs -> Runs \cup {Nobody}]
  BY DEF SemShape, SemData
<1>c. semValue["sem2"] \in Int /\ semValue'["sem2"] \in Int
  BY NextSemShape DEF SemShape, SemCount
<1>b. \A c \in Clients : semAt[c] \in {"post", "await", "read", "done"} =>
        /\ Sem!Late(c) => Sem!Late(c)'
        /\ \A s : Answers(s, c) => Answers(s, c)'
        /\ semHeld'[c] = semHeld[c]
  BY OldStays, HeldStays
<1>1. ASSUME NEW c \in Clients, semAt[c] \in {"await", "read"}, Quiet
      PROVE  semArea' = semArea
  <2>1. ASSUME NEW p \in Servers, Writes(p)
        PROVE  FALSE
    BY <1>1, <2>1 DEF Writes, Holds, Quiet
  <2>2. ASSUME NEW p \in Clients, ClientMove(p), Writes(p)
        PROVE  FALSE
    BY <1>1, <2>2, OneClient DEF Writes, Present, Sem!Running, Sem!Ended
  <2> QED
    BY <2>1, <2>2, DataSteps DEF Reads
<1>2. ASSUME NEW c \in Clients,
             \/ semAt[c] = "read"
             \/ semAt[c] = "await" /\ Sem!Valid(c, "sem2") /\ semValue["sem2"] > 0
      PROVE  /\ Answers(semArea[semHeld[c]], c)' \/ Sem!Late(c)'
             /\ semArea' = semArea
  <2>1. Answers(semArea[semHeld[c]], c) \/ Sem!Late(c)
    BY <1>2 DEF HeardInv
  <2>2. Quiet
    BY <1>2, NoTurn DEF ReplyInv, ReplyOf, Sem!Running, Sem!Ended
  <2>3. semArea' = semArea
    BY <1>1, <1>2, <2>2
  <2> QED
    BY <1>2, <1>b, <2>1, <2>3 DEF Answers
<1>3. ASSUME NEW c \in Clients, semAt'[c] = "read"
      PROVE  Answers(semArea[semHeld[c]], c)' \/ Sem!Late(c)'
  BY <1>2, <1>3, ClientWay
<1>4. ASSUME NEW c \in Clients, semAt'[c] = "await", Sem!Valid(c, "sem2")', semValue'["sem2"] > 0
      PROVE  Answers(semArea[semHeld[c]], c)' \/ Sem!Late(c)'
  <2>1. Sem!Valid(c, "sem2")
    BY <1>4, ValidWas DEF GetsSem, Sem!GetSem, Sem!Go, SemShape, SemPlaces
  <2>2. semAt[c] = "await"
    <3>1. CASE ClientMove(c) /\ PostsTurn(c)
      <4>1. semAt[c] = "post" /\ semValue'["sem2"] = semValue["sem2"]
        BY <3>1 DEF PostsTurn, Does, Sem!Go, Sem!semPost, Sem!Add, SemShape, SemCount
      <4> QED
        BY <1>a, <1>c, <1>4, <2>1, <4>1 DEF ReplyInv, ReplyOf
    <3> QED
      BY <1>4, <3>1, ClientWay
  <2>3. CASE semValue["sem2"] > 0
    BY <1>2, <2>1, <2>2, <2>3
  <2>4. CASE ~ (semValue["sem2"] > 0)
    <3>1. PICK p \in Servers :
            ServerMove(p) /\ Does(p, "sem2", Sem!semPost(p, "sem2"), "post", "asleep")
      <4>1. ASSUME NEW p \in Clients, ClientMove(p)
            PROVE  FALSE
        <5>1. p = c
          BY <2>2, <4>1, OneClient DEF Present, Sem!Running, Sem!Ended
        <5> QED
          BY <1>4, <2>2, <4>1, <5>1
          DEF ClientMove, Sem!Start, Sem!GetSem, Does, Attached, Sem!Write, Sem!Read, Sem!Go, SemShape,
              SemPlaces
      <4>2. ASSUME NEW p \in Servers, ServerMove(p),
                   ~ Does(p, "sem2", Sem!semPost(p, "sem2"), "post", "asleep")
            PROVE  semValue'["sem2"] \in {semValue["sem2"], -1}
        <5>1. semValue["sem2"] # -1
          BY <2>1 DEF Sem!Valid, Sem!NoSem
        <5> QED
          BY <4>2, <5>1
          DEF ServerMove, Sem!Start, Sem!GetSem, Does, Attached, Sem!Write, Sem!Read, Sem!RemoveSegment,
              Sem!Destroy, Sem!semDestroy, Sem!NoSem, Sem!semInit, Sem!semlibVars, Sem!semWait,
              Sem!Add, SemShape, SemCount
      <4>3. ASSUME NEW p \in Runs, Sem!UndoOf(p)
            PROVE  semValue'["sem2"] <= semValue["sem2"] \/ semValue'["sem2"] <= 0
        <5>1. PICK y \in {"sem1", "sem2"} : Sem!Undo(p, y)
          BY <4>3 DEF Sem!UndoOf
        <5>2. Sem!Ended(p) /\ semAdjust[p][y] # 0
          BY <4>3, <5>1 DEF Sem!UndoOf, Sem!Undo
        <5>3. p \in Servers
          <6>1. Present(p) /\ Present(c) /\ p # c
            BY <2>2, <5>2 DEF Present, Sem!Cleared, Sem!Running, Sem!Ended
          <6> QED
            BY <6>1 DEF RunInv
        <5>4. semAdjust[p]["sem2"] \in Int /\ semAdjust[p]["sem2"] <= 0
          BY <5>3 DEF AdjustInv, SemShape, SemCount
        <5>5. semValue'["sem2"] \in {semValue["sem2"], 0, semValue["sem2"] + semAdjust[p]["sem2"]}
          BY <5>1 DEF Sem!Undo, SemShape, SemCount
        <5> QED
          BY <1>c, <5>4, <5>5
      <4>4. ASSUME NEW p \in Runs, Fails(p) \/ Sem!Killed(p)
            PROVE  semValue' = semValue
        BY <4>4 DEF Fails, Sem!Killed, Sem!semlibVars
      <4>5. ~ (semValue'["sem2"] <= semValue["sem2"] \/ semValue'["sem2"] <= 0)
        BY <1>a, <1>c, <1>4, <2>4
      <4>6. semValue'["sem2"] \notin {semValue["sem2"], -1}
        BY <1>c, <4>5
      <4> QED
        BY <4>1, <4>2, <4>3, <4>4, <4>5, <4>6, SemSteps DEF semVars
    <3>2. /\ semAt[p] = "post" /\ semAt'[p] = "asleep" /\ Holds(p)
          /\ UNCHANGED <<semArea, semRead, semHeld>>
      BY <3>1 DEF Does, Sem!Go, semKept, Holds, SemShape, SemPlaces
    <3>3. ~ Quiet
      BY <3>2 DEF Quiet
    <3>4. CASE Old(c)
      <4>1. PICK s \in Servers : semHeld[s] = semHeld[c] /\ semAt[s] \in Replied /\ semRead[s] # c
        BY <3>4 DEF Old
      <4>2. s # p
        BY <3>2, <4>1 DEF Replied, Removing
      <4>3. semAt[s] = "done"
        BY <3>1, <4>1, <4>2, OneServer DEF Replied, Removing, Present, Sem!Running, Sem!Ended
      <4>4. Sem!Late(c)
        BY <4>1, <4>3 DEF Sem!Late
      <4> QED
        BY <1>b, <2>2, <4>4
    <3>5. CASE ~ Old(c)
      <4>1. semArea[semHeld[c]] = p /\ semRead[p] = c
        BY <2>2, <3>2, <3>3, <3>5 DEF AnswerInv
      <4>2. semArea'[semHeld'[c]] = p /\ semRead'[p] = c
        BY <3>2, <4>1
      <4> QED
        BY <3>2, <4>2 DEF Answers, Replied, Removing
    <3> QED
      BY <3>4, <3>5
  <2> QED
    BY <2>3, <2>4
<1>5. ASSUME NEW c \in Clients, semAt'[c] = "done"
      PROVE  Answers(semRead[c], c)' \/ Sem!Late(c)'
  <2>1. CASE semAt[c] = "done"
    <3>1. semRead'[c] = semRead[c]
      BY <1>a, <2>1, DataSteps DEF Writes, Reads
    <3>2. Answers(semRead[c], c) \/ Sem!Late(c)
      BY <2>1 DEF HeardInv
    <3> QED
      BY <1>b, <2>1, <3>1, <3>2 DEF Answers
  <2>2. CASE semAt[c] = "read" /\ Reads(c)
    <3>1. semRead'[c] = semArea'[semHeld'[c]]
      BY <1>a, <1>b, <2>2 DEF Reads
    <3> QED
      BY <1>2, <2>2, <3>1 DEF Answers
  <2> QED
    BY <1>5, <2>1, <2>2, ClientWay
<1> QED
  BY <1>3, <1>4, <1>5 DEF HeardInv, Answers

LEMMA StartOfSem == Init => Sem!Init \/ Sem!NotRun
BY DEF Init

LEMMA StepOfSem == [Next]_vars => Sem!Next \/ UNCHANGED semVars
BY DEF Next, vars, FlagStep, SemStep, ThreadsStep, TurnsStep, QueueStep, FifoStep,
       PairStep, SocketsStep

LEMMA InitSemInv == Init => SemInv
<1> SUFFICES ASSUME Sem!Init \/ Sem!NotRun
             PROVE  SemInv
  BY StartOfSem
<1>1. SemShape
  BY InitSem
<1>2. /\ \A p \in Runs : semAt[p] \in {"off", "start"}
      /\ \A p \in Runs : semAdjust[p] = [s \in {"sem1", "sem2"} |-> 0]
      /\ \A p \in Runs : semRead[p] = Nobody
      /\ \A n \in DOMAIN semArea : semArea[n] = Nobody
      /\ semValue = [s \in {"sem1", "sem2"} |-> -1]
  BY DEF Sem!Init, Sem!NotRun, Sem!InitAt, Sem!SemlibInit, Sem!NoSem, Runs
<1>3. \A p \in Runs : ~ Present(p)
  BY <1>2 DEF Present, Sem!Running, Sem!Cleared
<1>4. RunInv /\ AdjustInv
  BY <1>2, <1>3 DEF RunInv, AdjustInv, Runs, Sem!Running
<1>5. ValidInv /\ TokenInv /\ ReplyInv
  BY <1>2 DEF ValidInv, TokenInv, ReplyInv, ReplyOf, Quiet, Holds, Runs
<1>6. SegmentInv /\ AnswerInv /\ HeardInv
  BY <1>2 DEF SegmentInv, Serving, Removing, AnswerInv, HeardInv, Runs
<1>7. RequestInv
  BY <1>2, ExchangesAssumption DEF RequestInv, Runs
<1> QED
  BY <1>1, <1>4, <1>5, <1>6, <1>7 DEF SemInv, CareInv, SemReplyInv

LEMMA NextSemInv == SemInv /\ [Next]_vars => SemInv'
<1> SUFFICES ASSUME SemInv, Sem!Next \/ UNCHANGED semVars
             PROVE  SemInv'
  BY StepOfSem
<1>1. SemShape' /\ UNCHANGED semUser
  BY NextSemShape, SemUserStays DEF SemInv
<1>2. ASSUME semUser = "careful"
      PROVE  CareInv' /\ SemReplyInv'
  <2>1. SemShape /\ CareInv /\ SemReplyInv
    BY <1>2 DEF SemInv
  <2>2. CareInv'
    BY <1>2, <2>1, NextCareInv
  <2>3. SegmentInv' /\ RequestInv'
    BY <1>2, <2>1, NextSegmentInv, NextRequestInv DEF SemReplyInv
  <2>4. AnswerInv' /\ HeardInv'
    BY <1>2, <2>1, NextAnswerInv, NextHeardInv
  <2> QED
    BY <2>2, <2>3, <2>4 DEF SemReplyInv
<1> QED
  BY <1>1, <1>2 DEF SemInv

LEMMA SemExcludes == SemInv => Sem!Exclusion /\ Sem!RepliesMatch
<1> SUFFICES ASSUME SemInv, semUser = "careful"
             PROVE  /\ \A c \in Clients, s \in Servers :
                         ~ /\ semAt[c] \in {"write", "post", "read"}
                           /\ semAt[s] \in {"read", "write", "post"}
                    /\ \A c \in Clients : semAt[c] = "done" =>
                         (semRead[c] \in Servers /\ semRead[semRead[c]] = c) \/ Sem!Late(c)
  BY DEF Sem!Exclusion, Sem!RepliesMatch
<1>1. SemShape /\ RunInv /\ TokenInv /\ HeardInv
  BY DEF SemInv, CareInv, SemReplyInv
<1>2. ASSUME NEW c \in Clients, NEW s \in Servers,
             semAt[c] \in {"write", "post", "read"}, semAt[s] \in {"read", "write", "post"}
      PROVE  FALSE
  <2>1. ~ Quiet
    BY <1>2 DEF Quiet, Holds
  <2> QED
    BY <1>1, <1>2, <2>1, NoTurn DEF Sem!Running, Sem!Ended
<1>3. \A c \in Clients : semAt[c] = "done" =>
        (semRead[c] \in Servers /\ semRead[semRead[c]] = c) \/ Sem!Late(c)
  BY <1>1 DEF HeardInv, Answers
<1> QED
  BY <1>2, <1>3

----------------------------------------------------------------------------
(* HW8/sipc1.c and sipc2.c: the segments that were made, ...               *)
FlagFound ==
  /\ flagMade \in Nat /\ flagKey \in 0 .. flagMade
  /\ flagMade <= Cardinality(Started(Runs, flagAt))
  /\ flagHeld \in [Runs -> Nat]
  /\ \A p \in Runs : flagHeld[p] <= flagMade
  /\ \A p \in Started(Runs, flagAt) : flagHeld[p] > 0

FlagPlaces ==
  /\ flagAt \in [Runs -> {"off", "start", "attach", "spin", "read", "write", "raise", "lower",
                          "asleep", "done", "failed"}]
  /\ \A p \in Clients : flagAt[p] \notin {"lower", "asleep"}
  /\ \A p \in Servers : flagAt[p] # "raise"

Cells == 1 .. Cardinality(Runs)

FlagData ==
  /\ flagFlag \in [Cells -> {0, 1}]
  /\ flagArea \in [Cells -> Runs \cup {Nobody}]
  /\ flagRead \in [Runs -> Runs \cup {Nobody}]

FlagShape == FlagFound /\ FlagPlaces /\ FlagData

(* ... each for one sipc1, ...                                             *)
Works(p) == flagAt[p] \notin {"off", "start", "done", "failed"}

OneEach ==
  /\ \A p, q \in Clients : Works(p) /\ Works(q) => p = q
  /\ \A p, q \in Servers : Works(p) /\ Works(q) => p = q

ItsSegment ==
  \A s \in Servers : /\ Works(s) => flagHeld[s] = flagKey
                     /\ flagAt[s] = "done" => flagHeld[s] # flagKey
                     /\ flagAt[s] # "failed"

ServerEach == \A s, t \in Started(Servers, flagAt) : flagHeld[s] = flagHeld[t] => s = t

FlagRuns == OneEach /\ ItsSegment /\ ServerEach

(* ... and the flag of each, up only while a sipc2 spins on it.            *)
FlagUp ==
  /\ \A n \in Cells :
       flagFlag[n] = 1 => \E c \in Clients : flagAt[c] = "spin" /\ flagHeld[c] = n
  /\ \A s \in Servers : flagAt[s] \in {"read", "write", "lower"} => flagFlag[flagHeld[s]] = 1

(* The request is there and read by nobody until the flag is raised, ...   *)
FlagRequest ==
  \A c \in Clients :
    /\ flagAt[c] \notin {"raise", "spin", "read", "done"} => \A n \in Cells : flagArea[n] # c
    /\ flagAt[c] \notin {"spin", "read", "done"} => \A s \in Servers : flagRead[s] # c
    /\ flagAt[c] = "raise" => flagArea[flagHeld[c]] = c

(* ... is what sipc1 reads while it is up, and the reply is there when it  *)
(* is down.                                                                *)
Replies(s, c) == s \in Servers /\ flagRead[s] = c /\ flagAt[s] \in {"asleep", "done"}

Pending(c) ==
  flagAt[c] = "spin" /\ flagFlag[flagHeld[c]] = 1 =>
    /\ \/ flagArea[flagHeld[c]] = c
       \/ \E s \in Servers : flagHeld[s] = flagHeld[c] /\ flagAt[s] = "lower"
    /\ \A s \in Servers : flagHeld[s] = flagHeld[c] =>
         /\ flagAt[s] = "write" => flagRead[s] = c
         /\ flagAt[s] = "lower" => flagRead[s] = c /\ flagArea[flagHeld[c]] = s

Answered(c) ==
  \/ flagAt[c] = "spin" /\ flagFlag[flagHeld[c]] = 0
  \/ flagAt[c] = "read"
  => Replies(flagArea[flagHeld[c]], c)

FlagAnswer ==
  \A c \in Clients : /\ Pending(c)
                     /\ Answered(c)
                     /\ flagAt[c] = "done" => Replies(flagRead[c], c)

FlagsInv == FlagShape /\ FlagRuns /\ FlagUp /\ FlagRequest /\ FlagAnswer

LEMMA StartOfFlag == Init => Flag!Init \/ Flag!NotRun
BY DEF Init

LEMMA StepOfFlag == [Next]_vars => Flag!Next \/ UNCHANGED flagVars
BY DEF Next, vars, FlagStep, SemStep, ThreadsStep, TurnsStep, QueueStep, FifoStep,
       PairStep, SocketsStep

LEMMA FlagSegments == Flag!Segments = Cells
BY DEF Cells, Flag!Segments, Flag!Processes, Runs, Cardinality, Flag!Cardinality

LEMMA InitFlag == Init => FlagsInv
<1> SUFFICES ASSUME Flag!Init \/ Flag!NotRun
             PROVE  FlagsInv
  BY StartOfFlag
<1>1. /\ \A p \in Runs : flagAt[p] \in {"off", "start"}
      /\ flagAt \in [Runs -> {"off", "start"}]
      /\ flagKey = 0 /\ flagMade = 0 /\ flagHeld = [p \in Runs |-> 0]
      /\ flagFlag = [s \in Cells |-> 0]
      /\ flagArea = [s \in Cells |-> Nobody]
      /\ flagRead = [p \in Runs |-> Nobody]
  BY FlagSegments
  DEF Flag!Init, Flag!NotRun, Flag!InitAt, Flag!IpcInit, Flag!NoObject, Flag!Processes, Runs
<1>2. Cardinality(Started(Runs, flagAt)) \in Nat
  BY RunsFinite, StartedCount
<1>3. Started(Runs, flagAt) = {} /\ Started(Servers, flagAt) = {}
  BY <1>1 DEF Started, Runs
<1>4. FlagFound
  BY <1>1, <1>2, <1>3 DEF FlagFound
<1>5. FlagPlaces /\ FlagData
  BY <1>1 DEF FlagPlaces, FlagData, Runs
<1>6. FlagRuns
  BY <1>1, <1>3 DEF FlagRuns, OneEach, ItsSegment, ServerEach, Works, Runs
<1>7. FlagUp /\ FlagAnswer
  BY <1>1 DEF FlagUp, FlagAnswer, Pending, Answered, Runs
<1>8. FlagRequest
  BY <1>1, ExchangesAssumption DEF FlagRequest, Runs
<1> QED
  BY <1>4, <1>5, <1>6, <1>7, <1>8 DEF FlagsInv, FlagShape

(* What a step does, for one of the runs.                                  *)
Attaches(p) ==
  /\ flagAt[p] = "start" /\ flagAt' = [flagAt EXCEPT ![p] = "attach"]
  /\ flagKey' = (IF flagKey = 0 THEN flagMade + 1 ELSE flagKey)
  /\ flagMade' = (IF flagKey = 0 THEN flagMade + 1 ELSE flagMade)
  /\ flagHeld' = [flagHeld EXCEPT ![p] = flagKey']
  /\ UNCHANGED <<flagFlag, flagArea, flagRead>>

Maps(p) ==
  /\ flagAt[p] = "attach"
  /\ flagAt' = [flagAt EXCEPT ![p] = IF flagHeld[p] # flagKey THEN "failed"
                                     ELSE IF p \in Clients THEN "write" ELSE "spin"]
  /\ UNCHANGED <<flagKey, flagMade, flagHeld, flagFlag, flagArea, flagRead>>

Detaches(p) ==
  /\ flagAt[p] = "asleep" /\ flagAt' = [flagAt EXCEPT ![p] = "done"]
  /\ flagKey' = 0
  /\ UNCHANGED <<flagMade, flagHeld, flagFlag, flagArea, flagRead>>

Acts(p) ==
  \/ p \in Servers /\ \/ Flag!SpinUntil(p, 1, "spin", "read")
                      \/ Flag!Read(p, "read", "write")
                      \/ Flag!Write(p, "write", "lower")
                      \/ Flag!SetFlag(p, 0, "lower", "asleep")
  \/ p \in Clients /\ \/ Flag!Write(p, "write", "raise")
                      \/ Flag!SetFlag(p, 1, "raise", "spin")
                      \/ Flag!SpinUntil(p, 0, "spin", "read")
                      \/ Flag!Read(p, "read", "done")

Alone(p) ==
  /\ p \in Clients => \A q \in Clients : ~ Works(q)
  /\ p \in Servers => \A q \in Servers : ~ Works(q)

LEMMA FlagSteps ==
  ASSUME FlagPlaces, Flag!Next \/ UNCHANGED flagVars
  PROVE  \/ \E p \in Runs :
              /\ \/ Attaches(p) /\ Alone(p)
                 \/ Maps(p)
                 \/ Acts(p)
                 \/ p \in Servers /\ Detaches(p)
              /\ \A q \in Runs : q # p => flagAt'[q] = flagAt[q]
         \/ UNCHANGED flagVars
<1> USE ExchangesAssumption DEF Runs, Flag!Go, Flag!ipcVars
<1>1. ASSUME NEW p \in Clients, Flag!Start(p, Clients) \/ Flag!Attach(p, "write") \/ Flag!Client(p)
      PROVE  /\ Attaches(p) \/ Maps(p) \/ Acts(p)
             /\ \A q \in Runs : q # p => flagAt'[q] = flagAt[q]
             /\ Attaches(p) => Alone(p)
  <2>1. CASE Flag!Start(p, Clients)
    BY <2>1 DEF Flag!Start, Flag!GetOrMake, Flag!NoObject, Flag!Ended, Attaches, Alone, Works, FlagPlaces
  <2>2. CASE Flag!Client(p)
    <3>1. Acts(p) /\ flagAt[p] # "start"
      BY <2>2 DEF Flag!Client, Acts, Flag!Read, Flag!Write, Flag!SetFlag, Flag!SpinUntil
    <3>2. \A q \in Runs : q # p => flagAt'[q] = flagAt[q]
      BY <2>2 DEF Flag!Client, Flag!Read, Flag!Write, Flag!SetFlag, Flag!SpinUntil, FlagPlaces
    <3> QED
      BY <3>1, <3>2 DEF Attaches
  <2>3. CASE Flag!Attach(p, "write")
    BY <2>3 DEF Flag!Attach, Maps, Attaches, FlagPlaces
  <2> QED
    BY <1>1, <2>1, <2>2, <2>3
<1>2. ASSUME NEW p \in Servers, Flag!Start(p, Servers) \/ Flag!Attach(p, "spin") \/ Flag!Server(p)
      PROVE  /\ Attaches(p) \/ Maps(p) \/ Acts(p) \/ Detaches(p)
             /\ \A q \in Runs : q # p => flagAt'[q] = flagAt[q]
             /\ Attaches(p) => Alone(p)
  <2>1. CASE Flag!Start(p, Servers)
    <3>1. p \notin Clients
      OBVIOUS
    <3> QED
      BY <2>1, <3>1
      DEF Flag!Start, Flag!GetOrMake, Flag!NoObject, Flag!Ended, Attaches, Alone, Works, FlagPlaces
  <2>2. CASE Flag!Server(p)
    <3>1. (Acts(p) \/ Detaches(p)) /\ flagAt[p] # "start"
      BY <2>2 DEF Flag!Server, Acts, Detaches, Flag!Read, Flag!Write, Flag!SetFlag, Flag!SpinUntil,
                  Flag!RemoveSegment, Flag!Remove, Flag!NoObject
    <3>2. \A q \in Runs : q # p => flagAt'[q] = flagAt[q]
      BY <2>2 DEF Flag!Server, Flag!Read, Flag!Write, Flag!SetFlag, Flag!SpinUntil,
                  Flag!RemoveSegment, FlagPlaces
    <3> QED
      BY <3>1, <3>2 DEF Attaches
  <2>3. CASE Flag!Attach(p, "spin")
    BY <2>3 DEF Flag!Attach, Maps, Attaches, FlagPlaces
  <2> QED
    BY <1>2, <2>1, <2>2, <2>3
<1> QED
  BY <1>1, <1>2 DEF Flag!Next

LEMMA NextFlagShape ==
  ASSUME FlagShape, Flag!Next \/ UNCHANGED flagVars
  PROVE  FlagShape'
<1> USE ExchangesAssumption DEF Runs, FlagShape
<1>1. \A p \in Runs : flagAt[p] \notin {"off", "start"} => flagHeld[p] \in Cells
  BY RunsFinite, StartedCount DEF FlagFound, Started, Cells
<1>2. CASE UNCHANGED flagVars
  BY <1>2 DEF flagVars, FlagFound, FlagPlaces, FlagData, Started
<1>3. ASSUME NEW p \in Runs, Attaches(p)
      PROVE  FlagShape'
  <2>1. /\ flagAt'[p] \notin {"off", "start"} /\ \A q \in Runs \ {p} : flagAt'[q] = flagAt[q]
        /\ flagAt[p] \in {"off", "start"}
    BY <1>3 DEF Attaches, FlagPlaces
  <2>2. Cardinality(Started(Runs, flagAt')) = Cardinality(Started(Runs, flagAt)) + 1
    BY <2>1, StartedMoves, RunsFinite
  <2>3. Started(Runs, flagAt)' = Started(Runs, flagAt') /\ Started(Runs, flagAt') = Started(Runs, flagAt) \cup {p}
    BY <2>1 DEF Started
  <2>4. Cardinality(Started(Runs, flagAt)) \in Nat
    BY StartedCount, RunsFinite
  <2>5. (flagMade \in Nat /\ flagKey \in 0 .. flagMade)' /\ flagKey' > 0
    BY <1>3 DEF Attaches, FlagFound
  <2>6. (flagMade <= Cardinality(Started(Runs, flagAt)))'
    BY <1>3, <2>2, <2>3, <2>4 DEF Attaches, FlagFound
  <2>7. (flagHeld \in [Runs -> Nat] /\ \A q \in Runs : flagHeld[q] <= flagMade)'
    BY <1>3, <2>5 DEF Attaches, FlagFound
  <2>8. (\A q \in Started(Runs, flagAt) : flagHeld[q] > 0)'
    <3>1. flagHeld'[p] = flagKey' /\ \A q \in Runs : q # p => flagHeld'[q] = flagHeld[q]
      BY <1>3 DEF Attaches, FlagFound
    <3>2. Started(Runs, flagAt) \subseteq Runs
      BY DEF Started
    <3> QED
      BY <2>3, <2>5, <3>1, <3>2 DEF FlagFound
  <2>9. FlagPlaces' /\ FlagData'
    BY <1>3 DEF Attaches, FlagPlaces, FlagData
  <2> QED
    BY <2>5, <2>6, <2>7, <2>8, <2>9 DEF FlagFound
<1>4. ASSUME NEW p \in Runs, Maps(p) \/ Acts(p) \/ (p \in Servers /\ Detaches(p))
      PROVE  FlagShape'
  <2> USE DEF Flag!Go, Flag!ipcVars
  <2>1. /\ flagAt[p] \notin {"off", "start"}
        /\ \E to : to \notin {"off", "start"} /\ flagAt' = [flagAt EXCEPT ![p] = to]
        /\ flagKey' \in {0, flagKey} /\ UNCHANGED <<flagMade, flagHeld>>
    BY <1>4
    DEF Maps, Acts, Detaches, Flag!Read, Flag!Write, Flag!SetFlag, Flag!SpinUntil
  <2>2. Started(Runs, flagAt)' = Started(Runs, flagAt)
    BY <2>1 DEF Started, FlagPlaces
  <2>3. FlagFound'
    <3>1. (flagMade \in Nat /\ flagKey \in 0 .. flagMade)'
      BY <2>1 DEF FlagFound
    <3>2. (flagMade <= Cardinality(Started(Runs, flagAt)))'
      BY <2>1, <2>2 DEF FlagFound
    <3>3. (flagHeld \in [Runs -> Nat] /\ \A q \in Runs : flagHeld[q] <= flagMade)'
      BY <2>1 DEF FlagFound
    <3>4. (\A q \in Started(Runs, flagAt) : flagHeld[q] > 0)'
      BY <2>1, <2>2 DEF FlagFound
    <3> QED
      BY <3>1, <3>2, <3>3, <3>4 DEF FlagFound
  <2>4. FlagPlaces'
    BY <1>4
    DEF Maps, Acts, Detaches, Flag!Read, Flag!Write, Flag!SetFlag, Flag!SpinUntil, FlagPlaces
  <2>5. FlagData'
    <3>1. flagHeld[p] \in Cells
      BY <1>1, <2>1
    <3>2. \/ UNCHANGED <<flagFlag, flagArea, flagRead>>
          \/ UNCHANGED <<flagArea, flagRead>> /\ flagFlag' = [flagFlag EXCEPT ![flagHeld[p]] = 0]
          \/ UNCHANGED <<flagArea, flagRead>> /\ flagFlag' = [flagFlag EXCEPT ![flagHeld[p]] = 1]
          \/ UNCHANGED <<flagFlag, flagRead>> /\ flagArea' = [flagArea EXCEPT ![flagHeld[p]] = p]
          \/ UNCHANGED <<flagFlag, flagArea>> /\ flagRead' = [flagRead EXCEPT ![p] = flagArea[flagHeld[p]]]
      BY <1>4 DEF Maps, Acts, Detaches, Flag!Read, Flag!Write, Flag!SetFlag, Flag!SpinUntil
    <3> QED
      BY <3>1, <3>2 DEF FlagData
  <2> QED
    BY <2>3, <2>4, <2>5
<1> QED
  BY <1>2, <1>3, <1>4, FlagSteps

LEMMA NextFlagRuns ==
  ASSUME FlagShape, FlagRuns, Flag!Next \/ UNCHANGED flagVars
  PROVE  FlagRuns'
<1> USE ExchangesAssumption DEF Runs
<1>a. \A p \in Runs : flagAt[p] \notin {"off", "start"} =>
        flagHeld[p] > 0 /\ flagHeld[p] \in Nat /\ flagHeld[p] <= flagMade
  BY DEF FlagShape, FlagFound, Started
<1>b. flagMade \in Nat /\ flagKey \in Nat
  BY DEF FlagShape, FlagFound
<1>1. CASE UNCHANGED flagVars
  BY <1>1 DEF flagVars, FlagRuns, OneEach, ItsSegment, ServerEach, Works, Started
<1>2. ASSUME NEW p \in Runs, Attaches(p), Alone(p)
      PROVE  FlagRuns'
  <2>1. /\ flagAt'[p] = "attach" /\ flagAt[p] = "start" /\ flagHeld'[p] = flagKey'
        /\ \A q \in Runs : q # p => flagAt'[q] = flagAt[q] /\ flagHeld'[q] = flagHeld[q]
        /\ flagKey' = (IF flagKey = 0 THEN flagMade + 1 ELSE flagKey)
    BY <1>2 DEF Attaches, FlagShape, FlagPlaces, FlagFound
  <2>2. OneEach'
    BY <1>2, <2>1 DEF Alone, Works, FlagRuns, OneEach
  <2>4. \A s \in Servers : s # p /\ Works(s) => flagHeld[s] = flagKey'
    BY <1>a, <2>1 DEF FlagRuns, ItsSegment, Works
  <2>5. \A s \in Servers : flagAt[s] = "done" => flagHeld[s] # flagKey'
    BY <1>a, <1>b, <2>1 DEF FlagRuns, ItsSegment
  <2>6. ItsSegment'
    BY <2>1, <2>4, <2>5 DEF Works, FlagRuns, ItsSegment
  <2>7. ASSUME NEW s \in Servers, NEW t \in Servers, flagAt'[s] \notin {"off", "start"},
               flagAt'[t] \notin {"off", "start"}, flagHeld'[s] = flagHeld'[t]
        PROVE  s = t
    <3>1. CASE s # p /\ t # p
      BY <2>1, <2>7, <3>1 DEF FlagRuns, ServerEach, Started
    <3>2. ASSUME p \in Servers, NEW r \in Servers, r # p, flagAt'[r] \notin {"off", "start"},
                 flagHeld'[r] = flagHeld'[p]
          PROVE  FALSE
      <4>1. flagAt[r] = "done"
        BY <1>2, <2>1, <3>2 DEF Alone, Works, FlagRuns, ItsSegment
      <4> QED
        BY <2>1, <2>5, <3>2, <4>1
    <3> QED
      BY <2>7, <3>1, <3>2
  <2>8. ServerEach'
    BY <2>7 DEF Started, ServerEach
  <2> QED
    BY <2>2, <2>6, <2>8 DEF FlagRuns
<1>3. ASSUME NEW p \in Servers, Detaches(p)
      PROVE  FlagRuns'
  <2>1. /\ flagAt[p] = "asleep" /\ flagAt'[p] = "done" /\ flagKey' = 0 /\ flagHeld' = flagHeld
        /\ \A q \in Runs : q # p => flagAt'[q] = flagAt[q]
    BY <1>3 DEF Detaches, FlagShape, FlagPlaces
  <2>2. \A q \in Runs : /\ Works(q)' => Works(q) /\ q # p
                        /\ q \in Started(Servers, flagAt)' => q \in Started(Servers, flagAt)
    BY <2>1 DEF Works, Started
  <2>3. OneEach'
    BY <2>2 DEF FlagRuns, OneEach
  <2>4. \A s \in Servers : ~ Works(s)'
    BY <2>1, <2>2 DEF Works, FlagRuns, OneEach
  <2>5. ItsSegment'
    BY <1>a, <2>1, <2>4 DEF FlagRuns, ItsSegment
  <2>6. ServerEach'
    BY <2>1, <2>2 DEF FlagRuns, ServerEach, Started
  <2> QED
    BY <2>3, <2>5, <2>6 DEF FlagRuns
<1>4. ASSUME NEW p \in Runs, Maps(p) \/ Acts(p)
      PROVE  FlagRuns'
  <2>1. /\ UNCHANGED <<flagKey, flagHeld>> /\ Works(p)
        /\ \A q \in Runs : q # p => flagAt'[q] = flagAt[q]
    BY <1>4 DEF Maps, Acts, Flag!Read, Flag!Write, Flag!SetFlag, Flag!SpinUntil, Flag!Go,
                Flag!ipcVars, Works, FlagShape, FlagPlaces
  <2>2. p \in Servers => flagAt'[p] \notin {"done", "failed"}
    <3>1. p \in Servers => flagHeld[p] = flagKey
      BY <2>1 DEF FlagRuns, ItsSegment
    <3> QED
      BY <1>4, <3>1
      DEF Maps, Acts, Flag!Read, Flag!Write, Flag!SetFlag, Flag!SpinUntil, Flag!Go, FlagShape,
          FlagPlaces
  <2>3. \A q \in Runs : Works(q)' => Works(q)
    BY <2>1 DEF Works
  <2>4. \A s \in Servers : /\ s \in Started(Servers, flagAt)' => s \in Started(Servers, flagAt)
                           /\ flagAt'[s] = "done" => flagAt[s] = "done"
                           /\ flagAt'[s] # "failed"
    BY <2>1, <2>2 DEF Started, Works, FlagRuns, ItsSegment
  <2>5. OneEach'
    BY <2>3 DEF FlagRuns, OneEach
  <2>6. ItsSegment'
    BY <2>1, <2>3, <2>4 DEF FlagRuns, ItsSegment
  <2>7. ServerEach'
    BY <2>1, <2>4 DEF FlagRuns, ServerEach, Started
  <2> QED
    BY <2>5, <2>6, <2>7 DEF FlagRuns
<1> QED
  BY <1>1, <1>2, <1>3, <1>4, FlagSteps DEF FlagShape


(* Each act in its effect on the variables, place by place.                *)
LEMMA FlagActs ==
  ASSUME FlagShape, NEW p \in Runs, Acts(p)
  PROVE  /\ flagHeld' = flagHeld /\ flagHeld[p] \in Cells
         /\ \A q \in Runs : q # p => flagAt'[q] = flagAt[q] /\ flagRead'[q] = flagRead[q]
         /\ \A n \in Cells : n # flagHeld[p] =>
              flagFlag'[n] = flagFlag[n] /\ flagArea'[n] = flagArea[n]
         /\ \/ /\ p \in Servers /\ flagAt[p] = "spin" /\ flagAt'[p] = "read"
               /\ flagFlag[flagHeld[p]] = 1
               /\ UNCHANGED <<flagFlag, flagArea, flagRead>>
            \/ /\ p \in Servers /\ flagAt[p] = "read" /\ flagAt'[p] = "write"
               /\ UNCHANGED <<flagFlag, flagArea>>
               /\ flagRead'[p] = flagArea[flagHeld[p]]
            \/ /\ p \in Servers /\ flagAt[p] = "write" /\ flagAt'[p] = "lower"
               /\ UNCHANGED <<flagFlag, flagRead>>
               /\ flagArea'[flagHeld[p]] = p
            \/ /\ p \in Servers /\ flagAt[p] = "lower" /\ flagAt'[p] = "asleep"
               /\ UNCHANGED <<flagArea, flagRead>>
               /\ flagFlag'[flagHeld[p]] = 0
            \/ /\ p \in Clients /\ flagAt[p] = "write" /\ flagAt'[p] = "raise"
               /\ UNCHANGED <<flagFlag, flagRead>>
               /\ flagArea'[flagHeld[p]] = p
            \/ /\ p \in Clients /\ flagAt[p] = "raise" /\ flagAt'[p] = "spin"
               /\ UNCHANGED <<flagArea, flagRead>>
               /\ flagFlag'[flagHeld[p]] = 1
            \/ /\ p \in Clients /\ flagAt[p] = "spin" /\ flagAt'[p] = "read"
               /\ flagFlag[flagHeld[p]] = 0
               /\ UNCHANGED <<flagFlag, flagArea, flagRead>>
            \/ /\ p \in Clients /\ flagAt[p] = "read" /\ flagAt'[p] = "done"
               /\ UNCHANGED <<flagFlag, flagArea>>
               /\ flagRead'[p] = flagArea[flagHeld[p]]
<1> USE DEF Flag!Go, Flag!ipcVars, FlagShape
<1>1. flagAt[p] \notin {"off", "start"}
  BY DEF Acts, Flag!Read, Flag!Write, Flag!SetFlag, Flag!SpinUntil
<1>2. flagHeld[p] \in Cells /\ flagHeld' = flagHeld
  BY <1>1, RunsFinite, StartedCount
  DEF FlagFound, Started, Cells, Acts, Flag!Read, Flag!Write, Flag!SetFlag, Flag!SpinUntil
<1>3. /\ \A q \in Runs : q # p => flagAt'[q] = flagAt[q] /\ flagRead'[q] = flagRead[q]
      /\ \A n \in Cells : n # flagHeld[p] =>
           flagFlag'[n] = flagFlag[n] /\ flagArea'[n] = flagArea[n]
  BY <1>2 DEF FlagPlaces, FlagData, Acts, Flag!Read, Flag!Write, Flag!SetFlag, Flag!SpinUntil
<1> QED
  BY <1>2, <1>3
  DEF FlagPlaces, FlagData, Acts, Flag!Read, Flag!Write, Flag!SetFlag, Flag!SpinUntil

LEMMA NextFlagUp ==
  ASSUME FlagShape, FlagRuns, FlagUp, Flag!Next \/ UNCHANGED flagVars
  PROVE  FlagUp'
<1> USE ExchangesAssumption DEF Runs
<1>1. CASE UNCHANGED flagVars
  BY <1>1 DEF flagVars, FlagUp
<1>2. ASSUME NEW p \in Runs, Attaches(p) \/ Maps(p) \/ Detaches(p)
      PROVE  FlagUp'
  <2>1. /\ flagAt[p] \in {"start", "attach", "asleep"} /\ flagAt'[p] \notin {"read", "lower"}
        /\ p \in Servers => flagAt'[p] # "write"
        /\ UNCHANGED <<flagFlag, flagArea, flagRead>>
        /\ \A q \in Runs : q # p => flagAt'[q] = flagAt[q] /\ flagHeld'[q] = flagHeld[q]
    BY <1>2 DEF Attaches, Maps, Detaches, FlagShape, FlagPlaces, FlagFound
  <2>2. \A n \in Cells :
          flagFlag'[n] = 1 => \E c \in Clients : flagAt'[c] = "spin" /\ flagHeld'[c] = n
    BY <2>1 DEF FlagUp
  <2>3. \A s \in Servers :
          flagAt'[s] \in {"read", "write", "lower"} => flagFlag'[flagHeld'[s]] = 1
    BY <2>1 DEF FlagUp
  <2> QED
    BY <2>2, <2>3 DEF FlagUp
<1>3. ASSUME NEW p \in Runs, Acts(p)
      PROVE  FlagUp'
  <2>1. \A n \in Cells :
          flagFlag'[n] = 1 => \E c \in Clients : flagAt'[c] = "spin" /\ flagHeld'[c] = n
    <3> TAKE n \in Cells
    <3> HAVE flagFlag'[n] = 1
    <3>1. CASE flagFlag[n] = 1
      <4>1. PICK c \in Clients : flagAt[c] = "spin" /\ flagHeld[c] = n
        BY <3>1 DEF FlagUp
      <4>2. flagAt'[c] = "spin" /\ flagHeld'[c] = n
        BY <1>3, <3>1, <4>1, FlagActs
      <4> QED
        BY <4>2
    <3>2. CASE flagFlag[n] # 1
      <4>1. p \in Clients /\ flagAt'[p] = "spin" /\ flagHeld'[p] = n
        BY <1>3, <3>2, FlagActs
      <4> QED
        BY <4>1
    <3> QED
      BY <3>1, <3>2
  <2>2. \A s \in Servers :
          flagAt'[s] \in {"read", "write", "lower"} => flagFlag'[flagHeld'[s]] = 1
    <3> TAKE s \in Servers
    <3> HAVE flagAt'[s] \in {"read", "write", "lower"}
    <3>1. CASE s = p
      BY <1>3, <3>1, FlagActs DEF FlagUp
    <3>2. CASE s # p
      <4>1. flagAt[s] \in {"read", "write", "lower"} /\ flagFlag[flagHeld[s]] = 1
        BY <1>3, <3>2, FlagActs DEF FlagUp
      <4>2. flagHeld[s] \in Cells
        BY <4>1, RunsFinite, StartedCount DEF FlagShape, FlagFound, Started, Cells
      <4>3. ~ (p \in Servers /\ flagAt[p] = "lower")
        BY <3>2, <4>1 DEF FlagRuns, OneEach, Works
      <4> QED
        BY <1>3, <4>1, <4>2, <4>3, FlagActs
    <3> QED
      BY <3>1, <3>2
  <2> QED
    BY <2>1, <2>2 DEF FlagUp
<1> QED
  BY <1>1, <1>2, <1>3, FlagSteps DEF FlagShape

LEMMA FlagCells ==
  ASSUME FlagShape
  PROVE  \A p \in Runs : flagAt[p] \notin {"off", "start"} => flagHeld[p] \in Cells
BY RunsFinite, StartedCount DEF FlagShape, FlagFound, Started, Cells

(* What to start a run or to remove the segment leaves alone.              *)
LEMMA FlagRest ==
  ASSUME FlagShape, NEW p \in Runs, Attaches(p) \/ Maps(p) \/ Detaches(p)
  PROVE  /\ \/ flagAt[p] = "start" /\ flagAt'[p] = "attach"
            \/ /\ flagAt[p] = "attach"
               /\ flagAt'[p] \in {"failed", IF p \in Clients THEN "write" ELSE "spin"}
            \/ flagAt[p] = "asleep" /\ flagAt'[p] = "done"
         /\ UNCHANGED <<flagFlag, flagArea, flagRead>>
         /\ \A q \in Runs : q # p => flagAt'[q] = flagAt[q] /\ flagHeld'[q] = flagHeld[q]
BY DEF Attaches, Maps, Detaches, FlagShape, FlagPlaces, FlagFound

LEMMA NextFlagRequest ==
  ASSUME FlagShape, FlagRuns, FlagUp, FlagRequest, Flag!Next \/ UNCHANGED flagVars
  PROVE  FlagRequest'
<1> USE ExchangesAssumption DEF Runs
<1>1. CASE UNCHANGED flagVars
  BY <1>1 DEF flagVars, FlagRequest
<1>2. ASSUME NEW p \in Runs, Attaches(p) \/ Maps(p) \/ (p \in Servers /\ Detaches(p))
      PROVE  FlagRequest'
  BY <1>2, FlagRest DEF FlagRequest
<1>3. ASSUME NEW p \in Runs, Acts(p)
      PROVE  FlagRequest'
  <2> SUFFICES ASSUME NEW c \in Clients
               PROVE  /\ flagAt'[c] \notin {"raise", "spin", "read", "done"} =>
                           \A n \in Cells : flagArea'[n] # c
                      /\ flagAt'[c] \notin {"spin", "read", "done"} =>
                           \A s \in Servers : flagRead'[s] # c
                      /\ flagAt'[c] = "raise" => flagArea'[flagHeld'[c]] = c
    BY DEF FlagRequest
  <2>1. c # p => flagAt[c] \notin {"write", "raise", "spin", "read"} \/ p \in Servers
    BY <1>3, FlagActs DEF FlagRuns, OneEach, Works
  <2>2. p \in Servers /\ flagAt[p] \in {"read", "write"} =>
          flagAt[c] # "raise" /\ flagHeld[p] \in Cells
    <3>1. SUFFICES ASSUME p \in Servers, flagAt[p] \in {"read", "write"}
                   PROVE  flagAt[c] # "raise" /\ flagHeld[p] \in Cells
      OBVIOUS
    <3>2. flagHeld[p] \in Cells /\ flagFlag[flagHeld[p]] = 1
      BY <3>1, FlagCells DEF FlagUp
    <3>3. PICK d \in Clients : flagAt[d] = "spin"
      BY <3>2 DEF FlagUp
    <3> QED
      BY <3>2, <3>3 DEF FlagRuns, OneEach, Works
  <2>3. flagAt'[c] \notin {"raise", "spin", "read", "done"} =>
          \A n \in Cells : flagArea'[n] # c
    BY <1>3, FlagActs DEF FlagRequest
  <2>4. flagAt'[c] \notin {"spin", "read", "done"} => \A s \in Servers : flagRead'[s] # c
    BY <1>3, <2>2, FlagActs DEF FlagRequest
  <2>5. flagAt'[c] = "raise" => flagArea'[flagHeld'[c]] = c
    BY <1>3, <2>1, <2>2, FlagActs, FlagCells DEF FlagRequest
  <2> QED
    BY <2>3, <2>4, <2>5
<1> QED
  BY <1>1, <1>2, <1>3, FlagSteps DEF FlagShape

LEMMA NextFlagAnswer ==
  ASSUME FlagShape, FlagRuns, FlagUp, FlagRequest, FlagAnswer, Flag!Next \/ UNCHANGED flagVars
  PROVE  FlagAnswer'
<1> USE ExchangesAssumption DEF Runs
<1>1. CASE UNCHANGED flagVars
  BY <1>1 DEF flagVars, FlagAnswer, Pending, Answered, Replies
<1>2. ASSUME NEW p \in Runs,
             (Attaches(p) /\ Alone(p)) \/ Maps(p) \/ (p \in Servers /\ Detaches(p))
      PROVE  FlagAnswer'
  <2> SUFFICES ASSUME NEW c \in Clients
               PROVE  (/\ Pending(c)
                       /\ Answered(c)
                       /\ flagAt[c] = "done" => Replies(flagRead[c], c))'
    BY DEF FlagAnswer
  <2>1. /\ \/ flagAt[p] = "start" /\ flagAt'[p] = "attach"
           \/ /\ flagAt[p] = "attach"
              /\ flagAt'[p] \in {"failed", IF p \in Clients THEN "write" ELSE "spin"}
           \/ flagAt[p] = "asleep" /\ flagAt'[p] = "done"
        /\ UNCHANGED <<flagFlag, flagArea, flagRead>>
        /\ \A q \in Runs : q # p => flagAt'[q] = flagAt[q] /\ flagHeld'[q] = flagHeld[q]
    BY <1>2, FlagRest
  <2>2. \A s : Replies(s, c) => Replies(s, c)'
    BY <2>1 DEF Replies
  <2>3. Pending(c)'
    BY <1>2, <2>1 DEF FlagAnswer, Pending
  <2>4. Answered(c)'
    BY <2>1, <2>2 DEF FlagAnswer, Answered
  <2>5. flagAt'[c] = "done" => flagAt[c] = "done" /\ flagRead'[c] = flagRead[c]
    BY <2>1 DEF FlagShape, FlagPlaces
  <2>6. (flagAt[c] = "done" => Replies(flagRead[c], c))'
    BY <2>2, <2>5 DEF FlagAnswer
  <2> QED
    BY <2>3, <2>4, <2>6
<1>3. ASSUME NEW p \in Runs, Acts(p)
      PROVE  FlagAnswer'
  <2> SUFFICES ASSUME NEW c \in Clients
               PROVE  (/\ Pending(c)
                       /\ Answered(c)
                       /\ flagAt[c] = "done" => Replies(flagRead[c], c))'
    BY DEF FlagAnswer
  <2>1. p \in Clients => c = p \/ flagAt[c] \notin {"raise", "spin", "read"}
    BY <1>3, FlagActs DEF FlagRuns, OneEach, Works
  <2>2. p \in Servers => \A s \in Servers :
          s # p => flagAt[s] \notin {"spin", "read", "write", "lower", "asleep"}
    BY <1>3, FlagActs DEF FlagRuns, OneEach, Works
  <2>3. p \in Servers /\ flagAt[p] \in {"read", "write", "lower"} =>
          flagFlag[flagHeld[p]] = 1 /\ flagAt[c] # "read"
    <3>1. SUFFICES ASSUME p \in Servers, flagAt[p] \in {"read", "write", "lower"}
                   PROVE  flagFlag[flagHeld[p]] = 1 /\ flagAt[c] # "read"
      OBVIOUS
    <3>2. flagHeld[p] \in Cells /\ flagFlag[flagHeld[p]] = 1
      BY <3>1, FlagCells DEF FlagUp
    <3>3. PICK d \in Clients : flagAt[d] = "spin"
      BY <3>2 DEF FlagUp
    <3> QED
      BY <3>2, <3>3 DEF FlagRuns, OneEach, Works
  <2>4. \A s : Replies(s, c) => Replies(s, c)'
    BY <1>3, FlagActs DEF Replies
  <2>5. flagAt[c] \notin {"off", "start"} => flagHeld[c] \in Cells
    BY FlagCells
  <2>6. Pending(c)'
    <3>1. SUFFICES ASSUME flagAt'[c] = "spin", flagFlag'[flagHeld'[c]] = 1
                   PROVE  Pending(c)'
      BY DEF Pending
    <3>2. CASE flagAt[c] = "spin"
      <4>1. p \in Servers /\ p # c /\ flagHeld[c] \in Cells /\ flagHeld'[c] = flagHeld[c]
            /\ flagFlag[flagHeld[c]] = 1
        BY <1>3, <2>1, <2>5, <3>1, <3>2, FlagActs
      <4>2. \/ flagArea'[flagHeld'[c]] = c
            \/ \E s \in Servers : flagHeld'[s] = flagHeld'[c] /\ flagAt'[s] = "lower"
        BY <1>3, <2>2, <3>1, <3>2, <4>1, FlagActs DEF FlagAnswer, Pending
      <4>3. \A s \in Servers : flagHeld'[s] = flagHeld'[c] =>
              /\ flagAt'[s] = "write" => flagRead'[s] = c
              /\ flagAt'[s] = "lower" => flagRead'[s] = c /\ flagArea'[flagHeld'[c]] = s
        BY <1>3, <2>2, <3>1, <3>2, <4>1, FlagActs DEF FlagAnswer, Pending
      <4> QED
        BY <4>2, <4>3 DEF Pending
    <3>3. CASE flagAt[c] # "spin"
      <4>1. p = c /\ flagAt[c] = "raise" /\ flagHeld' = flagHeld
            /\ UNCHANGED <<flagArea, flagRead>>
        BY <1>3, <3>1, <3>3, FlagActs
      <4>2. \A s \in Servers : flagAt'[s] = flagAt[s] /\ flagAt[s] \notin {"write", "lower"}
        <5>1. \A s \in Servers : flagAt'[s] = flagAt[s]
          BY <1>3, <4>1, FlagActs
        <5>2. ASSUME NEW s \in Servers, flagAt[s] \in {"write", "lower"}
              PROVE  FALSE
          <6>1. flagHeld[s] \in Cells /\ flagFlag[flagHeld[s]] = 1
            BY <5>2, FlagCells DEF FlagUp
          <6>2. PICK d \in Clients : flagAt[d] = "spin"
            BY <6>1 DEF FlagUp
          <6> QED
            BY <4>1, <6>2 DEF FlagRuns, OneEach, Works
        <5> QED
          BY <5>1, <5>2
      <4>3. flagArea[flagHeld[c]] = c
        BY <4>1 DEF FlagRequest
      <4> QED
        BY <4>1, <4>2, <4>3 DEF Pending
    <3> QED
      BY <3>2, <3>3
  <2>7. Answered(c)'
    <3>1. SUFFICES ASSUME \/ flagAt'[c] = "spin" /\ flagFlag'[flagHeld'[c]] = 0
                          \/ flagAt'[c] = "read"
                   PROVE  Replies(flagArea[flagHeld[c]], c)'
      BY DEF Answered
    <3>2. CASE p \in Clients
      <4>1. p = c /\ UNCHANGED <<flagArea, flagHeld>>
            /\ flagAt[c] = "spin" /\ flagFlag[flagHeld[c]] = 0
        BY <1>3, <2>1, <3>1, <3>2, FlagActs
      <4>2. Replies(flagArea[flagHeld[c]], c)
        BY <4>1 DEF FlagAnswer, Answered
      <4> QED
        BY <2>4, <4>1, <4>2
    <3>3. CASE p \in Servers
      <4>1. flagAt'[c] = flagAt[c] /\ flagHeld'[c] = flagHeld[c] /\ flagHeld[c] \in Cells
        BY <1>3, <2>5, <3>1, <3>3, FlagActs
      <4>2. CASE flagAt[c] = "read" \/ flagFlag[flagHeld[c]] = 0
        <5>1. Replies(flagArea[flagHeld[c]], c)
          BY <3>1, <4>1, <4>2 DEF FlagAnswer, Answered
        <5>2. flagArea'[flagHeld'[c]] = flagArea[flagHeld[c]]
          BY <1>3, <2>3, <3>3, <4>1, <4>2, FlagActs
        <5> QED
          BY <2>4, <5>1, <5>2
      <4>3. CASE flagAt[c] # "read" /\ flagFlag[flagHeld[c]] # 0
        <5>1. /\ flagAt[c] = "spin" /\ flagHeld[p] = flagHeld[c] /\ flagAt[p] = "lower"
              /\ flagAt'[p] = "asleep" /\ UNCHANGED <<flagArea, flagRead>>
              /\ flagFlag[flagHeld[c]] = 1
          BY <1>3, <2>3, <3>1, <3>3, <4>1, <4>3, FlagActs
        <5>2. flagRead[p] = c /\ flagArea[flagHeld[c]] = p
          BY <3>3, <5>1 DEF FlagAnswer, Pending
        <5> QED
          BY <3>3, <4>1, <5>1, <5>2 DEF Replies
      <4> QED
        BY <4>2, <4>3
    <3> QED
      BY <3>2, <3>3
  <2>8. (flagAt[c] = "done" => Replies(flagRead[c], c))'
    <3>1. SUFFICES ASSUME flagAt'[c] = "done"
                   PROVE  Replies(flagRead[c], c)'
      OBVIOUS
    <3>2. CASE flagAt[c] = "done"
      <4>1. Replies(flagRead[c], c) /\ flagRead'[c] = flagRead[c]
        BY <1>3, <3>2, FlagActs DEF FlagAnswer
      <4> QED
        BY <2>4, <4>1
    <3>3. CASE flagAt[c] # "done"
      <4>1. p = c /\ flagAt[c] = "read" /\ flagRead'[c] = flagArea[flagHeld[c]]
        BY <1>3, <3>1, <3>3, FlagActs
      <4>2. Replies(flagArea[flagHeld[c]], c)
        BY <4>1 DEF FlagAnswer, Answered
      <4> QED
        BY <2>4, <4>1, <4>2
    <3> QED
      BY <3>2, <3>3
  <2> QED
    BY <2>6, <2>7, <2>8
<1> QED
  BY <1>1, <1>2, <1>3, FlagSteps DEF FlagShape

LEMMA NextFlags ==
  ASSUME FlagsInv, [Next]_vars
  PROVE  FlagsInv'
BY StepOfFlag, NextFlagShape, NextFlagRuns, NextFlagUp, NextFlagRequest, NextFlagAnswer
DEF FlagsInv

(* Hence what the runs of Exchanges check of these two programs.           *)
LEMMA FlagMatches ==
  ASSUME FlagsInv
  PROVE  Flag!TypeOK /\ Flag!FlagInv /\ Flag!RepliesMatch
<1> USE ExchangesAssumption DEF Runs, FlagsInv
<1>1. Flag!Segments = Cells /\ Flag!Cardinality(Flag!Processes) = Cardinality(Runs)
      /\ Flag!Processes = Runs /\ Flag!NoObject = 0
  BY FlagSegments DEF Flag!Processes, Cardinality, Flag!Cardinality, Flag!NoObject
<1>2. flagMade \in 0 .. Cardinality(Runs) /\ flagKey \in Cells \cup {0}
  BY RunsFinite, StartedCount DEF FlagShape, FlagFound, Cells
<1>3. flagHeld \in [Runs -> Cells \cup {0}]
  <2>1. \A p \in Runs : flagHeld[p] \in Cells \cup {0}
    BY <1>2, RunsFinite, StartedCount DEF FlagShape, FlagFound, Cells
  <2> QED
    BY <2>1 DEF FlagShape, FlagFound
<1>4. Flag!TypeOK
  BY <1>1, <1>2, <1>3 DEF Flag!TypeOK, FlagShape, FlagPlaces, FlagData
<1>5. ASSUME NEW c \in Clients, flagHeld[c] # 0, flagAt[c] \in {"write", "raise", "read"}
      PROVE  flagFlag[flagHeld[c]] = 0
  <2>1. flagHeld[c] \in Cells
    BY <1>5, FlagCells
  <2>2. ASSUME flagFlag[flagHeld[c]] = 1
        PROVE  FALSE
    <3>1. PICK d \in Clients : flagAt[d] = "spin"
      BY <2>1, <2>2 DEF FlagUp
    <3> QED
      BY <1>5, <3>1 DEF FlagRuns, OneEach, Works
  <2> QED
    BY <2>1, <2>2 DEF FlagShape, FlagData
<1>6. Flag!FlagInv
  BY <1>1, <1>5 DEF Flag!FlagInv, FlagUp
<1>7. Flag!RepliesMatch
  BY DEF Flag!RepliesMatch, FlagAnswer, Replies
<1> QED
  BY <1>4, <1>6, <1>7

----------------------------------------------------------------------------
(* final_test_pre/fifo1.c and fifo2.c: where the one message is.           *)
Hello ==
  /\ pairFifo = <<"fifo2">> /\ pairAt["fifo1"] \in {"open", "read"}
  /\ pairRead["fifo2"] = Nobody

Hi ==
  /\ pairAt["fifo1"] \in {"write", "remove", "done"} /\ pairRead["fifo2"] = Nobody
  /\ pairFifo = IF pairAt["fifo1"] = "write" THEN <<>> ELSE <<"fifo1">>

PairPlaces ==
  /\ pairAt \in [{"fifo1", "fifo2"} ->
                   {"off", "start", "open", "read", "write", "sleep", "remove", "done", "failed"}]
  /\ pairAt["fifo1"] \in {"off", "start", "open", "read", "write", "remove", "done"}
  /\ pairAt["fifo2"] \in {"off", "start", "write", "sleep", "read", "done", "failed"}
  /\ pairAt["fifo1"] \in {"open", "read", "write", "remove"} => pairFile
  /\ pairFile => pairAt["fifo1"] \notin {"off", "start"}
  /\ pairAt["fifo2"] \in {"write", "sleep", "read", "done"} => pairAt["fifo1"] \notin {"off", "start"}

PairMessage ==
  /\ pairAt["fifo2"] \in {"off", "start", "write", "failed"} =>
       /\ pairFifo = <<>> /\ pairRead["fifo2"] = Nobody
       /\ pairAt["fifo1"] \notin {"write", "remove", "done"}
  /\ pairAt["fifo2"] \in {"sleep", "read"} => Hello \/ Hi
  /\ pairAt["fifo2"] = "read" /\ pairPunctual => Hi /\ pairAt["fifo1"] # "write"
  /\ pairAt["fifo2"] = "done" =>
       /\ pairFifo = <<>>
       /\ \/ pairRead["fifo2"] = "fifo1" /\ pairAt["fifo1"] \in {"remove", "done"}
          \/ /\ pairRead["fifo2"] = "fifo2" /\ pairAt["fifo1"] \in {"open", "read"}
             /\ ~ pairPunctual

PairInv ==
  /\ pairPunctual \in BOOLEAN /\ pairFile \in BOOLEAN
  /\ pairRead \in [{"fifo1", "fifo2"} -> {"fifo1", "fifo2", Nobody}]
  /\ PairPlaces /\ PairMessage

LEMMA StartOfPair == Init => Pair!Init \/ Pair!NotRun
BY DEF Init

LEMMA StepOfPair == [Next]_vars => Pair!Next \/ UNCHANGED pairVars
BY DEF Next, vars, FlagStep, SemStep, ThreadsStep, TurnsStep, QueueStep, FifoStep,
       PairStep, SocketsStep

LEMMA InitPair == Init => PairInv
BY StartOfPair
DEF Pair!Init, Pair!NotRun, Pair!InitAt, Pair!Programs, PairInv, PairPlaces, PairMessage

LEMMA PairMatches == PairInv => Pair!TypeOK /\ Pair!RepliesMatch
<1> SUFFICES ASSUME PairInv
             PROVE  Pair!TypeOK /\ Pair!RepliesMatch
  OBVIOUS
<1> USE DEF PairInv, PairPlaces, PairMessage, Hello, Hi
<1>1. pairFifo = <<>> \/ pairFifo = <<"fifo1">> \/ pairFifo = <<"fifo2">>
  OBVIOUS
<1>2. pairFifo \in Seq({"fifo1", "fifo2"}) /\ Len(pairFifo) <= 1
  <2>1. <<>> \in Seq({"fifo1", "fifo2"}) /\ Len(<<>>) <= 1
    OBVIOUS
  <2>2. \A p \in {"fifo1", "fifo2"} : <<p>> \in Seq({"fifo1", "fifo2"}) /\ Len(<<p>>) <= 1
    OBVIOUS
  <2> QED
    BY <1>1, <2>1, <2>2
<1>3. Pair!TypeOK
  BY <1>2 DEF Pair!TypeOK, Pair!Programs
<1>4. Pair!RepliesMatch
  BY ExchangesAssumption DEF Pair!RepliesMatch, Pair!TakenBack
<1> QED
  BY <1>3, <1>4

LEMMA NextPair == PairInv /\ [Next]_vars => PairInv'
<1> SUFFICES ASSUME PairInv, Pair!Next \/ UNCHANGED pairVars
             PROVE  PairInv'
  BY StepOfPair
<1> USE ExchangesAssumption
    DEF PairInv, PairPlaces, PairMessage, Hello, Hi, Pair!Go, Pair!fifoVars
<1>1. CASE Pair!Mkfifo("fifo1")
  BY <1>1 DEF Pair!Mkfifo
<1>2. CASE Pair!Open("fifo1", "open", "read")
  BY <1>2 DEF Pair!Open
<1>3. CASE Pair!Read("fifo1", "read", "write")
  <2>1. pairFifo = <<"fifo2">> /\ pairAt["fifo2"] \in {"sleep", "read"}
    BY <1>3 DEF Pair!Read
  <2>2. pairFifo' = <<>>
    BY <1>3, <2>1 DEF Pair!Read
  <2> QED
    BY <1>3, <2>1, <2>2 DEF Pair!Read
<1>4. CASE Pair!Write("fifo1", "write", "remove")
  <2>1. pairFifo = <<>> /\ pairAt["fifo2"] \in {"sleep", "read"}
    BY <1>4 DEF Pair!Write
  <2>2. pairFifo' = <<"fifo1">>
    BY <1>4, <2>1 DEF Pair!Write
  <2> QED
    BY <1>4, <2>1, <2>2 DEF Pair!Write
<1>5. CASE Pair!Remove("fifo1")
  BY <1>5 DEF Pair!Remove
<1>6. CASE Pair!Open("fifo2", "start", "write")
  BY <1>6 DEF Pair!Open
<1>7. CASE Pair!Write("fifo2", "write", "sleep")
  <2>1. pairFifo = <<>> /\ pairAt["fifo1"] \in {"open", "read"}
    BY <1>7 DEF Pair!Write
  <2>2. pairFifo' = <<"fifo2">>
    BY <1>7, <2>1 DEF Pair!Write
  <2> QED
    BY <1>7, <2>1, <2>2 DEF Pair!Write
<1>8. CASE Pair!Sleep("fifo2", "sleep", "read")
  BY <1>8 DEF Pair!Sleep
<1>9. CASE Pair!Read("fifo2", "read", "done")
  <2>1. Hello \/ Hi
    BY <1>9 DEF Pair!Read
  <2>2. CASE Hello
    <3>1. Head(pairFifo) = "fifo2" /\ Tail(pairFifo) = <<>>
      BY <2>2
    <3> QED
      BY <1>9, <2>2, <3>1 DEF Pair!Read
  <2>3. CASE Hi
    <3>1. pairFifo = <<"fifo1">> /\ pairAt["fifo1"] \in {"remove", "done"}
      BY <1>9, <2>3 DEF Pair!Read
    <3>2. Head(pairFifo) = "fifo1" /\ Tail(pairFifo) = <<>>
      BY <3>1
    <3> QED
      BY <1>9, <2>3, <3>1, <3>2 DEF Pair!Read
  <2> QED
    BY <2>1, <2>2, <2>3
<1>10. CASE UNCHANGED pairVars
  BY <1>10 DEF pairVars
<1> QED
  BY <1>1, <1>2, <1>3, <1>4, <1>5, <1>6, <1>7, <1>8, <1>9, <1>10
  DEF Pair!Next, Pair!fifo1, Pair!fifo2

----------------------------------------------------------------------------
(* HW8/msgq1.c and msgq2.c: where the programs are, ...                    *)
QueuePlaces ==
  /\ msgqAt \in [Runs -> {"off", "start", "receive", "reply", "asleep", "send", "await",
                          "done", "failed"}]
  /\ \A p \in Clients : msgqAt[p] \notin {"receive", "reply", "asleep"}
  /\ \A p \in Servers : msgqAt[p] \notin {"send", "await", "failed"}
  /\ msgqRead \in [Runs -> Runs \cup {Nobody}]

(* ... the queues that were made, ...                                      *)
QueueFound ==
  /\ msgqMade \in Nat /\ msgqKey \in 0 .. msgqMade
  /\ msgqMade <= Cardinality(Started(Servers, msgqAt))
  /\ msgqHeld \in [Runs -> 0 .. msgqMade]
  /\ \A c \in Clients : msgqAt[c] \in {"send", "await"} => msgqHeld[c] # 0

(* ... the one there is while a msgq1 runs, ...                            *)
HasQueue(s) == msgqAt[s] \in {"receive", "reply", "asleep"}

QueueServers ==
  /\ \A s \in Servers : HasQueue(s) => msgqHeld[s] = msgqKey /\ msgqKey # 0
  /\ \A s, t \in Servers : HasQueue(s) /\ HasQueue(t) => s = t
  /\ msgqKey # 0 => \E s \in Servers : HasQueue(s)

(* ... and what is in it: one message of each process that has sent, and   *)
(* only requests until msgq1 has taken one.                                *)
Senders(at) == {p \in Runs : at[p] \notin {"off", "start", "receive", "reply", "send"}}

QueueBound == msgqQueue \in Seq(Runs) /\ Len(msgqQueue) <= Cardinality(Senders(msgqAt))

QueueRequests ==
  /\ msgqKey = 0 => msgqQueue = <<>>
  /\ \A s \in Servers : msgqAt[s] = "receive" => msgqQueue \in Seq(Clients)

QueueInv == QueuePlaces /\ QueueFound /\ QueueServers /\ QueueBound /\ QueueRequests

LEMMA StartOfQueue == Init => Queue!Init \/ Queue!NotRun
BY DEF Init

LEMMA StepOfQueue == [Next]_vars => Queue!Next \/ UNCHANGED msgqVars
BY DEF Next, vars, FlagStep, SemStep, ThreadsStep, TurnsStep, QueueStep, FifoStep,
       PairStep, SocketsStep

LEMMA ServersFinite == Cardinality(Started(Servers, msgqAt)) \in Nat
BY ExchangesAssumption, StartedCount

LEMMA SendersCount ==
  ASSUME NEW at
  PROVE  /\ IsFiniteSet(Senders(at)) /\ Cardinality(Senders(at)) \in Nat
         /\ Cardinality(Senders(at)) <= Cardinality(Runs) /\ Cardinality(Runs) \in Nat
BY RunsFinite, FS_CardinalityType, FS_Subset DEF Senders

LEMMA InitQueue == Init => QueueInv
<1> SUFFICES ASSUME Queue!Init \/ Queue!NotRun
             PROVE  QueueInv
  BY StartOfQueue
<1>1. /\ \A p \in Runs : msgqAt[p] \in {"off", "start"}
      /\ msgqAt \in [Runs -> {"off", "start"}]
      /\ msgqKey = 0 /\ msgqMade = 0 /\ msgqHeld = [p \in Runs |-> 0]
      /\ msgqQueue = <<>> /\ msgqRead = [p \in Runs |-> Nobody]
  BY DEF Queue!Init, Queue!NotRun, Queue!InitAt, Queue!IpcInit, Queue!NoObject, Queue!Processes, Runs
<1>2. QueuePlaces /\ QueueServers
  BY <1>1 DEF QueuePlaces, QueueServers, HasQueue, Runs
<1>3. QueueFound
  BY <1>1, ServersFinite DEF QueueFound, Runs
<1>4. msgqQueue \in Seq(Runs) /\ Len(msgqQueue) = 0 /\ msgqQueue \in Seq(Clients)
  BY <1>1
<1>5. QueueBound /\ QueueRequests
  BY <1>1, <1>4, SendersCount DEF QueueBound, QueueRequests
<1> QED
  BY <1>2, <1>3, <1>5 DEF QueueInv

(* A message is taken out of its place.                                    *)
Without(q, n) == SubSeq(q, 1, n - 1) \o SubSeq(q, n + 1, Len(q))

LEMMA WithoutOne ==
  ASSUME NEW S, NEW q \in Seq(S), NEW n \in 1 .. Len(q)
  PROVE  Without(q, n) \in Seq(S) /\ Len(Without(q, n)) = Len(q) - 1 /\ Len(q) \in Nat
<1>1. /\ Len(q) \in Nat /\ n \in 1 .. Len(q) /\ n \in Int /\ n - 1 \in Int /\ n + 1 \in Int /\ Len(q) \in Int
      /\ 1 \in Int /\ \A i \in 1 .. Len(q) : q[i] \in S
  OBVIOUS
<1>2. SubSeq(q, 1, n - 1) \in Seq(S) /\ Len(SubSeq(q, 1, n - 1)) = n - 1
  <2>1. \A i \in 1 .. n - 1 : q[i] \in S
    BY <1>1
  <2>2. /\ SubSeq(q, 1, n - 1) \in Seq(S)
        /\ Len(SubSeq(q, 1, n - 1)) = IF 1 <= n - 1 THEN n - 1 - 1 + 1 ELSE 0
    BY <1>1, <2>1, SubSeqProperties
  <2> QED
    BY <1>1, <2>2
<1>3. SubSeq(q, n + 1, Len(q)) \in Seq(S) /\ Len(SubSeq(q, n + 1, Len(q))) = Len(q) - n
  <2>1. \A i \in n + 1 .. Len(q) : q[i] \in S
    BY <1>1
  <2>2. /\ SubSeq(q, n + 1, Len(q)) \in Seq(S)
        /\ Len(SubSeq(q, n + 1, Len(q))) =
             IF n + 1 <= Len(q) THEN Len(q) - (n + 1) + 1 ELSE 0
    BY <1>1, <2>1, SubSeqProperties
  <2> QED
    BY <1>1, <2>2
<1>4. \A a, b \in Seq(S) : a \o b \in Seq(S) /\ Len(a \o b) = Len(a) + Len(b)
  OBVIOUS
<1>5. /\ Without(q, n) \in Seq(S)
      /\ Len(Without(q, n)) = Len(SubSeq(q, 1, n - 1)) + Len(SubSeq(q, n + 1, Len(q)))
  BY <1>2, <1>3, <1>4, Zenon DEF Without
<1>6. \A l, m \in Int : (m - 1) + (l - m) = l - 1
  OBVIOUS
<1>7. (n - 1) + (Len(q) - n) = Len(q) - 1
  BY <1>1, <1>6, Zenon
<1> QED
  BY <1>1, <1>2, <1>3, <1>5, <1>7, Zenon

(* What a step does, for one of the runs.                                  *)
Makes(p) ==
  /\ p \in Servers /\ msgqAt[p] = "start" /\ msgqAt'[p] = "receive"
  /\ \A q \in Servers : ~ HasQueue(q)
  /\ msgqKey' = (IF msgqKey = 0 THEN msgqMade + 1 ELSE msgqKey)
  /\ msgqMade' = (IF msgqKey = 0 THEN msgqMade + 1 ELSE msgqMade)
  /\ msgqHeld' = [msgqHeld EXCEPT ![p] = msgqKey']
  /\ UNCHANGED <<msgqQueue, msgqRead>>

Finds(p) ==
  /\ p \in Clients /\ msgqAt[p] = "start" /\ msgqAt'[p] = "send" /\ msgqKey # 0
  /\ msgqHeld' = [msgqHeld EXCEPT ![p] = msgqKey]
  /\ UNCHANGED <<msgqKey, msgqMade, msgqQueue, msgqRead>>

GivesUp(p) ==
  /\ p \in Clients /\ msgqAt[p] \in {"start", "send", "await"} /\ msgqAt'[p] = "failed"
  /\ UNCHANGED <<msgqKey, msgqMade, msgqHeld, msgqQueue, msgqRead>>

Sends(p) ==
  /\ \/ p \in Servers /\ msgqAt[p] = "reply" /\ msgqAt'[p] = "asleep"
     \/ p \in Clients /\ msgqAt[p] = "send" /\ msgqAt'[p] = "await"
  /\ msgqHeld[p] = msgqKey
  /\ msgqQueue' = Append(msgqQueue, p)
  /\ UNCHANGED <<msgqKey, msgqMade, msgqHeld, msgqRead>>

Takes(p) ==
  /\ \/ p \in Servers /\ msgqAt[p] = "receive" /\ msgqAt'[p] = "reply"
     \/ p \in Clients /\ msgqAt[p] = "await" /\ msgqAt'[p] = "done"
  /\ \E n \in 1 .. Len(msgqQueue) :
       /\ msgqQueue' = Without(msgqQueue, n)
       /\ msgqRead' = [msgqRead EXCEPT ![p] = msgqQueue[n]]
  /\ UNCHANGED <<msgqKey, msgqMade, msgqHeld>>

EndsQueue(p) ==
  /\ p \in Servers /\ msgqAt[p] = "asleep" /\ msgqAt'[p] = "done"
  /\ msgqKey' = 0 /\ msgqQueue' = <<>>
  /\ UNCHANGED <<msgqMade, msgqHeld, msgqRead>>

QueueMove(p) ==
  /\ \A q \in Runs : q # p => msgqAt'[q] = msgqAt[q]
  /\ msgqAt' \in [Runs -> {"off", "start", "receive", "reply", "asleep", "send", "await",
                           "done", "failed"}]
  /\ Makes(p) \/ Finds(p) \/ GivesUp(p) \/ Sends(p) \/ Takes(p) \/ EndsQueue(p)

LEMMA QueueSteps ==
  ASSUME QueuePlaces, Queue!Next \/ UNCHANGED msgqVars
  PROVE  (\E p \in Runs : QueueMove(p)) \/ UNCHANGED msgqVars
<1> USE ExchangesAssumption
    DEF Runs, Queue!Go, Queue!ipcVars, QueuePlaces, Queue!NoObject, Queue!Valid, Queue!Processes
<1>1. ASSUME NEW p \in Servers, Queue!StartServer(p)
      PROVE  QueueMove(p)
  BY <1>1 DEF Queue!StartServer, Queue!GetOrMake, Queue!Ended, HasQueue, QueueMove, Makes
<1>2. ASSUME NEW p \in Servers, Queue!Server(p)
      PROVE  QueueMove(p)
  <2>1. CASE Queue!Receive(p, Queue!Processes, "receive", "reply")
    <3>1. PICK n \in 1 .. Len(msgqQueue) :
            /\ msgqRead' = [msgqRead EXCEPT ![p] = msgqQueue[n]]
            /\ msgqQueue' = Without(msgqQueue, n)
      BY <2>1 DEF Queue!Receive, Without
    <3>2. Takes(p)
      BY <2>1, <3>1 DEF Queue!Receive, Takes
    <3> QED
      BY <2>1, <3>2 DEF Queue!Receive, QueueMove
  <2>2. CASE Queue!Send(p, "reply", "asleep")
    BY <2>2 DEF Queue!Send, QueueMove, Sends
  <2>3. CASE Queue!RemoveQueue(p)
    BY <2>3 DEF Queue!RemoveQueue, Queue!Remove, QueueMove, EndsQueue
  <2> QED
    BY <1>2, <2>1, <2>2, <2>3 DEF Queue!Server
<1>3. ASSUME NEW p \in Clients, Queue!StartClient(p)
      PROVE  QueueMove(p)
  BY <1>3 DEF Queue!StartClient, Queue!Get, QueueMove, Finds, GivesUp
<1>4. ASSUME NEW p \in Clients, Queue!Client(p)
      PROVE  QueueMove(p)
  <2>1. CASE Queue!Receive(p, Servers, "await", "done")
    <3>1. PICK n \in 1 .. Len(msgqQueue) :
            /\ msgqRead' = [msgqRead EXCEPT ![p] = msgqQueue[n]]
            /\ msgqQueue' = Without(msgqQueue, n)
      BY <2>1 DEF Queue!Receive, Without
    <3>2. Takes(p)
      BY <2>1, <3>1 DEF Queue!Receive, Takes
    <3> QED
      BY <2>1, <3>2 DEF Queue!Receive, QueueMove
  <2>2. CASE Queue!Send(p, "send", "await")
    BY <2>2 DEF Queue!Send, QueueMove, Sends
  <2>3. CASE \E from \in {"send", "await"} : Queue!Fail(p, from)
    BY <2>3 DEF Queue!Fail, QueueMove, GivesUp
  <2> QED
    BY <1>4, <2>1, <2>2, <2>3 DEF Queue!Client
<1> QED
  BY <1>1, <1>2, <1>3, <1>4 DEF Queue!Next

LEMMA NextQueue == QueueInv /\ [Next]_vars => QueueInv'
<1> SUFFICES ASSUME QueueInv, Queue!Next \/ UNCHANGED msgqVars
             PROVE  QueueInv'
  BY StepOfQueue
<1> USE ExchangesAssumption DEF Runs, QueueInv
<1>1. CASE UNCHANGED msgqVars
  BY <1>1
  DEF msgqVars, QueuePlaces, QueueFound, QueueServers, QueueBound, QueueRequests, HasQueue, Started,
      Senders
<1>2. ASSUME NEW p \in Runs, QueueMove(p)
      PROVE  QueueInv'
  <2>1. QueuePlaces'
    <3>1. \A n \in 1 .. Len(msgqQueue) : msgqQueue[n] \in Runs
      BY DEF QueueBound
    <3>2. msgqRead' \in [Runs -> Runs \cup {Nobody}]
      BY <1>2, <3>1
      DEF QueuePlaces, QueueMove, Makes, Finds, GivesUp, Sends, Takes, EndsQueue
    <3> QED
      BY <1>2, <3>2 DEF QueuePlaces, QueueMove, Makes, Finds, GivesUp, Sends, Takes, EndsQueue
  <2>2. QueueFound'
    <3>1. msgqAt'[p] \notin {"off", "start"} /\ \A q \in Runs : q # p => msgqAt'[q] = msgqAt[q]
      BY <1>2 DEF QueueMove, Makes, Finds, GivesUp, Sends, Takes, EndsQueue
    <3>2. /\ Cardinality(Started(Servers, msgqAt))' >= Cardinality(Started(Servers, msgqAt))
          /\ Makes(p) =>
               Cardinality(Started(Servers, msgqAt))' = Cardinality(Started(Servers, msgqAt)) + 1
      <4>1. Started(Servers, msgqAt)' = Started(Servers, msgqAt')
        BY DEF Started
      <4>2. CASE p \in Servers
        <5>1. Cardinality(Started(Servers, msgqAt')) = Cardinality(Started(Servers, msgqAt))
                + (IF msgqAt[p] \in {"off", "start"} THEN 1 ELSE 0)
          BY <3>1, <4>2, StartedMoves
        <5> QED
          BY <4>1, <5>1, ServersFinite DEF Makes
      <4>3. CASE p \notin Servers
        BY <3>1, <4>1, <4>3, ServersFinite DEF Makes, Started
      <4> QED
        BY <4>2, <4>3
    <3>3. Cardinality(Started(Servers, msgqAt)) \in Nat /\ Cardinality(Started(Servers, msgqAt))' \in Nat
      BY ServersFinite, StartedCount DEF Started
    <3>4. (msgqMade \in Nat /\ msgqKey \in 0 .. msgqMade)' /\ msgqMade' >= msgqMade
      BY <1>2 DEF QueueFound, QueueMove, Makes, Finds, GivesUp, Sends, Takes, EndsQueue
    <3>5. (msgqMade <= Cardinality(Started(Servers, msgqAt)))'
      BY <1>2, <3>2, <3>3 DEF QueueFound, QueueMove, Makes, Finds, GivesUp, Sends, Takes, EndsQueue
    <3>6. (msgqHeld \in [Runs -> 0 .. msgqMade])'
      BY <1>2, <3>4 DEF QueueFound, QueueMove, Makes, Finds, GivesUp, Sends, Takes, EndsQueue
    <3>7. (\A c \in Clients : msgqAt[c] \in {"send", "await"} => msgqHeld[c] # 0)'
      BY <1>2, <3>1 DEF QueueFound, QueueMove, Makes, Finds, GivesUp, Sends, Takes, EndsQueue
    <3> QED
      BY <3>4, <3>5, <3>6, <3>7 DEF QueueFound
  <2>3. QueueServers'
    BY <1>2
    DEF QueueServers, QueueFound, HasQueue, QueueMove, Makes, Finds, GivesUp, Sends, Takes, EndsQueue
  <2>4. QueueBound'
    <3>1. /\ Senders(msgqAt)' = Senders(msgqAt') /\ Senders(msgqAt) \subseteq Senders(msgqAt')
          /\ Sends(p) => Senders(msgqAt') = Senders(msgqAt) \cup {p} /\ p \notin Senders(msgqAt)
      BY <1>2 DEF Senders, QueueMove, Makes, Finds, GivesUp, Sends, Takes, EndsQueue
    <3>2. /\ Cardinality(Senders(msgqAt)) <= Cardinality(Senders(msgqAt'))
          /\ Sends(p) => Cardinality(Senders(msgqAt')) = Cardinality(Senders(msgqAt)) + 1
      BY <3>1, SendersCount, FS_Subset, FS_AddElement
    <3>3. Cardinality(Senders(msgqAt)) \in Nat /\ Cardinality(Senders(msgqAt')) \in Nat
      BY SendersCount
    <3>4. CASE Sends(p)
      BY <3>1, <3>2, <3>3, <3>4 DEF QueueBound, Sends
    <3>5. CASE Takes(p)
      <4>1. PICK n \in 1 .. Len(msgqQueue) : msgqQueue' = Without(msgqQueue, n)
        BY <3>5 DEF Takes
      <4>2. msgqQueue' \in Seq(Runs) /\ Len(msgqQueue') = Len(msgqQueue) - 1 /\ Len(msgqQueue) \in Nat
        BY <4>1, WithoutOne DEF QueueBound
      <4> QED
        BY <3>1, <3>2, <3>3, <4>2 DEF QueueBound
    <3>6. CASE EndsQueue(p)
      BY <3>1, <3>3, <3>6 DEF QueueBound, EndsQueue
    <3>7. CASE Makes(p) \/ Finds(p) \/ GivesUp(p)
      BY <3>1, <3>2, <3>3, <3>7 DEF QueueBound, Makes, Finds, GivesUp
    <3> QED
      BY <1>2, <3>4, <3>5, <3>6, <3>7 DEF QueueMove
  <2>5. QueueRequests'
    <3>1. (msgqKey = 0 => msgqQueue = <<>>)'
      <4>1. Sends(p) \/ Takes(p) => msgqKey # 0
        BY <1>2 DEF QueueServers, QueueFound, QueueRequests, HasQueue, Sends, Takes
      <4> QED
        BY <1>2, <4>1 DEF QueueRequests, QueueFound, QueueMove, Makes, Finds, GivesUp, Sends, Takes, EndsQueue
    <3>2. ASSUME NEW s \in Servers, msgqAt'[s] = "receive"
          PROVE  msgqQueue' \in Seq(Clients)
      <4>1. CASE Makes(p)
        <5>1. msgqKey = 0
          BY <4>1 DEF QueueServers, Makes
        <5>2. msgqQueue' = <<>>
          BY <4>1, <5>1 DEF QueueRequests, Makes
        <5> QED
          BY <5>2
      <4>2. CASE ~ Makes(p)
        <5>1. msgqAt[s] = "receive" /\ msgqQueue \in Seq(Clients)
          BY <1>2, <3>2, <4>2
          DEF QueueRequests, QueueMove, Finds, GivesUp, Sends, Takes, EndsQueue
        <5>2. p \in Servers => ~ Sends(p) /\ ~ EndsQueue(p)
          BY <1>2, <3>2, <5>1 DEF QueueServers, HasQueue, Sends, EndsQueue
        <5>3. CASE Takes(p)
          <6>1. PICK n \in 1 .. Len(msgqQueue) : msgqQueue' = Without(msgqQueue, n)
            BY <5>3 DEF Takes
          <6> QED
            BY <5>1, <6>1, WithoutOne
        <5>4. CASE Sends(p)
          BY <5>1, <5>2, <5>4 DEF Sends
        <5>5. CASE ~ Takes(p) /\ ~ Sends(p)
          BY <1>2, <4>2, <5>1, <5>2, <5>5 DEF QueueMove, Finds, GivesUp, EndsQueue
        <5> QED
          BY <5>3, <5>4, <5>5
      <4> QED
        BY <4>1, <4>2
    <3> QED
      BY <3>1, <3>2 DEF QueueRequests
  <2> QED
    BY <2>1, <2>2, <2>3, <2>4, <2>5
<1> QED
  BY <1>1, <1>2, QueueSteps

(* Hence what the runs of Exchanges check of these two programs.           *)
LEMMA QueueMatches == QueueInv => Queue!TypeOK /\ Queue!ServerTakesRequests
<1> SUFFICES ASSUME QueueInv
             PROVE  Queue!TypeOK /\ Queue!ServerTakesRequests
  OBVIOUS
<1> USE ExchangesAssumption DEF QueueInv, Runs
<1>1. /\ Queue!Processes = Runs /\ Queue!Cardinality(Queue!Processes) = Cardinality(Runs)
      /\ Queue!Cardinality(Servers) = Cardinality(Servers)
  BY DEF Queue!Processes, Cardinality, Queue!Cardinality
<1>2. msgqMade \in 0 .. Cardinality(Servers)
  <2>1. /\ Cardinality(Servers) \in Nat /\ Cardinality(Started(Servers, msgqAt)) \in Nat
        /\ Cardinality(Started(Servers, msgqAt)) <= Cardinality(Servers)
    BY StartedCount
  <2> QED
    BY <2>1 DEF QueueFound
<1>3. Len(msgqQueue) <= Cardinality(Runs)
  <2>1. Len(msgqQueue) \in Nat /\ Len(msgqQueue) <= Cardinality(Senders(msgqAt))
    BY DEF QueueBound
  <2>2. /\ Cardinality(Senders(msgqAt)) \in Nat /\ Cardinality(Runs) \in Nat
        /\ Cardinality(Senders(msgqAt)) <= Cardinality(Runs)
    BY SendersCount
  <2> QED
    BY <2>1, <2>2
<1>4. Queue!TypeOK
  BY <1>1, <1>2, <1>3 DEF Queue!TypeOK, QueueFound, QueuePlaces, QueueBound
<1>5. Queue!ServerTakesRequests
  BY DEF Queue!ServerTakesRequests, Queue!Valid, QueueServers, QueueRequests, QueuePlaces, HasQueue
<1> QED
  BY <1>4, <1>5

----------------------------------------------------------------------------
(* HW8/fifos.c and fifoc.c: where the programs are, ...                    *)
FifoLabels ==
  {"off", "start", "receive", "open", "reply", "send", "await", "done", "failed", "killed"}

FifoPlaces ==
  /\ fifoAt \in [Runs -> FifoLabels]
  /\ \A p \in Clients : fifoAt[p] \notin {"receive", "open", "reply"}
  /\ \A p \in Servers : fifoAt[p] \notin {"send", "await"}

(* ... the FIFOs that were made, one by a server at most, ...              *)
Opened(p) == fifoAt[p] \in {"receive", "open", "reply", "send", "await"}

FifoFound ==
  /\ fifoMade \in Nat /\ fifoKey \in 0 .. fifoMade
  /\ fifoMade <= Cardinality(Started(Servers, fifoAt))
  /\ fifoHeld \in [Runs -> 0 .. fifoMade]
  /\ \A p \in Runs : Opened(p) => fifoHeld[p] # 0

(* ... the request that fifos has read, ...                                *)
FifoMsg ==
  /\ fifoMsg \in [Servers -> Clients \cup {Nobody}]
  /\ \A s \in Servers : fifoAt[s] \in {"open", "reply"} => fifoMsg[s] \in Clients
  /\ fifoReplied \subseteq Clients

(* ... and those it has not: one of each fifoc that has sent.              *)
Files == 1 .. Cardinality(Servers)

Callers(at) == {c \in Clients : at[c] \notin {"off", "start", "send"}}

FifoBound ==
  /\ fifoQueue \in [Files -> Seq(Clients)]
  /\ \A f \in Files : Len(fifoQueue[f]) <= Cardinality(Callers(fifoAt))

FifoInv == FifoPlaces /\ FifoFound /\ FifoMsg /\ FifoBound

LEMMA StartOfFifo == Init => Fifo!Init \/ Fifo!NotRun
BY DEF Init

LEMMA StepOfFifo == [Next]_vars => Fifo!Next \/ UNCHANGED fifoVars
BY DEF Next, vars, FlagStep, SemStep, ThreadsStep, TurnsStep, QueueStep, FifoStep,
       PairStep, SocketsStep

LEMMA CallersCount ==
  ASSUME NEW at
  PROVE  /\ IsFiniteSet(Callers(at)) /\ Cardinality(Callers(at)) \in Nat
         /\ Cardinality(Callers(at)) <= Cardinality(Clients) /\ Cardinality(Clients) \in Nat
BY ExchangesAssumption, FS_CardinalityType, FS_Subset DEF Callers

LEMMA FifoFiles ==
  /\ Fifo!Fifos = Files /\ Fifo!Cardinality(Servers) = Cardinality(Servers)
  /\ Fifo!Cardinality(Clients) = Cardinality(Clients)
BY DEF Fifo!Fifos, Files, Cardinality, Fifo!Cardinality

LEMMA InitFifo == Init => FifoInv
<1> SUFFICES ASSUME Fifo!Init \/ Fifo!NotRun
             PROVE  FifoInv
  BY StartOfFifo
<1>1. /\ \A p \in Runs : fifoAt[p] \in {"off", "start"}
      /\ fifoAt \in [Runs -> {"off", "start"}]
      /\ fifoKey = 0 /\ fifoMade = 0 /\ fifoHeld = [p \in Runs |-> 0]
      /\ fifoQueue = [f \in Files |-> <<>>] /\ fifoMsg = [s \in Servers |-> Nobody]
      /\ fifoReplied = {}
  BY FifoFiles
  DEF Fifo!Init, Fifo!NotRun, Fifo!InitAt, Fifo!IpcInit, Fifo!NoObject, Fifo!Processes, Runs
<1>2. FifoPlaces /\ FifoMsg
  BY <1>1 DEF FifoPlaces, FifoLabels, FifoMsg, Runs
<1>3. Cardinality(Started(Servers, fifoAt)) \in Nat
  BY ExchangesAssumption, StartedCount
<1>4. FifoFound
  BY <1>1, <1>3 DEF FifoFound, Opened
<1>5. <<>> \in Seq(Clients) /\ Len(<<>>) = 0 /\ Cardinality(Callers(fifoAt)) \in Nat
  BY CallersCount
<1>6. FifoBound
  BY <1>1, <1>5 DEF FifoBound
<1> QED
  BY <1>2, <1>4, <1>6 DEF FifoInv

(* What a step does, for one of the runs.                                  *)
Mkfifo(p) ==
  /\ p \in Servers /\ fifoAt[p] = "start" /\ fifoAt'[p] = "receive"
  /\ fifoKey' = (IF fifoKey = 0 THEN fifoMade + 1 ELSE fifoKey)
  /\ fifoMade' = (IF fifoKey = 0 THEN fifoMade + 1 ELSE fifoMade)
  /\ fifoHeld' = [fifoHeld EXCEPT ![p] = fifoKey']
  /\ UNCHANGED <<fifoQueue, fifoMsg, fifoReplied>>

Joins(p) ==
  /\ p \in Clients /\ fifoAt[p] = "start" /\ fifoAt'[p] = "send" /\ fifoKey # 0
  /\ fifoHeld' = [fifoHeld EXCEPT ![p] = fifoKey]
  /\ UNCHANGED <<fifoKey, fifoMade, fifoQueue, fifoMsg, fifoReplied>>

Calls(p) ==
  /\ p \in Clients /\ fifoAt[p] = "send" /\ fifoAt'[p] = "await"
  /\ fifoQueue' = [fifoQueue EXCEPT ![fifoHeld[p]] = Append(@, p)]
  /\ UNCHANGED <<fifoKey, fifoMade, fifoHeld, fifoMsg, fifoReplied>>

Fetches(p) ==
  /\ p \in Servers /\ fifoAt[p] = "receive" /\ fifoAt'[p] = "open"
  /\ fifoQueue[fifoHeld[p]] # <<>>
  /\ fifoMsg' = [fifoMsg EXCEPT ![p] = Head(fifoQueue[fifoHeld[p]])]
  /\ fifoQueue' = [fifoQueue EXCEPT ![fifoHeld[p]] = Tail(@)]
  /\ UNCHANGED <<fifoKey, fifoMade, fifoHeld, fifoReplied>>

Continues(p) ==
  /\ \/ p \in Servers /\ fifoAt[p] = "open" /\ fifoAt'[p] = "reply" /\ fifoReplied' = fifoReplied
     \/ /\ p \in Servers /\ fifoAt[p] = "reply" /\ fifoAt'[p] = "receive"
        /\ fifoReplied' = fifoReplied \cup {fifoMsg[p]}
     \/ p \in Clients /\ fifoAt[p] = "start" /\ fifoAt'[p] = "failed" /\ fifoReplied' = fifoReplied
  /\ UNCHANGED <<fifoKey, fifoMade, fifoHeld, fifoQueue, fifoMsg>>

Exits(p) ==
  /\ fifoAt[p] \notin {"off", "start"} /\ fifoAt'[p] \in {"done", "killed"}
  /\ fifoKey' \in {0, fifoKey} /\ fifoHeld' = [fifoHeld EXCEPT ![p] = 0]
  /\ \E kept \in SUBSET Files :
       fifoQueue' = [f \in Files |-> IF f \in kept THEN fifoQueue[f] ELSE <<>>]
  /\ UNCHANGED <<fifoMade, fifoMsg, fifoReplied>>

FifoMove(p) ==
  /\ \A q \in Runs : q # p => fifoAt'[q] = fifoAt[q]
  /\ fifoAt' \in [Runs -> FifoLabels]
  /\ Mkfifo(p) \/ Joins(p) \/ Calls(p) \/ Fetches(p) \/ Continues(p) \/ Exits(p)

LEMMA FifoExits ==
  ASSUME FifoPlaces, NEW p \in Runs, NEW how \in {"done", "killed"}, Fifo!Exit(p, how),
         fifoAt[p] \notin {"off", "start"}, fifoKey' \in {0, fifoKey},
         UNCHANGED <<fifoMsg, fifoReplied>>
  PROVE  FifoMove(p)
<1>1. /\ fifoAt' = [fifoAt EXCEPT ![p] = how] /\ fifoHeld' = [fifoHeld EXCEPT ![p] = 0]
      /\ fifoMade' = fifoMade
  BY DEF Fifo!Exit, Fifo!NoObject
<1>2. \E kept \in SUBSET Files :
        fifoQueue' = [f \in Files |-> IF f \in kept THEN fifoQueue[f] ELSE <<>>]
  <2> DEFINE kept == {f \in Files : \E q \in Fifo!Processes : fifoHeld'[q] = f}
  <2>1. fifoQueue' = [f \in Files |-> IF f \in kept THEN fifoQueue[f] ELSE <<>>]
    BY FifoFiles DEF Fifo!Exit
  <2> QED
    BY <2>1
<1>3. Exits(p)
  BY <1>1, <1>2 DEF Exits, FifoPlaces
<1> QED
  BY <1>1, <1>3 DEF FifoMove, FifoPlaces, FifoLabels

LEMMA FifoSteps ==
  ASSUME FifoPlaces, Fifo!Next \/ UNCHANGED fifoVars
  PROVE  (\E p \in Runs : FifoMove(p)) \/ UNCHANGED fifoVars
<1> USE ExchangesAssumption DEF Runs, Fifo!Go, Fifo!ipcVars, Fifo!NoObject
<1>1. ASSUME NEW p \in Servers, Fifo!StartServer(p)
      PROVE  FifoMove(p)
  BY <1>1
  DEF Fifo!StartServer, Fifo!GetOrMake, FifoMove, Mkfifo, FifoPlaces, FifoLabels
<1>2. ASSUME NEW p \in Servers, Fifo!Server(p)
      PROVE  FifoMove(p)
  <2>1. CASE Fifo!Receive(p)
    BY <2>1 DEF Fifo!Receive, FifoMove, Fetches, FifoPlaces, FifoLabels
  <2>2. CASE Fifo!Open(p)
    BY <2>2 DEF Fifo!Open, FifoMove, Continues, FifoPlaces, FifoLabels
  <2>3. CASE Fifo!Reply(p)
    <3>1. CASE Fifo!Running(fifoMsg[p])
      BY <2>3, <3>1 DEF Fifo!Reply, FifoMove, Continues, FifoPlaces, FifoLabels
    <3>2. CASE ~ Fifo!Running(fifoMsg[p])
      BY <2>3, <3>2, FifoExits DEF Fifo!Reply
    <3> QED
      BY <3>1, <3>2
  <2> QED
    BY <1>2, <2>1, <2>2, <2>3 DEF Fifo!Server
<1>3. ASSUME NEW p \in Servers, Fifo!SigIntHandler(p)
      PROVE  FifoMove(p)
  BY <1>3, FifoExits DEF Fifo!SigIntHandler, Fifo!Running
<1>4. ASSUME NEW p \in Clients, Fifo!StartClient(p)
      PROVE  FifoMove(p)
  BY <1>4 DEF Fifo!StartClient, Fifo!Get, FifoMove, Joins, Continues, FifoPlaces, FifoLabels
<1>5. ASSUME NEW p \in Clients, Fifo!Client(p)
      PROVE  FifoMove(p)
  <2>1. CASE Fifo!Send(p)
    BY <2>1 DEF Fifo!Send, FifoMove, Calls, FifoPlaces, FifoLabels
  <2>2. CASE Fifo!ReadReply(p)
    BY <2>2, FifoExits DEF Fifo!ReadReply
  <2> QED
    BY <1>5, <2>1, <2>2 DEF Fifo!Client
<1>6. ASSUME NEW p \in Runs, Fifo!Killed(p)
      PROVE  FifoMove(p)
  BY <1>6, FifoExits DEF Fifo!Killed, Fifo!Running
<1> QED
  BY <1>1, <1>2, <1>3, <1>4, <1>5, <1>6 DEF Fifo!Next, Fifo!Processes

LEMMA NextFifo == FifoInv /\ [Next]_vars => FifoInv'
<1> SUFFICES ASSUME FifoInv, Fifo!Next \/ UNCHANGED fifoVars
             PROVE  FifoInv'
  BY StepOfFifo
<1> USE ExchangesAssumption DEF Runs, FifoInv
<1>1. CASE UNCHANGED fifoVars
  BY <1>1 DEF fifoVars, FifoPlaces, FifoFound, FifoMsg, FifoBound, Opened, Started, Callers
<1>2. ASSUME NEW p \in Runs, FifoMove(p)
      PROVE  FifoInv'
  <2> USE DEF Mkfifo, Joins, Calls, Fetches, Continues, Exits
  <2>1. FifoPlaces'
    BY <1>2 DEF FifoPlaces, FifoMove
  <2>2. /\ fifoAt'[p] \notin {"off", "start"}
        /\ \A q \in Runs : q # p => fifoAt'[q] = fifoAt[q] /\ fifoHeld'[q] = fifoHeld[q]
    BY <1>2 DEF FifoMove, FifoFound
  <2>3. FifoFound'
    <3>1. /\ Cardinality(Started(Servers, fifoAt))' >= Cardinality(Started(Servers, fifoAt))
          /\ Mkfifo(p) =>
               Cardinality(Started(Servers, fifoAt))' = Cardinality(Started(Servers, fifoAt)) + 1
          /\ Cardinality(Started(Servers, fifoAt)) \in Nat
          /\ Cardinality(Started(Servers, fifoAt))' \in Nat
      <4> HIDE DEF Mkfifo
      <4>1. Started(Servers, fifoAt)' = Started(Servers, fifoAt')
        BY DEF Started
      <4>2. Cardinality(Started(Servers, fifoAt)) \in Nat
            /\ Cardinality(Started(Servers, fifoAt')) \in Nat
        BY StartedCount
      <4>3. CASE p \in Servers
        <5>1. Cardinality(Started(Servers, fifoAt')) = Cardinality(Started(Servers, fifoAt))
                + (IF fifoAt[p] \in {"off", "start"} THEN 1 ELSE 0)
          BY <2>2, <4>3, StartedMoves
        <5> QED
          BY <4>1, <4>2, <5>1 DEF Mkfifo
      <4>4. CASE p \notin Servers
        <5>1. Started(Servers, fifoAt') = Started(Servers, fifoAt)
          BY <2>2, <4>4 DEF Started
        <5> QED
          BY <4>1, <4>2, <4>4, <5>1 DEF Mkfifo
      <4> QED
        BY <4>3, <4>4
    <3>2. (fifoMade \in Nat /\ fifoKey \in 0 .. fifoMade)' /\ fifoMade' >= fifoMade
      BY <1>2 DEF FifoFound, FifoMove
    <3>3. (fifoMade <= Cardinality(Started(Servers, fifoAt)))'
      BY <1>2, <3>1 DEF FifoFound, FifoMove
    <3>4. (fifoHeld \in [Runs -> 0 .. fifoMade])'
      BY <1>2, <3>2 DEF FifoFound, FifoMove
    <3>5. (\A q \in Runs : Opened(q) => fifoHeld[q] # 0)'
      <4>1. Opened(p)' => fifoHeld'[p] # 0
        BY <1>2 DEF FifoFound, FifoMove, Opened
      <4> QED
        BY <2>2, <4>1 DEF FifoFound, Opened
    <3> QED
      BY <3>2, <3>3, <3>4, <3>5 DEF FifoFound
  <2>4. Opened(p) => fifoHeld[p] \in Files
    BY StartedCount DEF FifoFound, Files
  <2>5. FifoMsg'
    <3>1. Fetches(p) => Head(fifoQueue[fifoHeld[p]]) \in Clients
      BY <2>4, HeadTailProperties DEF FifoBound, Opened
    <3> QED
      BY <1>2, <2>2, <3>1 DEF FifoMsg, FifoMove
  <2>6. /\ Callers(fifoAt)' = Callers(fifoAt') /\ Callers(fifoAt) \subseteq Callers(fifoAt')
        /\ Calls(p) => Callers(fifoAt') = Callers(fifoAt) \cup {p} /\ p \notin Callers(fifoAt)
    BY <1>2 DEF FifoMove, Callers
  <2>7. /\ Cardinality(Callers(fifoAt)) \in Nat /\ Cardinality(Callers(fifoAt')) \in Nat
        /\ Cardinality(Callers(fifoAt)) <= Cardinality(Callers(fifoAt'))
        /\ Calls(p) => Cardinality(Callers(fifoAt')) = Cardinality(Callers(fifoAt)) + 1
    <3> HIDE DEF Calls
    <3> QED
      BY <2>6, CallersCount, FS_Subset, FS_AddElement
  <2>8. FifoBound'
    <3>1. SUFFICES /\ fifoQueue' \in [Files -> Seq(Clients)]
                   /\ \A f \in Files : Len(fifoQueue'[f]) <= Cardinality(Callers(fifoAt'))
      BY <2>6 DEF FifoBound
    <3>2. \A f \in Files : fifoQueue[f] \in Seq(Clients) /\ Len(fifoQueue[f]) \in Nat
                           /\ Len(fifoQueue[f]) <= Cardinality(Callers(fifoAt))
      BY DEF FifoBound
    <3>3. CASE Calls(p)
      <4>1. fifoHeld[p] \in Files
        BY <2>4, <3>3 DEF Opened
      <4>2. LET q == fifoQueue[fifoHeld[p]] IN
              Append(q, p) \in Seq(Clients) /\ Len(Append(q, p)) = Len(q) + 1
        BY <3>2, <3>3, <4>1
      <4> QED
        BY <2>7, <3>2, <3>3, <4>1, <4>2 DEF FifoBound
    <3>4. CASE Fetches(p)
      <4>1. fifoHeld[p] \in Files
        BY <2>4, <3>4 DEF Opened
      <4>2. LET q == fifoQueue[fifoHeld[p]] IN
              Tail(q) \in Seq(Clients) /\ Len(Tail(q)) = Len(q) - 1
        BY <3>2, <3>4, <4>1, HeadTailProperties
      <4> QED
        BY <2>7, <3>2, <3>4, <4>1, <4>2 DEF FifoBound
    <3>5. CASE Exits(p)
      <4>1. PICK kept \in SUBSET Files :
              fifoQueue' = [f \in Files |-> IF f \in kept THEN fifoQueue[f] ELSE <<>>]
        BY <3>5
      <4>2. <<>> \in Seq(Clients) /\ Len(<<>>) = 0
        OBVIOUS
      <4> QED
        BY <2>7, <3>2, <4>1, <4>2
    <3>6. CASE Mkfifo(p) \/ Joins(p) \/ Continues(p)
      BY <2>7, <3>2, <3>6 DEF FifoBound
    <3> QED
      BY <1>2, <3>3, <3>4, <3>5, <3>6 DEF FifoMove
  <2> QED
    BY <2>1, <2>3, <2>5, <2>8
<1> QED
  BY <1>1, <1>2, FifoSteps

LEMMA FifoTyped == FifoInv => Fifo!TypeOK
<1> SUFFICES ASSUME FifoInv
             PROVE  Fifo!TypeOK
  OBVIOUS
<1> USE ExchangesAssumption DEF FifoInv, Runs
<1>1. /\ Cardinality(Servers) \in Nat /\ Cardinality(Started(Servers, fifoAt)) \in Nat
      /\ Cardinality(Started(Servers, fifoAt)) <= Cardinality(Servers)
  BY StartedCount
<1>2. /\ fifoMade \in 0 .. Cardinality(Servers) /\ fifoKey \in Files \cup {0}
      /\ \A p \in Runs : fifoHeld[p] \in Files \cup {0}
  BY <1>1 DEF FifoFound, Files
<1>3. fifoHeld \in [Runs -> Files \cup {0}]
  BY <1>2 DEF FifoFound
<1>4. \A f \in Files : Len(fifoQueue[f]) <= Cardinality(Clients)
  <2>1. \A f \in Files : Len(fifoQueue[f]) \in Nat
    BY DEF FifoBound
  <2>2. /\ Cardinality(Callers(fifoAt)) \in Nat /\ Cardinality(Clients) \in Nat
        /\ Cardinality(Callers(fifoAt)) <= Cardinality(Clients)
    BY CallersCount
  <2> QED
    BY <2>1, <2>2 DEF FifoBound
<1>5. Fifo!Processes = Runs /\ Fifo!NoObject = 0
  BY DEF Fifo!Processes, Fifo!NoObject
<1> QED
  BY <1>2, <1>3, <1>4, <1>5, FifoFiles
  DEF Fifo!TypeOK, FifoPlaces, FifoLabels, FifoMsg, FifoBound

----------------------------------------------------------------------------
(* The type invariant of SipcSem.                                          *)
LEMMA SemTyped == SemInv => Sem!TypeOK
<1> SUFFICES ASSUME SemShape
             PROVE  Sem!TypeOK
  BY DEF SemInv
<1> USE ExchangesAssumption DEF SemShape
<1>1. Sem!Segments = 1 .. Cardinality(Runs) /\ Sem!Cardinality(Clients \cup Servers) = Cardinality(Runs)
      /\ Sem!NoObject = 0
  BY SemSegments DEF Cardinality, Sem!Cardinality, Sem!NoObject, Runs
<1>2. /\ Cardinality(Runs) \in Nat /\ Cardinality(Started(Runs, semAt)) \in Nat
      /\ Cardinality(Started(Runs, semAt)) <= Cardinality(Runs)
  BY RunsFinite, StartedCount
<1>3. /\ semMade \in 0 .. Cardinality(Runs) /\ semKey \in 1 .. Cardinality(Runs) \cup {0}
      /\ \A p \in Runs : semHeld[p] \in 1 .. Cardinality(Runs) \cup {0}
  BY <1>2 DEF SemFound
<1>4. semHeld \in [Runs -> 1 .. Cardinality(Runs) \cup {0}]
  BY <1>3 DEF SemFound
<1>5. Sem!SemlibTypeOK
  BY <1>1 DEF Sem!SemlibTypeOK, Sem!NoSem, SemCount, Runs
<1>6. semAt \in [Runs -> {"off", "start", "attach", "init2", "init1", "set2", "set1", "wait",
                          "read", "write", "post", "await", "asleep", "destroy1", "destroy2",
                          "done", "failed", "killed"}]
  BY DEF SemPlaces, Common, OfClient, OfServer
<1> QED
  BY <1>1, <1>3, <1>4, <1>5, <1>6 DEF Sem!TypeOK, SemLives, SemData, Runs

----------------------------------------------------------------------------
(* Two processes, or two threads, are never both at the shared buffer of   *)
(* HW9's sipc1 and sipc2 or sipc_m (sipc1.c:48-59, sipc2.c:56-74,          *)
(* sipc_m.c:52-210), however often the programs are run, also when a       *)
(* server was killed before its reply and another one started.  Of sipc1   *)
(* and sipc2 it is said for a careful user (user in SipcSem), who kills    *)
(* no sipc2 and no sipc1 that has replied, and runs nothing after a sipc2  *)
(* that failed.                                                            *)
THEOREM Exclude == Spec => []Exclusion
<1>1. Init => ThreadInv /\ SemInv
  BY InitThreads, InitSemInv
<1>2. ThreadInv /\ SemInv /\ [Next]_vars => (ThreadInv /\ SemInv)'
  BY NextThreads, NextSemInv
<1>3. ThreadInv /\ SemInv => Exclusion
  BY ThreadsExclude, SemExcludes DEF Exclusion
<1> QED
  BY <1>1, <1>2, <1>3, PTL DEF Spec

----------------------------------------------------------------------------
(* A client that has been answered has read what the server wrote after    *)
(* reading what this client had written: with the flag (HW8/sipc1.c:26-32, *)
(* sipc2.c:28-35), with the semaphores (HW9/sipc1.c:48-59, sipc2.c:56-74), *)
(* between the threads of sipc_m.c and over the pair of FIFO programs.  It *)
(* excuses what RepliesMatch excuses: HW9's sipc1 and sipc2 have a careful *)
(* user, a sipc2 may be Late (SipcSem), and fifo1 is punctual.             *)
THEOREM Matched == Spec => []RepliesMatch
<1>1. Init => FlagsInv /\ SemInv /\ ThreadInv /\ PairInv
  BY InitFlag, InitSemInv, InitThreads, InitPair
<1>2. FlagsInv /\ SemInv /\ ThreadInv /\ PairInv /\ [Next]_vars
        => (FlagsInv /\ SemInv /\ ThreadInv /\ PairInv)'
  BY NextFlags, NextSemInv, NextThreads, NextPair
<1>3. FlagsInv /\ SemInv /\ ThreadInv /\ PairInv => RepliesMatch
  BY FlagMatches, SemExcludes, ThreadsExclude, PairMatches DEF RepliesMatch
<1> QED
  BY <1>1, <1>2, <1>3, PTL DEF Spec

----------------------------------------------------------------------------
(* What the run Exchanges checks as IInv, for any number of runs: types    *)
(* and bounds, the flag that says whose turn it is (HW8/sipc1.c:26-32), the *)
(* turns of sync.c, mipc.c and mipc_shm.c, and that msgq1, which takes any *)
(* message, takes a request (HW8/msgq1.c:23-33).                           *)
THEOREM Invariance == Spec => []IInv
<1> DEFINE Inv == /\ FlagsInv /\ SemInv /\ ThreadInv /\ TurnInv
                  /\ QueueInv /\ FifoInv /\ PairInv /\ SocketInv
<1>1. Init => Inv
  BY InitFlag, InitSemInv, InitThreads, InitTurns, InitQueue, InitFifo, InitPair, InitSockets
<1>2. SocketInv /\ [Next]_vars => SocketInv'
  BY StepOfSockets, SocketsType, SocketsPlace, SocketsServe DEF SocketInv
<1>3. Inv /\ [Next]_vars => Inv'
  BY <1>2, NextFlags, NextSemInv, NextThreads, NextTurns, NextQueue, NextFifo, NextPair
<1>4. Inv => IInv
  BY FlagMatches, SemTyped, QueueMatches, FifoTyped, PairMatches
  DEF IInv, ThreadInv, TurnInv, SocketInv
<1> QED
  BY <1>1, <1>3, <1>4, PTL DEF Spec

=============================================================================
