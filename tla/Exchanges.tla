------------------------------ MODULE Exchanges ------------------------------
(***************************************************************************)
(* The programs of HW8, HW9, HW10 and final_test_pre that exchange         *)
(* messages between processes or threads, side by side.  They share the    *)
(* keys and the port numbers, so that the user runs one pair of programs   *)
(* at a time: an execution is an execution of the chosen one, while the    *)
(* others are not started.  Each of them is a Service, whatever it does    *)
(* with memory, semaphores, queues, FIFOs or sockets.                      *)
(***************************************************************************)
EXTENDS Naturals, Sequences, FiniteSets

CONSTANTS
  Clients,  \* the runs of each client program
  Servers,  \* the runs of each server program
  Nobody,
  MaxKills, \* how many processes of SipcSem the user kills at most
  Rounds,   \* the passes of the loops of PipeTurns
  Stale     \* what an earlier run of mipc_shm may have left in its segment

ASSUME ExchangesAssumption ==
  /\ Clients \cap Servers = {}
  /\ Nobody \notin Clients \cup Servers \cup {"sipc1", "sipc2", "fifo1", "fifo2"}
  /\ IsFiniteSet(Clients) /\ IsFiniteSet(Servers)
  /\ MaxKills \in Nat /\ Rounds \in Nat /\ Stale \in Nat

VARIABLE program  \* the module of the programs that run

VARIABLES
  flagKey, flagMade, flagHeld, flagFlag, flagArea, flagAt, flagRead,
  semKey, semMade, semHeld, semValue, semAdjust, semLife, semId, semArea,
  semAt, semRead, semUser,
  thrVariant, thrMain, thrAt, thrDir, thrMutex, thrAsleep, thrValue, thrBuf,
  thrRead,
  turnProgram, turnAt, turnRound, turnPfd1, turnPfd2, turnArea, turnCounter,
  msgqKey, msgqMade, msgqHeld, msgqQueue, msgqAt, msgqRead,
  fifoKey, fifoMade, fifoHeld, fifoQueue, fifoMsg, fifoReplied, fifoAt,
  pairPunctual, pairFile, pairFifo, pairAt, pairRead,
  sockServer, sockState, sockKind, sockAt, sockConn, sockQueue, sockClient,
  sockLost

Flag == INSTANCE SipcFlag WITH
  key <- flagKey, made <- flagMade, held <- flagHeld, flag <- flagFlag,
  area <- flagArea, at <- flagAt, read <- flagRead

Sem == INSTANCE SipcSem WITH
  Processes <- Clients \cup Servers, Semaphores <- {"sem1", "sem2"},
  key <- semKey, made <- semMade, held <- semHeld, value <- semValue,
  adjust <- semAdjust, life <- semLife, id <- semId, area <- semArea,
  at <- semAt, read <- semRead, user <- semUser

Threads == INSTANCE SipcThreads WITH
  variant <- thrVariant, main <- thrMain, at <- thrAt, dir <- thrDir,
  Mutex <- thrMutex, asleep <- thrAsleep, value <- thrValue, buf <- thrBuf,
  read <- thrRead

Turns == INSTANCE PipeTurns WITH
  program <- turnProgram, at <- turnAt, round <- turnRound, Pfd1 <- turnPfd1,
  Pfd2 <- turnPfd2, area <- turnArea, counter <- turnCounter

Queue == INSTANCE MsgQueue WITH
  key <- msgqKey, made <- msgqMade, held <- msgqHeld, queue <- msgqQueue,
  at <- msgqAt, read <- msgqRead

Fifo == INSTANCE FifoServer WITH
  key <- fifoKey, made <- fifoMade, held <- fifoHeld, queue <- fifoQueue,
  msg <- fifoMsg, replied <- fifoReplied, at <- fifoAt

Pair == INSTANCE FifoPair WITH
  punctual <- pairPunctual, file <- pairFile, fifo <- pairFifo, at <- pairAt,
  read <- pairRead

Sockets == INSTANCE SocketServers WITH
  server <- sockServer, state <- sockState, kind <- sockKind, at <- sockAt,
  conn <- sockConn, queue <- sockQueue, client <- sockClient, lost <- sockLost

flagVars == <<flagKey, flagMade, flagHeld, flagFlag, flagArea, flagAt,
              flagRead>>
semVars == <<semKey, semMade, semHeld, semValue, semAdjust, semLife, semId,
             semArea, semAt, semRead, semUser>>
thrVars == <<thrVariant, thrMain, thrAt, thrDir, thrMutex, thrAsleep,
             thrValue, thrBuf, thrRead>>
turnVars == <<turnProgram, turnAt, turnRound, turnPfd1, turnPfd2, turnArea,
              turnCounter>>
msgqVars == <<msgqKey, msgqMade, msgqHeld, msgqQueue, msgqAt, msgqRead>>
fifoVars == <<fifoKey, fifoMade, fifoHeld, fifoQueue, fifoMsg, fifoReplied,
              fifoAt>>
pairVars == <<pairPunctual, pairFile, pairFifo, pairAt, pairRead>>
sockVars == <<sockServer, sockState, sockKind, sockAt, sockConn, sockQueue,
              sockClient, sockLost>>

vars == <<program,
          flagVars, semVars, thrVars, turnVars, msgqVars, fifoVars, pairVars,
          sockVars>>

Programs == {"SipcFlag", "SipcSem", "SipcThreads", "PipeTurns",
             "MsgQueue", "FifoServer", "FifoPair", "SocketServers"}

Init ==
  /\ program \in Programs
  /\ IF program = "SipcFlag" THEN Flag!Init ELSE Flag!NotRun
  /\ IF program = "SipcSem" THEN Sem!Init ELSE Sem!NotRun
  /\ IF program = "SipcThreads" THEN Threads!Init ELSE Threads!NotRun
  /\ IF program = "PipeTurns" THEN Turns!Init ELSE Turns!NotRun
  /\ IF program = "MsgQueue" THEN Queue!Init ELSE Queue!NotRun
  /\ IF program = "FifoServer" THEN Fifo!Init ELSE Fifo!NotRun
  /\ IF program = "FifoPair" THEN Pair!Init ELSE Pair!NotRun
  /\ IF program = "SocketServers" THEN Sockets!Init ELSE Sockets!NotRun

(* A step of the programs that run; the others stay as they are. *)
FlagStep ==
  /\ Flag!Next
  /\ UNCHANGED <<program, semVars, thrVars, turnVars, msgqVars, fifoVars, pairVars, sockVars>>

SemStep ==
  /\ Sem!Next
  /\ UNCHANGED <<program, flagVars, thrVars, turnVars, msgqVars, fifoVars, pairVars, sockVars>>

ThreadsStep ==
  /\ Threads!Next
  /\ UNCHANGED <<program, flagVars, semVars, turnVars, msgqVars, fifoVars, pairVars, sockVars>>

TurnsStep ==
  /\ Turns!Next
  /\ UNCHANGED <<program, flagVars, semVars, thrVars, msgqVars, fifoVars, pairVars, sockVars>>

QueueStep ==
  /\ Queue!Next
  /\ UNCHANGED <<program, flagVars, semVars, thrVars, turnVars, fifoVars, pairVars, sockVars>>

FifoStep ==
  /\ Fifo!Next
  /\ UNCHANGED <<program, flagVars, semVars, thrVars, turnVars, msgqVars, pairVars, sockVars>>

PairStep ==
  /\ Pair!Next
  /\ UNCHANGED <<program, flagVars, semVars, thrVars, turnVars, msgqVars, fifoVars, sockVars>>

SocketsStep ==
  /\ Sockets!Next
  /\ UNCHANGED <<program, flagVars, semVars, thrVars, turnVars, msgqVars, fifoVars, pairVars>>

Next ==
  \/ FlagStep \/ SemStep \/ ThreadsStep \/ TurnsStep
  \/ QueueStep \/ FifoStep \/ PairStep \/ SocketsStep

Spec == Init /\ [][Next]_vars

FairSpec ==
  /\ Spec
  /\ Flag!Fairness
  /\ Sem!Fairness
  /\ Threads!Fairness
  /\ Turns!Fairness
  /\ Queue!Fairness
  /\ Fifo!Fairness
  /\ Pair!Fairness
  /\ Sockets!Fairness

----------------------------------------------------------------------------
(* Whose turn it is, in each of them: a type for every variable; the flag  *)
(* of SipcFlag keeps the two processes apart; the turn of PipeTurns is in  *)
(* one place and its count is right; msgq1 finds only requests.            *)
IInv ==
  /\ Flag!TypeOK /\ Flag!FlagInv
  /\ Sem!TypeOK
  /\ Threads!TypeOK
  /\ Turns!TypeOK /\ Turns!OneTurn /\ Turns!Behind /\ Turns!CountInv
  /\ Queue!TypeOK /\ Queue!ServerTakesRequests
  /\ Fifo!TypeOK
  /\ Pair!TypeOK
  /\ Sockets!TypeOK

(* Two processes, or two threads, are never both at the shared buffer      *)
(* (HW9/sipc1.c:48-59, sipc2.c:56-74, sipc_m.c:52-210), also when a server *)
(* was killed before its reply and another one started.  For SipcSem this  *)
(* is said of a careful user only, who kills no sipc1 that has replied, no *)
(* sipc2, and runs nothing after a sipc2 that failed.                      *)
Exclusion == Sem!Exclusion /\ Threads!Exclusion

(* A client that has been answered read what the server wrote after        *)
(* reading what this client wrote.  Excused are, in SipcSem, what follows  *)
(* when the user is not careful, and a sipc2 that is Late (it got its      *)
(* semaphores after its server had removed them); in FifoPair, a fifo1     *)
(* that is not punctual, so that fifo2 may read its own request.           *)
RepliesMatch ==
  Flag!RepliesMatch /\ Sem!RepliesMatch /\ Threads!RepliesMatch /\ Pair!RepliesMatch

(* The counter in shared memory is what each process expects, whatever an  *)
(* earlier run has left there (HW8/mipc.c:44,56, mipc_shm.c:63,75).        *)
CounterMatches == Turns!CounterMatches

(* Over sockets, an answered request is in the server no more, and only a  *)
(* killed Unix-domain client ends the server.                              *)
ServedOnce == Sockets!ServedOnce

(* The spinning client of SipcFlag and the caller of FifoPair hear their   *)
(* reply, unless the client has come to a segment that is about to be      *)
(* removed.                                                                *)
CallIsAnswered == Flag!CallIsAnswered /\ Pair!CallIsAnswered

(* The loops of sync.c, mipc.c and mipc_shm.c end on both sides.           *)
LoopsEnd == Turns!LoopsEnd

(* Both threads of sipc_m.c end, in both builds.                           *)
BothEnd == Threads!BothEnd

(* A client asleep on sem2 gets its reply or finds the semaphore removed,  *)
(* also when processes are killed, as long as sipc1 is started again.      *)
WaitEnds == Sem!WaitEnds

(* Every msgq2 that got the queue gets a reply or an error.                *)
NobodyIsLeft == Queue!NobodyIsLeft

(* A request in SERV_FIFO is served by the next fifos if this one is       *)
(* killed before it has read it.                                           *)
RequestsSurviveACrash == Fifo!RequestsSurviveACrash

(* Clients that stay silent after connecting delay only requests to the    *)
(* same socket.                                                            *)
SilentClientHoldsOnlyItsService == Sockets!SilentClientHoldsOnlyItsService

(* The calls of all callers, and the replies on their way.                 *)
call ==
  [c \in Clients \cup {"sipc2", "fifo2"} |->
     CASE c = "sipc2" -> Threads!Call
       [] c = "fifo2" -> Pair!Call
       [] program = "SipcFlag"      -> Flag!Call(c)
       [] program = "SipcSem" /\ semUser = "careful" -> Sem!Call(c)
       [] program = "MsgQueue"      -> Queue!Call(c)
       [] program = "FifoServer"    -> Fifo!Call(c)
       [] program = "SocketServers" -> Sockets!Call(c)
       [] OTHER -> "idle"]

ready ==
  CASE program = "SipcFlag"      -> Flag!Ready
    [] program = "SipcSem"       -> IF semUser = "careful" THEN Sem!Ready ELSE 0
    [] program = "SipcThreads"   -> Threads!Ready
    [] program = "PipeTurns"     -> 0
    [] program = "MsgQueue"      -> Queue!Ready
    [] program = "FifoServer"    -> Fifo!Ready
    [] program = "FifoPair"      -> Pair!Ready
    [] program = "SocketServers" -> Sockets!Ready

Abstract == INSTANCE Service WITH Callers <- Clients \cup {"sipc2", "fifo2"}

(* Whatever carries them, a reply is made for a caller that waits and is   *)
(* heard once; without a reply a caller only ever gives up.  The calls of  *)
(* SipcSem count for a careful user only.                                  *)
ImplementsService == Abstract!Spec

=============================================================================
