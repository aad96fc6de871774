# Verification of the system-programming exercises

The repository is a course on Linux system programming: ten homeworks (`HW1` ..
`HW10`), a chat project (`proj`) and an exam preparation (`final_test_pre`), all
small C programs. What is worth verifying in them is the coordination: threads that
share a buffer, philosophers that share chopsticks, a semaphore library made of a
mutex and a condition variable, servers that serve several clients from one loop.
This directory holds TLA+ models of those programs, the TLC runs that check them on
small instances and TLAPS proofs that hold for every instance.

## Inventory

| Component | State | Operations | Interaction | What makes it hard | What makes it correct |
|---|---|---|---|---|---|
| `HW9/semlib2.c` semaphore library | `sval`, a mutex, a condition variable | `sem_wait`, `sem_trywait`, `sem_post`, `sem_getvalue` | called by any number of threads | `cond_wait` gives the mutex up and takes it back; the signal is sent only at 0 | atomic counting semaphore; never below 0; no sleeper on a positive value |
| `HW9/prodcons.c` | `Buf` (array, `in`, `out`, `counter`), three POSIX semaphores | loops of Producer and Consumer, main's joins | shared memory between two threads | order of the waits, lost updates of `counter` | bounded FIFO queue, exact counter, no deadlock |
| `HW9/prodcons_s.c` | the same on `semlib2` | the same | composes the two above | interruptions inside the library | behaves like `prodcons.c` |
| `HW9/prodcons_m.c` | `Buf`, a mutex, two condition variables | the same | signals between two threads | lost signals, spurious wakeups | bounded FIFO queue, no missed signal |
| `HW9/dining.c` | one semaphore for each chopstick | take two, eat, put down two | neighbours share a chopstick | circular wait | everybody eats (it does not hold) |
| `HW9/dining2.c` | `State`, `Mutex`, a private semaphore each | `PickUp`, `Test`, `PutDown` | neighbours grant each other meals | a grant that is forgotten, or given twice | neighbours never eat together, everybody eats |
| `proj/chats.c`, `chatc.c` | `Client` slots, the `fd_set` and `count` of the loop; TCP streams | accept and log-in, relay, log-out, SIGINT | one server process, up to five clients of two threads | blocking calls in the loop, joined strings, clients that vanish, slots reused | screens show what was typed, everybody is served |
| `HW10/select.c` and clients | `fd_set`, `count`, queues of four sockets | request and reply | one server process, any clients | several sockets ready at once | every request is answered (it does not hold) |
| `HW9/semlib.c`, `producer_s.c`, `consumer_s.c` | SysV semaphores with the adjustments of each process, shared memory | the loops of Producer and Consumer, setting and removing the semaphores | two processes that start and end on their own | start order, `SEM_UNDO` after a kill, removal while in use | bounded FIFO queue, the mutex is never lost |
| `HW9/sipc1.c`, `sipc2.c` | a segment of shared memory, two SysV semaphores | request, reply, removal | two processes, run again and again, that may be killed | `SEM_UNDO`, removals one by one under a process that has just come | the right reply, nobody asleep for ever |
| `HW8/sipc1.c`, `sipc2.c` | a segment with a flag | the same | two processes | the order of the stores, no waiting but spinning | the right reply |
| `HW9/sipc_m.c` | `dir`, `buf`, a mutex and conditions, or three semaphores | request, reply | two threads | signals before the wait | one at a time at the buffer, both end |
| `HW8/msgq1.c`, `msgq2.c` | a message queue | the same | one server, several clients | replies carry no name, the queue is removed | one reply for each request, no client left behind |
| `HW8/fifos.c`, `fifoc.c` | the FIFO of the server, one of each client | the same | the same; kills, SIGINT | a FIFO outlives its server; `open` of a dead client's blocks | requests survive the server |
| `final_test_pre/fifo1.c`, `fifo2.c` | one FIFO both read and write | Hello, Hi | two processes | a program can read its own message | the right reply |
| `HW8/synclib.c`, `sync.c`, `mipc.c`, `mipc_shm.c` | two pipes, a counter in shared memory | tell, wait, `update` | parent and child | one byte too many or too few | strict alternation, the counter never mismatches |
| `HW10/select_t.c`, `tcps_mp.c`, `tcps.c`, `sgs.c`, `udps.c`, `ucos.c`, `ucls.c` and clients | sockets and what waits at them | request and reply | four threads, a child for each connection, or one loop | silent and killed clients, SIGPIPE, `fork` that fails | served once; a silent client holds up only its own socket |
| `HW6` signals, `HW5` processes | alarms, children | `mysleep`, `mysystem`, `tadd` | asynchronous handlers | an alarm before `pause`, static buffers | wakes up, right status |
| `HW2`, `HW3`, `HW4` | strings, files | string functions, filters, listings | none | boundaries | the result |

`PROJECT.json` lists the hazards of each at its line, with the properties that cover
it or the reason why none does yet.

## Modules

| Module | Models | Role |
|---|---|---|
| `Semaphore` | | what a counting semaphore promises a caller: each operation takes effect at one instant |
| `Semlib2` | `semlib2.c` | one action for each statement other threads can observe; implements `Semaphore` |
| `MCSemlib2` | | values for TLC |
| `Semlib2Proofs` | | invariance, exclusion, refinement |
| `BoundedBuffer` | | an abstract bounded FIFO queue |
| `SharedBuffer` | `Buf`, the loop bodies, `main` of `prodcons*.c` | common to the three programs; every access to `Buf` is a step, `counter++` is a load and a store |
| `ProdCons` | `prodcons.c` | extends `SharedBuffer` with atomic semaphores; implements `BoundedBuffer` |
| `ProdConsProofs` | | for all programs on `SharedBuffer`: modular arithmetic of the ring, the refinement of each access; for `prodcons.c`: the inductive invariant and the refinement |
| `ProdConsM` | `prodcons_m.c` | extends `SharedBuffer` with a mutex and condition variables; implements `BoundedBuffer` |
| `ProdConsMProofs` | | the inductive invariant and the refinement |
| `ProdConsS` | `prodcons_s.c` | composes `SharedBuffer` with an instance of `Semlib2`; implements `ProdCons` |
| `ProdConsSProofs` | | the inductive invariant, the refinement of `ProdCons`, and what follows from it |
| `Semlib` | `semlib.c` | SysV semaphores, one system call a step, `SEM_UNDO` |
| `ProdConsSysV` | `producer_s.c`, `consumer_s.c` | composes the statements of `SharedBuffer` with an instance of `Semlib`; processes that start, are killed and end |
| `ProdConsSysVProofs` | | the inductive invariant across kills, undone operations and removals, and the refinement |
| `Table` | | a table at which neighbours do not eat together |
| `Dining2` | `dining2.c` | implements `Table` |
| `Dining2Proofs` | | invariance and refinement for any number of philosophers |
| `Dining` | `dining.c` | the circular wait |
| `Chat` | `chats.c`, `chatc.c` | server, clients and the TCP connections between them |
| `ChatProofs` | | the inductive invariant, and that screens are true |
| `SelectServer`, `MCSelectServer` | `select.c`, its clients | the loop and its four services |
| `Service` | | what each exchange of a request and a reply promises its callers |
| `Ipc` | | objects found by a key or a name, made once, removed while others hold them; extended by the next four |
| `SipcFlag` | `HW8/sipc1.c`, `sipc2.c` | shared memory and a flag |
| `SipcSem` | `HW9/sipc1.c`, `sipc2.c` | shared memory and the semaphores of `Semlib` |
| `MsgQueue` | `msgq1.c`, `msgq2.c` | a message queue with typed messages |
| `FifoServer` | `fifos.c`, `fifoc.c` | FIFOs, kills and restarts |
| `FifoPair` | `fifo1.c`, `fifo2.c` | one FIFO in both directions |
| `SipcThreads` | `sipc_m.c` | both builds |
| `PipeTurns` | `synclib.c`, `sync.c`, `mipc.c`, `mipc_shm.c` | a turn in two pipes and a shared counter |
| `ExchangesProofs` | | one inductive invariant for each of the eight exchanges; the safety properties of `Exchanges` for any number of runs |
| `SocketServers` | `select_t.c`, `tcps.c`, `tcps_mp.c`, `sgs.c`, `udps.c`, `ucos.c`, `ucls.c` and clients | the services of seven programs over four kinds of socket |
| `Exchanges` | | the eight modules above as instances of one state space; implements `Service` |

How state and actions correspond to the code:

- **Semlib2.** `sval`, `owner` (of the mutex) and `sleepers` (of the condition
  variable) are the fields of `sem_t`; `pc` is where a thread is inside the library.
  `pthread_cond_wait` is `WaitSleep`, which releases the mutex and blocks in one
  step, then `Wake` or `SpuriousWakeup`, then `WaitRelock`. The `< 0` tests on
  results of pthread functions are left out because those return positive numbers.
- **SharedBuffer.** `buf`, `in`, `out`, `counter` are the fields of `Buf`; `data` and
  `i` are locals; `reg` is the register between the load and the store of
  `counter++`. `at` names the statement. `ThreadUsleep` is a delay of any length.
- **ProdCons / ProdConsM / ProdConsS** add how a thread gets in and out. In `ProdConsS`
  the labels `loop`, `enter`, `leave`, `signal` stand while the thread is inside
  `sem_wait` or `sem_post`, and the operation's last step moves it on.
- **ProdConsSysV.** `SharedBuffer` is instantiated for its statements, not extended: there
  is no `main` that joins. `status` is the life of a process; `at` stays where a killed
  process was, so that what it left half done can be told. `adjust` is what the kernel
  will add to each semaphore when the process ends, one semaphore at a time and in any
  order (`UndoOf`), never below 0. A call on a removed semaphore ends its process. The
  delay of two seconds before the producer's cleanup is of any length. The segment is got
  and attached in one step (nobody removes it before both are attached); the semaphores are
  got by three `semInit`s, one by one, and then set by the consumer, one by one.
- **Dining2.** `Test` is run for oneself and for both neighbours; it and the
  assignment to `State` are steps under `Mutex`. A philosopher eats from the return of
  `sem_wait(&Philosopher[id])` until it sets itself `THINKING`.
- **Chat.** The connection of user `u` is a queue each way and `link[u]`, which records
  how `u` closed: `fin`, `broken` (closed, and a relayed line was refused), `reset`
  (closed with lines unread). `recv` returns the first string and loses what arrived
  with it; as the buffer, or the network, may also cut there, any suffix may remain.
  Sending to a `broken` or `reset` connection ends the server. `select`, `accept`, the
  blocking `recv` of the uid and one pass of the `for` loop are one action each. A
  round's `fdvar` and `count` are cleared when it ends, as the next one would do.
  `GetID` with no free slot returns any slot: the function falls off its end.
- **SelectServer.** `queue[k]` holds the connections or datagrams waiting at a socket.

- **Exchanges.** Programs that use the same key, file name or port are not run at the
  same time: `program` chooses one of the eight modules, the others stay in `NotRun`.
  The variables of each have the module's name as a prefix. `call` and `ready` map the
  state of whichever runs to `Service`: who has asked, who has heard, and how many
  replies are there and not yet heard.
- **Ipc.** `key` is the object the name stands for now, `held` what each process has
  got: `IPC_RMID` and `remove` free the name at once while holders keep the old object.
- **SipcFlag, SipcSem, MsgQueue, FifoServer.** Each element of `Clients` and `Servers` is
  one run of a program; runs of the same server (and, in `SipcFlag` and `SipcSem`, of the
  same client) follow each other. The area is written in one step, as the reader looks
  at it only when the flag or the semaphore says so; the flag is a step of its own. A
  message is its author. `SipcFlag` models a build without optimisation, in which the
  loops on `*pInt`, which is not volatile, load it anew each time. `shmget` and `shmat`
  are two steps, as a sipc1 may remove the segment between them: `shmat` then fails. This
  can happen to a sipc2 only, as the invariants of the proofs say (`ItsSegment`,
  `ValidInv`).
- **SipcSem.** `life` counts how often a semaphore has been made, and `id` is the one a
  process got: a call on one that was removed fails, also if another has its key. What
  a process that ended did is taken back by `UndoOf`, one semaphore at a time. `user` is
  how careful the user is: `careful` kills only a sipc1 that has not replied and starts no
  run of a program after one that failed, `any` kills anybody and starts anything.
- **FifoServer.** `SigIntHandler` may run between any two statements, also in a `read` or
  `open` that blocks. A FIFO that nobody has open any more is empty.
- **SipcThreads.** `asleep` are the threads in `pthread_cond_wait`; in the other build the
  three semaphores of `semlib2.c` are atomic, as `Semaphore` promises; none has two
  waiters, so that the lost wakeup of `semlib2.c` cannot happen.
- **PipeTurns.** `Pfd1` and `Pfd2` count the bytes in each pipe; `update` is a load and a
  store. `mipc_shm.c` may find a counter in the segment that an earlier run has left.
- **SocketServers.** `at[k]` is what the thread, or the process, of a socket does. Threads
  of `select_t.c` share nothing but the end of their process. UDP messages may be lost
  both ways; a write to a Unix-domain peer that is gone ends the server. When `fork`
  fails in `tcps_mp.c` the parent takes the way of a parent and closes the connection.

Definitions marked as seeded faults are variants of the definition after them with one
plausible mistake; each property is shown to fail when such a variant takes its place.

## Runs

| Run | Instance | Checks |
|---|---|---|
| `semlib2` | 3 threads, 1 semaphore, initial value 0 or 1, at most 2 | `IInv`, `MutualExclusion`, `OthersReturn`, `ImplementsSemaphore` |
| `semlib2_lost_wakeup` | the same | `SleeperIsWoken` **fails** |
| `prodcons` | 5 rounds, 2 slots, 2 values | `IInv`, `FinalCount`, `ImplementsBuffer`, `Finishes` |
| `prodcons_s` | 4 rounds, 2 slots | `IInv`, `NobodySleepsOnPositive`, `ImplementsProdCons`, `Finishes` |
| `prodcons_m` | 5 rounds, 2 slots | `IInv`, `ImplementsBuffer`, `Finishes` |
| `prodcons_sysv` | 4 rounds, 2 slots, 2 values, each process may be killed | `IInv`, `ImplementsBuffer`, `BothEnd`, `MutexComesBack` |
| `dining2` | 4 philosophers, 2 rounds | `IInv`, `NoForgottenGrant`, `ImplementsTable`, `EverybodyFinishes` |
| `dining` | 3 philosophers, 1 round | `EverybodyFinishes` **fails** |
| `chat` | 3 users, 3 slots, 2 lines by one of them | `IInv`, `Transcript`, `EverybodyIsServed`, `StopsWithServer` |
| `chat_stall` | 2 users | `EverybodyIsServed` **fails** |
| `select` | 4 clients, one for each socket | `EveryRequestIsAnswered` **fails** |
| `exchanges` | 2 runs of each client and each server, 2 kills in `SipcSem`, 5 rounds in `PipeTurns` | `IInv`, `Exclusion`, `RepliesMatch`, `CounterMatches`, `ServedOnce`, `CallIsAnswered`, `LoopsEnd`, `BothEnd`, `WaitEnds`, `NobodyIsLeft`, `RequestsSurviveACrash`, `SilentClientHoldsOnlyItsService`, `ImplementsService` |

What `exchanges` shows: whatever carries them, a reply is made only for a caller that
waits and is heard once (`ImplementsService`). A client of the shared-memory programs
and of `fifo1/2.c` reads the reply to its own request (`RepliesMatch`), also when a sipc1
was killed before its reply and another one answered; buffers and counters are used by
one side at a time (`Exclusion`, `CounterMatches`). The loops of the pipe programs and
both threads of `sipc_m.c` end; a client of `msgq1.c` or of `HW9/sipc1.c` that sleeps gets
its reply or an error when the object is removed; a request in `SERV_FIFO` outlives the
server that was killed; in `select_t.c`, unlike in `select.c`, a client that connects and
stays silent holds up only others at its own socket.

The exceptions are named in the properties, because the code has them:

- `Late` in `SipcFlag` and `SipcSem`. A client may attach the segment after the reply to
  the client before and before the removal. In `HW8` it then spins for ever. In `HW9` it
  usually fails when the semaphores are removed; but one that comes to its `semInit` calls
  (sipc2.c:39-43) only after sipc1 has removed the semaphores makes new ones, which it
  shares with the next sipc1, while the segment it wrote to is shared with nobody. It is
  then told of a reply and prints its own request.
- `HalfRemoved` in `SipcSem`: a sipc1 killed between two of its removals leaves semaphores
  whose client waits for a segment that is gone.
- `FifoServer`: the server that opens the FIFO of a client that was killed after its
  request blocks for ever (fifos.c:57).
- `punctual` in `FifoPair`: if fifo1 does not get to its answer within the two seconds of
  fifo2.c:26, fifo2 reads its own Hello and fifo1 waits for ever.
- `user` in `SipcSem`: the safety properties are about the careful user. When any process
  may be killed at any time, undone posts can give a turn to the wrong side. And when sipc2
  is started again after a run that failed, two sides can meet at the segment: a sipc2 that
  comes between the removal of `sem1` and that of `sem2` makes a new `sem1`, posts it and
  fails at `sem2`; the next sipc1 takes the post that is left, while the sipc2 after it sets
  `sem2` to 1 once more. It takes three runs of sipc2, one more than the run `exchanges`
  has; the proof attempt found it. For `any` only `WaitEnds` is claimed.

Bounds. `MaxValue` caps the posts on one semaphore: two units and three threads give
two sleepers with two posts in flight, which the lost wakeup needs; a third unit adds
no new order. Five rounds through two slots fill and empty the buffer and wrap the
indexes more than twice. Four philosophers are the fewest of whom two who do not share
a chopstick can eat; the second round meets grants left over from the first. In `chat`
three connections let a relay reach one user and fail at the next, a slot be taken
over from a user who left, and two lines of one user be joined; `MaxLines` bounds the lines
of each user in `Talkers`, and the others type an ID, are relayed to and leave. The theorems
have any number of users, slots and lines. `MaxOnline` keeps connections within
`MAX_CLIENT`. The chat and select servers wait for clients for ever once all users are
gone, and a process of `prodcons_sysv` may wait for ever for one that was killed, and programs
of `exchanges` end, so these runs do not check for deadlock; `dining` is about a deadlock.
Four rounds let a process die with the buffer full, half full and empty, and after a wrap of the indexes.
In `exchanges` two runs of a server and two of a client are what a removal, a restart or a
mistaken reply needs: the second meets what the first left behind. What three runs can do
that two cannot (see `user` above) is the matter of the proofs, which bound no number of
runs; the module alone was also checked with four of each. Two kills take both
sides, or two servers one after the other; a third would leave nobody. Two clients of
`SocketServers` give one that is silent and one that asks, at the same socket or at
two. Five rounds are `NLOOPS` of `sync.c` and half that of `mipc.c`, the real values; any
stale counter but 0 tells whether it was reset.

Fairness. Threads that can run do run (weak fairness; the kernel's scheduler). Where a
thread competes for a pthread mutex that is released again and again, strong fairness
of the thread says that it is granted in the end; the semaphores of `prodcons.c` and
`dining2.c` and `semlib.c` need only weak fairness since their programs are finite. In
`prodcons_sysv` the user starts both programs in the end and the kernel clears up after
a process; nobody has to be killed. In `exchanges` the user goes on starting sipc1 and fifos, but
not clients, msgq1 or the socket programs; nobody is made to interrupt or kill; a client
that has connected is never made to write, and a fork may succeed or fail. The two threads of `sipc_m.c`
compete for a mutex and have strong fairness. Spurious wakeups, calls of library functions,
users who type, connect or leave, and SIGINT are never
assumed to happen. The exception is named: `NamingSpec` adds that a user who connects
types an ID, which the run `chat` needs because without it `chat_stall` refutes the
same property. In `SelectServer` a client that has connected writes its request, as
its code does next.

## What the violations show

- `semlib2.c:78` signals only when `sval` is 0, for "there may be others waiting" only
  then. Two sleepers, two posts before the first sleeper has taken its unit: the
  second post sees 1 and does not signal; the second sleeper stays asleep while `sval`
  is positive. `prodcons_s` does not suffer, `NobodySleepsOnPositive` says why: no
  semaphore there ever has two waiters.
- `dining.c:84` lets everybody take one chopstick; the rounds reported at line 105
  and the joins of `main` are never reached.
- `chats.c:251` receives the uid in a blocking call although the header (183) says that
  new connections are handled with `select`: a user who connects and does not type
  stops the chat for everybody.
- `select.c:270-283` passes `count` times over an `fd_set` nothing clears: with two
  sockets ready the first is served twice, which blocks when it has one request, and
  the comment's "if set, process the request" (274-275) fails for the other.

## Proofs

The modules named `...Proofs` prove, for every value of the constants that satisfies the
modules' assumptions, the safety properties that the runs check. The assumptions say that
loop counts and buffer sizes are natural numbers (positive where the code divides by
them or defines them so), that the runs of the programs in `Exchanges` are finitely many,
and that runs of servers and of clients and the mark of an empty segment are different
things, as are threads and the owner of a mutex nobody holds. One hypothesis is stated with
the theorems that need it, on `Chat`.

- **Semlib2.** `IInv` is inductive: the owner of a mutex is the thread whose `pc` is
  between lock and unlock (`OwnerInv`), a thread about to decrement has seen a unit
  nobody can take (`TestedInv`), sleepers are the threads in `cond_wait`
  (`SleepInv`). `NonNegative` alone is not inductive: it needs `TestedInv`, which
  needs `OwnerInv`. Exclusion and the refinement to `Semaphore` follow.
- **ProdCons.** `IInv` accounts for every unit of the three semaphores in terms of the
  labels and loop counters (`SemaphoreInv`), from which the critical section is
  exclusive, the counter exact and the buffer never over- or underrun. The refinement
  to `BoundedBuffer` maps the queue to the slots between the items fetched and stored;
  its lemmas (`ModDistinct`, `StorePuts`, `FetchGets`) say that the slots in use are
  distinct modulo `MAX_BUF`.
- **ProdConsS.** `Semlib2Proofs` is instantiated for the three semaphores: every step of
  the program is a step of the library or leaves it alone, so the library's `IInv` is
  preserved by what is proved there. `CallInv` adds that a thread in the library is in the
  operation, on the semaphore, that its place in the loop calls. `NobodySleepsOnPositive`
  is not inductive: `sem_post` signals before it increments, and `SignalInv` says that
  nobody is asleep then. It holds since there are two threads, of which one posts: at most
  one sleeper is left to wake, and it sleeps on a semaphore that is 0, when `sem_post` does
  signal. The refinement of `ProdCons` takes effect where `sval` changes (`Place`): from
  there a thread that still has to unlock is where it will be. `ProdConsProofs`
  instantiated with `sval` and `Place` then gives `FinalCount` and, because between taking
  effect and returning no item is stored or fetched (`SameQueue`), `ImplementsBuffer`.
- **ProdConsM.** `IInv` as the run checks it is inductive, without strengthening. The
  owner of the mutex is the thread inside (`OwnerInv`), which has tested the counter
  there (`TestedInv`); the counter is exact (`CounterInv`) because nobody else is inside.
  The capacity of the buffer follows from these three (lemma `Capacity`). `NoMissedSignal`
  is about the sleeper: when the counter allows it to go on, the other thread has its
  signal still ahead. The refinement is that of `ProdCons`, from the lemmas on the shared
  buffer, which the module instantiates from `ProdConsProofs`.
- **ProdConsSysV.** `IInv` is not inductive: it says what the semaphores are worth while
  both processes live, and a process may be killed, taken back piece by piece, and the
  semaphores be removed. `SysInv` adds where each process can be in each state of its life
  (`LifeInv`), when a semaphore exists and has something to be taken back (`ExistInv`),
  that the producer gets stuck until the consumer has set all three (`SetupInv`), that what
  is taken back from a dead process can only lower the semaphore the other waits for
  (`SignInv`), and from it that neither process ever claims more than the other provided,
  dead or alive (`LimitInv`, `SupplyInv`). `SetupInv` needs
  `NLOOPS` to be positive: with no rounds the producer could remove what nobody has set.
- **Dining2.** `MutexInv` gives exclusion under `Mutex`; `GrantInv` ties the value of
  each private semaphore to the pair of `State[p]` and `at[p]`, which is what makes a
  grant by a neighbour harmless wherever its philosopher is; with them `NeighboursInv`
  is inductive. A philosopher eats only while its state is `EATING`, so the refinement
  to `Table` follows. `NoForgottenGrant` is inductive relative to `IInv`: each step that
  takes the reason of a hungry philosopher's wait away leaves it another.
- **Chat.** Both theorems have the hypothesis `MaxOnline <= MAX_CLIENT`: with more
  connections than slots `GetID` falls off its end and a connection takes over the slot of
  another, so that nothing is left to claim. A connection counts until the server has
  closed its side. Neither `RoundInv` nor `Transcript` is inductive alone.
  - `RoundInv` says that `count` is the number of sockets still to be served. It needs that
    no connection is in two places (`SlotsInv`, which also says that a free slot is left for
    who waits in the backlog) and that what `accept` returns is not in `fdvar` yet
    (`ConnectInv`); otherwise a new connection would be served in the round that accepts it.
  - `Transcript` needs to know who is the author of what is relayed. `NamesInv`: a slot bears
    the uid of its user, or is in the login, or bears that of somebody who has left and will
    announce this at most; the last is what a user who leaves without typing an ID inherits
    from the slot. That a user's lines do not overtake each other is `SentInv` for those
    the server has not read, and `LinesInv` for those it has relayed: these are older than
    all the author's unread ones. Loss is harmless since any suffix of an increasing
    queue is increasing (`Received`, `LinesRead`, `LinesRelayed`).
- **Exchanges** is a product of eight programs of which one runs. Each has its own
  invariant, which is preserved by its own steps and by those of the others, which leave
  its variables alone.
  - *PipeTurns* (`TurnInv`). `CountInv` says what the counter is when a process loads or
    stores it, which depends on who has the turn (`OneTurn`) and on the child being a pass
    ahead while its byte is on the way (`Behind`); `AreaInv` ties the counter to the place
    of the turn, and `LoopInv` excludes a child that waits when the parent is through. With a
    second byte in the pipes both sides would update at once.
  - *SocketServers* (`SocketInv`). `PlaceInv`: a client is at its own socket, and there in
    one place, queued or served. `ServeInv`: a socket that is busy has a client, and only a
    killed Unix-domain client ends the server.
  - *SipcThreads* (`ThreadInv`). `OrderInv` says how far one thread can be when the other is
    somewhere; `CondInv` and `ValueInv` tie it to the mutex and to the three semaphores.
  - *SipcSem* (`SemInv`). Nothing is claimed of a user who is not careful but types. For the
    careful one there is a token, the turn of sipc1: in `sem1`, with the sipc1 that has taken
    it, or with one that was killed with it and whose wait is not undone yet, in one of these
    at most, and in none while no sipc2 waits for its reply or has failed to get one
    (`TokenInv`). `ReplyInv` says what `sem2` is worth to the sipc2 that set it. They need
    that runs of one program do not overlap (`RunInv`), what the kernel still has to take
    back from each process (`AdjustInv`), and which semaphores are still those a process got
    (`ValidInv`): a careful sipc1 never fails. `SegmentInv`, `RequestInv` and `AnswerInv`
    follow a request from the segment to who reads it and back, across a killed sipc1 and
    the next one; `HeardInv` is `RepliesMatch`, `Late` included.
  - *SipcFlag* (`FlagsInv`). A segment belongs to one sipc1, which works on the one that
    `SHM_KEY` names (`ItsSegment`, `ServerEach`). The flag is up only while a sipc2 spins on
    it, and while sipc1 is between its loop and lowering it (`FlagUp`); as one sipc2 runs at
    a time, no other can be writing then. So the request in the area is that of the one that
    spins (`FlagRequest`, `Pending`), and the reply is there when the flag is down
    (`Answered`).
  - *MsgQueue* (`QueueInv`). There is a queue exactly while a msgq1 runs (`QueueServers`),
    and what is in it while that msgq1 receives are requests (`QueueRequests`), because the
    one reply it writes comes later and goes with the queue.
  - *FifoServer* (`FifoInv`), *FifoPair* (`PairInv`). FIFOs and their contents are bounded by
    the runs that have started and sent; of the pair, where the one message is.

  The theorems put them together: `Counting`, `Alternation`, `AnsweredOnce`, `Exclude`,
  `Matched` (`RepliesMatch`) and `Invariance` (`IInv`). Of `SipcSem`, `Exclude` and
  `Matched` hold for the careful user; `Matched` also excuses a `Late` sipc2 and a fifo1
  that is not punctual.

Only model-checked: everything under fairness (`Finishes`, `OthersReturn`,
`EverybodyFinishes`, `EverybodyIsServed`, `StopsWithServer`, `BothEnd`,
`MutexComesBack`, `CallIsAnswered`, `LoopsEnd`, `WaitEnds`, `NobodyIsLeft`,
`RequestsSurviveACrash`, `SilentClientHoldsOnlyItsService`), which the prover does not
cover; and, so far, the refinement of `Service` by `Exchanges` (`ImplementsService`), which
counts replies with `Cardinality`.

## Not modelled

A second start of `producer_s.c` or `consumer_s.c`: a consumer that is started again
resets the semaphores under a producer that holds them, and nothing in the programs
promises that this works. When a producer is killed, the kernel takes its posts of
`fullSem` back and the consumer waits in front of items that are there; this happens in
the model, and only the safety of the survivor is claimed.

`sem_destroy` and the removal of semaphores after all threads have been joined; error
exits of calls that cannot fail in these programs; wording of output; the delay of
`ThreadUsleep`. In the chat, names and lines longer than the buffers that receive them,
and the order in which `CloseClient` cancels its two threads.

In the exchanges: two clients of `HW8` or `HW9` sipc1 at the same time, or two
servers, which share one flag or semaphore and overwrite each other by construction;
reuse of process numbers, which name the FIFOs of clients; a backlog that is full;
`bind` to a file that an earlier server left. `pipe.c` and `pipe_fullduplex.c` pass one
message each way. `prodcons_t.c`, `producer.c` and `consumer.c` show the race that
`prodcons.c` removes. In `thread.c` of `final_test_pre` the producer initialises the semaphore
on which the consumer may be asleep already. `server.c` and `client.c` there write a
time to a file for each connection, in the manner of `tcps_mp.c`.

The programs of `HW5` and `HW6` are single processes with their children or signals; in
`mysleep.c` an alarm before `pause` is lost. File utilities (`HW4`, parts of `HW3`) and
demonstrations of one system call hold no state to speak of; the string functions of
`HW2` and the filters of `HW3` are sequential.

## Plan

Done: the semaphore libraries, the threaded producer/consumer programs and the one of
two processes, both dining programs, the chat, the select server, and the exchanges over
shared memory, queues, FIFOs, pipes and sockets. Next, in this order:

1. Proofs: the refinement of `Service` by the parts of `Exchanges`.
2. A second start of the programs of `ProdConsSysV`; `thread.c` of `final_test_pre` on
   `Semlib2`; `mysleep.c`.
3. Algorithms, checked against definitions over bounded inputs: the string functions of
   `HW2`, the command splitting and status of `mysystem.c`, the normalisation of `tv_nsec`
   in `ThreadUsleep`.
