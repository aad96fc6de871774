----------------------------- MODULE PipeTurns ------------------------------
(***************************************************************************)
(* HW8/synclib.c and the three programs that use it: a parent and a child  *)
(* tell each other through two pipes that it is the other one's turn.      *)
(* sync.c only tells; mipc.c and mipc_shm.c count in shared memory, the    *)
(* parent the even numbers and the child the odd ones, and stop when the   *)
(* counter is not what they expect.                                        *)
(***************************************************************************)
EXTENDS Naturals

CONSTANTS
  Rounds,   \* the passes of each loop: NLOOPS of sync.c, half of mipc.c's
  Stale     \* the counter that an earlier run may have left in the segment

Both == {"parent", "child"}

VARIABLES
  program,   \* sync, mipc or mipc_shm
  at,        \* [Both -> the next statement]
  round,     \* [Both -> how many passes of the loop are over]
  Pfd1,      \* the bytes on their way to the child
  Pfd2,      \* the bytes on their way to the parent
  area,      \* the shared counter
  counter    \* [Both -> the counter before the last update]

pipeVars == <<Pfd1, Pfd2>>
areaVars == <<area, counter>>
vars == <<program, at, round, pipeVars, areaVars>>

InitAt(label) ==
  /\ at = [p \in Both |-> IF p = "parent" THEN label ELSE "unborn"]
  /\ round = [p \in Both |-> 0]
  /\ Pfd1 = 0 /\ Pfd2 = 0
  /\ area \in (IF program = "mipc_shm" THEN {0, Stale} ELSE {0})
  /\ counter = [p \in Both |-> 0]

Init   == program \in {"sync", "mipc", "mipc_shm"} /\ InitAt("begin")
NotRun == program = "sync" /\ InitAt("off")

Counts == program # "sync"

Go(p, from, to) == at[p] = from /\ at' = [at EXCEPT ![p] = to]

(* A seeded fault: *pInt keeps what an earlier run left. *)
BeginWithoutReset ==
  /\ Go("parent", "begin", "fork")
  /\ UNCHANGED <<program, round, pipeVars, areaVars>>

(* TELL_WAIT makes the pipes; only mipc_shm must clear the memory it gets. *)
Begin ==
  /\ Go("parent", "begin", "fork")
  /\ area' = IF program = "mipc_shm" THEN 0 ELSE area
  /\ UNCHANGED <<program, round, pipeVars, counter>>

Fork ==
  /\ at["parent"] = "fork"
  /\ at' = [parent |-> "loop", child |-> "loop"]
  /\ UNCHANGED <<program, round, pipeVars, areaVars>>

(* for (i = ...; i < NLOOPS; ...): into the body, or past it. *)
Loop(p, first) ==
  /\ Go(p, "loop", IF round[p] < Rounds THEN first ELSE "end")
  /\ UNCHANGED <<program, round, pipeVars, areaVars>>

(* update, which reads the counter and then writes it, and its check. *)
i(p) == IF p = "parent" THEN 2 * round[p] ELSE 2 * round[p] + 1

Load(p) ==
  /\ Go(p, "load", "store")
  /\ counter' = [counter EXCEPT ![p] = area]
  /\ UNCHANGED <<program, round, pipeVars, area>>

Store(p) ==
  /\ Go(p, "store", IF counter[p] = i(p) THEN "tell" ELSE "mismatch")
  /\ area' = counter[p] + 1
  /\ UNCHANGED <<program, round, pipeVars, counter>>

AfterPass(p) == round' = [round EXCEPT ![p] = @ + 1]

TELL_CHILD ==
  /\ Go("parent", "tell", "wait")
  /\ Pfd1' = Pfd1 + 1
  /\ UNCHANGED <<program, round, Pfd2, areaVars>>

WAIT_CHILD ==
  /\ Go("parent", "wait", "loop")
  /\ Pfd2 > 0 /\ Pfd2' = Pfd2 - 1
  /\ AfterPass("parent")
  /\ UNCHANGED <<program, Pfd1, areaVars>>

(* A seeded fault: the child reads from the pipe it writes to. *)
WAIT_PARENT_OnPfd2 ==
  /\ Go("child", "wait", IF Counts THEN "load" ELSE "tell")
  /\ Pfd2 > 0 /\ Pfd2' = Pfd2 - 1
  /\ UNCHANGED <<program, round, Pfd1, areaVars>>

WAIT_PARENT ==
  /\ Go("child", "wait", IF Counts THEN "load" ELSE "tell")
  /\ Pfd1 > 0 /\ Pfd1' = Pfd1 - 1
  /\ UNCHANGED <<program, round, Pfd2, areaVars>>

TELL_PARENT ==
  /\ Go("child", "tell", "loop")
  /\ Pfd2' = Pfd2 + 1
  /\ AfterPass("child")
  /\ UNCHANGED <<program, Pfd1, areaVars>>

(* The end of main: the parent of mipc_shm waits for the child and removes *)
(* the segment.                                                            *)
End(p) ==
  /\ Go(p, "end", "done")
  /\ p = "parent" /\ program = "mipc_shm" => at["child"] \in {"done", "mismatch"}
  /\ UNCHANGED <<program, round, pipeVars, areaVars>>

Parent ==
  \/ Begin
  \/ Fork
  \/ Loop("parent", IF Counts THEN "load" ELSE "tell")
  \/ Load("parent")
  \/ Store("parent")
  \/ TELL_CHILD
  \/ WAIT_CHILD
  \/ End("parent")

Child ==
  \/ Loop("child", "wait")
  \/ WAIT_PARENT
  \/ Load("child")
  \/ Store("child")
  \/ TELL_PARENT
  \/ End("child")

Next == Parent \/ Child

Spec == Init /\ [][Next]_vars

(* Both processes run when they can. *)
Fairness == WF_vars(Parent) /\ WF_vars(Child)

----------------------------------------------------------------------------
TypeOK ==
  /\ program \in {"sync", "mipc", "mipc_shm"}
  /\ at \in [Both -> {"off", "unborn", "begin", "fork", "loop", "load", "store", "tell", "wait",
                      "end", "done", "mismatch"}]
  /\ round \in [Both -> 0 .. Rounds]
  /\ Pfd1 \in Nat /\ Pfd2 \in Nat
  /\ area \in Nat /\ counter \in [Both -> Nat]

Updating == {"load", "store", "tell"}

Turn(p) == IF at[p] \in Updating \/ (p = "parent" /\ at[p] = "loop") THEN 1 ELSE 0

(* There is one turn: a process has it, or one byte in one pipe carries it.*)
OneTurn ==
  at["child"] # "unborn" /\ at["parent"] \notin {"end", "done"} =>
    Turn("parent") + Turn("child") + Pfd1 + Pfd2 = 1

(* The child has ended as many passes as the parent, and one more while    *)
(* the turn is on its way back.                                            *)
Behind ==
  at["child"] # "unborn" =>
    round["child"] = round["parent"] + Pfd2

(* What has been counted. *)
CountInv ==
  Counts /\ at["parent"] \notin {"begin", "off"} =>
    /\ \A p \in Both : at[p] = "load" => area = i(p)
    /\ \A p \in Both : at[p] = "store" => area = i(p) /\ counter[p] = i(p)

CounterMatches == \A p \in Both : at[p] # "mismatch"

(* Both loops end: nobody waits for a byte that is never written. *)
LoopsEnd == at["parent"] = "begin" ~> (\A p \in Both : at[p] = "done")

=============================================================================
