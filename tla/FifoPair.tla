------------------------------ MODULE FifoPair ------------------------------
(***************************************************************************)
(* final_test_pre/fifo1.c and fifo2.c: fifo2 sends Hello and fifo1 answers *)
(* Hi over one FIFO that both have open to read and to write.  Only the    *)
(* sleep of fifo2 keeps it from reading its own message: a punctual fifo1  *)
(* answers within the two seconds.                                         *)
(***************************************************************************)
EXTENDS Naturals, Sequences

CONSTANT Nobody

Programs == {"fifo1", "fifo2"}

VARIABLES
  punctual,  \* fifo1 has done what it can when fifo2 wakes up
  file,      \* whether there is a file myfifo
  fifo,      \* who wrote each message in it
  at,        \* [Programs -> the next statement]
  read       \* [Programs -> who wrote what the program printed]

fifoVars == <<file, fifo>>
vars == <<punctual, fifoVars, at, read>>

InitAt(label) ==
  /\ file = FALSE /\ fifo = <<>>
  /\ at = [p \in Programs |-> label]
  /\ read = [p \in Programs |-> Nobody]

Init   == punctual \in BOOLEAN /\ InitAt("start")
NotRun == punctual = TRUE /\ InitAt("off")

Go(p, from, to) == at[p] = from /\ at' = [at EXCEPT ![p] = to]

Mkfifo(p) ==
  /\ Go(p, "start", "open")
  /\ file' = TRUE
  /\ UNCHANGED <<punctual, fifo, read>>

Open(p, from, to) ==
  /\ Go(p, from, IF file THEN to ELSE "failed")
  /\ UNCHANGED <<punctual, fifoVars, read>>

Write(p, from, to) ==
  /\ Go(p, from, to)
  /\ fifo' = Append(fifo, p)
  /\ UNCHANGED <<punctual, file, read>>

Read(p, from, to) ==
  /\ Go(p, from, to)
  /\ fifo # <<>> /\ fifo' = Tail(fifo)
  /\ read' = [read EXCEPT ![p] = Head(fifo)]
  /\ UNCHANGED <<punctual, file>>

Remove(p) ==
  /\ Go(p, "remove", "done")
  /\ file' = FALSE
  /\ UNCHANGED <<punctual, fifo, read>>

(* A seeded fault: no sleep.                                               *)
SleepNot(p, from, to) ==
  /\ Go(p, from, to)
  /\ UNCHANGED <<punctual, fifoVars, read>>

(* sleep(2).                                                               *)
Sleep(p, from, to) ==
  /\ Go(p, from, to)
  /\ punctual => at["fifo1"] \in {"remove", "done"}
  /\ UNCHANGED <<punctual, fifoVars, read>>

fifo1 ==
  \/ Mkfifo("fifo1")
  \/ Open("fifo1", "open", "read")
  \/ Read("fifo1", "read", "write")
  \/ Write("fifo1", "write", "remove")
  \/ Remove("fifo1")

fifo2 ==
  \/ Open("fifo2", "start", "write")
  \/ Write("fifo2", "write", "sleep")
  \/ Sleep("fifo2", "sleep", "read")
  \/ Read("fifo2", "read", "done")

Next == fifo1 \/ fifo2

Spec == Init /\ [][Next]_vars

(* Both processes run when they can.                                       *)
Fairness == WF_vars(fifo1) /\ WF_vars(fifo2)

----------------------------------------------------------------------------
TypeOK ==
  /\ punctual \in BOOLEAN /\ file \in BOOLEAN
  /\ fifo \in Seq(Programs) /\ Len(fifo) <= 1
  /\ at \in [Programs -> {"off", "start", "open", "read", "write", "sleep", "remove",
                          "done", "failed"}]
  /\ read \in [Programs -> Programs \cup {Nobody}]

(* If fifo1 is late, fifo2 may read its own message, and fifo1 waits for   *)
(* one for ever.                                                           *)
TakenBack == read["fifo2"] = "fifo2"

RepliesMatch ==
  /\ at["fifo2"] = "done" => read["fifo2"] = "fifo1" \/ ~ punctual
  /\ TakenBack => at["fifo1"] \in {"open", "read"}

CallIsAnswered == at["fifo2"] = "write" ~> at["fifo2"] = "done"

(* fifo2 is the caller; only a punctual fifo1 offers the service.          *)
Call ==
  IF ~ punctual THEN "idle"
  ELSE CASE at["fifo2"] \in {"off", "start", "write"} -> "idle"
         [] at["fifo2"] \in {"sleep", "read"} -> "asked"
         [] at["fifo2"] = "done"   -> "heard"
         [] at["fifo2"] = "failed" -> "gone"

Ready == IF Call = "asked" /\ at["fifo1"] \in {"remove", "done"} THEN 1 ELSE 0

=============================================================================
