-------------------------------- MODULE Ipc ---------------------------------
(***************************************************************************)
(* An object of the kernel that programs find by a fixed key or name: a    *)
(* segment of shared memory (SHM_KEY), a message queue (MSG_KEY) or a FIFO *)
(* (SERV_FIFO).  Removing it frees the name at once, so that the next      *)
(* program makes another; who holds the old one holds it still.            *)
(***************************************************************************)
EXTENDS Naturals

VARIABLES
  key,      \* the object that has the name, or NoObject
  made,     \* how many have been made
  held      \* the object each process got, or NoObject

NoObject == 0

IpcInit(processes) ==
  /\ key = NoObject /\ made = 0
  /\ held = [p \in processes |-> NoObject]

(* shmget and msgget with IPC_CREAT, mkfifo that accepts EEXIST. *)
GetOrMake(p) ==
  /\ key' = IF key = NoObject THEN made + 1 ELSE key
  /\ made' = IF key = NoObject THEN made + 1 ELSE made
  /\ held' = [held EXCEPT ![p] = key']

(* msgget without IPC_CREAT, open: fails when there is none. *)
Get(p) ==
  /\ key # NoObject
  /\ held' = [held EXCEPT ![p] = key]
  /\ UNCHANGED <<key, made>>

(* IPC_RMID, remove. *)
Remove == key' = NoObject /\ UNCHANGED <<made, held>>

=============================================================================
