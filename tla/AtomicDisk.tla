----------------------------- MODULE AtomicDisk -----------------------------
(***************************************************************************)
(* What log.c promises the file system: the blocks a group of system calls *)
(* writes become durable all together, only when no system call of the     *)
(* group is still open, and a crash takes the memory image back to the     *)
(* last durable one.                                                       *)
(***************************************************************************)

CONSTANTS
  Op,        \* processes that execute file-system calls
  Block,     \* disk blocks
  Data,      \* block contents
  Format     \* the contents of the disk mkfs writes

VARIABLES
  mem,       \* what bread() returns for each block
  durable,   \* what bread() would return after a crash and a restart
  open       \* the processes between begin_op() and end_op()

avars == <<mem, durable, open>>

AInit ==
  /\ mem = Format
  /\ durable = Format
  /\ open = {}

Begin(p) ==
  /\ p \notin open
  /\ open' = open \cup {p}
  /\ UNCHANGED <<mem, durable>>

Write(p, b, v) ==
  /\ p \in open
  /\ mem' = [mem EXCEPT ![b] = v]
  /\ UNCHANGED <<durable, open>>

End(p) ==
  /\ p \in open
  /\ open' = open \ {p}
  /\ UNCHANGED <<mem, durable>>

\* Every write of every finished call becomes durable in one step, and no
\* write of an unfinished one: there is none.
Commit ==
  /\ open = {}
  /\ durable' = mem
  /\ UNCHANGED <<mem, open>>

Crash ==
  /\ mem' = durable
  /\ open' = {}
  /\ UNCHANGED durable

ANext ==
  \/ \E p \in Op : Begin(p) \/ End(p)
  \/ \E p \in Op, b \in Block, v \in Data : Write(p, b, v)
  \/ Commit
  \/ Crash

ASpec == AInit /\ [][ANext]_avars
=============================================================================
