-------------------------------- MODULE Proc --------------------------------
(***************************************************************************)
(* proc.c: the process table, the schedulers of all CPUs, and the life of  *)
(* a process from allocproc() to wait().  Everything that happens while    *)
(* ptable.lock is held is one step; fork() and exit() are split where they *)
(* do not hold it.  The first slot runs init.c's loop, the other processes *)
(* make any system calls.                                                  *)
(***************************************************************************)
EXTENDS Naturals, FiniteSets, FiniteSetsExt

CONSTANTS
  NPROC,       \* slots of ptable.proc
  CPU,         \* processors
  KillPid,     \* the pids user programs pass to kill()
  MAXPID       \* bound: the last pid handed out

ASSUME ProcAssumption ==
  /\ NPROC \in Nat \ {0}
  /\ MAXPID \in Nat \ {0}
  /\ KillPid \subseteq 0..MAXPID

Slot == 1..NPROC
initproc == 1
Free == 0            \* no process: a null parent, child, chan or cpu->proc
IO == NPROC + 1      \* the channel of a disk or log wait
Input == NPROC + 2   \* the channel of a wait for input, which need not come

VARIABLES
  state, pid, parent, killed, chan,   \* struct proc
  nextpid,
  cpu,         \* cpu->proc
  scan,        \* where the CPU's scheduler() loop continues
  pc,          \* what the process is doing
  child,       \* np of a fork() in progress
  shell,       \* the pid init's last fork() returned
  panicked

proc == <<state, pid, parent, killed, chan, nextpid>>
sched == <<cpu, scan>>
vars == <<proc, sched, pc, child, shell, panicked>>

States == {"UNUSED", "EMBRYO", "SLEEPING", "RUNNABLE", "RUNNING", "ZOMBIE"}
Pcs == {"user", "fork", "wait", "io", "read", "block", "exit"}

\* The types of the process table.
TypeOK ==
  /\ state \in [Slot -> States]
  /\ pid \in [Slot -> 0..MAXPID]
  /\ parent \in [Slot -> 0..NPROC]
  /\ killed \in [Slot -> BOOLEAN]
  /\ chan \in [Slot -> 0..NPROC + 2]
  /\ nextpid \in 1..MAXPID + 1
  /\ cpu \in [CPU -> 0..NPROC]
  /\ scan \in [CPU -> 1..NPROC + 1]
  /\ pc \in [Slot -> Pcs]
  /\ child \in [Slot -> 0..NPROC]
  /\ shell \in 0..MAXPID
  /\ panicked \in BOOLEAN

\* userinit()
Init ==
  /\ state = [p \in Slot |-> IF p = initproc THEN "RUNNABLE" ELSE "UNUSED"]
  /\ pid = [p \in Slot |-> IF p = initproc THEN 1 ELSE 0]
  /\ parent = [p \in Slot |-> Free]
  /\ killed = [p \in Slot |-> FALSE]
  /\ chan = [p \in Slot |-> Free]
  /\ nextpid = 2
  /\ cpu = [c \in CPU |-> Free]
  /\ scan = [c \in CPU |-> 1]
  /\ pc = [p \in Slot |-> "user"]
  /\ child = [p \in Slot |-> Free]
  /\ shell = 0
  /\ panicked = FALSE

-----------------------------------------------------------------------------
(* Scheduling.                                                             *)

Running(p) == ~panicked /\ state[p] = "RUNNING"

\* sched(): the CPU goes back to its scheduler() loop.
leave(p) == cpu' = [c \in CPU |-> IF cpu[c] = p THEN Free ELSE cpu[c]]

\* wakeup1(c) in the table st.
wakeup1(st, c) ==
  [q \in Slot |-> IF st[q] = "SLEEPING" /\ chan[q] = c THEN "RUNNABLE" ELSE st[q]]

\* Mutant of scheduler: the process is not made RUNNING.
scheduler_unmarked(c) ==
  /\ ~panicked
  /\ cpu[c] = Free
  /\ LET runnable == {p \in Slot : p >= scan[c] /\ state[p] = "RUNNABLE"}
     IN  \/ /\ runnable = {}
            /\ scan' = [scan EXCEPT ![c] = 1]
            /\ UNCHANGED <<state, cpu, chan>>
         \/ /\ runnable # {}
            /\ LET p == Min(runnable)
               IN  /\ UNCHANGED state
                   /\ cpu' = [cpu EXCEPT ![c] = p]
                   /\ scan' = [scan EXCEPT ![c] = p + 1]
                   /\ chan' = [chan EXCEPT ![p] = Free]
  /\ UNCHANGED <<pid, parent, killed, nextpid, pc, child, shell, panicked>>

\* Mutant of scheduler: the search starts again at the first slot.
scheduler_restart(c) ==
  /\ ~panicked
  /\ cpu[c] = Free
  /\ LET runnable == {p \in Slot : p >= scan[c] /\ state[p] = "RUNNABLE"}
     IN  \/ /\ runnable = {}
            /\ scan' = [scan EXCEPT ![c] = 1]
            /\ UNCHANGED <<state, cpu, chan>>
         \/ /\ runnable # {}
            /\ LET p == Min(runnable)
               IN  /\ state' = [state EXCEPT ![p] = "RUNNING"]
                   /\ cpu' = [cpu EXCEPT ![c] = p]
                   /\ UNCHANGED scan
                   /\ chan' = [chan EXCEPT ![p] = Free]
  /\ UNCHANGED <<pid, parent, killed, nextpid, pc, child, shell, panicked>>

\* The loop over the table goes on from where the CPU left it; at the end it
\* drops ptable.lock and starts again.
scheduler(c) ==
  /\ ~panicked
  /\ cpu[c] = Free
  /\ LET runnable == {p \in Slot : p >= scan[c] /\ state[p] = "RUNNABLE"}
     IN  \/ /\ runnable = {}
            /\ scan' = [scan EXCEPT ![c] = 1]
            /\ UNCHANGED <<state, cpu, chan>>
         \/ /\ runnable # {}
            /\ LET p == Min(runnable)
               IN  /\ state' = [state EXCEPT ![p] = "RUNNING"]
                   /\ cpu' = [cpu EXCEPT ![c] = p]
                   /\ scan' = [scan EXCEPT ![c] = p + 1]
                   /\ chan' = [chan EXCEPT ![p] = Free]
  /\ UNCHANGED <<pid, parent, killed, nextpid, pc, child, shell, panicked>>

\* The timer interrupt; a reader about to sleep holds a lock, with interrupts off.
yield(p) ==
  /\ Running(p) /\ pc[p] # "block"
  /\ state' = [state EXCEPT ![p] = "RUNNABLE"]
  /\ leave(p)
  /\ UNCHANGED <<pid, parent, killed, chan, nextpid, scan, pc, child, shell,
                 panicked>>

-----------------------------------------------------------------------------
(* fork                                                                    *)

\* trap() lets a process start a system call only if it is not killed; init
\* only calls fork() and wait(), and prints.
Syscall(p) == Running(p) /\ pc[p] = "user" /\ ~killed[p]

\* allocproc() under ptable.lock.  fork() returns -1 when the table is full,
\* and then init exits.
fork_alloc(p) ==
  /\ Syscall(p)
  /\ LET unused == {q \in Slot : state[q] = "UNUSED"}
     IN  \/ /\ unused = {}
            /\ panicked' = (p = initproc)
            /\ UNCHANGED <<state, pid, nextpid, pc, child>>
         \/ /\ unused # {}
            /\ nextpid <= MAXPID
            /\ LET np == Min(unused)
               IN  /\ state' = [state EXCEPT ![np] = "EMBRYO"]
                   /\ pid' = [pid EXCEPT ![np] = nextpid]
                   /\ child' = [child EXCEPT ![p] = np]
            /\ nextpid' = nextpid + 1
            /\ pc' = [pc EXCEPT ![p] = "fork"]
            /\ UNCHANGED panicked
  /\ UNCHANGED <<parent, killed, chan, sched, shell>>

\* kalloc() or copyuvm() fails: the slot is given back without a lock.
fork_fail(p) ==
  /\ Running(p) /\ pc[p] = "fork"
  /\ state' = [state EXCEPT ![child[p]] = "UNUSED"]
  /\ child' = [child EXCEPT ![p] = Free]
  /\ pc' = [pc EXCEPT ![p] = "user"]
  /\ panicked' = (p = initproc)
  /\ UNCHANGED <<pid, parent, killed, chan, nextpid, sched, shell>>

\* The child is complete; init goes on to wait().
fork_run(p) ==
  /\ Running(p) /\ pc[p] = "fork"
  /\ LET np == child[p]
     IN  /\ parent' = [parent EXCEPT ![np] = p]
         /\ state' = [state EXCEPT ![np] = "RUNNABLE"]
         /\ pc' = [pc EXCEPT ![p] = IF p = initproc THEN "wait" ELSE "user",
                             ![np] = "user"]
         /\ shell' = IF p = initproc THEN pid[np] ELSE shell
  /\ child' = [child EXCEPT ![p] = Free]
  /\ UNCHANGED <<pid, killed, chan, nextpid, sched, panicked>>

-----------------------------------------------------------------------------
(* exit and wait                                                           *)

\* exit(), from the system call or from trap() for a killed process, up to
\* the closing of files.
exit(p) ==
  /\ Running(p) /\ pc[p] = "user"
  /\ p = initproc => killed[p]
  /\ panicked' = (p = initproc)
  /\ pc' = [pc EXCEPT ![p] = "exit"]
  /\ UNCHANGED <<proc, sched, child, shell>>

\* Mutant of exit_zombie: the parent is not woken.
exit_zombie_silent(p) ==
  /\ Running(p) /\ pc[p] = "exit"
  /\ LET orphans == {q \in Slot : parent[q] = p}
         seen == IF \E q \in orphans : state[q] = "ZOMBIE"
                 THEN wakeup1(state, initproc) ELSE state
     IN  /\ state' = [seen EXCEPT ![p] = "ZOMBIE"]
         /\ parent' = [q \in Slot |-> IF q \in orphans THEN initproc ELSE parent[q]]
  /\ leave(p)
  /\ UNCHANGED <<pid, killed, chan, nextpid, scan, pc, child, shell, panicked>>

\* exit() under ptable.lock.
exit_zombie(p) ==
  /\ Running(p) /\ pc[p] = "exit"
  /\ LET woken == wakeup1(state, parent[p])
         orphans == {q \in Slot : parent[q] = p}
         seen == IF \E q \in orphans : state[q] = "ZOMBIE"
                 THEN wakeup1(woken, initproc) ELSE woken
     IN  /\ state' = [seen EXCEPT ![p] = "ZOMBIE"]
         /\ parent' = [q \in Slot |-> IF q \in orphans THEN initproc ELSE parent[q]]
  /\ leave(p)
  /\ UNCHANGED <<pid, killed, chan, nextpid, scan, pc, child, shell, panicked>>

\* The call of wait(); init gets there from fork_run.
wait_call(p) ==
  /\ Syscall(p) /\ p # initproc
  /\ pc' = [pc EXCEPT ![p] = "wait"]
  /\ UNCHANGED <<proc, sched, child, shell, panicked>>

\* One scan of the table by wait(): reaps the first zombie child, returns -1,
\* or sleeps.
wait(p) ==
  /\ Running(p) /\ pc[p] = "wait"
  /\ LET kids == {q \in Slot : parent[q] = p}
         zombies == {q \in kids : state[q] = "ZOMBIE"}
     IN  \/ /\ zombies # {}
            /\ LET q == Min(zombies)
               IN  /\ state' = [state EXCEPT ![q] = "UNUSED"]
                   /\ pid' = [pid EXCEPT ![q] = 0]
                   /\ parent' = [parent EXCEPT ![q] = Free]
                   /\ killed' = [killed EXCEPT ![q] = FALSE]
            /\ pc' = [pc EXCEPT ![p] = "user"]
            /\ UNCHANGED <<chan, cpu>>
         \/ /\ zombies = {}
            /\ kids = {} \/ killed[p]
            /\ pc' = [pc EXCEPT ![p] = "user"]
            /\ UNCHANGED <<state, pid, parent, killed, chan, cpu>>
         \/ /\ zombies = {}
            /\ kids # {} /\ ~killed[p]
            /\ state' = [state EXCEPT ![p] = "SLEEPING"]
            /\ chan' = [chan EXCEPT ![p] = p]
            /\ leave(p)
            /\ UNCHANGED <<pid, parent, killed, pc>>
  /\ UNCHANGED <<nextpid, scan, child, shell, panicked>>

-----------------------------------------------------------------------------
(* Other system calls, and kill                                            *)

\* A system call that may wait for the disk or the log, or for input.
io_call(p) ==
  /\ Syscall(p) /\ p # initproc
  /\ \E x \in {"io", "read"} : pc' = [pc EXCEPT ![p] = x]
  /\ UNCHANGED <<proc, sched, child, shell, panicked>>

\* The call is done, there is input, or the reader finds that it is killed.
io_return(p) ==
  /\ Running(p) /\ pc[p] \in {"io", "read"}
  /\ pc' = [pc EXCEPT ![p] = "user"]
  /\ UNCHANGED <<proc, sched, child, shell, panicked>>

\* There is no input, and the reader is not killed: it will call sleep().
read_empty(p) ==
  /\ Running(p) /\ pc[p] = "read" /\ ~killed[p]
  /\ pc' = [pc EXCEPT ![p] = "block"]
  /\ UNCHANGED <<proc, sched, child, shell, panicked>>

\* sleep() of a reader.  kill() only takes ptable.lock and can have come since the test.
read_sleep(p) ==
  /\ Running(p) /\ pc[p] = "block"
  /\ state' = [state EXCEPT ![p] = "SLEEPING"]
  /\ chan' = [chan EXCEPT ![p] = Input]
  /\ pc' = [pc EXCEPT ![p] = "read"]
  /\ leave(p)
  /\ UNCHANGED <<pid, parent, killed, nextpid, scan, child, shell, panicked>>

\* sleep() for the disk or the log, also in exit() while it closes files.
sleep(p) ==
  /\ Running(p) /\ pc[p] \in {"io", "exit"}
  /\ state' = [state EXCEPT ![p] = "SLEEPING"]
  /\ chan' = [chan EXCEPT ![p] = IO]
  /\ leave(p)
  /\ UNCHANGED <<pid, parent, killed, nextpid, scan, pc, child, shell, panicked>>

\* wakeup() by the interrupt handler or by another process.
wakeup(c) ==
  /\ ~panicked
  /\ \E q \in Slot : state[q] = "SLEEPING" /\ chan[q] = c
  /\ state' = wakeup1(state, c)
  /\ UNCHANGED <<pid, parent, killed, chan, nextpid, sched, pc, child, shell,
                 panicked>>

\* Mutant of kill: a sleeping process is not woken.
kill_silent(p, v) ==
  /\ Syscall(p) /\ p # initproc
  /\ \E q \in Slot :
       /\ pid[q] = v /\ \A r \in Slot : pid[r] = v => q <= r
       /\ killed' = [killed EXCEPT ![q] = TRUE]
       /\ UNCHANGED state
  /\ UNCHANGED <<pid, parent, chan, nextpid, sched, pc, child, shell, panicked>>

\* kill(v): the first slot with that pid, whatever its state.
kill(p, v) ==
  /\ Syscall(p) /\ p # initproc
  /\ \E q \in Slot :
       /\ pid[q] = v /\ \A r \in Slot : pid[r] = v => q <= r
       /\ killed' = [killed EXCEPT ![q] = TRUE]
       /\ state' = [state EXCEPT ![q] = IF @ = "SLEEPING" THEN "RUNNABLE" ELSE @]
  /\ UNCHANGED <<pid, parent, chan, nextpid, sched, pc, child, shell, panicked>>

-----------------------------------------------------------------------------

Step(p) == \/ fork_fail(p) \/ fork_run(p) \/ exit(p) \/ exit_zombie(p)
           \/ wait(p) \/ io_return(p) \/ read_empty(p) \/ read_sleep(p) \/ sleep(p)
Call(p) == fork_alloc(p) \/ wait_call(p) \/ io_call(p) \/ \E v \in KillPid : kill(p, v)

Next ==
  \/ \E c \in CPU : scheduler(c)
  \/ \E p \in Slot : yield(p) \/ Step(p) \/ Call(p)
  \/ wakeup(IO) \/ wakeup(Input)

Spec == Init /\ [][Next]_vars

\* What a process does when it is given the time: it gets on with the system
\* call it is in, leaves if it is killed, and, if it is init, makes the next.
Progress(p) ==
  \/ fork_run(p) \/ wait(p) \/ io_return(p) \/ exit_zombie(p)
  \/ read_empty(p) \/ read_sleep(p)
  \/ killed[p] /\ exit(p)
  \/ p = initproc /\ fork_alloc(p)

\* Every CPU runs its scheduler() loop, the timer preempts, the disk answers, input
\* need not come, and a process that is run again and again makes progress.  That the
\* scheduler is fair is not assumed.
Fairness ==
  /\ \A c \in CPU : WF_vars(scheduler(c))
  /\ WF_vars(wakeup(IO))
  /\ \A p \in Slot : WF_vars(yield(p)) /\ SF_vars(Progress(p))

FairSpec == Spec /\ Fairness

-----------------------------------------------------------------------------
(* Properties.                                                             *)

Alive(p) == state[p] \in {"SLEEPING", "RUNNABLE", "RUNNING"}

\* Every process but init has a parent that can wait() for it: exit() leaves
\* no orphan, whatever the parent, the child and init are doing.
ParentAlive ==
  \A p \in Slot \ {initproc} :
    Alive(p) \/ state[p] = "ZOMBIE" => parent[p] # Free /\ Alive(parent[p])

\* A process asleep in wait() has children, none of them has exited, and it
\* is not killed: neither exit(), nor the adoption by init, nor kill() is
\* missed.
NoMissedExit ==
  \A p \in Slot :
    state[p] = "SLEEPING" /\ chan[p] = p =>
      /\ ~killed[p]
      /\ \E q \in Slot : parent[q] = p
      /\ \A q \in Slot : parent[q] = p => state[q] # "ZOMBIE"

\* A process is RUNNING exactly when one CPU runs it; no two CPUs use the
\* same kernel stack, and nobody reaps a process that still runs.
OneCpuPerProcess ==
  \A p \in Slot : Cardinality({c \in CPU : cpu[c] = p}) =
                    IF state[p] = "RUNNING" THEN 1 ELSE 0

\* An EMBRYO slot belongs to exactly one fork() in progress.
EmbryoOwned ==
  \A q \in Slot : Cardinality({p \in Slot : pc[p] = "fork" /\ child[p] = q}) =
                    IF state[q] = "EMBRYO" THEN 1 ELSE 0

\* Every RUNNABLE process gets a CPU.
NoStarvation ==
  \A p \in Slot : state[p] = "RUNNABLE" ~> state[p] = "RUNNING" \/ panicked

\* init reaps every orphan that exits, unless it is about to fork() and the
\* bound on pids is reached.
OrphanReaped ==
  \A p \in Slot \ {initproc} :
    state[p] = "ZOMBIE" /\ parent[p] = initproc
      ~> \/ state[p] = "UNUSED" \/ panicked
         \/ pc[initproc] = "user" /\ nextpid > MAXPID

\* A killed process exits, whether it runs, waits for a CPU or for the disk, sleeps in
\* wait() or waits for input, unless kill() came between a reader's test of killed and
\* its sleep(): it then sleeps until there is input, and exits if input comes.
TooLate(p) == pc[p] = "block" \/ (state[p] = "SLEEPING" /\ chan[p] = Input)
KilledExits ==
  \A p \in Slot \ {initproc} :
    killed[p] /\ Alive(p) /\ ~TooLate(p)
      ~> state[p] \in {"ZOMBIE", "UNUSED"} \/ panicked

\* init starts a shell only when the one it started before has finished.
OneShell ==
  pc[initproc] = "fork" => \A p \in Slot : pid[p] = shell => ~Alive(p)
=============================================================================
