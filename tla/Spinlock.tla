------------------------------ MODULE Spinlock ------------------------------
(***************************************************************************)
(* spinlock.c on several CPUs: acquire() and release() with the nesting of *)
(* pushcli() and popcli(), interrupt handlers that take locks, and the     *)
(* order in which the kernel's paths take nested locks.  A path is the     *)
(* sequence of its acquire() and release() calls; what happens between     *)
(* them is the subject of the other modules.                               *)
(***************************************************************************)
EXTENDS Naturals, Sequences

CONSTANTS
  CPU,
  Call,        \* the paths processes and schedulers take (from Path)
  Handler,     \* the paths interrupt handlers take (from Path)
  None         \* no CPU

-----------------------------------------------------------------------------
(* The kernel's nested lock paths.                                         *)

Lock == {"ptable", "cons", "tickslock", "idelock", "log", "pipe", "sleeplk",
         "kmem"}

acq(l) == <<"acquire", l>>
rel(l) == <<"release", l>>

\* wakeup(chan) called with lock l held.
waking(l) == <<acq(l), acq("ptable"), rel("ptable"), rel(l)>>

\* sleep(chan, l): the process that runs next on this CPU releases
\* ptable.lock, and the sleeper takes l again when it runs.
sleeping(l) == <<acq(l), acq("ptable"), rel(l), rel("ptable"), acq(l), rel(l)>>

trap_timer == waking("tickslock")
consoleintr == waking("cons")
ideintr == waking("idelock")
scheduler == <<acq("ptable"), rel("ptable")>>
sys_sleep == sleeping("tickslock")
consoleread == sleeping("cons")
iderw == sleeping("idelock")
begin_op == sleeping("log")
\* Mutant of end_op: log.lock is taken inside ptable.lock.
end_op_reversed == <<acq("ptable"), acq("log"), rel("log"), rel("ptable")>>
end_op == waking("log")
acquiresleep == sleeping("sleeplk")
releasesleep == waking("sleeplk")
piperead == waking("pipe")
\* wakeup(&p->nread), then sleep(&p->nwrite, &p->lock).
pipewrite == <<acq("pipe"), acq("ptable"), rel("ptable")>>
             \o Tail(sleeping("pipe"))
\* wait() frees the child's memory with ptable.lock held.
wait == <<acq("ptable"), acq("kmem"), rel("kmem"), rel("ptable")>>
cprintf == <<acq("cons"), rel("cons")>>
\* cps() prints with ptable.lock held.
cps == <<acq("ptable")>> \o cprintf \o <<rel("ptable")>>

Path == {trap_timer, consoleintr, ideintr, scheduler, sys_sleep, consoleread,
         iderw, begin_op, end_op, acquiresleep, releasesleep, piperead,
         pipewrite, wait, cprintf, cps}

-----------------------------------------------------------------------------

VARIABLES
  owner,       \* lk->locked and lk->cpu
  ncli,        \* cpu->ncli
  intena,      \* cpu->intena
  FL_IF,       \* the CPU's interrupt flag
  todo,        \* the rest of the path the CPU is on, per nesting level: an
               \* interrupted path below its handler
  spinning     \* the CPU is in acquire()'s loop

vars == <<owner, ncli, intena, FL_IF, todo, spinning>>

\* The types of the locks and of struct cpu; handlers do not nest.
TypeOK ==
  /\ owner \in [Lock -> CPU \cup {None}]
  /\ ncli \in [CPU -> 0..3]
  /\ intena \in [CPU -> BOOLEAN] /\ FL_IF \in [CPU -> BOOLEAN]
  /\ spinning \in [CPU -> BOOLEAN]
  /\ \A c \in CPU : Len(todo[c]) \in 1..2

\* Every CPU is in its scheduler() or in a process, with no lock held.
Init ==
  /\ owner = [l \in Lock |-> None]
  /\ ncli = [c \in CPU |-> 0]
  /\ intena = [c \in CPU |-> TRUE]
  /\ FL_IF = [c \in CPU |-> TRUE]
  /\ todo = [c \in CPU |-> << <<>> >>]
  /\ spinning = [c \in CPU |-> FALSE]

\* What the CPU does next, at its innermost level.
Now(c) == todo[c][Len(todo[c])]
Wants(c, l) == Now(c) # <<>> /\ Head(Now(c)) = acq(l)
done(c) == [todo EXCEPT ![c][Len(todo[c])] = Tail(@)]

\* A process or the scheduler starts on a path.
start(c, path) ==
  /\ Now(c) = <<>> /\ Len(todo[c]) = 1
  /\ todo' = [todo EXCEPT ![c] = <<path>>]
  /\ UNCHANGED <<owner, ncli, intena, FL_IF, spinning>>

\* An interrupt gate clears FL_IF; iret restores it.
interrupt(c, path) ==
  /\ FL_IF[c]
  /\ FL_IF' = [FL_IF EXCEPT ![c] = FALSE]
  /\ todo' = [todo EXCEPT ![c] = Append(@, path)]
  /\ UNCHANGED <<owner, ncli, intena, spinning>>

iret(c) ==
  /\ Len(todo[c]) = 2 /\ Now(c) = <<>>
  /\ FL_IF' = [FL_IF EXCEPT ![c] = TRUE]
  /\ todo' = [todo EXCEPT ![c] = <<@[1]>>]
  /\ UNCHANGED <<owner, ncli, intena, spinning>>

\* Mutant of pushcli: no cli().
pushcli_open(c) ==
  /\ intena' = [intena EXCEPT ![c] = IF ncli[c] = 0 THEN FL_IF[c] ELSE @]
  /\ ncli' = [ncli EXCEPT ![c] = @ + 1]
  /\ UNCHANGED FL_IF

\* pushcli() at the start of acquire().
pushcli(c) ==
  /\ FL_IF' = [FL_IF EXCEPT ![c] = FALSE]
  /\ intena' = [intena EXCEPT ![c] = IF ncli[c] = 0 THEN FL_IF[c] ELSE @]
  /\ ncli' = [ncli EXCEPT ![c] = @ + 1]

\* popcli() at the end of release().
popcli(c) ==
  /\ ncli' = [ncli EXCEPT ![c] = @ - 1]
  /\ FL_IF' = [FL_IF EXCEPT ![c] = @ \/ (ncli[c] = 1 /\ intena[c])]
  /\ UNCHANGED intena

acquire(c) ==
  /\ \E l \in Lock : Wants(c, l)
  /\ ~spinning[c]
  /\ pushcli(c)
  /\ spinning' = [spinning EXCEPT ![c] = TRUE]
  /\ UNCHANGED <<owner, todo>>

\* xchg() finds the lock free.
locked(c) ==
  /\ spinning[c]
  /\ \E l \in Lock : /\ Wants(c, l)
                     /\ owner[l] = None
                     /\ owner' = [owner EXCEPT ![l] = c]
  /\ spinning' = [spinning EXCEPT ![c] = FALSE]
  /\ todo' = done(c)
  /\ UNCHANGED <<ncli, intena, FL_IF>>

release(c) ==
  /\ \E l \in Lock : /\ Now(c) # <<>> /\ Head(Now(c)) = rel(l)
                     /\ owner' = [owner EXCEPT ![l] = None]
  /\ popcli(c)
  /\ todo' = done(c)
  /\ UNCHANGED spinning

Next ==
  \E c \in CPU :
    \/ \E path \in Call : start(c, path)
    \/ \E path \in Handler : interrupt(c, path)
    \/ iret(c) \/ acquire(c) \/ locked(c) \/ release(c)

Spec == Init /\ [][Next]_vars

-----------------------------------------------------------------------------
(* Properties.                                                             *)

\* Neither panic of spinlock.c about ownership is reached: a CPU never
\* acquires a lock it holds (in particular not in a handler that interrupted
\* the holder) and releases only locks it holds.
NeverReacquired ==
  \A c \in CPU, l \in Lock :
    /\ Wants(c, l) => owner[l] # c
    /\ Now(c) # <<>> /\ Head(Now(c)) = rel(l) => owner[l] = c

\* pushcli() and popcli() match: interrupts are off while a CPU holds a lock
\* or spins, ncli counts those locks, and interrupts are on again when an
\* uninterrupted CPU is between two paths.
CliMatched ==
  \A c \in CPU :
    /\ FL_IF[c] => ~spinning[c] /\ \A l \in Lock : owner[l] # c
    /\ Now(c) = <<>> => ncli[c] = 0
    /\ Len(todo[c]) = 1 /\ ncli[c] = 0 => FL_IF[c]

\* No CPUs spin for each other's locks.
NoLockCycle ==
  ~\E S \in SUBSET CPU \ {{}} :
     \A c \in S : spinning[c] /\ \E l \in Lock : Wants(c, l) /\ owner[l] \in S
=============================================================================
