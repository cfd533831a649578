----------------------------- MODULE ProcProofs -----------------------------
(***************************************************************************)
(* Proofs about Proc for any number of slots, CPUs and pids: the process   *)
(* table stays consistent and no exit is missed, also when init adopts     *)
(* zombies from a process that is not its own child.                       *)
(***************************************************************************)
EXTENDS Proc, FiniteSetTheorems, WellFoundedInduction, TLAPS

\* A fork() in progress owns one EMBRYO slot, and every one has an owner.
Forks ==
  /\ \A p \in Slot : pc[p] = "fork" =>
       Alive(p) /\ child[p] \in Slot /\ state[child[p]] = "EMBRYO"
  /\ \A p, q \in Slot :
       pc[p] = "fork" /\ pc[q] = "fork" /\ child[p] = child[q] => p = q
  /\ \A q \in Slot : state[q] = "EMBRYO" =>
       \E p \in Slot : pc[p] = "fork" /\ child[p] = q

\* init has no parent and never exits (exit() panics first), a slot that is
\* not in use has no parent, none is its own, and ParentAlive.
Parents ==
  /\ Alive(initproc) /\ parent[initproc] = Free
  /\ pc[initproc] = "exit" => panicked
  /\ \A q \in Slot : parent[q] \in Slot \cup {Free} /\ parent[q] # q
  /\ \A q \in Slot : state[q] \in {"UNUSED", "EMBRYO"} => parent[q] = Free
  /\ ParentAlive

\* cpu->proc is a one-to-one map between the busy CPUs and the RUNNING slots.
Cpus ==
  /\ \A c \in CPU : cpu[c] # Free =>
       cpu[c] \in Slot /\ state[cpu[c]] = "RUNNING"
  /\ \A c, d \in CPU : cpu[c] = cpu[d] /\ cpu[c] # Free => c = d
  /\ \A p \in Slot : state[p] = "RUNNING" => \E c \in CPU : cpu[c] = p

Inv ==
  /\ TypeOK
  /\ Forks
  /\ Parents
  /\ Cpus
  /\ NoMissedExit

-----------------------------------------------------------------------------
(* Slots.                                                                  *)

\* Slot numbers are neither the null pointer nor the channel of the disk.
LEMMA SlotFacts == initproc \in Slot /\ Free \notin Slot /\ IO \notin Slot /\ Input \notin Slot
<1>1. NPROC \in Nat /\ NPROC # 0
  BY ProcAssumption
<1> QED
  BY <1>1 DEF Slot, Free, IO, Input, initproc

\* The ranges TypeOK gives to the fields that hold a slot.
LEMMA SlotRange ==
  /\ Slot \subseteq Nat /\ Slot \subseteq 0..NPROC /\ Slot \subseteq 0..NPROC + 2
  /\ Free \in 0..NPROC /\ Free \in 0..NPROC + 2 /\ {IO, Input} \subseteq 0..NPROC + 2
  /\ 1 \in 1..NPROC + 1 /\ \A p \in Slot : p + 1 \in 1..NPROC + 1
  /\ IsFiniteSet(Slot)
<1>1. NPROC \in Nat /\ NPROC # 0
  BY ProcAssumption
<1>2. IsFiniteSet(1..NPROC)
  BY <1>1, FS_Interval
<1> QED
  BY <1>1, <1>2 DEF Slot, Free, IO, Input

\* The loops of scheduler(), allocproc() and wait() find the first slot of
\* those they look for.
LEMMA FirstSlot ==
  ASSUME NEW S, S \subseteq Slot, S # {}
  PROVE  Min(S) \in S
<1>1. S \subseteq Nat
  BY SlotRange
<1>2. \E x \in S : \A y \in S : ~(<<y, x>> \in OpToRel(<, Nat))
  BY <1>1, NatLessThanWellFounded, WFMin
<1>3. \E x \in S : \A y \in S : x <= y
  <2>1. PICK x \in S : \A y \in S : ~(<<y, x>> \in OpToRel(<, Nat))
    BY <1>2
  <2>2. \A y \in S : x <= y
    <3>1. \A y \in S : y \in Nat /\ x \in Nat
      BY <1>1
    <3>2. \A y \in S : y < x => <<y, x>> \in OpToRel(<, Nat)
      BY <3>1 DEF OpToRel
    <3>3. \A y \in S : ~(y < x)
      BY <2>1, <3>2, Zenon
    <3> QED
      BY <3>1, <3>3
  <2> QED
    BY <2>2
<1> QED
  BY <1>3 DEF Min

-----------------------------------------------------------------------------
(* The invariant is preserved, action by action.                           *)

\* userinit() makes init the only process.
LEMMA InitInv == Init => Inv
<1> SUFFICES ASSUME Init PROVE Inv
  OBVIOUS
<1> USE SlotFacts
<1>1. TypeOK
  <2>1. 0 \in 0..MAXPID /\ 1 \in 0..MAXPID /\ 2 \in 1..MAXPID + 1
    BY ProcAssumption
  <2> QED
    BY <2>1, SlotRange DEF Init, TypeOK, States, Pcs
<1>2. Forks /\ Parents /\ Cpus /\ NoMissedExit
  BY DEF Init, Forks, Parents, ParentAlive, Alive, Cpus, NoMissedExit
<1> QED
  BY <1>1, <1>2 DEF Inv

\* scheduler() runs a RUNNABLE process that no CPU runs.
LEMMA SchedulerInv ==
  ASSUME NEW c \in CPU, Inv, scheduler(c)
  PROVE  Inv'
<1> USE SlotFacts DEF Inv
<1> DEFINE runnable == {p \in Slot : p >= scan[c] /\ state[p] = "RUNNABLE"}
<1>1. UNCHANGED <<pid, parent, killed, nextpid, pc, child, shell, panicked>>
      /\ cpu[c] = Free
  BY DEF scheduler
<1>2. CASE runnable = {}
  <2>1. UNCHANGED <<state, cpu, chan>> /\ scan' = [scan EXCEPT ![c] = 1]
    BY <1>2 DEF scheduler
  <2>2. TypeOK'
    BY <1>1, <2>1, SlotRange DEF TypeOK
  <2>3. Forks' /\ Parents' /\ Cpus' /\ NoMissedExit'
    BY <1>1, <2>1 DEF Forks, Parents, ParentAlive, Alive, Cpus, NoMissedExit
  <2> QED
    BY <2>2, <2>3
<1>3. CASE runnable # {}
  <2> DEFINE p == Min(runnable)
  <2>1. p \in Slot /\ state[p] = "RUNNABLE"
    BY <1>3, FirstSlot
  <2>2. /\ state' = [state EXCEPT ![p] = "RUNNING"]
        /\ cpu' = [cpu EXCEPT ![c] = p]
        /\ scan' = [scan EXCEPT ![c] = p + 1]
        /\ chan' = [chan EXCEPT ![p] = Free]
    BY <1>3 DEF scheduler
  <2> HIDE DEF p
  <2>3. /\ \A q \in Slot : state'[q] = IF q = p THEN "RUNNING" ELSE state[q]
        /\ \A q \in Slot : q # p => chan'[q] = chan[q]
        /\ \A d \in CPU : cpu'[d] = IF d = c THEN p ELSE cpu[d]
    BY <2>2 DEF TypeOK
  <2>4. TypeOK'
    BY <1>1, <2>1, <2>2, SlotRange DEF TypeOK, States
  <2>5. Forks'
    BY <1>1, <2>1, <2>3 DEF Forks, Alive
  <2>6. Parents'
    BY <1>1, <2>1, <2>3 DEF Parents, ParentAlive, Alive
  <2>7. Cpus'
    BY <1>1, <2>1, <2>3 DEF Cpus
  <2>8. NoMissedExit'
    BY <1>1, <2>1, <2>3 DEF NoMissedExit
  <2> QED
    BY <2>4, <2>5, <2>6, <2>7, <2>8
<1> QED
  BY <1>2, <1>3

\* A step that only moves a process between user code and its system calls.
LEMMA PcInv ==
  ASSUME NEW p \in Slot, Inv, exit(p) \/ wait_call(p) \/ io_call(p) \/ io_return(p) \/ read_empty(p)
  PROVE  Inv'
<1> USE SlotFacts DEF Inv
<1>1. /\ UNCHANGED <<state, pid, parent, killed, chan, nextpid, cpu, scan, child,
                     shell>>
      /\ pc[p] \in {"user", "io", "read"} /\ Alive(p)
      /\ \E x \in {"user", "wait", "io", "read", "block", "exit"} : pc' = [pc EXCEPT ![p] = x]
      /\ panicked' \in BOOLEAN /\ ~panicked
      /\ panicked' = FALSE => ~(p = initproc /\ pc'[p] = "exit")
  BY DEF exit, wait_call, io_call, io_return, read_empty, proc, sched, Syscall, Running,
         Alive, TypeOK
<1>2. /\ \A q \in Slot : q # p => pc'[q] = pc[q]
      /\ pc[p] # "fork" /\ pc'[p] # "fork"
  BY <1>1 DEF TypeOK
<1>3. TypeOK'
  BY <1>1 DEF TypeOK, Pcs
<1>4. Forks'
  BY <1>1, <1>2 DEF Forks, Alive
<1>5. Parents'
  BY <1>1, <1>2 DEF Parents, ParentAlive, Alive
<1>6. Cpus' /\ NoMissedExit'
  BY <1>1 DEF Cpus, NoMissedExit
<1> QED
  BY <1>3, <1>4, <1>5, <1>6

\* sched() frees the CPU of the process that calls it, and no other.
LEMMA LeaveCpu ==
  ASSUME NEW p \in Slot, Inv, leave(p),
         state'[p] # "RUNNING",
         \A q \in Slot : q # p => (state'[q] = "RUNNING" <=> state[q] = "RUNNING")
  PROVE  Cpus' /\ cpu' \in [CPU -> 0..NPROC]
<1> USE SlotFacts DEF Inv
<1>1. \A d \in CPU : cpu'[d] = IF cpu[d] = p THEN Free ELSE cpu[d]
  BY DEF leave
<1>2. Cpus'
  BY <1>1 DEF Cpus
<1>3. cpu' \in [CPU -> 0..NPROC]
  BY SlotRange DEF leave, TypeOK
<1> QED
  BY <1>2, <1>3

\* yield() and sleep() give the CPU away; what sleep() waits for is not a slot.
LEMMA YieldInv ==
  ASSUME NEW p \in Slot, Inv, yield(p) \/ sleep(p) \/ read_sleep(p)
  PROVE  Inv'
<1> USE SlotFacts DEF Inv
<1>1. /\ UNCHANGED <<pid, parent, killed, nextpid, scan, child, shell, panicked>>
      /\ state[p] = "RUNNING" /\ leave(p)
      /\ \/ state' = [state EXCEPT ![p] = "RUNNABLE"] /\ UNCHANGED chan
         \/ /\ state' = [state EXCEPT ![p] = "SLEEPING"]
            /\ \E c \in {IO, Input} : chan' = [chan EXCEPT ![p] = c]
      /\ pc' = pc \/ (pc[p] = "block" /\ pc' = [pc EXCEPT ![p] = "read"])
  BY DEF yield, sleep, read_sleep, Running
<1>2. /\ \A q \in Slot : q # p => state'[q] = state[q] /\ chan'[q] = chan[q]
      /\ state'[p] \in {"RUNNABLE", "SLEEPING"}
      /\ state'[p] = "SLEEPING" => chan'[p] \in {IO, Input}
  BY <1>1 DEF TypeOK
<1>8. /\ pc' \in [Slot -> Pcs]
      /\ \A q \in Slot : pc'[q] = pc[q] \/ (pc[q] = "block" /\ pc'[q] = "read")
  BY <1>1 DEF TypeOK, Pcs
<1>3. Cpus' /\ cpu' \in [CPU -> 0..NPROC]
  BY <1>1, <1>2, LeaveCpu
<1>4. TypeOK'
  BY <1>1, <1>3, <1>8, SlotRange DEF TypeOK, States
<1>5. Forks'
  BY <1>1, <1>2, <1>8 DEF Forks, Alive
<1>6. Parents'
  BY <1>1, <1>2, <1>8 DEF Parents, ParentAlive, Alive
<1>7. NoMissedExit'
  BY <1>1, <1>2 DEF NoMissedExit
<1> QED
  BY <1>3, <1>4, <1>5, <1>6, <1>7

\* wakeup() of those who wait for the disk or for input, and kill(), which wakes its victim.
LEMMA WakeInv ==
  ASSUME Inv, (\E c \in {IO, Input} : wakeup(c)) \/ \E p \in Slot, v \in KillPid : kill(p, v)
  PROVE  Inv'
<1> USE SlotFacts DEF Inv
<1> DEFINE Woken ==
      /\ UNCHANGED <<pid, parent, chan, nextpid, cpu, scan, pc, child, shell,
                     panicked>>
      /\ state' \in [Slot -> States] /\ killed' \in [Slot -> BOOLEAN]
      /\ \A q \in Slot : \/ state'[q] = state[q]
                         \/ state[q] = "SLEEPING" /\ state'[q] = "RUNNABLE"
      /\ \A q \in Slot : killed'[q] # killed[q] => state'[q] # "SLEEPING"
<1>1. Woken
  <2>1. ASSUME NEW c \in {IO, Input}, wakeup(c) PROVE Woken
    <3>1. /\ UNCHANGED <<pid, parent, chan, nextpid, cpu, scan, pc, child, shell,
                         panicked, killed>>
          /\ state' = [q \in Slot |->
                        IF state[q] = "SLEEPING" /\ chan[q] = c
                        THEN "RUNNABLE" ELSE state[q]]
      BY <2>1 DEF wakeup, wakeup1, sched
    <3> QED
      BY <3>1 DEF TypeOK, States
  <2>2. ASSUME NEW p \in Slot, NEW v \in KillPid, kill(p, v)
        PROVE  Woken
    <3>1. PICK q \in Slot :
            /\ killed' = [killed EXCEPT ![q] = TRUE]
            /\ state' = [state EXCEPT ![q] =
                           IF @ = "SLEEPING" THEN "RUNNABLE" ELSE @]
      BY <2>2 DEF kill
    <3>2. /\ \A r \in Slot : r # q => state'[r] = state[r] /\ killed'[r] = killed[r]
          /\ state'[q] = IF state[q] = "SLEEPING" THEN "RUNNABLE" ELSE state[q]
      BY <3>1 DEF TypeOK
    <3>3. state' \in [Slot -> States] /\ killed' \in [Slot -> BOOLEAN]
      BY <3>1 DEF TypeOK, States
    <3>4. UNCHANGED <<pid, parent, chan, nextpid, cpu, scan, pc, child, shell,
                      panicked>>
      BY <2>2 DEF kill, sched
    <3> QED
      BY <3>2, <3>3, <3>4
  <2> QED
    BY <2>1, <2>2
<1>2. TypeOK'
  BY <1>1 DEF TypeOK
<1>3. Forks'
  BY <1>1 DEF Forks, Alive
<1>4. Parents'
  BY <1>1 DEF Parents, ParentAlive, Alive
<1>5. Cpus'
  BY <1>1 DEF Cpus
<1>6. NoMissedExit'
  BY <1>1 DEF NoMissedExit, TypeOK
<1> QED
  BY <1>2, <1>3, <1>4, <1>5, <1>6

\* allocproc() takes an UNUSED slot; a full table ends init.
LEMMA ForkAllocInv ==
  ASSUME NEW p \in Slot, Inv, fork_alloc(p)
  PROVE  Inv'
<1> USE SlotFacts DEF Inv
<1> DEFINE unused == {q \in Slot : state[q] = "UNUSED"}
<1>1. /\ UNCHANGED <<parent, killed, chan, cpu, scan, shell>>
      /\ state[p] = "RUNNING" /\ pc[p] = "user" /\ ~panicked
  BY DEF fork_alloc, Syscall, Running, sched
<1>2. CASE unused = {}
  <2>1. UNCHANGED <<state, pid, nextpid, pc, child>> /\ panicked' \in BOOLEAN
    BY <1>2 DEF fork_alloc
  <2>2. TypeOK'
    BY <1>1, <2>1 DEF TypeOK
  <2>3. Forks' /\ Cpus' /\ NoMissedExit'
    BY <1>1, <2>1 DEF Forks, Alive, Cpus, NoMissedExit
  <2>4. Parents'
    BY <1>1, <2>1 DEF Parents, ParentAlive, Alive
  <2> QED
    BY <2>2, <2>3, <2>4
<1>3. CASE unused # {}
  <2> DEFINE np == Min(unused)
  <2>1. np \in Slot /\ state[np] = "UNUSED"
    BY <1>3, FirstSlot
  <2>2. /\ state' = [state EXCEPT ![np] = "EMBRYO"]
        /\ pid' = [pid EXCEPT ![np] = nextpid]
        /\ child' = [child EXCEPT ![p] = np]
        /\ nextpid <= MAXPID /\ nextpid' = nextpid + 1
        /\ pc' = [pc EXCEPT ![p] = "fork"]
        /\ UNCHANGED panicked
    BY <1>3 DEF fork_alloc
  <2> HIDE DEF np
  <2>3. /\ \A q \in Slot : state'[q] = IF q = np THEN "EMBRYO" ELSE state[q]
        /\ \A q \in Slot : pc'[q] = IF q = p THEN "fork" ELSE pc[q]
        /\ \A q \in Slot : child'[q] = IF q = p THEN np ELSE child[q]
    BY <2>2 DEF TypeOK
  <2>4. TypeOK'
    <3>1. nextpid \in 0..MAXPID /\ nextpid' \in 1..MAXPID + 1
      BY <2>2, ProcAssumption DEF TypeOK
    <3> QED
      BY <1>1, <2>1, <2>2, <3>1, SlotRange DEF TypeOK, States, Pcs
  <2>5. Forks'
    BY <1>1, <2>1, <2>3 DEF Forks, Alive
  <2>6. Parents'
    BY <1>1, <2>1, <2>2, <2>3 DEF Parents, ParentAlive, Alive
  <2>7. Cpus'
    BY <1>1, <2>1, <2>3 DEF Cpus
  <2>8. NoMissedExit'
    BY <1>1, <2>1, <2>3 DEF NoMissedExit
  <2> QED
    BY <2>4, <2>5, <2>6, <2>7, <2>8
<1> QED
  BY <1>2, <1>3

\* fork() that runs out of memory gives its slot back.
LEMMA ForkFailInv ==
  ASSUME NEW p \in Slot, Inv, fork_fail(p)
  PROVE  Inv'
<1> USE SlotFacts DEF Inv
<1> DEFINE np == child[p]
<1>1. /\ UNCHANGED <<pid, parent, killed, chan, nextpid, cpu, scan, shell>>
      /\ state[p] = "RUNNING" /\ pc[p] = "fork" /\ panicked' \in BOOLEAN
      /\ state' = [state EXCEPT ![np] = "UNUSED"]
      /\ child' = [child EXCEPT ![p] = Free]
      /\ pc' = [pc EXCEPT ![p] = "user"]
      /\ ~panicked
  BY DEF fork_fail, Running, sched
<1>2. np \in Slot /\ state[np] = "EMBRYO"
  BY <1>1 DEF Forks
<1>3. /\ \A q \in Slot : state'[q] = IF q = np THEN "UNUSED" ELSE state[q]
      /\ \A q \in Slot : pc'[q] = IF q = p THEN "user" ELSE pc[q]
      /\ \A q \in Slot : q # p => child'[q] = child[q]
  BY <1>1, <1>2 DEF TypeOK
<1>4. TypeOK'
  BY <1>1, <1>2, SlotRange DEF TypeOK, States, Pcs
<1>5. Forks'
  BY <1>1, <1>2, <1>3 DEF Forks, Alive
<1>6. Parents'
  BY <1>1, <1>2, <1>3 DEF Parents, ParentAlive, Alive
<1>7. Cpus'
  BY <1>1, <1>2, <1>3 DEF Cpus
<1>8. NoMissedExit'
  BY <1>1, <1>2, <1>3 DEF NoMissedExit
<1> QED
  BY <1>4, <1>5, <1>6, <1>7, <1>8

\* fork() that succeeds: the child had no parent before, so no other
\* process loses it.
LEMMA ForkRunInv ==
  ASSUME NEW p \in Slot, Inv, fork_run(p)
  PROVE  Inv'
<1> USE SlotFacts DEF Inv
<1> DEFINE np == child[p]
<1>1. /\ UNCHANGED <<pid, killed, chan, nextpid, cpu, scan, panicked>>
      /\ state[p] = "RUNNING" /\ pc[p] = "fork"
      /\ parent' = [parent EXCEPT ![np] = p]
      /\ state' = [state EXCEPT ![np] = "RUNNABLE"]
      /\ pc' = [pc EXCEPT ![p] = IF p = initproc THEN "wait" ELSE "user",
                          ![np] = "user"]
      /\ child' = [child EXCEPT ![p] = Free]
      /\ shell' = IF p = initproc THEN pid[np] ELSE shell
  BY DEF fork_run, Running, sched
<1>2. np \in Slot /\ state[np] = "EMBRYO" /\ parent[np] = Free /\ np # p
  BY <1>1 DEF Forks, Parents
<1>3. /\ \A q \in Slot : state'[q] = IF q = np THEN "RUNNABLE" ELSE state[q]
      /\ \A q \in Slot : parent'[q] = IF q = np THEN p ELSE parent[q]
      /\ \A q \in Slot : q # p => child'[q] = child[q]
  BY <1>1, <1>2 DEF TypeOK
<1>4. /\ \A q \in Slot : q # p /\ q # np => pc'[q] = pc[q]
      /\ pc'[p] \in {"user", "wait"} /\ pc'[np] = "user"
      /\ pc' \in [Slot -> Pcs]
  BY <1>1, <1>2 DEF TypeOK, Pcs
<1>5. TypeOK'
  BY <1>1, <1>2, <1>4, SlotRange DEF TypeOK, States
<1>6. Forks'
  <2>1. \A q \in Slot : pc'[q] = "fork" <=> q # p /\ q # np /\ pc[q] = "fork"
    BY <1>4
  <2>2. \A q \in Slot : pc'[q] = "fork" =>
          Alive(q)' /\ child'[q] \in Slot /\ state'[child'[q]] = "EMBRYO"
    BY <1>1, <1>2, <1>3, <2>1 DEF Forks, Alive
  <2>3. \A q, r \in Slot :
          pc'[q] = "fork" /\ pc'[r] = "fork" /\ child'[q] = child'[r] => q = r
    BY <1>3, <2>1 DEF Forks
  <2>4. \A q \in Slot : state'[q] = "EMBRYO" =>
          \E r \in Slot : pc'[r] = "fork" /\ child'[r] = q
    <3>1. pc[np] # "fork"
      BY <1>2 DEF Forks, Alive
    <3> QED
      BY <1>2, <1>3, <2>1, <3>1 DEF Forks
  <2> QED
    BY <2>2, <2>3, <2>4 DEF Forks
<1>7. Parents'
  BY <1>1, <1>2, <1>3, <1>4 DEF Parents, ParentAlive, Alive
<1>8. Cpus'
  BY <1>1, <1>2, <1>3 DEF Cpus
<1>9. NoMissedExit'
  BY <1>1, <1>2, <1>3 DEF NoMissedExit
<1> QED
  BY <1>5, <1>6, <1>7, <1>8, <1>9

\* exit() wakes the parent, and init if it inherits a zombie; the children
\* go to init, which is alive.
LEMMA ExitZombieInv ==
  ASSUME NEW p \in Slot, Inv, exit_zombie(p)
  PROVE  Inv'
<1> USE SlotFacts DEF Inv
<1> DEFINE orphans == {q \in Slot : parent[q] = p}
           woken(q) == /\ state[q] = "SLEEPING"
                       /\ \/ chan[q] = parent[p]
                          \/ /\ chan[q] = initproc
                             /\ \E r \in orphans : state[r] = "ZOMBIE"
<1>1. /\ UNCHANGED <<pid, killed, chan, nextpid, scan, pc, child, shell, panicked>>
      /\ state[p] = "RUNNING" /\ pc[p] = "exit" /\ ~panicked /\ leave(p)
      /\ parent' = [q \in Slot |-> IF q \in orphans THEN initproc ELSE parent[q]]
  BY DEF exit_zombie, Running
<1>2. /\ \A q \in Slot : state'[q] = IF q = p THEN "ZOMBIE"
                                     ELSE IF woken(q) THEN "RUNNABLE" ELSE state[q]
      /\ state' \in [Slot -> States]
  <2>1. CASE \E r \in orphans : state[r] = "ZOMBIE"
    <3>1. state' = [wakeup1(wakeup1(state, parent[p]), initproc)
                      EXCEPT ![p] = "ZOMBIE"]
      BY <2>1 DEF exit_zombie
    <3> QED
      BY <2>1, <3>1 DEF wakeup1, TypeOK, States
  <2>2. CASE ~\E r \in orphans : state[r] = "ZOMBIE"
    <3>1. state' = [wakeup1(state, parent[p]) EXCEPT ![p] = "ZOMBIE"]
      BY <2>2 DEF exit_zombie
    <3> QED
      BY <2>2, <3>1 DEF wakeup1, TypeOK, States
  <2> QED
    BY <2>1, <2>2
<1>3. p # initproc
  BY <1>1 DEF Parents
<1>4. Cpus' /\ cpu' \in [CPU -> 0..NPROC]
  BY <1>1, <1>2, LeaveCpu
<1>5. TypeOK'
  BY <1>1, <1>2, <1>4, SlotRange DEF TypeOK
<1>6. Forks'
  BY <1>1, <1>2 DEF Forks, Alive
<1>7. Parents'
  <2>1. \A q \in Slot : q # p /\ Alive(q) => Alive(q)'
    BY <1>2 DEF Alive
  <2>2. \A q \in Slot : parent'[q] = IF parent[q] = p THEN initproc ELSE parent[q]
    BY <1>1
  <2>3. \A q \in Slot : Alive(q)' \/ state'[q] = "ZOMBIE" =>
                          Alive(q) \/ state[q] = "ZOMBIE"
    BY <1>1, <1>2 DEF Alive
  <2>4. ParentAlive'
    BY <1>3, <2>1, <2>2, <2>3 DEF Parents, ParentAlive
  <2>5. \A q \in Slot : state'[q] \in {"UNUSED", "EMBRYO"} => parent'[q] = Free
    BY <1>2, <2>2 DEF Parents
  <2> QED
    BY <1>1, <1>3, <2>1, <2>2, <2>4, <2>5 DEF Parents
<1>8. NoMissedExit'
  <2> SUFFICES ASSUME NEW r \in Slot, state'[r] = "SLEEPING", chan'[r] = r
               PROVE  /\ ~killed'[r]
                      /\ \E q \in Slot : parent'[q] = r
                      /\ \A q \in Slot : parent'[q] = r => state'[q] # "ZOMBIE"
    BY DEF NoMissedExit
  <2>1. /\ state[r] = "SLEEPING" /\ chan[r] = r /\ r # p
        /\ r # parent[p]
        /\ r = initproc => \A q \in orphans : state[q] # "ZOMBIE"
    BY <1>1, <1>2
  <2>2. /\ ~killed[r]
        /\ \E q \in Slot : parent[q] = r
        /\ \A q \in Slot : parent[q] = r => state[q] # "ZOMBIE"
    BY <2>1 DEF NoMissedExit
  <2>3. \A q \in Slot : parent'[q] = IF parent[q] = p THEN initproc ELSE parent[q]
    BY <1>1
  <2>4. ASSUME NEW q \in Slot, parent'[q] = r
        PROVE  state'[q] # "ZOMBIE"
    <3>1. parent[q] = r \/ (parent[q] = p /\ r = initproc)
      BY <2>3, <2>4
    <3>2. state[q] # "ZOMBIE"
      BY <2>1, <2>2, <3>1
    <3>3. q # p
      BY <2>1, <3>1 DEF Parents
    <3> QED
      BY <1>2, <3>2, <3>3
  <2> QED
    BY <1>1, <2>1, <2>2, <2>3, <2>4
<1> QED
  BY <1>4, <1>5, <1>6, <1>7, <1>8

\* wait() reaps a zombie, which has no children, or sleeps after it has
\* looked at all of its children under ptable.lock.
LEMMA WaitInv ==
  ASSUME NEW p \in Slot, Inv, wait(p)
  PROVE  Inv'
<1> USE SlotFacts DEF Inv
<1> DEFINE kids == {q \in Slot : parent[q] = p}
           zombies == {q \in kids : state[q] = "ZOMBIE"}
<1>1. /\ UNCHANGED <<nextpid, scan, child, shell, panicked>>
      /\ state[p] = "RUNNING" /\ pc[p] = "wait"
  BY DEF wait, Running
<1>2. CASE zombies # {}
  <2> DEFINE z == Min(zombies)
  <2>1. z \in Slot /\ parent[z] = p /\ state[z] = "ZOMBIE"
    <3>1. zombies \subseteq Slot
      OBVIOUS
    <3>2. z \in zombies
      BY <1>2, <3>1, FirstSlot
    <3> QED
      BY <3>2
  <2>2. /\ state' = [state EXCEPT ![z] = "UNUSED"]
        /\ pid' = [pid EXCEPT ![z] = 0]
        /\ parent' = [parent EXCEPT ![z] = Free]
        /\ killed' = [killed EXCEPT ![z] = FALSE]
        /\ pc' = [pc EXCEPT ![p] = "user"]
        /\ UNCHANGED <<chan, cpu>>
    BY <1>2 DEF wait
  <2> HIDE DEF z
  <2>3. /\ \A q \in Slot : state'[q] = IF q = z THEN "UNUSED" ELSE state[q]
        /\ \A q \in Slot : parent'[q] = IF q = z THEN Free ELSE parent[q]
        /\ \A q \in Slot : q # z => killed'[q] = killed[q]
        /\ \A q \in Slot : pc'[q] = IF q = p THEN "user" ELSE pc[q]
    BY <2>1, <2>2 DEF TypeOK
  <2>4. TypeOK'
    <3>1. 0 \in 0..MAXPID
      BY ProcAssumption
    <3> QED
      BY <1>1, <2>1, <2>2, <3>1, SlotRange DEF TypeOK, States, Pcs
  <2>5. Forks'
    BY <1>1, <2>1, <2>3 DEF Forks, Alive
  <2>6. Parents'
    BY <1>1, <2>1, <2>3 DEF Parents, ParentAlive, Alive
  <2>7. Cpus'
    BY <1>1, <2>1, <2>2, <2>3 DEF Cpus
  <2>8. NoMissedExit'
    BY <1>1, <2>1, <2>2, <2>3 DEF NoMissedExit
  <2> QED
    BY <2>4, <2>5, <2>6, <2>7, <2>8
<1>3. CASE zombies = {} /\ (kids = {} \/ killed[p])
  <2>1. /\ UNCHANGED <<state, pid, parent, killed, chan, cpu>>
        /\ pc' = [pc EXCEPT ![p] = "user"]
    BY <1>3 DEF wait
  <2>2. \A q \in Slot : pc'[q] = IF q = p THEN "user" ELSE pc[q]
    BY <2>1 DEF TypeOK
  <2>3. TypeOK'
    BY <1>1, <2>1 DEF TypeOK, Pcs
  <2>4. Forks'
    BY <1>1, <2>1, <2>2 DEF Forks, Alive
  <2>5. Parents'
    BY <1>1, <2>1, <2>2 DEF Parents, ParentAlive, Alive
  <2>6. Cpus' /\ NoMissedExit'
    BY <2>1 DEF Cpus, NoMissedExit
  <2> QED
    BY <2>3, <2>4, <2>5, <2>6
<1>4. CASE zombies = {} /\ kids # {} /\ ~killed[p]
  <2>1. /\ state' = [state EXCEPT ![p] = "SLEEPING"]
        /\ chan' = [chan EXCEPT ![p] = p]
        /\ leave(p)
        /\ UNCHANGED <<pid, parent, killed, pc>>
    BY <1>4 DEF wait
  <2>2. /\ \A q \in Slot : state'[q] = IF q = p THEN "SLEEPING" ELSE state[q]
        /\ \A q \in Slot : q # p => chan'[q] = chan[q]
    BY <2>1 DEF TypeOK
  <2>3. Cpus' /\ cpu' \in [CPU -> 0..NPROC]
    BY <2>1, <2>2, LeaveCpu
  <2>4. TypeOK'
    BY <1>1, <2>1, <2>3, SlotRange DEF TypeOK, States
  <2>5. Forks'
    <3>1. UNCHANGED <<pc, child>>
      BY <1>1, <2>1
    <3>2. \A q \in Slot : /\ Alive(q) => Alive(q)'
                          /\ state'[q] = "EMBRYO" <=> state[q] = "EMBRYO"
      BY <1>1, <2>2 DEF Alive
    <3> QED
      BY <3>1, <3>2 DEF Forks
  <2>6. Parents'
    BY <1>1, <2>1, <2>2 DEF Parents, ParentAlive, Alive
  <2>7. NoMissedExit'
    BY <1>1, <1>4, <2>1, <2>2 DEF NoMissedExit
  <2> QED
    BY <2>3, <2>4, <2>5, <2>6, <2>7
<1> QED
  BY <1>2, <1>3, <1>4

\* A step that changes nothing preserves the invariant.
LEMMA StutterInv ==
  ASSUME Inv, UNCHANGED vars
  PROVE  Inv'
<1>1. UNCHANGED <<state, pid, parent, killed, chan, nextpid, cpu, scan, pc, child,
                  shell, panicked>>
  BY DEF vars, proc, sched
<1>2. TypeOK' /\ Forks'
  BY <1>1 DEF Inv, TypeOK, Forks, Alive
<1>3. Parents' /\ Cpus'
  BY <1>1 DEF Inv, Parents, ParentAlive, Alive, Cpus
<1>4. NoMissedExit'
  BY <1>1 DEF Inv, NoMissedExit
<1> QED
  BY <1>2, <1>3, <1>4 DEF Inv

\* Every step of proc.c preserves the invariant.
LEMMA NextInv == Inv /\ [Next]_vars => Inv'
<1> SUFFICES ASSUME Inv, [Next]_vars PROVE Inv'
  OBVIOUS
<1>1. ASSUME NEW c \in CPU, scheduler(c)
      PROVE  Inv'
  BY <1>1, SchedulerInv
<1>2. ASSUME NEW p \in Slot, yield(p)
      PROVE  Inv'
  BY <1>2, YieldInv
<1>3. ASSUME NEW p \in Slot, Step(p)
      PROVE  Inv'
  BY <1>3, ForkFailInv, ForkRunInv, PcInv, ExitZombieInv, WaitInv, YieldInv
     DEF Step
<1>4. ASSUME NEW p \in Slot, Call(p)
      PROVE  Inv'
  BY <1>4, ForkAllocInv, PcInv, WakeInv DEF Call
<1>5. CASE wakeup(IO) \/ wakeup(Input)
  BY <1>5, WakeInv
<1>6. CASE UNCHANGED vars
  BY <1>6, StutterInv
<1> QED
  BY <1>1, <1>2, <1>3, <1>4, <1>5, <1>6 DEF Next

-----------------------------------------------------------------------------
(* Theorems.                                                               *)

\* The process table keeps its types.
THEOREM ProcTypeCorrect == Spec => []TypeOK
<1>1. Inv => TypeOK
  BY DEF Inv
<1> QED
  BY <1>1, InitInv, NextInv, PTL DEF Spec

\* No process sleeps in wait() with a child that has exited, with no child,
\* or after it was killed, however deep the tree of processes is.
THEOREM ProcNoMissedExit == Spec => []NoMissedExit
<1>1. Inv => NoMissedExit
  BY DEF Inv
<1> QED
  BY <1>1, InitInv, NextInv, PTL DEF Spec

\* Every process but init has a parent that is alive and can reap it.
THEOREM ProcParentAlive == Spec => []ParentAlive
<1>1. Inv => ParentAlive
  BY DEF Inv, Parents
<1> QED
  BY <1>1, InitInv, NextInv, PTL DEF Spec

\* A process is RUNNING exactly when one CPU, and only one, runs it.
THEOREM ProcOneCpu == Spec => []OneCpuPerProcess
<1>1. Inv => OneCpuPerProcess
  <2> SUFFICES ASSUME Inv, NEW p \in Slot
               PROVE  Cardinality({c \in CPU : cpu[c] = p}) =
                        IF state[p] = "RUNNING" THEN 1 ELSE 0
    BY DEF OneCpuPerProcess
  <2>1. CASE state[p] = "RUNNING"
    <3>1. PICK c \in CPU : cpu[c] = p
      BY <2>1 DEF Inv, Cpus
    <3>2. {d \in CPU : cpu[d] = p} = {c}
      BY <3>1, SlotFacts DEF Inv, Cpus
    <3> QED
      BY <2>1, <3>2, FS_Singleton
  <2>2. CASE state[p] # "RUNNING"
    <3>1. {c \in CPU : cpu[c] = p} = {}
      BY <2>2, SlotFacts DEF Inv, Cpus
    <3> QED
      BY <2>2, <3>1, FS_EmptySet
  <2> QED
    BY <2>1, <2>2
<1> QED
  BY <1>1, InitInv, NextInv, PTL DEF Spec

\* A slot is EMBRYO exactly while one fork() is building its process.
THEOREM ProcEmbryoOwned == Spec => []EmbryoOwned
<1>1. Inv => EmbryoOwned
  <2> SUFFICES ASSUME Inv, NEW q \in Slot
               PROVE  Cardinality({p \in Slot : pc[p] = "fork" /\ child[p] = q}) =
                        IF state[q] = "EMBRYO" THEN 1 ELSE 0
    BY DEF EmbryoOwned
  <2>1. CASE state[q] = "EMBRYO"
    <3>1. PICK p \in Slot : pc[p] = "fork" /\ child[p] = q
      BY <2>1 DEF Inv, Forks
    <3>2. {r \in Slot : pc[r] = "fork" /\ child[r] = q} = {p}
      BY <3>1 DEF Inv, Forks
    <3> QED
      BY <2>1, <3>2, FS_Singleton
  <2>2. CASE state[q] # "EMBRYO"
    <3>1. {p \in Slot : pc[p] = "fork" /\ child[p] = q} = {}
      BY <2>2 DEF Inv, Forks
    <3> QED
      BY <2>2, <3>1, FS_EmptySet
  <2> QED
    BY <2>1, <2>2
<1> QED
  BY <1>1, InitInv, NextInv, PTL DEF Spec
=============================================================================
