-------------------------------- MODULE Log --------------------------------
(***************************************************************************)
(* The redo log of log.c with group commit, together with what it uses of  *)
(* the buffer cache (a block is cached or not, B_DIRTY pins it) and of the *)
(* disk (a block write is synchronous and atomic: BSIZE is one sector).    *)
(* Every step of a commit and of recovery that writes the disk is a step   *)
(* of its own, and the machine may crash between any two of them.          *)
(***************************************************************************)
EXTENDS Naturals, Sequences, FiniteSets

CONSTANTS
  Op,            \* processes that execute file-system calls
  Block,         \* block numbers outside the log area
  Data,          \* block contents
  NoData,        \* not a block's content: the block is not in the cache
  Zero,          \* the content of a log block mkfs has cleared
  Format,        \* the contents of the other blocks mkfs writes
  MAXOPBLOCKS,   \* log slots begin_op() reserves for one system call
  LOGSIZE,       \* length of the header's block[] array
  NLOG,          \* sb.nlog: blocks of the log area, the header's included
  OPBLOCKS       \* bound: log slots a system call really fills

ASSUME LogAssumption ==
  /\ IsFiniteSet(Op)
  /\ NoData \notin Data
  /\ Zero \in Data
  /\ Format \in [Block -> Data]
  /\ MAXOPBLOCKS \in Nat \ {0}
  /\ LOGSIZE \in Nat
  /\ NLOG \in Nat \ {0}
  /\ OPBLOCKS \in 0..MAXOPBLOCKS

VARIABLES
  home,          \* disk: the blocks' home locations
  logd,          \* disk: the data blocks of the log area
  hdr,           \* disk: block[0..n-1] of the header block
  mode,          \* the machine is in recovery, up, or stopped by panic()
  lh,            \* log.lh: block[0..n-1] of the in-memory header
  outstanding,   \* log.outstanding
  committing,    \* log.committing
  cache,         \* data of the cached blocks, NoData when not cached
  dirty,         \* the cached blocks with B_DIRTY set
  phase,         \* where commit() or recover_from_log() is
  tail,          \* loop variable of write_log() and install_trans(), from 1
  pc,            \* where each process is
  buf,           \* the buffers a process holds locked (at most one)
  used           \* the log slots its system call has filled so far

disk == <<home, logd, hdr>>
header == <<lh, outstanding, committing>>
bcache == <<cache, dirty>>
thread == <<pc, buf, used>>
vars == <<disk, mode, header, bcache, phase, tail, thread>>

LogSlot == 1..LOGSIZE
Phases == {"none", "read_head", "write_log", "write_head", "install_trans",
           "clear", "done"}
Pcs == {"user", "begin_op", "sleep", "op", "log_write", "commit"}

\* The types of the state of log.c and of the disk.
TypeOK ==
  /\ home \in [Block -> Data]
  /\ logd \in [LogSlot -> Data]
  /\ hdr \in Seq(Block)
  /\ mode \in {"recover", "up", "panic"}
  /\ lh \in Seq(Block)
  /\ outstanding \in Nat
  /\ committing \in BOOLEAN
  /\ cache \in [Block -> Data \cup {NoData}]
  /\ dirty \in SUBSET Block
  /\ phase \in Phases
  /\ tail \in Nat
  /\ pc \in [Op -> Pcs]
  /\ buf \in [Op -> SUBSET Block]
  /\ used \in [Op -> 0..OPBLOCKS]

-----------------------------------------------------------------------------

Logged == {lh[i] : i \in 1..Len(lh)}
InOp == {p \in Op : pc[p] \in {"op", "log_write"}}
Locked == UNION {buf[p] : p \in Op}

\* The content bread() returns: the cached one, or the home block's.
Bdata(b) == IF cache[b] = NoData THEN home[b] ELSE cache[b]

\* wakeup(&log)
wakeup(q) == IF pc[q] = "sleep" THEN "begin_op" ELSE pc[q]

\* mkfs has written the disk; the first process is about to run initlog().
Init ==
  /\ home = Format /\ logd = [i \in LogSlot |-> Zero] /\ hdr = <<>>
  /\ mode = "recover" /\ phase = "read_head" /\ tail = 1
  /\ lh = <<>> /\ outstanding = 0 /\ committing = FALSE
  /\ cache = [b \in Block |-> NoData] /\ dirty = {}
  /\ pc = [p \in Op |-> "user"] /\ buf = [p \in Op |-> {}]
  /\ used = [p \in Op |-> 0]

-----------------------------------------------------------------------------
(* System calls: begin_op, log_write, end_op.                              *)

MustWait == committing \/ Len(lh) + (outstanding + 1) * MAXOPBLOCKS > LOGSIZE

begin_op(p) ==
  /\ mode = "up"
  /\ pc[p] \in {"user", "begin_op"}
  /\ \/ /\ MustWait
        /\ pc' = [pc EXCEPT ![p] = "sleep"]
        /\ UNCHANGED <<outstanding, used>>
     \/ /\ ~MustWait
        /\ outstanding' = outstanding + 1
        /\ pc' = [pc EXCEPT ![p] = "op"]
        /\ used' = [used EXCEPT ![p] = 0]
  /\ UNCHANGED <<disk, mode, lh, committing, bcache, phase, tail, buf>>

\* kill() makes a process asleep in begin_op() runnable before any wakeup.
kill(p) ==
  /\ mode = "up"
  /\ pc[p] = "sleep"
  /\ pc' = [pc EXCEPT ![p] = "begin_op"]
  /\ UNCHANGED <<disk, mode, header, bcache, phase, tail, buf, used>>

TooBig == Len(lh) >= LOGSIZE \/ Len(lh) >= NLOG - 1 \/ outstanding < 1

\* bread(b), the change to b->data, and the checks of log_write(b), which
\* run before it takes log.lock.
log_write_check(p, b, v) ==
  /\ mode = "up"
  /\ pc[p] = "op"
  /\ b \notin Locked
  /\ b \in Logged \/ used[p] < OPBLOCKS
  /\ cache' = [cache EXCEPT ![b] = v]
  /\ buf' = [buf EXCEPT ![p] = {b}]
  /\ pc' = [pc EXCEPT ![p] = "log_write"]
  /\ mode' = IF TooBig THEN "panic" ELSE mode
  /\ UNCHANGED <<disk, header, dirty, phase, tail, used>>

\* Mutant of log_write: the buffer is not pinned with B_DIRTY.
log_write_unpinned(p) ==
  /\ mode = "up"
  /\ pc[p] = "log_write"
  /\ \E b \in buf[p] :
       \/ b \in Logged /\ UNCHANGED <<lh, used>>
       \/ /\ b \notin Logged
          /\ lh' = Append(lh, b)
          /\ used' = [used EXCEPT ![p] = @ + 1]
  /\ buf' = [buf EXCEPT ![p] = {}]
  /\ pc' = [pc EXCEPT ![p] = "op"]
  /\ UNCHANGED <<disk, mode, outstanding, committing, bcache, phase, tail>>

\* The part of log_write(b) under log.lock, and brelse(b).
log_write(p) ==
  /\ mode = "up"
  /\ pc[p] = "log_write"
  /\ \E b \in buf[p] :
       /\ \/ b \in Logged /\ UNCHANGED <<lh, used>>
          \/ /\ b \notin Logged
             /\ lh' = Append(lh, b)
             /\ used' = [used EXCEPT ![p] = @ + 1]
       /\ dirty' = dirty \cup {b}
  /\ buf' = [buf EXCEPT ![p] = {}]
  /\ pc' = [pc EXCEPT ![p] = "op"]
  /\ UNCHANGED <<disk, mode, outstanding, committing, cache, phase, tail>>

\* Mutant of end_op: commit() takes a transaction of one block for empty.
end_op_short(p) ==
  /\ mode = "up"
  /\ pc[p] = "op"
  /\ outstanding' = outstanding - 1
  /\ mode' = IF committing THEN "panic" ELSE mode
  /\ \/ /\ outstanding = 1
        /\ committing' = TRUE
        /\ phase' = IF Len(lh) <= 1 THEN "done" ELSE "write_log"
        /\ tail' = 1
        /\ pc' = [pc EXCEPT ![p] = "commit"]
     \/ /\ outstanding # 1
        /\ pc' = [q \in Op |-> IF q = p THEN "user" ELSE wakeup(q)]
        /\ UNCHANGED <<committing, phase, tail>>
  /\ UNCHANGED <<disk, lh, bcache, buf, used>>

\* end_op() up to its release(); the last call out starts commit(), which
\* has nothing to do for an empty transaction.
end_op(p) ==
  /\ mode = "up"
  /\ pc[p] = "op"
  /\ outstanding' = outstanding - 1
  /\ mode' = IF committing THEN "panic" ELSE mode
  /\ \/ /\ outstanding = 1
        /\ committing' = TRUE
        /\ phase' = IF lh = <<>> THEN "done" ELSE "write_log"
        /\ tail' = 1
        /\ pc' = [pc EXCEPT ![p] = "commit"]
     \/ /\ outstanding # 1
        /\ pc' = [q \in Op |-> IF q = p THEN "user" ELSE wakeup(q)]
        /\ UNCHANGED <<committing, phase, tail>>
  /\ UNCHANGED <<disk, lh, bcache, buf, used>>

-----------------------------------------------------------------------------
(* commit(), one step for every block written to the disk.                 *)

\* One iteration of write_log(): the block goes from the cache to the log.
write_log ==
  /\ phase = "write_log"
  /\ logd' = [logd EXCEPT ![tail] = Bdata(lh[tail])]
  /\ cache' = [cache EXCEPT ![lh[tail]] = Bdata(lh[tail])]
  /\ tail' = tail + 1
  /\ phase' = IF tail = Len(lh) THEN "write_head" ELSE phase
  /\ UNCHANGED <<home, hdr, mode, header, dirty, thread>>

\* write_head() with the transaction's blocks: the commit point.
write_head ==
  /\ phase = "write_head"
  /\ hdr' = lh
  /\ phase' = "install_trans"
  /\ tail' = 1
  /\ UNCHANGED <<home, logd, mode, header, bcache, thread>>

\* One iteration of install_trans(), for commit() and for recovery: bwrite()
\* leaves the destination's buffer clean.
install_trans ==
  /\ phase = "install_trans"
  /\ home' = [home EXCEPT ![lh[tail]] = logd[tail]]
  /\ cache' = [cache EXCEPT ![lh[tail]] = logd[tail]]
  /\ dirty' = dirty \ {lh[tail]}
  /\ tail' = tail + 1
  /\ phase' = IF tail = Len(lh) THEN "clear" ELSE phase
  /\ UNCHANGED <<logd, hdr, mode, header, thread>>

\* log.lh.n = 0 and write_head(): the end of commit() and of recovery.
clear_head ==
  /\ phase = "clear"
  /\ lh' = <<>>
  /\ hdr' = <<>>
  /\ mode' = "up"
  /\ phase' = IF mode = "recover" THEN "none" ELSE "done"
  /\ UNCHANGED <<home, logd, outstanding, committing, bcache, tail, thread>>

\* Mutant of end_commit: no wakeup(&log).
end_commit_silent ==
  /\ phase = "done"
  /\ committing' = FALSE
  /\ phase' = "none"
  /\ pc' = [q \in Op |-> IF pc[q] = "commit" THEN "user" ELSE pc[q]]
  /\ UNCHANGED <<disk, mode, lh, outstanding, bcache, tail, buf, used>>

\* end_op() after commit().
end_commit ==
  /\ phase = "done"
  /\ committing' = FALSE
  /\ phase' = "none"
  /\ pc' = [q \in Op |-> IF pc[q] = "commit" THEN "user" ELSE wakeup(q)]
  /\ UNCHANGED <<disk, mode, lh, outstanding, bcache, tail, buf, used>>

-----------------------------------------------------------------------------
(* Restart, and the buffer cache.                                          *)

\* read_head() at the start of recover_from_log().
read_head ==
  /\ phase = "read_head"
  /\ lh' = hdr
  /\ tail' = 1
  /\ phase' = IF hdr = <<>> THEN "clear" ELSE "install_trans"
  /\ UNCHANGED <<disk, mode, outstanding, committing, bcache, thread>>

\* Power failure, or the reset after a panic: only the disk survives.
crash ==
  /\ mode' = "recover" /\ phase' = "read_head" /\ tail' = 1
  /\ lh' = <<>> /\ outstanding' = 0 /\ committing' = FALSE
  /\ cache' = [b \in Block |-> NoData] /\ dirty' = {}
  /\ pc' = [p \in Op |-> "user"] /\ buf' = [p \in Op |-> {}]
  /\ used' = [p \in Op |-> 0]
  /\ UNCHANGED disk

\* A reader, in a transaction or not, brings a block into the cache.
bread(b) ==
  /\ mode = "up"
  /\ cache[b] = NoData
  /\ cache' = [cache EXCEPT ![b] = home[b]]
  /\ UNCHANGED <<disk, mode, header, dirty, phase, tail, thread>>

\* bget() recycles the buffer of b for another block.
bget_recycle(b) ==
  /\ mode = "up"
  /\ cache[b] # NoData
  /\ b \notin Locked
  /\ b \notin dirty
  /\ cache' = [cache EXCEPT ![b] = NoData]
  /\ UNCHANGED <<disk, mode, header, dirty, phase, tail, thread>>

Running == mode # "panic"

CommitStep ==
  /\ Running
  /\ write_log \/ write_head \/ install_trans \/ clear_head \/ end_commit
     \/ read_head

Next ==
  \/ \E p \in Op : begin_op(p) \/ kill(p) \/ log_write(p) \/ end_op(p)
  \/ \E p \in Op, b \in Block, v \in Data : log_write_check(p, b, v)
  \/ CommitStep
  \/ \E b \in Block : bread(b) \/ bget_recycle(b)
  \/ crash

Spec == Init /\ [][Next]_vars

\* A process the scheduler runs takes its next step; a system call makes
\* finitely many log_write()s, so it reaches end_op(); the disk answers.
\* Nothing makes a process start a system call, and crashes are not fair.
Fairness ==
  /\ WF_vars(CommitStep)
  /\ \A p \in Op : /\ WF_vars(log_write(p))
                   /\ SF_vars(end_op(p))
                   /\ WF_vars(pc[p] = "begin_op" /\ begin_op(p))

FairSpec == Spec /\ Fairness

-----------------------------------------------------------------------------
(* Properties.                                                             *)

\* The log slot recovery installs last at home block b.
LastSlot(b) ==
  CHOOSE i \in 1..Len(hdr) :
    hdr[i] = b /\ \A j \in 1..Len(hdr) : hdr[j] = b => j <= i

\* What the disk would hold if the machine crashed now and recovered.
Recovered ==
  [b \in Block |-> IF \E i \in 1..Len(hdr) : hdr[i] = b
                   THEN logd[LastSlot(b)]
                   ELSE home[b]]

\* What the file system reads now; before recovery has finished, what it
\* will read.
Memory == IF mode = "recover" THEN Recovered ELSE [b \in Block |-> Bdata(b)]

\* The log implements atomic, durable group commit: a crash at any point of
\* a commit, of recovery or of an unfinished system call leaves either all
\* or none of the writes of the calls that were committed together.
Atomic == INSTANCE AtomicDisk WITH mem <- Memory, durable <- Recovered,
                                   open <- InOp
AtomicCommit == Atomic!ASpec

\* Once no system call is open and no commit is running (the last end_op()
\* has returned), everything written is durable.
DurableWhenIdle ==
  mode = "up" /\ ~committing /\ outstanding = 0 => Recovered = Memory

\* begin_op()'s reservation is enough: neither panic of log_write() nor the
\* panic of end_op() is reached, and the log never outgrows its area.
LogNeverOverflows == Running /\ Len(lh) < NLOG

\* Write-ahead rule: install_trans() overwrites a home block only while the
\* header on disk names it, with the content in the log.
WriteAhead ==
  [][\A b \in Block : home'[b] # home[b] =>
       \E i \in 1..Len(hdr) : hdr[i] = b /\ home'[b] = logd[i]]_vars

\* A process asleep in begin_op() is woken, whatever made it wait, and end_op()
\* of the last system call returns: the commit it runs finishes.
CallsGoOn ==
  \A p \in Op : /\ pc[p] = "sleep" ~> pc[p] # "sleep"
                /\ pc[p] = "commit" ~> pc[p] # "commit"
=============================================================================
