------------------------------- MODULE Bcache -------------------------------
(***************************************************************************)
(* bio.c, sleeplock.c and ide.c: a pool of NBUF buffers in least recently  *)
(* used order, each under a sleep lock, and the queue of disk requests     *)
(* that the disk interrupt works off.  What runs under one spinlock        *)
(* (bcache.lock, a sleep lock's lk, idelock) is one step.                  *)
(***************************************************************************)
EXTENDS Naturals, Sequences, FiniteSets, Functions

CONSTANTS
  Proc,        \* uses of the cache, each of one buffer: a process that holds two is two
  Buf,         \* the NBUF buffers
  Block,       \* disk blocks
  Data,        \* block contents
  Blank,       \* the content mkfs writes
  None,        \* no block, buffer or process
  MAXPIN,      \* blocks the log keeps pinned at a time
  IdeErrors    \* whether a disk read may fail

ASSUME BcacheAssumption ==
  /\ IsFiniteSet(Proc) /\ IsFiniteSet(Buf)
  /\ Blank \in Data
  /\ None \notin Proc \cup Buf \cup Block
  /\ MAXPIN \in Nat
  /\ IdeErrors \in BOOLEAN

VARIABLES
  blockno, refcnt, valid, dirty, data,   \* struct buf
  holder,      \* the process that holds b->lock
  mru,         \* the buffers in list order, bcache.head.next first
  idequeue,
  disk,
  pc, my,      \* where a process is, and its buffer
  want,        \* the block it asked for
  panicked,    \* bget() found no buffer
  contents     \* the last content given to each block, by any process

buf == <<blockno, refcnt, valid, dirty, data>>
vars == <<buf, holder, mru, idequeue, disk, pc, my, want, panicked, contents>>

\* "lock": calls acquiresleep(); "lockwait": asleep in it; "bread": has the
\* sleep lock; "iowait": asleep in iderw(); "ioready": woken there; "use":
\* has the buffer; "brelse": has released the sleep lock.
Pcs == {"idle", "lock", "lockwait", "bread", "iowait", "ioready", "use",
        "brelse"}

\* The types of the buffer cache and of the disk queue.
TypeOK ==
  /\ blockno \in [Buf -> Block \cup {None}]
  /\ refcnt \in [Buf -> 0..Cardinality(Proc)]
  /\ valid \in [Buf -> BOOLEAN] /\ dirty \in [Buf -> BOOLEAN]
  /\ data \in [Buf -> Data]
  /\ holder \in [Buf -> Proc \cup {None}]
  /\ mru \in Seq(Buf) /\ Len(mru) = Cardinality(Buf) /\ Range(mru) = Buf
  /\ idequeue \in Seq(Buf)
  /\ disk \in [Block -> Data] /\ contents \in [Block -> Data]
  /\ pc \in [Proc -> Pcs]
  /\ my \in [Proc -> Buf \cup {None}]
  /\ want \in [Proc -> Block \cup {None}]
  /\ panicked \in BOOLEAN

\* binit()
Init ==
  /\ blockno = [b \in Buf |-> None] /\ refcnt = [b \in Buf |-> 0]
  /\ valid = [b \in Buf |-> FALSE] /\ dirty = [b \in Buf |-> FALSE]
  /\ data = [b \in Buf |-> Blank]
  /\ holder = [b \in Buf |-> None]
  /\ mru = CHOOSE s \in Bijection(1..Cardinality(Buf), Buf) : TRUE
  /\ idequeue = <<>>
  /\ disk = [k \in Block |-> Blank] /\ contents = disk
  /\ pc = [p \in Proc |-> "idle"]
  /\ my = [p \in Proc |-> None] /\ want = [p \in Proc |-> None]
  /\ panicked = FALSE

-----------------------------------------------------------------------------
(* bget and the sleep lock.                                                *)

Goto(p, l) == pc' = [pc EXCEPT ![p] = l]

\* Mutant: a buffer the log has pinned may be recycled.
Unused_pinned(b) == refcnt[b] = 0

\* Not in use, and not kept by the log.
Unused(b) == refcnt[b] = 0 /\ ~dirty[b]

\* The buffer bget() recycles: the last of the list that is unused.
Victim(b) ==
  /\ Unused(b)
  /\ \E i \in DOMAIN mru : mru[i] = b /\ \A j \in DOMAIN mru : j > i => ~Unused(mru[j])

\* Mutant: the cache is not searched for the block.
bget_unsearched(p, k) ==
  /\ pc[p] = "idle"
  /\ want' = [want EXCEPT ![p] = k]
  /\ \E b \in Buf :
       /\ Victim(b)
       /\ blockno' = [blockno EXCEPT ![b] = k]
       /\ valid' = [valid EXCEPT ![b] = FALSE]
       /\ refcnt' = [refcnt EXCEPT ![b] = 1]
       /\ my' = [my EXCEPT ![p] = b]
  /\ Goto(p, "lock")
  /\ UNCHANGED <<dirty, data, holder, mru, idequeue, disk, panicked, contents>>

\* bget() under bcache.lock.
bget(p, k) ==
  /\ ~panicked
  /\ pc[p] = "idle"
  /\ want' = [want EXCEPT ![p] = k]
  /\ \/ \E b \in Buf :
          /\ blockno[b] = k
          /\ refcnt' = [refcnt EXCEPT ![b] = @ + 1]
          /\ my' = [my EXCEPT ![p] = b]
          /\ Goto(p, "lock")
          /\ UNCHANGED <<blockno, valid, dirty, panicked>>
     \/ /\ \A b \in Buf : blockno[b] # k
        /\ \E b \in Buf :
             /\ Victim(b)
             /\ blockno' = [blockno EXCEPT ![b] = k]
             /\ valid' = [valid EXCEPT ![b] = FALSE]
             /\ dirty' = [dirty EXCEPT ![b] = FALSE]
             /\ refcnt' = [refcnt EXCEPT ![b] = 1]
             /\ my' = [my EXCEPT ![p] = b]
        /\ Goto(p, "lock")
        /\ UNCHANGED panicked
     \/ /\ \A b \in Buf : blockno[b] # k /\ ~Unused(b)
        /\ panicked' = TRUE
        /\ UNCHANGED <<blockno, refcnt, valid, dirty, my, pc>>
  /\ UNCHANGED <<data, holder, mru, idequeue, disk, contents>>

acquiresleep(p) ==
  /\ pc[p] = "lock"
  /\ \/ /\ holder[my[p]] = None
        /\ holder' = [holder EXCEPT ![my[p]] = p]
        /\ Goto(p, "bread")
     \/ /\ holder[my[p]] # None
        /\ Goto(p, "lockwait")
        /\ UNCHANGED holder
  /\ UNCHANGED <<buf, mru, idequeue, disk, my, want, panicked, contents>>

\* wakeup() on buffer b of the processes at pc from.
wakeup(b, from, to) ==
  [q \in Proc |-> IF my[q] = b /\ pc[q] = from THEN to ELSE pc[q]]

\* kill() wakes a process before what it waits for has happened.
kill(p) ==
  /\ \/ pc[p] = "lockwait" /\ Goto(p, "lock")
     \/ pc[p] = "iowait" /\ Goto(p, "ioready")
  /\ UNCHANGED <<buf, holder, mru, idequeue, disk, my, want, panicked, contents>>

-----------------------------------------------------------------------------
(* Disk requests.                                                          *)

\* iderw() up to its first sleep(): the disk works on the head of the queue.
iderw(p) ==
  /\ idequeue' = Append(idequeue, my[p])
  /\ Goto(p, "iowait")

\* bread() with the buffer locked.
bread(p) ==
  /\ pc[p] = "bread"
  /\ \/ valid[my[p]] /\ Goto(p, "use") /\ UNCHANGED idequeue
     \/ ~valid[my[p]] /\ iderw(p)
  /\ UNCHANGED <<buf, holder, mru, disk, my, want, panicked, contents>>

\* Mutant: the interrupt wakes nobody.
ideintr_silent ==
  /\ idequeue # <<>>
  /\ LET b == Head(idequeue)
     IN  /\ disk' = [disk EXCEPT ![blockno[b]] = IF dirty[b] THEN data[b] ELSE @]
         /\ data' = [data EXCEPT ![b] = IF dirty[b] THEN @ ELSE disk[blockno[b]]]
         /\ valid' = [valid EXCEPT ![b] = TRUE]
         /\ dirty' = [dirty EXCEPT ![b] = FALSE]
  /\ idequeue' = Tail(idequeue)
  /\ UNCHANGED <<blockno, refcnt, holder, mru, pc, my, want, panicked, contents>>

\* The disk interrupt for the head of the queue; a failed read leaves the
\* data alone.
ideintr ==
  /\ idequeue # <<>>
  /\ LET b == Head(idequeue)
     IN  /\ \/ /\ dirty[b]
               /\ disk' = [disk EXCEPT ![blockno[b]] = data[b]]
               /\ UNCHANGED data
            \/ /\ ~dirty[b]
               /\ data' = [data EXCEPT ![b] = disk[blockno[b]]]
               /\ UNCHANGED disk
            \/ ~dirty[b] /\ IdeErrors /\ UNCHANGED <<data, disk>>
         /\ valid' = [valid EXCEPT ![b] = TRUE]
         /\ dirty' = [dirty EXCEPT ![b] = FALSE]
         /\ pc' = wakeup(b, "iowait", "ioready")
  /\ idequeue' = Tail(idequeue)
  /\ UNCHANGED <<blockno, refcnt, holder, mru, my, want, panicked, contents>>

\* Mutant: iderw() queues the request again after a wakeup.
iderw_woken_again(p) ==
  /\ pc[p] = "ioready"
  /\ \/ /\ valid[my[p]] /\ ~dirty[my[p]]
        /\ Goto(p, "use")
        /\ UNCHANGED idequeue
     \/ ~(valid[my[p]] /\ ~dirty[my[p]]) /\ iderw(p)
  /\ UNCHANGED <<buf, holder, mru, disk, my, want, panicked, contents>>

\* sleep() in iderw() returns, and the loop tests the flags again.
iderw_woken(p) ==
  /\ pc[p] = "ioready"
  /\ Goto(p, IF valid[my[p]] /\ ~dirty[my[p]] THEN "use" ELSE "iowait")
  /\ UNCHANGED <<buf, holder, mru, idequeue, disk, my, want, panicked, contents>>

-----------------------------------------------------------------------------
(* The holder of a buffer.                                                 *)

\* A change to b->data, and bwrite(b).
bwrite(p, v) ==
  /\ pc[p] = "use"
  /\ data' = [data EXCEPT ![my[p]] = v]
  /\ contents' = [contents EXCEPT ![blockno[my[p]]] = v]
  /\ dirty' = [dirty EXCEPT ![my[p]] = TRUE]
  /\ iderw(p)
  /\ UNCHANGED <<blockno, refcnt, valid, holder, mru, disk, my, want, panicked>>

\* A change to b->data, and log_write(b).
log_write(p, v) ==
  /\ pc[p] = "use"
  /\ dirty[my[p]] \/ Cardinality({b \in Buf : dirty[b]}) < MAXPIN
  /\ data' = [data EXCEPT ![my[p]] = v]
  /\ contents' = [contents EXCEPT ![blockno[my[p]]] = v]
  /\ dirty' = [dirty EXCEPT ![my[p]] = TRUE]
  /\ UNCHANGED <<blockno, refcnt, valid, holder, mru, idequeue, disk, pc, my,
                 want, panicked>>

\* brelse() up to the end of releasesleep().
releasesleep(p) ==
  /\ pc[p] = "use"
  /\ holder' = [holder EXCEPT ![my[p]] = None]
  /\ pc' = [wakeup(my[p], "lockwait", "lock") EXCEPT ![p] = "brelse"]
  /\ UNCHANGED <<buf, mru, idequeue, disk, my, want, panicked, contents>>

\* The list s with b unlinked and linked again at its head.
ToFront(s, b) ==
  LET k == CHOOSE i \in DOMAIN s : s[i] = b
  IN  [i \in DOMAIN s |-> IF i = 1 THEN b ELSE IF i <= k THEN s[i - 1] ELSE s[i]]

\* brelse() under bcache.lock: an unused buffer moves to the front.
brelse(p) ==
  /\ pc[p] = "brelse"
  /\ refcnt' = [refcnt EXCEPT ![my[p]] = @ - 1]
  /\ mru' = IF refcnt[my[p]] = 1 THEN ToFront(mru, my[p]) ELSE mru
  /\ my' = [my EXCEPT ![p] = None]
  /\ want' = [want EXCEPT ![p] = None]
  /\ Goto(p, "idle")
  /\ UNCHANGED <<blockno, valid, dirty, data, holder, idequeue, disk, panicked,
                 contents>>

Step(p) == ~panicked /\ (acquiresleep(p) \/ bread(p) \/ iderw_woken(p) \/ brelse(p))

Next ==
  \/ \E p \in Proc :
       \/ \E k \in Block : bget(p, k)
       \/ Step(p)
       \/ ~panicked /\ (kill(p) \/ releasesleep(p))
       \/ ~panicked /\ \E v \in Data : bwrite(p, v) \/ log_write(p, v)
  \/ ~panicked /\ ideintr
  \/ panicked /\ UNCHANGED vars   \* panic() loops for ever

Spec == Init /\ [][Next]_vars

(***************************************************************************)
(* Fairness: the scheduler runs every process that is not asleep, and the  *)
(* disk answers.  A holder writes a finite number of times, which is       *)
(* strong fairness of releasesleep().  Nothing is assumed of who gets a    *)
(* sleep lock: releasesleep() wakes all that wait, and any of them or a    *)
(* process that comes later may take it.                                   *)
(***************************************************************************)
Fairness ==
  /\ \A p \in Proc : WF_vars(Step(p)) /\ SF_vars(releasesleep(p))
  /\ WF_vars(ideintr)

FairSpec == Spec /\ Fairness

-----------------------------------------------------------------------------
(* Properties.                                                             *)

\* bread() returns the last content any process gave to the block it asks
\* for, however the block was evicted, written back and read again by others
\* in between.
ReadsLatest ==
  \A p \in Proc : pc[p] = "use" =>
    /\ blockno[my[p]] = want[p] /\ valid[my[p]]
    /\ data[my[p]] = contents[want[p]]

\* A block has at most one buffer, and the process between bget() and
\* acquiresleep() still has the buffer it was promised: the buffer was not
\* recycled for another block while it waited.
OneBuffer ==
  /\ TypeOK
  /\ \A b, c \in Buf : b # c /\ blockno[b] = blockno[c] => blockno[b] = None
  /\ \A p \in Proc : my[p] # None => blockno[my[p]] = want[p]

\* A buffer is in the disk queue at most once, and while it is there the
\* process that queued it holds its sleep lock inside iderw(): nobody else
\* changes the data the disk is working on.  A process sleeps in iderw() only
\* while its request is queued, and in acquiresleep() only while another process
\* holds the buffer: neither wakeup can be lost.
RequestsOwned ==
  /\ IsInjective(idequeue)
  /\ \A b \in Range(idequeue) :
       \E p \in Proc : holder[b] = p /\ my[p] = b /\ pc[p] \in {"iowait", "ioready"}
  /\ \A p \in Proc : /\ pc[p] = "iowait" => my[p] \in Range(idequeue)
                     /\ pc[p] = "lockwait" => holder[my[p]] \notin {p, None}

\* bread() returns, also when kill() wakes its caller early or the disk read fails,
\* unless other processes take the sleep lock of its buffer again and again, or bget()
\* panics: a process never waits for a buffer that nobody takes, or for a request that
\* is done.
BreadReturns ==
  \A p \in Proc :
    \/ pc[p] = "lock" ~> pc[p] = "use" \/ panicked
    \/ []<>(\E q \in Proc \ {p} : my[q] = my[p] /\ pc[q] = "bread")
=============================================================================
