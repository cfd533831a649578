-------------------------------- MODULE Pipe --------------------------------
(***************************************************************************)
(* pipe.c: the ring buffer, its two uint counters that wrap around, and    *)
(* readers and writers that sleep under p->lock.  A critical section is    *)
(* split where another processor can act on what it has read: kill() takes *)
(* only ptable.lock, so it can run between the test of p->killed and       *)
(* sleep().                                                                *)
(***************************************************************************)
EXTENDS Integers, Sequences

CONSTANTS
  Writer,      \* processes that hold the write end
  Reader,      \* processes that hold the read end
  Byte,        \* byte values
  Message,     \* the byte sequences a write() may be given
  N,           \* the n of a read()
  PIPESIZE,    \* length of data[]
  WRAP,        \* 2^32, the range of nread and nwrite
  None         \* nobody holds p->lock

ASSUME PipeAssumption ==
  /\ Writer \cap Reader = {}
  /\ None \notin Writer \cup Reader
  /\ Message \subseteq Seq(Byte)
  /\ N \in Nat \ {0}
  /\ PIPESIZE \in Nat \ {0}
  /\ WRAP \in Nat /\ WRAP > PIPESIZE /\ WRAP % PIPESIZE = 0

Proc == Writer \cup Reader

VARIABLES
  data, nread, nwrite, readopen, writeopen,   \* struct pipe
  freed,       \* kfree() has been called on the pipe
  lock,        \* the process that holds p->lock
  fd,          \* the processes that still refer to their end's struct file
  pc,          \* where each process is
  killed,      \* the killed processes
  todo,        \* writers: addr[i..n-1]
  got          \* readers: addr[0..i-1]

pipe == <<data, nread, nwrite, readopen, writeopen, freed>>
vars == <<pipe, lock, fd, pc, killed, todo, got>>

\* "call": waits for p->lock, on entry or after sleep(); "loop": holds it;
\* "presleep": holds it and has decided to sleep; "close": the last
\* reference is gone and pipeclose() is about to run.
Pcs == {"user", "call", "loop", "presleep", "sleep", "close", "closed"}

\* The types of struct pipe and of its users.
TypeOK ==
  /\ data \in [0..PIPESIZE-1 -> Byte]
  /\ nread \in 0..WRAP-1 /\ nwrite \in 0..WRAP-1
  /\ readopen \in BOOLEAN /\ writeopen \in BOOLEAN /\ freed \in BOOLEAN
  /\ lock \in Proc \cup {None}
  /\ fd \in SUBSET Proc
  /\ pc \in [Proc -> Pcs]
  /\ killed \in SUBSET Proc
  /\ todo \in [Writer -> Seq(Byte)]
  /\ got \in [Reader -> Seq(Byte)]

\* pipealloc(); the page kalloc() returned holds arbitrary data.
Init ==
  /\ \E b \in Byte : data = [i \in 0..PIPESIZE-1 |-> b]
  /\ nread = 0 /\ nwrite = 0
  /\ readopen = TRUE /\ writeopen = TRUE /\ freed = FALSE
  /\ lock = None
  /\ fd = Proc
  /\ pc = [p \in Proc |-> "user"]
  /\ killed = {}
  /\ todo = [w \in Writer |-> <<>>]
  /\ got = [r \in Reader |-> <<>>]

-----------------------------------------------------------------------------

Empty == nread = nwrite
\* Mutant of Full: the ring takes one byte too many.
Full_late == nwrite = (nread + PIPESIZE + 1) % WRAP
Full == nwrite = (nread + PIPESIZE) % WRAP

\* wakeup(&p->nread) wakes the readers, wakeup(&p->nwrite) the writers.
wakeup(side) == [q \in Proc |-> IF q \in side /\ pc[q] = "sleep"
                                THEN "call" ELSE pc[q]]

\* acquire(&p->lock) on entry to pipewrite() or piperead(), and when sleep()
\* returns to their loop.
acquire(p) ==
  /\ pc[p] = "call"
  /\ lock = None
  /\ lock' = p
  /\ pc' = [pc EXCEPT ![p] = "loop"]
  /\ UNCHANGED <<pipe, fd, killed, todo, got>>

\* sleep(chan, &p->lock): SLEEPING before p->lock is free.
sleep(p) ==
  /\ pc[p] = "presleep"
  /\ lock' = None
  /\ pc' = [pc EXCEPT ![p] = "sleep"]
  /\ UNCHANGED <<pipe, fd, killed, todo, got>>

-----------------------------------------------------------------------------

\* A system call starts: trap() lets no killed process in.
write(w) ==
  /\ pc[w] = "user" /\ w \in fd /\ w \notin killed
  /\ \E m \in Message : todo' = [todo EXCEPT ![w] = m]
  /\ pc' = [pc EXCEPT ![w] = "call"]
  /\ UNCHANGED <<pipe, lock, fd, killed, got>>

\* One iteration of pipewrite()'s for loop.
pipewrite_byte(w) ==
  /\ pc[w] = "loop"
  /\ todo[w] # <<>>
  /\ ~Full
  /\ data' = [data EXCEPT ![nwrite % PIPESIZE] = Head(todo[w])]
  /\ nwrite' = (nwrite + 1) % WRAP
  /\ todo' = [todo EXCEPT ![w] = Tail(@)]
  /\ UNCHANGED <<nread, readopen, writeopen, freed, lock, fd, pc, killed, got>>

\* The body of its while loop, up to sleep().
pipewrite_full(w) ==
  /\ pc[w] = "loop"
  /\ todo[w] # <<>>
  /\ Full
  /\ \/ /\ ~readopen \/ w \in killed
        /\ lock' = None
        /\ pc' = [pc EXCEPT ![w] = "user"]
        /\ todo' = [todo EXCEPT ![w] = <<>>]
     \/ /\ readopen /\ w \notin killed
        /\ pc' = [wakeup(Reader) EXCEPT ![w] = "presleep"]
        /\ UNCHANGED <<lock, todo>>
  /\ UNCHANGED <<pipe, fd, killed, got>>

\* Mutant of pipewrite_return: no wakeup(&p->nread).
pipewrite_return_silent(w) ==
  /\ pc[w] = "loop"
  /\ todo[w] = <<>>
  /\ lock' = None
  /\ pc' = [pc EXCEPT ![w] = "user"]
  /\ UNCHANGED <<pipe, fd, killed, todo, got>>

pipewrite_return(w) ==
  /\ pc[w] = "loop"
  /\ todo[w] = <<>>
  /\ lock' = None
  /\ pc' = [wakeup(Reader) EXCEPT ![w] = "user"]
  /\ UNCHANGED <<pipe, fd, killed, todo, got>>

-----------------------------------------------------------------------------

read(r) ==
  /\ pc[r] = "user" /\ r \in fd /\ r \notin killed
  /\ got' = [got EXCEPT ![r] = <<>>]
  /\ pc' = [pc EXCEPT ![r] = "call"]
  /\ UNCHANGED <<pipe, lock, fd, killed, todo>>

\* piperead()'s while loop goes on: nothing read, and more may come.
MustWait(r) == got[r] = <<>> /\ Empty /\ writeopen

piperead_empty(r) ==
  /\ pc[r] = "loop"
  /\ MustWait(r)
  /\ \/ /\ r \in killed
        /\ lock' = None
        /\ pc' = [pc EXCEPT ![r] = "user"]
     \/ /\ r \notin killed
        /\ pc' = [pc EXCEPT ![r] = "presleep"]
        /\ UNCHANGED lock
  /\ UNCHANGED <<pipe, fd, killed, todo, got>>

\* One iteration of its for loop.
piperead_byte(r) ==
  /\ pc[r] = "loop"
  /\ Len(got[r]) < N
  /\ ~Empty
  /\ got' = [got EXCEPT ![r] = Append(@, data[nread % PIPESIZE])]
  /\ nread' = (nread + 1) % WRAP
  /\ UNCHANGED <<data, nwrite, readopen, writeopen, freed, lock, fd, pc,
                 killed, todo>>

\* Mutant of piperead_return: no wakeup(&p->nwrite).
piperead_return_silent(r) ==
  /\ pc[r] = "loop"
  /\ ~MustWait(r)
  /\ Len(got[r]) = N \/ Empty
  /\ lock' = None
  /\ pc' = [pc EXCEPT ![r] = "user"]
  /\ UNCHANGED <<pipe, fd, killed, todo, got>>

piperead_return(r) ==
  /\ pc[r] = "loop"
  /\ ~MustWait(r)
  /\ Len(got[r]) = N \/ Empty
  /\ lock' = None
  /\ pc' = [wakeup(Writer) EXCEPT ![r] = "user"]
  /\ UNCHANGED <<pipe, fd, killed, todo, got>>

-----------------------------------------------------------------------------

\* fileclose(), from close() or from exit(): the last reference to an end
\* goes on to pipeclose().
fileclose(p) ==
  /\ pc[p] = "user" /\ p \in fd
  /\ fd' = fd \ {p}
  /\ LET mine == IF p \in Writer THEN Writer ELSE Reader
     IN  pc' = [pc EXCEPT ![p] = IF fd' \cap mine = {} THEN "close"
                                                       ELSE "closed"]
  /\ UNCHANGED <<pipe, lock, killed, todo, got>>

\* Mutant of pipeclose: the page goes with the first end.
pipeclose_eager(p) ==
  /\ pc[p] = "close"
  /\ lock = None
  /\ \/ /\ p \in Writer
        /\ writeopen' = FALSE
        /\ pc' = [wakeup(Reader) EXCEPT ![p] = "closed"]
        /\ UNCHANGED readopen
     \/ /\ p \in Reader
        /\ readopen' = FALSE
        /\ pc' = [wakeup(Writer) EXCEPT ![p] = "closed"]
        /\ UNCHANGED writeopen
  /\ freed' = TRUE
  /\ UNCHANGED <<data, nread, nwrite, lock, fd, killed, todo, got>>

pipeclose(p) ==
  /\ pc[p] = "close"
  /\ lock = None
  /\ \/ /\ p \in Writer
        /\ writeopen' = FALSE
        /\ pc' = [wakeup(Reader) EXCEPT ![p] = "closed"]
        /\ UNCHANGED readopen
     \/ /\ p \in Reader
        /\ readopen' = FALSE
        /\ pc' = [wakeup(Writer) EXCEPT ![p] = "closed"]
        /\ UNCHANGED writeopen
  /\ freed' = (freed \/ (~readopen' /\ ~writeopen'))
  /\ UNCHANGED <<data, nread, nwrite, lock, fd, killed, todo, got>>

\* kill() of another process: wakes it if it is SLEEPING.
kill(p) ==
  /\ p \notin killed
  /\ killed' = killed \cup {p}
  /\ pc' = [pc EXCEPT ![p] = IF @ = "sleep" THEN "call" ELSE @]
  /\ UNCHANGED <<pipe, lock, fd, todo, got>>

-----------------------------------------------------------------------------

\* The steps of p inside the kernel.
Kernel(p) ==
  \/ acquire(p) \/ sleep(p) \/ pipeclose(p)
  \/ p \in Writer /\ (pipewrite_byte(p) \/ pipewrite_full(p) \/ pipewrite_return(p))
  \/ p \in Reader /\ (piperead_empty(p) \/ piperead_byte(p) \/ piperead_return(p))

Next ==
  \/ \E p \in Proc : Kernel(p) \/ fileclose(p) \/ kill(p)
  \/ \E w \in Writer : write(w)
  \/ \E r \in Reader : read(r)

Spec == Init /\ [][Next]_vars

\* The scheduler runs every runnable process, and a process that has the
\* pipe open goes on using it: it calls read() or write() again, or closes.
Fairness ==
  /\ \A p \in Proc : WF_vars(Kernel(p))
  /\ \A w \in Writer : WF_vars(write(w) \/ fileclose(w))
  /\ \A r \in Reader : WF_vars(read(r) \/ fileclose(r))

FairSpec == Spec /\ Fairness

-----------------------------------------------------------------------------
(* Properties.                                                             *)

\* The bytes in the ring, oldest first.
Queue == [i \in 1..((nwrite - nread) % WRAP) |->
            data[(nread + i - 1) % PIPESIZE]]
Reading == {r \in Reader : pc[r] \in {"call", "loop", "presleep", "sleep"}}

\* The pipe is a bounded byte stream: bytes come out in the order they went
\* in, none lost, none duplicated, also when the counters wrap around; a
\* read returns no bytes only at the end of file, and a write fails only
\* when the read end is closed or its process was killed.
Stream == INSTANCE ByteStream WITH queue <- Queue, reading <- Reading,
                                   wopen <- writeopen, ropen <- readopen,
                                   Capacity <- PIPESIZE
PipeIsStream == Stream!SSpec

\* No lost wakeup: when nobody is in a critical section, a writer is asleep
\* only if the pipe is full and may still be read, a reader only if more may
\* come and the pipe is empty, unless a writer was killed: pipewrite()
\* returns to a killed process without waking the readers.
NoLostWakeup ==
  lock = None =>
    /\ \A w \in Writer : pc[w] = "sleep" => Full /\ readopen
    /\ \A r \in Reader : pc[r] = "sleep" =>
         writeopen /\ (Empty \/ Writer \cap killed # {})

\* pipeclose() frees the page only when no process is in the pipe's code or
\* can still get there.
NoUseAfterFree == TypeOK /\ (freed => \A p \in Proc : p \notin fd /\ pc[p] = "closed")

\* A write() returns, however often it has to sleep, once the other writers
\* are gone; until then they can fill the pipe each time before it runs.  A
\* read() returns: there are bytes, or the end of file.
CallsReturn ==
  /\ \A w \in Writer :
       <>[](\A v \in Writer \ {w} : pc[v] = "closed") =>
         (pc[w] = "call" ~> pc[w] = "user")
  /\ \A r \in Reader : pc[r] = "call" ~> pc[r] = "user"
=============================================================================
