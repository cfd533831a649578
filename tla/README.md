# A TLA+ model of the xv6 kernel in this repository

`src/Project 1/xv6-public` is an xv6 kernel for x86 multiprocessors, extended by
the system calls `cps`, `shm_alloc` and `describe`; `src/Project 2` is a small
UNIX shell. This directory holds TLA+ modules for the parts of the kernel where
processes, CPUs, interrupts and crashes meet, for its memory and file contents and
for the two shells, the TLC configurations that check them on small instances, and
TLAPS proofs, for all instances, about the log, the process table, pipes, the
console, the buffer cache and the start of the processors. `PROJECT.json` maps every
definition to the lines it models.

## The system

* **Processes** (`proc.c`, `trap.c`): a table of NPROC slots under `ptable.lock`;
  `fork`, `exit`, `wait`, `kill`, `sleep` and `wakeup`; each CPU runs `scheduler()`.
  Process 1, **init** (`init.c`), starts a shell, waits, and starts another.
* **Locks**: spin locks that turn interrupts off (`spinlock.c`) and sleep locks
  built from them (`sleeplock.c`).
* **Storage**: the disk queue (`ide.c`), the buffer cache above it (`bio.c`), the
  write-ahead log above that (`log.c`), then inodes and directories (`fs.c`), then
  file descriptors (`file.c`, `sysfile.c`).
* **Pipes** (`pipe.c`) and the **console** (`console.c`) are the two other things a
  descriptor can stand for.
* **Memory**: the page allocator (`kalloc.c`), address spaces (`vm.c`) and the calls
  that build them (`exec.c`, `fork`, `sbrk`, `shm_alloc`).
* **Boot** (`main.c`, `lapic.c`): the processors start one after the other. The
  **clock** (`trap.c`, `sysproc.c`) counts ticks that `sleep()` waits for.
* **User programs**: the shell (`sh.c`), the heap (`umalloc.c`), `init.c` and small
  tools. Project 2 is a program for an ordinary UNIX.

They all meet in `sleep()`/`wakeup()` and in the order in which spin locks nest.
Every module therefore takes the code that runs under one spin lock as one step,
and splits it exactly where something that does not need that lock can act:
`kill()` only takes `ptable.lock`, so it can come between a test of `killed` and
`sleep()`; a crash needs no lock at all.

## Modules

| Module | Models | State and actions |
|---|---|---|
| `Log` | `log.c`, and of `bio.c` what it depends on | `hdr`, `logd`, `home` are the log header, log blocks and home blocks on disk; `lh`, `outstanding`, `committing` are `struct log`; `cache`, `dirty` the buffers. One action per call, and one per disk write of `commit()` and recovery; `crash` at any time; the cache evicts what is not pinned. |
| `AtomicDisk` | what the log promises | a memory and a durable copy that a single step brings up to date |
| `Pipe` | `pipe.c` | `struct pipe` with `nread`, `nwrite` modulo `WRAP`; one step per byte |
| `ByteStream` | what a pipe promises | a bounded queue of bytes with two ends that close |
| `Proc` | `proc.c`, the loop of `init.c` | `state`, `pid`, `parent`, `killed`, `chan` of every slot; `cpu` and `scan` for each `scheduler()` loop |
| `Spinlock` | `spinlock.c`, the nested lock paths of the kernel | `owner` of each lock, `ncli`, `intena`, `FL_IF` of each CPU; `todo` is the rest of the path a CPU is on, below it the path it interrupted |
| `Bcache` | `bio.c`, `sleeplock.c`, `ide.c` | `struct buf`, the list `mru`, `idequeue`; `holder` of each sleep lock; `contents` remembers the last value given to each block |
| `Console` | the input half of `console.c` | `buf`, `r`, `w`, `e` modulo `WRAP`; one step per key and per character read |
| `LineInput` | what the console promises | a line that can be edited and a queue that can be read |
| `File` | `file.c`, the descriptor calls of `sysfile.c`, descriptors in `fork` and `exit` | `ref`, `obj`, `off` of each `struct file`; `ofile`; `pend` is an object whose slot is free but which is not closed yet |
| `Inode` | the inode cache and directories of `fs.c`, the calls of `sysfile.c` that walk and change the tree | `ref`, `valid` and the lock of each cache entry, inodes and entries on disk; a call is a list of steps that each run from one acquisition of an inode's lock to the next place where it can wait; `crash` between transactions |
| `Blocks` | `balloc`, `bfree`, `bmap`, `readi`, `writei`, `itrunc` of `fs.c`; `iappend` of `mkfs.c` as the initial state | the bitmap, the direct and indirect block numbers of each inode, and the blocks; one action per call |
| `Memory` | `kalloc.c`, `vm.c`, `exec.c`, the memory side of `proc.c` and `sysproc.c` | the free pages and each process's page directory, tables and pages; one action per call, whose loops run out of pages at any page |
| `Boot` | `main.c`, `startothers()`, `lapicstartap()`, `mpenter()`, `kinit1`, `kinit2` | where each processor is, the word that passes the stack, the interrupts on their way, the free list and the two steps of a `kalloc()` without its lock |
| `Clock` | `sys_sleep()`, the timer interrupt, `kill()` of a sleeper | `ticks` modulo `UINT`, and how far each sleeper is |
| `Umalloc` | `umalloc.c` | the circular list of headers, `freep`, and which blocks the program holds |
| `Shell` | `sh.c` | the recursive-descent parser as operators on token sequences; `runcmd()` as the tree of processes a line becomes, one step per `fork`, `close`, `exec`, `wait` and exit |
| `UnixShell` | Project 2 | `directory_path`, files and their contents; the loops over paths of `cd`, `cp` and `mv`, and the splitting of a line, as operators on sequences of characters |
| `Bind` | | a helper that names a value so that TLC computes it once |
| `LogProofs`, `ProcProofs`, `PipeProofs`, `ConsoleProofs`, `BcacheProofs`, `FileProofs` | | theorems about the module in the name |
| `PartsProofs` | | theorems about `Boot` and `Clock` |
| `RingProofs` | | lemmas about ring buffers and counters that wrap around |

`MCLog`, `MCPipe`, ... extend these and give TLC the values that a configuration
file cannot express. `MCParts` and `MCInode` put modules that share no variables side
by side: a variable chosen in the initial state says which one moves, and the others
keep their initial state. Definitions whose comment begins with "Mutant" are variants
of the definition that follows them with a plausible mistake; no specification
uses them. They show that the properties can fail.

The modules share boundaries, not variables: `Log` sees the cache as "may evict
what is not dirty", and `Bcache` shows what such a cache does; `Bcache` sees the log
as "keeps at most MAXPIN blocks dirty"; `File` sees a pipe as two ends, and `Pipe`
what happens when the last reference to an end goes; `Inode` sees the content of a
file as nothing but its directory entries, and `Blocks` what `writei()` and `itrunc()`
do with blocks while the inode's lock is held; both take a transaction as atomic,
which is what `AtomicCommit` shows of `Log`; `Boot` hands over to `Memory` where
`kalloc()` has its lock; `Spinlock` has the lock paths of all of them.

## Runs

| Run | Instance | Shows |
|---|---|---|
| `log_atomic` | 2 processes, 2 blocks, a call writes up to 2 blocks | `AtomicCommit`: `Log` implements `AtomicDisk`, all of a group's writes become durable at once or not at all, whatever crashes, also during recovery. `DurableWhenIdle`: after the last `end_op()` a crash loses nothing. `CallsGoOn`: nobody sleeps in `begin_op()` for ever and the last `end_op()` returns, unless the machine crashes. |
| `log_full` | 3 processes, LOGSIZE = NLOG = 3 MAXOPBLOCKS as shipped | violates `LogNeverOverflows` |
| `pipe_stream` | 2 writers, 1 reader, ring of 2, counters modulo 4 | `PipeIsStream`: `Pipe` implements `ByteStream`. `NoLostWakeup`, `NoUseAfterFree`. `CallsReturn`: `read()` and `write()` return. |
| `proc_table` | 3 slots, 2 CPUs, pids up to 4, `kill()` of pid 3 | `NoMissedExit`: nobody sleeps in `wait()` with nothing to wait for. `OneCpuPerProcess`. `NoStarvation`, `OrphanReaped`. `KilledExits`: a killed process exits, also one that waits for input that never comes, unless it had tested `killed` and was about to sleep. |
| `proc_shell` | 5 slots, 1 CPU | violates `OneShell` |
| `spinlock_cps` | 2 CPUs, the paths that print, with `cps()` | violates `NoLockCycle` |
| `bcache_safe` | 2 processes, 3 buffers, 4 blocks, up to 2 pinned | `ReadsLatest`: `bread()` returns the block's last content through evictions and write-backs. `OneBuffer`: a block has one buffer, and a buffer in use is not recycled; `bget()` can run out of buffers and panic. `RequestsOwned`: a request is queued once and by the holder, and nobody misses a wakeup. |
| `bcache_fair` | 3 processes, 2 buffers, 2 blocks, disk reads that fail | `BreadReturns`: `bread()` comes back, unless other processes take the sleep lock ahead of it again and again for ever |
| `console_input` | 2 readers, ring of 3, indexes modulo 6 | `ConsoleIsLineInput`: `Console` implements `LineInput`. `NoLostWakeup`, `FullRingDrains`. |
| `file_refs` | 2 processes, 3 slots, 2 descriptors each | `RefsExact`: counts are exact and every object is let go once, through every failure of `open()` and `pipe()`. `ChunksOnce`: shared offsets. |
| `fs_tree` | `Inode`: 2 processes with a script of calls each, 3 inodes, names `a` and `b`, crashes; `Spinlock`: 2 CPUs, all paths but `cps()`, interrupts | `RefsExact`, `LinksExact`: `ref` counts the pointers to a cache entry and `nlink` the entries on disk, also after a crash. `NoDanglingEntry`. `FreesAlone`: `iput()` frees an inode that nobody else can reach. `CacheCoherent`. For `Spinlock`: `LocksMatched` (no lock is taken twice, interrupts are off under a lock) and `NoLockCycle`. |
| `parts` | `Memory`, `Blocks`, `Umalloc`, `Clock`, `Boot`, `Shell`, `UnixShell` | see below |

What `parts` checks:

* `Memory`: `PagesExact`, every page is free or in one place, also after a call that
  ran out of memory half way, unless `shm_alloc()` of more than a page has cleared what lies
  behind its page. `MappedToSize`: what `argptr()` lets through is mapped.
  `FailureKeepsImage`: a call that returns -1 leaves the process as it was, except
  `sbrk()` down to nothing.
* `Blocks`: `BitmapExact`, the bitmap marks the blocks that one inode, and only one,
  points to. `ReadsWritten`: `readi()` returns what was written, never what another file left.
* `Umalloc`: `HeapPartitioned`, allocated and free blocks cover what `sbrk()` gave
  without overlap, and no two free blocks touch.
* `Clock`: `SleepsItsTime`, a sleeper that is not killed sleeps as many ticks as it
  asked for, on a clock that wraps around, and is late only by its wait for a CPU.
* `Boot`: `PagesOnce`, no page is given out twice although `kalloc()` has no lock yet,
  and every processor gets a stack of its own.
* `Shell`: `ParsesByPrecedence`, the parser agrees with a grammar that is written
  down separately, for every line of up to `MAXTOK` tokens. `PromptWhenDone`: when the
  prompt comes back the processes of a line that are not in the background have ended,
  and it comes back: they never all wait for a child or for the end of a pipe that one of
  them holds open.
* `UnixShell`: `ArgumentsRight`, a command sees the words that were typed, as long as they fit
  in the buffer, `cd` finds the directory of a path, and the prompt shows it, with the
  exceptions listed under divergences below. `NothingLost`: `cp` and `mv` touch only files
  they are given, and what they empty, replace or remove leaves the whole source where it was
  sent, unless that is its own directory, the file is named twice or missing, or a read or
  write failed.

A module's type invariant is a conjunct of one of the invariants named above, or (for
`Log`, `Proc` and `Boot`) a theorem.

### Bounds

* Counters that wrap around at 2^32 in the code wrap at `WRAP`, a multiple of the
  ring as in the code (2^32 is one of 512 and of 128); the runs go round several
  times.
* `OPBLOCKS` is how many distinct blocks one call writes; the code only has the
  limit `MAXOPBLOCKS`. Pids end at `MAXPID`: `nextpid` is an `int` that only grows,
  and `OrphanReaped` stops where init's next `fork()` would need a pid beyond it. `MAXOFF` is the length of a
  file in chunks. `MAXPIN` stands for the blocks of a transaction.
* Two processes (three for the sleep lock, so that two can pass it to each other past the
  third) and one more buffer, slot or block than they need at a time are
  enough for every race between two critical sections and for every allocation to
  fail; in `Inode` each of the two makes the calls that meet on one name or one directory.
  Three slots are the fewest with an orphan. That init inherits a zombie from
  a process that is not its own child takes four; `ProcNoMissedExit` covers it. Two writers and one reader, and
  two readers of the console, give the case where a wakeup reaches the wrong one.
  Two CPUs are enough for a cycle of two locks, the longest the kernel's paths nest.
* `Memory` has 13 pages of 2 bytes, page tables of 3 entries, 5 user pages and 2
  processes: a process can need a second page table, and two of them cannot both have
  everything, so that every loop fails at every page. `shm_alloc()` is given -1, a page, and
  a page and a byte. `Blocks` has 6 data blocks of 2
  units, 2 direct numbers and a file of at most 4 blocks: writes cross from direct to
  indirect blocks and the disk fills up. `Umalloc` has 13 units: blocks are split, joined
  on both sides, and `sbrk()` fails. `Clock` counts to 16, with intervals on both sides
  of the sign. `Boot` starts 3 processors, the fewest with two that could take each
  other's stack. `Shell` parses every line of up to 5 tokens out of 7 with `MAXARGS` 3, and
  runs a pipe, a list, a background command and their combinations in a table of 5
  processes, where forks fail. `UnixShell` has lines of up to 7 characters, for 4 rows of 3
  characters (16 and 1024 in the code), so that too many words, and words too long, occur; and
  paths of up to 4 components. `MAXLINK`, `MAXDELAY`, `MAXTOK`, `MAXCOMP` and `MAXLINE` are bounds of
  the models only.
* Where `iget()` would panic for want of a cache entry, `bget()` for want of a buffer, and
  `ialloc()` or `balloc()` for want of an inode or a block, the models stop: they do not reach
  beyond the panic. `Memory` stops where `shm_alloc()` has cleared a free page's link, a table
  or a stack: what comes after depends on bytes it does not have.
* Deadlock is checked, except in `Pipe` (all ends may be closed), `File` and `Inode` (all
  processes may have finished, and `Inode` can wait for itself, see below), `Proc` (init may
  panic, and pids end) and `parts` (some parts end).
* Symmetry is used in runs without liveness, for sets whose members the module
  does not tell apart.

### Fairness

* A process that is not asleep takes its next step, weakly fair: `NoStarvation` shows
  that `scheduler()` gives every RUNNABLE process a CPU. `Proc` itself assumes no
  fairness between processes, only that each CPU loops, the timer ticks, and a process
  that is run again and again gets on (strongly fair, because it may be preempted at any time).
* The disk answers every request.
* A system call is finite: it comes to `end_op()`, and a holder of a buffer releases
  it (strongly fair, because it may write again before).
* Input need not come: a reader's wakeup is not fair.
* Sleep locks and `cons.lock` are not queues, and nothing is assumed about who gets one.
  `BreadReturns` therefore makes an exception for a process that others overtake for ever,
  and `FullRingDrains` only needs that one of the readers that spin for a free lock gets it.
* A pipe's users go on reading, writing or closing. With several writers one of them can
  lose the race for every free byte, so `CallsReturn` speaks of a writer whose
  competitors are gone.
* Crashes, kills and keys are never required.

## What the violated runs show

* `log_full`: `begin_op()` plans with LOGSIZE blocks (`log.c:132`), but `mkfs` makes the
  log LOGSIZE blocks long *with* its header, and `log_write()` panics at block
  LOGSIZE - 1 (`log.c:218`). Calls that write as many blocks as `param.h:10` allows
  them reach the panic. `LogFits` below says how much slack a call has to leave: with
  10/30/30 a call that fills at most 8 slots is safe.
* `proc_shell`: init takes any child's exit for the shell's (`init.c:35`).
* `spinlock_cps`: `cps()` takes `cons.lock` inside `ptable.lock` (`proc.c:549`), the
  console takes them the other way round.

Other divergences and corner cases, without a run of their own. The models contain them
unless it says otherwise, and where a property would fail, its statement names the exception:

* A writer that is killed while the pipe is full returns (`pipe.c:86`) without waking
  the readers for what it has already written; `NoLostWakeup` makes that exception.
* A `kill()` that comes between the test of `killed` and `sleep()` (`pipe.c:107`,
  `console.c:246`) leaves the killed process asleep until there is input; `KilledExits` makes
  that exception. In `sys_sleep()` the next tick wakes it.
* `describe()` says that `sleep` suspends a process "for a specified time (in seconds)"
  (`sysproc.c:145`); `sys_sleep()` counts timer interrupts (`sysproc.c:71`),
  which are far shorter. `SleepsItsTime` is about ticks.
* `bget()` panics when every buffer is in use or dirty (`bio.c:92`). NBUF equals the size of
  the log, all of which can be dirty, so nothing but the moderation of the calls prevents it.
* A process that waits for a sleep lock can be overtaken any number of times (`sleeplock.c:26`).
* `kill()` of pid 0 or of the pid of a failed `fork()` succeeds and marks a free slot, whose
  next process is born killed (`proc.c:493`, `sysproc.c:136` says otherwise).
* A disk read that fails still makes the buffer valid (`ide.c:118`; `IdeErrors`).
* Two processes that drop the last two references of an unlinked inode can both read
  `ref` 2 and neither frees it (`fs.c:337`); an inode that is open and unlinked when the
  machine crashes stays allocated too, and so does a file created in a directory that
  was removed meanwhile.
* `iput()` of a directory takes its lock while `unlink()` or `create()` holds another:
  processes can wait for each other, and `link()` of a name into its own directory for
  itself (`fs.c:334`).
* `sbrk()` to 0 returns -1 after it has freed the pages (`proc.c:171`). Pages of
  `shm_alloc()` are never freed. It takes one page whatever the size, and its `memset()`
  (`sysproc.c:110`) clears what lies behind it if the size is larger: links of the free list,
  tables, stacks. The ghost `overrun` records that, and `PagesExact` and `MappedToSize`
  make the exception.
* `mkfs` rounds the root directory's size up by a whole block when it is a multiple of one.
  `BlocksAssumption` excludes that case.
* In `sh`, `a & b` is a syntax error, the first of two redirections wins, and a `fork()`
  that fails half way leaves the left side of a pipe running.
* In Project 2, which `src/README.md` describes as a shell with `cd`, `cp` and `mv`:
  * a `cd` whose argument ends in `..`, as in `cd ..`, ignores that last component
    (`commands.c:83` looks two characters ahead, `cp` and `mv` one), and a `.` inside a name loops
    for ever; relative names are looked up in the process's directory, not in the one
    the prompt shows;
  * the words after a quoted one or after two blanks are not seen; a line of 16 words leaves no
    empty row for `args[]` to end at (`commands.c:141`), the 17th is written behind
    `commands[16][1024]`, and a word of 1024 characters runs into the next row (`main.c:61`);
  * `temp_path` is not initialised (`commands.c:152`, `282`), so a relative target of `cp` and
    `mv` can come out as any path: `Copies` allows every directory, and none;
  * `mv a .` loses the file, `mv a a d` empties the copy, a missing source empties the target
    (`commands.c:358`), and `mv` removes the source although not all of it was written
    (`commands.c:367`).

## What is proved

`LogProofs` proves, with TLAPS, for any finite set of processes, any blocks and contents and any
sizes that satisfy `Log`'s assumptions:

* `LogTypeCorrect`: `Spec => []TypeOK`
* `LogDurable`: `Spec => []DurableWhenIdle`
* `LogWriteAhead`: `Spec => WriteAhead`, an action property
* `LogFits`: if a call writes fewer blocks than it reserves, and the log has room for
  LOGSIZE less that slack besides its header, `Spec => []LogNeverOverflows`
* `LogRefines`: `Spec => AtomicCommit`, the refinement of `AtomicDisk`

None of these invariants is inductive. `IInv` is the conjunction of

* `TypeOK`;
* `Control`: which phases of commit go with which values of `committing`,
  `outstanding` and the processes' places (commit runs alone);
* `Buffers`: a process that is in `log_write()` holds one buffer, which no other process
  holds, and has slots of its reservation left if the block is new to the log;
* `Capacity`: the log and the unfilled reservations of the open calls fit in LOGSIZE;
* `Header`: what the header on disk holds in each phase, so that `Recovered`, the disk as
  recovery would leave it, changes only when the header is written;
* `Pinned`: a clean cached block is the one on disk, and the blocks of the transaction
  are in the cache and dirty until they are installed, so that eviction cannot bring back
  an older copy;
* `Written`: the log blocks written so far equal the cached blocks, and the home
  blocks installed so far equal the log blocks.

Each action has a lemma that it preserves `IInv`; `Idle` (the log is
empty when no call is open) and `Fits` are further invariants on top of it. For the
refinement, `write_head` is the step that maps to `Commit`, every other step of commit
and recovery leaves `Memory` and `Recovered` as they are, and a crash sets `Memory` to
`Recovered`.

`ProcProofs` proves, for any number of slots, CPUs and pids, five invariants:
`ProcTypeCorrect`, `ProcNoMissedExit`, `ProcParentAlive`, `ProcOneCpu` and
`ProcEmbryoOwned`.

They are inductive only together with what the code leaves implicit: `Forks` (which
`fork()` owns which EMBRYO slot), `Parents` (init has no parent and stays alive, a slot
that is not in use has no parent, and no process is its own) and `Cpus` (`cpu->proc` is
one-to-one). `Inv` is their conjunction with `TypeOK` and `NoMissedExit`. The step
that needs most is `exit()`: a sleeper in `wait()` that it does not wake is neither the
parent of the process that exits nor, if that leaves zombies, init. That `Min` of a
nonempty set of slots is in it (`FirstSlot`) rests on the library's well-founded order of
Nat.

`PipeProofs` proves, for any number of readers and writers, any ring and any range of the
counters, `PipeNoUseAfterFree` (`Spec => []NoUseAfterFree`) and `PipeNoLostWakeup`
(`Spec => []NoLostWakeup`), and `PipeRefines` (`Spec => PipeIsStream`). The invariant adds to
`TypeOK`:

* `LockHeld`: the holder of `p->lock` is the one process in a critical section;
* `Ends`: of the processes that share an end one, the last, comes to `pipeclose()`, and
  when an end is closed none of its processes is left;
* `WritersSleep`, `ReadersSleep`: a sleeper waits for what is still so, or for a process of
  the other side that is still in its loop and will wake it.

The refinement needs two facts more: `Bounded` (the counters are at most PIPESIZE apart)
and `Idle` (a process outside `write()` has nothing to write). A byte that is written goes
to the cell behind the queue and a byte that is read comes from its first cell, also in
the step in which a counter wraps around. That is arithmetic on remainders: `RingProofs` has
it once, for a ring of P cells with counters that wrap around at a multiple of P, and
`StretchAppend`, `StretchTail`, `StretchKept`, `StretchFront` and `StretchConcat` say what
writing and taking does to the cells between two counters.

`ConsoleProofs` proves `ConsoleNoLostWakeup` and `ConsoleRefines` (`Spec =>
ConsoleIsLineInput`) for any readers and any ring. `Fresh` is what makes the first
inductive: an index that has not wrapped around bounds the cells that were never
written, so a reader is never given one of them. The refinement rests on `InOrder` (what can
be read and what can be erased fit in the ring together) and `OneLine` (no newline
between w and e, so that ^U erases what LineInput calls the line).

`BcacheProofs` proves for any number of processes, buffers and blocks:

* `BcacheReadsLatest`: `~IdeErrors /\ Spec => []ReadsLatest`
* `BcacheOneBuffer`: `Spec => []OneBuffer`
* `BcacheRequestsOwned`: `Spec => []RequestsOwned`

Their invariant says that the list has all buffers (`List`), `refcnt` counts the processes
from `bget()` to the end of `brelse()` (`Counts`), each has the buffer of the block it asked
for (`Mine`, `One`), the sleep lock's holder is the process inside (`Locks`), a queued
request has its owner waiting and flags that say so (`Queue`, `Flags`), and a valid buffer
has the block's last content, as has the disk unless a dirty buffer does (`Latest`). The
content argument is the one about eviction: `bget()` takes only a buffer that is clean,
hence not queued, and whose block is on disk.

`FileProofs` proves, for any number of processes, slots, descriptors, inodes and pages:

* `FileRefsExact`: `Spec => []RefsExact`
* `FileChunksOnce`: `Spec => []ChunksOnce`

`RefsExact` is a statement about five counts, none of which is kept by itself. `IInv` adds to
`TypeOK` and to the counts (`Refs`, `ObjectRefs`):

* `Shape`: which files, inodes and objects a call may have in each of its places, so that a
  call that returns has let go all of them;
* `Children`: the child of a `fork()` is nobody else's and does not run, so that its
  descriptors are filled by one process;
* `Unset` and `Fresh`: a free slot, and the first file of a `pipe()` that has no pipe yet, are
  FD_NONE, so that closing them lets nothing go;
* `Reads`: a process in `read()` or `write()` still has the descriptor, hence the file keeps its
  inode until the call returns;
* `Locked` and `Offsets`: while a process is between `readi()` and the update of `f->off`, it
  has the inode's lock and the offset is the one it started from.

The counts are cardinalities of sets, and one step moves at most one element in or out
of each set: `Differ` says what that does to a cardinality, and `SetsPointer`, `SetsHeld`, `SetsObj`,
`SetsPend` and `SetsIno` apply it to the five sets. `pipealloc()` is the step with most to show: it
changes two files, two descriptors and both ends of a pipe at once.

`PartsProofs` proves `BootTypeCorrect` and `BootPagesOnce` for any number of processors and
pages. `Order` says which processors are up while the boot processor is at processor c, and
`Stacks` and `Alloc` that the word for the stack and the unlocked allocation have one user.
It also proves `ClockSleepsItsTime`, for any number of processes and any `HALF`, half of the range of `ticks`: `OnTime` says that a process in
`sys_sleep()` reads off the clock how long it has slept, which is so across a wraparound
because an interval and the wait for a CPU (`MAXDELAY`, at most `HALF`) do not go round.

Proved and not checked by a run: the type invariants of `Log`, `Proc` and `Boot`, and
`WriteAhead`, `ParentAlive` and `EmbryoOwned`.

Left to TLC: liveness (TLAPS proves neither properties under fairness nor ENABLED);
statements that need induction over data, which is what the loops of `Memory`, `Blocks` and
`Umalloc` rest on, each a fold or a walk inside one step; and everything about RECURSIVE
operators, which are in `Shell` and `UnixShell` and which no theorem reaches. `Inode` and
`Spinlock` are model-checked only.

## Not modelled

* Lookups through `..`: the entry of a removed directory's parent dangles in the code as
  well, and paths in `Inode` do not use it.
* `stat`, `uptime`, `cps` and `describe` beyond their locks, and all output: they only read.
* Segment descriptors, the protection bits besides PTE_U, and the bytes of a page;
  `idestart()` and the other programming of devices; `kbd.c`, `uart.c`, `ioapic.c`, `picirq.c`,
  `mp.c`, the boot loader and assembly. They have no state that a property could relate.
* `memide.c`, which is not linked by default; `ulib.c` and `printf.c`, sequential code on
  strings; the user programs that are one loop over their input or one system call.
  `usertests.c` and `forktest.c` are tests: what they expect of the kernel is what the
  properties of the modules say.
* A process that holds several buffers at a time is several processes of `Bcache`. That adds
  behaviours, so the invariants and theorems cover it; `BreadReturns` does not cover a process
  that waits for one buffer while it holds another.
* `pipealloc()` running out of memory, which `File` has as a failure of `pipe()`.
* `swtch()` with `ptable.lock` held from one process to the next: `Proc` takes the change of
  state and the switch to the scheduler as one step, so the use of a stack by two CPUs
  between them is not in its reach.
* Writers that fill a pipe between the commands of `sh`; `Pipe` has them.
* `malloc()` of 2^31 bytes and more, where `umalloc.c:69` wraps around, and in Project 2 paths
  longer than BUFFER_SIZE.

`PROJECT.json` lists every part with what is left out of it.

## Plan

1. Proofs: the reference counts of `Inode`.
2. `Inode`: lookups through `..`, and liveness where no directory is both ends of a wait.
