-------------------------------- MODULE File --------------------------------
(***************************************************************************)
(* file.c and the descriptor calls of sysfile.c: struct files shared by    *)
(* descriptors of several processes, counted by ref, and the objects       *)
(* behind them, which the last fileclose() lets go after it has given the  *)
(* slot back.  What runs under ftable.lock is one step.                    *)
(***************************************************************************)
EXTENDS Naturals, FiniteSets

CONSTANTS
  Proc,
  NFILE,       \* slots of ftable
  NOFILE,      \* descriptors of a process
  Inode,       \* inodes open() may find
  Page,        \* pages kalloc() may return for a pipe
  MAXOFF,      \* chunks of data in a file
  None

ASSUME FileAssumption ==
  /\ NFILE \in Nat \ {0} /\ NOFILE \in Nat \ {0} /\ MAXOFF \in Nat
  /\ IsFiniteSet(Proc) /\ None \notin Inode \cup Proc
  /\ ({"r", "w"} \X Page) \cap (Inode \cup {None}) = {}

File == 1..NFILE
Fd == 1..NOFILE
NoFile == 0
End == {"r", "w"} \X Page            \* the two ends of a pipe

VARIABLES
  ref, obj, off,   \* struct file; obj is None for FD_NONE
  ofile,           \* proc->ofile
  pc,              \* where each process is
  f0, f1,          \* the files a call works on outside ofile; it closes f0 first
  pend,            \* the object of a file whose slot fileclose() has freed
  ino,             \* the inode a call has a reference to
  child,           \* the child of a fork()
  iref,            \* references to each inode that these calls hold
  ends,            \* open ends of pipes
  ilk,             \* the process that holds the inode's lock
  start,           \* the offset readi() or writei() was given
  moved            \* chunks transferred through the file since it was opened

table == <<ref, obj, off>>
calls == <<pc, f0, f1, pend, ino, child>>
vars == <<table, ofile, calls, iref, ends, ilk, start, moved>>

Pcs == {"dead", "user", "open", "pipe", "fork", "close", "exit", "ilock", "io"}

\* The types of ftable, of ofile and of the calls in progress.
TypeOK ==
  /\ ref \in [File -> Nat]
  /\ obj \in [File -> Inode \cup End \cup {None}]
  /\ off \in [File -> 0..MAXOFF] /\ moved \in [File -> 0..MAXOFF]
  /\ ofile \in [Proc -> [Fd -> File \cup {NoFile}]]
  /\ pc \in [Proc -> Pcs]
  /\ f0 \in [Proc -> File \cup {NoFile}] /\ f1 \in [Proc -> File \cup {NoFile}]
  /\ pend \in [Proc -> Inode \cup End \cup {None}]
  /\ ino \in [Proc -> Inode \cup {None}]
  /\ child \in [Proc -> Proc \cup {None}]
  /\ iref \in [Inode -> Nat]
  /\ ends \subseteq End
  /\ ilk \in [Inode -> Proc \cup {None}]
  /\ start \in [Proc -> 0..MAXOFF]

\* One process, with nothing open.
Init ==
  /\ ref = [f \in File |-> 0] /\ obj = [f \in File |-> None]
  /\ off = [f \in File |-> 0] /\ moved = [f \in File |-> 0]
  /\ ofile = [p \in Proc |-> [d \in Fd |-> NoFile]]
  /\ \E p \in Proc : pc = [q \in Proc |-> IF q = p THEN "user" ELSE "dead"]
  /\ f0 = [p \in Proc |-> NoFile] /\ f1 = [p \in Proc |-> NoFile]
  /\ pend = [p \in Proc |-> None] /\ ino = [p \in Proc |-> None]
  /\ child = [p \in Proc |-> None]
  /\ iref = [i \in Inode |-> 0] /\ ends = {}
  /\ ilk = [i \in Inode |-> None]
  /\ start = [p \in Proc |-> 0]

Goto(p, l) == pc' = [pc EXCEPT ![p] = l]
Slots == {f \in File : ref[f] = 0}
FreeFds(p) == {d \in Fd : ofile[p][d] = NoFile}
OpenFds(p) == Fd \ FreeFds(p)

\* The search of a table from its first entry on.
First(n, s) == n \in s /\ \A m \in s : n <= m

-----------------------------------------------------------------------------
(* open and pipe                                                           *)

\* filealloc(): the first free slot.
filealloc(f) ==
  /\ First(f, Slots)
  /\ ref' = [ref EXCEPT ![f] = 1]

\* fdalloc(): the first free descriptor.
fdalloc(p, d, f) ==
  /\ First(d, FreeFds(p))
  /\ ofile' = [ofile EXCEPT ![p][d] = f]

\* sys_open() up to filealloc(): namei() or create() returns an inode.
sys_open(p) ==
  /\ pc[p] = "user"
  /\ \E i \in Inode : /\ ino' = [ino EXCEPT ![p] = i]
                      /\ iref' = [iref EXCEPT ![i] = @ + 1]
  /\ Goto(p, "open")
  /\ UNCHANGED <<table, ofile, f0, f1, pend, child, ends, ilk, start, moved>>

\* The rest of sys_open(); without a descriptor it closes the file again.
sys_open_file(p) ==
  /\ pc[p] = "open"
  /\ \/ /\ Slots = {}
        /\ Goto(p, "close")
        /\ UNCHANGED <<table, ofile, f0, ino, moved>>
     \/ \E f \in File :
          /\ filealloc(f)
          /\ FreeFds(p) = {}
          /\ f0' = [f0 EXCEPT ![p] = f]
          /\ Goto(p, "close")
          /\ UNCHANGED <<obj, off, ofile, ino, moved>>
     \/ \E f \in File, d \in Fd :
          /\ filealloc(f)
          /\ fdalloc(p, d, f)
          /\ obj' = [obj EXCEPT ![f] = ino[p]]
          /\ off' = [off EXCEPT ![f] = 0] /\ moved' = [moved EXCEPT ![f] = 0]
          /\ ino' = [ino EXCEPT ![p] = None]
          /\ Goto(p, "user")
          /\ UNCHANGED f0
  /\ UNCHANGED <<f1, pend, child, iref, ends, ilk, start>>

\* pipealloc()'s first filealloc().
sys_pipe(p) ==
  /\ pc[p] = "user"
  /\ \E f \in File : filealloc(f) /\ f0' = [f0 EXCEPT ![p] = f]
  /\ Goto(p, "pipe")
  /\ UNCHANGED <<obj, off, ofile, f1, pend, ino, child, iref, ends, ilk, start, moved>>

\* Its second one or kalloc() fails: what was allocated is closed again.
pipealloc_bad(p) ==
  /\ pc[p] = "pipe"
  /\ \/ Slots = {} /\ UNCHANGED <<ref, f1>>
     \/ \E f \in File : filealloc(f) /\ f1' = [f1 EXCEPT ![p] = f]
  /\ Goto(p, "close")
  /\ UNCHANGED <<obj, off, ofile, f0, pend, ino, child, iref, ends, ilk, start, moved>>

\* The page k becomes the pipe of both files.
NewPipe(p, f, k) ==
  /\ {<<"r", k>>, <<"w", k>>} \cap ends = {}
  /\ obj' = [obj EXCEPT ![f0[p]] = <<"r", k>>, ![f] = <<"w", k>>]
  /\ ends' = ends \cup {<<"r", k>>, <<"w", k>>}

\* pipealloc() succeeds; without two descriptors both files are closed.
pipealloc(p) ==
  /\ pc[p] = "pipe"
  /\ \E f \in File, k \in Page :
       /\ filealloc(f)
       /\ NewPipe(p, f, k)
       /\ \/ /\ Cardinality(FreeFds(p)) < 2
             /\ f1' = [f1 EXCEPT ![p] = f]
             /\ Goto(p, "close")
             /\ UNCHANGED <<f0, ofile>>
          \/ \E d, e \in Fd :
               /\ First(d, FreeFds(p)) /\ First(e, FreeFds(p) \ {d})
               /\ ofile' = [ofile EXCEPT ![p][d] = f0[p], ![p][e] = f]
               /\ f0' = [f0 EXCEPT ![p] = NoFile]
               /\ Goto(p, "user")
               /\ UNCHANGED f1
  /\ UNCHANGED <<off, pend, ino, child, iref, ilk, start, moved>>

-----------------------------------------------------------------------------
(* dup, fork, close and exit                                               *)

sys_dup(p) ==
  /\ pc[p] = "user"
  /\ \E d \in OpenFds(p), e \in Fd :
       /\ fdalloc(p, e, ofile[p][d])
       /\ ref' = [ref EXCEPT ![ofile[p][d]] = @ + 1]
  /\ UNCHANGED <<obj, off, calls, iref, ends, ilk, start, moved>>

fork(p) ==
  /\ pc[p] = "user"
  /\ \E q \in Proc : /\ pc[q] = "dead"
                     /\ \A s \in Proc : child[s] # q
                     /\ child' = [child EXCEPT ![p] = q]
  /\ Goto(p, "fork")
  /\ UNCHANGED <<table, ofile, f0, f1, pend, ino, iref, ends, ilk, start, moved>>

\* fork()'s loop: filedup() of the next descriptor.
filedup(p) ==
  /\ pc[p] = "fork"
  /\ \E d \in Fd :
       /\ First(d, {e \in OpenFds(p) : ofile[child[p]][e] = NoFile})
       /\ ofile' = [ofile EXCEPT ![child[p]][d] = ofile[p][d]]
       /\ ref' = [ref EXCEPT ![ofile[p][d]] = @ + 1]
  /\ UNCHANGED <<obj, off, calls, iref, ends, ilk, start, moved>>

fork_run(p) ==
  /\ pc[p] = "fork"
  /\ OpenFds(p) = OpenFds(child[p])
  /\ pc' = [pc EXCEPT ![p] = "user", ![child[p]] = "user"]
  /\ child' = [child EXCEPT ![p] = None]
  /\ UNCHANGED <<table, ofile, f0, f1, pend, ino, iref, ends, ilk, start, moved>>

sys_close(p) ==
  /\ pc[p] = "user"
  /\ \E d \in OpenFds(p) : /\ f0' = [f0 EXCEPT ![p] = ofile[p][d]]
                           /\ ofile' = [ofile EXCEPT ![p][d] = NoFile]
  /\ Goto(p, "close")
  /\ UNCHANGED <<table, f1, pend, ino, child, iref, ends, ilk, start, moved>>

exit(p) ==
  /\ pc[p] = "user"
  /\ Goto(p, "exit")
  /\ UNCHANGED <<table, ofile, f0, f1, pend, ino, child, iref, ends, ilk, start, moved>>

\* Nothing is left of a fileclose().
Done(p) == pend[p] = None /\ f0[p] = NoFile /\ f1[p] = NoFile

\* exit()'s loop takes the next descriptor; nobody else reads ofile.
exit_file(p) ==
  /\ pc[p] = "exit" /\ Done(p)
  /\ \E d \in Fd : /\ First(d, OpenFds(p))
                   /\ f0' = [f0 EXCEPT ![p] = ofile[p][d]]
                   /\ ofile' = [ofile EXCEPT ![p][d] = NoFile]
  /\ UNCHANGED <<table, pc, f1, pend, ino, child, iref, ends, ilk, start, moved>>

\* The file that fileclose() is called with next.
Closes(p, f) ==
  /\ pc[p] \in {"close", "exit"} /\ pend[p] = None
  /\ \/ f0[p] = f /\ f0' = [f0 EXCEPT ![p] = NoFile] /\ UNCHANGED f1
     \/ f0[p] = NoFile /\ f1[p] = f /\ f1' = [f1 EXCEPT ![p] = NoFile] /\ UNCHANGED f0

\* Mutant of fileclose: the slot keeps its type.
fileclose_typed(p) ==
  /\ \E f \in File :
       /\ Closes(p, f)
       /\ ref' = [ref EXCEPT ![f] = @ - 1]
       /\ pend' = [pend EXCEPT ![p] = IF ref[f] = 1 THEN obj[f] ELSE None]
  /\ UNCHANGED <<obj, off, ofile, pc, ino, child, iref, ends, ilk, start, moved>>

\* fileclose() under ftable.lock.
fileclose(p) ==
  /\ \E f \in File :
       /\ Closes(p, f)
       /\ ref' = [ref EXCEPT ![f] = @ - 1]
       /\ \/ ref[f] > 1 /\ UNCHANGED <<obj, pend>>
          \/ /\ ref[f] = 1
             /\ pend' = [pend EXCEPT ![p] = obj[f]]
             /\ obj' = [obj EXCEPT ![f] = None]
  /\ UNCHANGED <<off, ofile, pc, ino, child, iref, ends, ilk, start, moved>>

\* The rest of fileclose(): pipeclose(), or iput() in a transaction.
fileclose_object(p) ==
  /\ pend[p] # None
  /\ \/ /\ pend[p] \in Inode
        /\ iref' = [iref EXCEPT ![pend[p]] = @ - 1]
        /\ UNCHANGED ends
     \/ /\ pend[p] \in End
        /\ ends' = ends \ {pend[p]}
        /\ UNCHANGED iref
  /\ pend' = [pend EXCEPT ![p] = None]
  /\ UNCHANGED <<table, ofile, pc, f0, f1, ino, child, ilk, start, moved>>

\* All is closed; a failed open() drops its inode.
closed(p) ==
  /\ pc[p] \in {"close", "exit"} /\ Done(p)
  /\ pc[p] = "exit" => OpenFds(p) = {}
  /\ Goto(p, IF pc[p] = "exit" THEN "dead" ELSE "user")
  /\ iref' = [i \in Inode |-> IF i = ino[p] THEN iref[i] - 1 ELSE iref[i]]
  /\ ino' = [ino EXCEPT ![p] = None]
  /\ UNCHANGED <<table, ofile, f0, f1, pend, child, ends, ilk, start, moved>>

-----------------------------------------------------------------------------
(* read and write of a file with an inode                                  *)

\* fileread() or filewrite() of a descriptor; f0 names the file.
fileread(p) ==
  /\ pc[p] = "user"
  /\ \E d \in OpenFds(p) :
       /\ obj[ofile[p][d]] \in Inode
       /\ f0' = [f0 EXCEPT ![p] = ofile[p][d]]
  /\ Goto(p, "ilock")
  /\ UNCHANGED <<table, ofile, f1, pend, ino, child, iref, ends, ilk, start, moved>>

\* Mutant of fileread_ilock: f->off is read without the inode's lock.
fileread_ilock_free(p) ==
  /\ pc[p] = "ilock"
  /\ start' = [start EXCEPT ![p] = off[f0[p]]]
  /\ Goto(p, "io")
  /\ UNCHANGED <<table, ofile, f0, f1, pend, ino, child, iref, ends, ilk, moved>>

\* ilock(), and f->off is read for readi() or writei().
fileread_ilock(p) ==
  /\ pc[p] = "ilock"
  /\ ilk[obj[f0[p]]] = None
  /\ ilk' = [ilk EXCEPT ![obj[f0[p]]] = p]
  /\ start' = [start EXCEPT ![p] = off[f0[p]]]
  /\ Goto(p, "io")
  /\ UNCHANGED <<table, ofile, f0, f1, pend, ino, child, iref, ends, moved>>

\* readi() or writei() returns: a chunk, or nothing at the end of the file.
fileread_off(p) ==
  /\ pc[p] = "io"
  /\ \/ /\ start[p] < MAXOFF
        /\ off' = [off EXCEPT ![f0[p]] = @ + 1]
        /\ moved' = [moved EXCEPT ![f0[p]] = @ + 1]
     \/ /\ start[p] = MAXOFF
        /\ UNCHANGED <<off, moved>>
  /\ ilk' = [ilk EXCEPT ![obj[f0[p]]] = None]
  /\ f0' = [f0 EXCEPT ![p] = NoFile]
  /\ start' = [start EXCEPT ![p] = 0]
  /\ Goto(p, "user")
  /\ UNCHANGED <<ref, obj, ofile, f1, pend, ino, child, iref, ends>>

-----------------------------------------------------------------------------

Next ==
  \E p \in Proc :
    \/ sys_open(p) \/ sys_open_file(p) \/ sys_pipe(p) \/ pipealloc_bad(p)
    \/ pipealloc(p) \/ sys_dup(p) \/ fork(p) \/ filedup(p) \/ fork_run(p)
    \/ sys_close(p) \/ exit(p) \/ exit_file(p) \/ fileclose(p)
    \/ fileclose_object(p) \/ closed(p) \/ fileread(p) \/ fileread_ilock(p) \/ fileread_off(p)

Spec == Init /\ [][Next]_vars

-----------------------------------------------------------------------------
(* Properties.                                                             *)

Pointers(f) == {x \in Proc \X Fd : ofile[x[1]][x[2]] = f}
Held(f) == {p \in Proc : pc[p] \in {"pipe", "close", "exit"} /\ f \in {f0[p], f1[p]}}
OpenOn(x) == {f \in File : obj[f] = x}
Closing(x) == {p \in Proc : pend[p] = x}
Looking(i) == {p \in Proc : ino[p] = i}

\* ref counts the descriptors and the calls in progress that refer to the
\* file, in every process and through every failure of open() and pipe(): no
\* slot is free while it is used, or taken while it is not.  A free slot is
\* FD_NONE, so that closing a file that was never set up closes nothing else.
\* And an inode has one reference for each open file, each call that has just
\* looked it up and each fileclose() that has not come to iput(); an end of a
\* pipe is open exactly as long as one file, or one fileclose() on its way to
\* pipeclose(), refers to it, so that neither is let go twice or leaked.
RefsExact ==
  /\ TypeOK
  /\ \A f \in File :
       /\ ref[f] = Cardinality(Pointers(f)) + Cardinality(Held(f))
       /\ ref[f] = 0 => obj[f] = None
  /\ \A p \in Proc : f0[p] # NoFile => f0[p] # f1[p]
  /\ \A i \in Inode : iref[i] = Cardinality(OpenOn(i)) + Cardinality(Closing(i))
                                + Cardinality(Looking(i))
  /\ \A n \in End : Cardinality(OpenOn(n)) + Cardinality(Closing(n))
                      = IF n \in ends THEN 1 ELSE 0

\* Processes that share a file through fork() or dup() read or write every
\* chunk once: none is transferred twice and none is skipped.
ChunksOnce ==
  /\ \A f \in File : ref[f] > 0 => off[f] = moved[f]
  /\ \A p \in Proc : pc[p] = "io" => start[p] = moved[f0[p]]
=============================================================================
