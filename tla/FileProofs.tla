----------------------------- MODULE FileProofs -----------------------------
(***************************************************************************)
(* Proofs about File for any number of processes, slots, descriptors,      *)
(* inodes and pages: every count of references is exact, and processes     *)
(* that share a file transfer every chunk once.                            *)
(***************************************************************************)
EXTENDS File, TLAPS

\* Zenon proves the leaves; those with arithmetic cite SMT.
USE ZenonT(30)

-----------------------------------------------------------------------------
(* Counting.                                                               *)

\* What the proofs use of finite sets; it follows from the library's theorems, which
\* come into scope where it is proved, further down.
Counting ==
  /\ IsFiniteSet(Proc) /\ IsFiniteSet(File) /\ IsFiniteSet(Proc \X Fd)
  /\ \A S, T : IsFiniteSet(S) /\ T \subseteq S => IsFiniteSet(T)
  /\ \A S : IsFiniteSet(S) => Cardinality(S) \in Nat
  /\ \A S, x : IsFiniteSet(S) /\ x \notin S => Cardinality(S \cup {x}) = Cardinality(S) + 1
  /\ \A S, x : IsFiniteSet(S) /\ x \in S =>
       IsFiniteSet(S \ {x}) /\ Cardinality(S \ {x}) = Cardinality(S) - 1

One(b) == IF b THEN 1 ELSE 0

\* Two sets that agree on everything but a.
LEMMA Differ ==
  ASSUME Counting, NEW S, NEW T, IsFiniteSet(S), NEW a, \A x : x # a => (x \in S <=> x \in T)
  PROVE  Cardinality(S) \in Nat /\ Cardinality(T) = Cardinality(S) + One(a \in T) - One(a \in S)
<1>0. Cardinality(S) \in Nat
  BY DEF Counting
<1>1. CASE a \notin S /\ a \in T
  <2>1. T = S \cup {a}
    BY <1>1
  <2> QED
    BY <1>0, <1>1, <2>1, SMT DEF One, Counting
<1>2. CASE a \in S /\ a \notin T
  <2>1. T = S \ {a}
    BY <1>2
  <2> QED
    BY <1>0, <1>2, <2>1, SMT DEF One, Counting
<1>3. CASE a \in S <=> a \in T
  <2>1. T = S
    BY <1>3, SMT
  <2> QED
    BY <1>0, <1>3, <2>1, SMT DEF One
<1> QED
  BY <1>1, <1>2, <1>3

\* A finite set with a member, and with two.
LEMMA Members ==
  ASSUME Counting, NEW S, IsFiniteSet(S)
  PROVE  /\ Cardinality(S) \in Nat
         /\ \A a \in S : Cardinality(S) >= 1
         /\ \A a, b \in S : a # b => Cardinality(S) >= 2
<1>0. Cardinality(S) \in Nat
  BY DEF Counting
<1>1. \A a \in S : IsFiniteSet(S \ {a}) /\ Cardinality(S \ {a}) = Cardinality(S) - 1
  BY DEF Counting
<1>2. \A a \in S : Cardinality(S \ {a}) \in Nat
  BY <1>1 DEF Counting
<1>3. ASSUME NEW a \in S PROVE Cardinality(S) >= 1
  <2>1. Cardinality(S \ {a}) = Cardinality(S) - 1 /\ Cardinality(S \ {a}) \in Nat
    BY <1>1, <1>2, <1>3
  <2> QED
    BY <1>0, <2>1, SMT
<1>4. ASSUME NEW a \in S, NEW b \in S, a # b PROVE Cardinality(S) >= 2
  <2>1. IsFiniteSet(S \ {a}) /\ b \in S \ {a} /\ Cardinality(S \ {a}) = Cardinality(S) - 1
    BY <1>1, <1>4
  <2>2. Cardinality((S \ {a}) \ {b}) = Cardinality(S \ {a}) - 1 /\ IsFiniteSet((S \ {a}) \ {b})
    BY <2>1 DEF Counting
  <2>3. Cardinality((S \ {a}) \ {b}) \in Nat
    BY <2>2 DEF Counting
  <2> QED
    BY <1>0, <2>1, <2>2, <2>3, SMT
<1> QED
  BY <1>0, <1>3, <1>4

\* The process p has a reference to f of its own, outside ofile.
Has(p, f) == pc[p] \in {"pipe", "close", "exit"} /\ f \in {f0[p], f1[p]}

Links(f) == Cardinality(Pointers(f))
Holds(f) == Cardinality(Held(f))
Opens(x) == Cardinality(OpenOn(x))
Closings(x) == Cardinality(Closing(x))
Looks(i) == Cardinality(Looking(i))

\* The sets that are counted are finite.
LEMMA FiniteSets ==
  ASSUME Counting
  PROVE  /\ \A f : IsFiniteSet(Pointers(f)) /\ IsFiniteSet(Held(f))
         /\ \A x : IsFiniteSet(OpenOn(x)) /\ IsFiniteSet(Closing(x)) /\ IsFiniteSet(Looking(x))
<1>3. \A f : Pointers(f) \subseteq Proc \X Fd /\ Held(f) \subseteq Proc
  BY DEF Pointers, Held
<1>4. \A x : OpenOn(x) \subseteq File /\ Closing(x) \subseteq Proc /\ Looking(x) \subseteq Proc
  BY DEF OpenOn, Closing, Looking
<1> QED
  BY <1>3, <1>4 DEF Counting

\* What a descriptor or a call that refers to a file says of the counts.
LEMMA Counts ==
  ASSUME Counting
  PROVE  /\ \A f : Links(f) \in Nat /\ Holds(f) \in Nat
         /\ \A x : Opens(x) \in Nat /\ Closings(x) \in Nat /\ Looks(x) \in Nat
  BY FiniteSets, Members DEF Links, Holds, Opens, Closings, Looks

\* A descriptor that points to f is counted.
LEMMA Linked ==
  ASSUME Counting, NEW p \in Proc, NEW d \in Fd
  PROVE  Links(ofile[p][d]) >= 1
<1>1. <<p, d>> \in Pointers(ofile[p][d])
  BY DEF Pointers
<1> QED
  BY <1>1, FiniteSets, Members DEF Links

\* A call that holds f is counted.
LEMMA Holding ==
  ASSUME Counting, NEW f, NEW p \in Proc, Has(p, f)
  PROVE  Holds(f) >= 1 /\ \A q \in Proc : Has(q, f) /\ q # p => Holds(f) >= 2
<1>1. \A q \in Proc : Has(q, f) => q \in Held(f)
  BY DEF Held, Has
<1> QED
  BY <1>1, FiniteSets, Members DEF Holds

\* An open file, a pending close and a lookup are each counted for their object.
LEMMA Objects ==
  ASSUME Counting
  PROVE  /\ \A f \in File : Opens(obj[f]) >= 1
         /\ \A p \in Proc : Closings(pend[p]) >= 1 /\ Looks(ino[p]) >= 1
<1>1. \A f \in File : f \in OpenOn(obj[f])
  BY DEF OpenOn
<1>2. \A p \in Proc : p \in Closing(pend[p]) /\ p \in Looking(ino[p])
  BY DEF Closing, Looking
<1> QED
  BY <1>1, <1>2, FiniteSets, Members DEF Opens, Closings, Looks

\* Only one descriptor changes.
OnlyFd(p, d) == \A q \in Proc, e \in Fd : q # p \/ e # d => ofile'[q][e] = ofile[q][e]

\* One descriptor is set, and no other changes.
LEMMA SetsFd ==
  ASSUME NEW p \in Proc, NEW d \in Fd, NEW v \in File \cup {NoFile},
         ofile \in [Proc -> [Fd -> File \cup {NoFile}]], ofile' = [ofile EXCEPT ![p][d] = v]
  PROVE  /\ ofile' \in [Proc -> [Fd -> File \cup {NoFile}]]
         /\ ofile'[p][d] = v /\ OnlyFd(p, d)
  BY DEF OnlyFd

\* At most one descriptor comes to refer, or ceases to refer, to f.
LEMMA PointerMoves ==
  ASSUME Counting, NEW p \in Proc, NEW d \in Fd, NEW f,
         \A q \in Proc, e \in Fd : q # p \/ e # d => (ofile'[q][e] = f <=> ofile[q][e] = f)
  PROVE  Links(f)' = Links(f) + One(ofile'[p][d] = f) - One(ofile[p][d] = f)
<1>1. /\ <<p, d>> \in Pointers(f)' <=> ofile'[p][d] = f
      /\ <<p, d>> \in Pointers(f) <=> ofile[p][d] = f
  BY DEF Pointers
<1>2. \A x : x # <<p, d>> => (x \in Pointers(f) <=> x \in Pointers(f)')
  BY SMT DEF Pointers
<1> QED
  BY <1>1, <1>2, FiniteSets, Differ, SMT DEF Links, One

\* The same for a descriptor that alone changes.
LEMMA SetsPointer ==
  ASSUME Counting, NEW p \in Proc, NEW d \in Fd, OnlyFd(p, d), NEW f \in File
  PROVE  Links(f)' = Links(f) + One(ofile'[p][d] = f) - One(ofile[p][d] = f)
  BY PointerMoves, SMT DEF OnlyFd

\* Nobody but p takes or drops a file.
Alone(p) == \A q \in Proc : q # p => pc'[q] = pc[q] /\ f0'[q] = f0[q] /\ f1'[q] = f1[q]

\* One call takes or releases a file.
LEMMA SetsHeld ==
  ASSUME Counting, NEW p \in Proc, Alone(p), NEW f \in File
  PROVE  Holds(f)' = Holds(f) + One(Has(p, f)') - One(Has(p, f))
<1>1. p \in Held(f)' <=> Has(p, f)'
  BY DEF Held, Has
<1>2. p \in Held(f) <=> Has(p, f)
  BY DEF Held, Has
<1>3. \A x : x # p => (x \in Held(f) <=> x \in Held(f)')
  BY DEF Held, Alone
<1> QED
  BY <1>1, <1>2, <1>3, FiniteSets, Differ, SMT DEF Holds, One

\* At most f becomes, or is no longer, a file of x.
LEMMA SetsObj ==
  ASSUME Counting, NEW f \in File, NEW x, \A g \in File : g # f => (obj'[g] = x <=> obj[g] = x)
  PROVE  Opens(x)' = Opens(x) + One(obj'[f] = x) - One(obj[f] = x)
<1>1. /\ f \in OpenOn(x)' <=> obj'[f] = x
      /\ f \in OpenOn(x) <=> obj[f] = x
      /\ \A g : g # f => (g \in OpenOn(x) <=> g \in OpenOn(x)')
  BY DEF OpenOn
<1> QED
  BY <1>1, FiniteSets, Differ, SMT DEF Opens, One

OnlyPend(p) == \A q \in Proc : q # p => pend'[q] = pend[q]

\* One fileclose() starts or ends the close of an object.
LEMMA SetsPend ==
  ASSUME Counting, NEW p \in Proc, OnlyPend(p), NEW x
  PROVE  Closings(x)' = Closings(x) + One(pend'[p] = x) - One(pend[p] = x)
<1>1. /\ p \in Closing(x)' <=> pend'[p] = x
      /\ p \in Closing(x) <=> pend[p] = x
      /\ \A q : q # p => (q \in Closing(x) <=> q \in Closing(x)')
  BY DEF Closing, OnlyPend
<1> QED
  BY <1>1, FiniteSets, Differ, SMT DEF Closings, One

OnlyIno(p) == \A q \in Proc : q # p => ino'[q] = ino[q]

\* One open() starts or ends its lookup.
LEMMA SetsIno ==
  ASSUME Counting, NEW p \in Proc, OnlyIno(p), NEW x
  PROVE  Looks(x)' = Looks(x) + One(ino'[p] = x) - One(ino[p] = x)
<1>1. /\ p \in Looking(x)' <=> ino'[p] = x
      /\ p \in Looking(x) <=> ino[p] = x
      /\ \A q : q # p => (q \in Looking(x) <=> q \in Looking(x)')
  BY DEF Looking, OnlyIno
<1> QED
  BY <1>1, FiniteSets, Differ, SMT DEF Looks, One

\* What is not a file, an inode or an end of a pipe.
LEMMA Apart == NoFile \notin File /\ None \notin Inode \cup End \cup Proc /\ Inode \cap End = {}
<1>1. NoFile \notin File
  BY SMT DEF NoFile, File
<1> QED
  BY <1>1, FileAssumption DEF End

-----------------------------------------------------------------------------
(* The inductive invariant.                                                *)

\* Where a call may have files, an object or an inode of its own.
Shape ==
  \A p \in Proc :
    /\ pc[p] \in {"dead", "user", "open", "fork"} => f0[p] = NoFile
    /\ pc[p] \notin {"close", "exit"} => f1[p] = NoFile /\ pend[p] = None
    /\ pc[p] \in {"pipe", "ilock", "io"} => f0[p] \in File
    /\ pc[p] \notin {"open", "close"} => ino[p] = None
    /\ f0[p] # NoFile => f0[p] # f1[p]

\* The child of a fork() is nobody else's and does not run yet.
Children ==
  \A p \in Proc :
    /\ pc[p] = "fork" => /\ child[p] \in Proc /\ pc[child[p]] = "dead"
                         /\ \A q \in Proc : child[q] = child[p] => q = p
    /\ pc[p] # "fork" => child[p] = None

Refs == \A f \in File : ref[f] = Links(f) + Holds(f)

Unset == \A f \in File : ref[f] = 0 => obj[f] = None

ObjectRefs ==
  /\ \A i \in Inode : iref[i] = Opens(i) + Closings(i) + Looks(i)
  /\ \A n \in End : Opens(n) + Closings(n) = One(n \in ends)

\* The first file of a pipe() is not set up, and only that call knows it.
Fresh == \A p \in Proc : pc[p] = "pipe" => ref[f0[p]] = 1 /\ obj[f0[p]] = None

\* A reader's own descriptor keeps the file, and the inode, that it uses.
Reads ==
  \A p \in Proc : pc[p] \in {"ilock", "io"} =>
    obj[f0[p]] \in Inode /\ \E d \in Fd : ofile[p][d] = f0[p]

\* Between readi() and the update of f->off nobody moves it.
Locked == \A p \in Proc : pc[p] = "io" => ilk[obj[f0[p]]] = p /\ start[p] = off[f0[p]]

Offsets == off = moved

IInv == /\ TypeOK /\ Shape /\ Children /\ Refs /\ Unset /\ ObjectRefs
        /\ Fresh /\ Reads /\ Locked /\ Offsets

\* The first file of a pipe() is in no descriptor and in no other call.
LEMMA FreshAlone ==
  ASSUME Counting, IInv, NEW q \in Proc, pc[q] = "pipe"
  PROVE  /\ f0[q] \in File
         /\ \A p \in Proc, d \in Fd : ofile[p][d] # f0[q]
         /\ \A p \in Proc : p # q => ~Has(p, f0[q])
<1>1. f0[q] \in File /\ Has(q, f0[q])
  BY DEF IInv, Shape, Has
<1>2. Links(f0[q]) + Holds(f0[q]) = 1
  BY <1>1 DEF IInv, Refs, Fresh
<1>3. Holds(f0[q]) >= 1 /\ \A p \in Proc : Has(p, f0[q]) /\ p # q => Holds(f0[q]) >= 2
  BY <1>1, Holding
<1>4. Links(f0[q]) \in Nat /\ Holds(f0[q]) \in Nat
  BY Counts
<1>5. ASSUME NEW p \in Proc, NEW d \in Fd, ofile[p][d] = f0[q] PROVE FALSE
  <2>1. Links(f0[q]) >= 1
    BY <1>5, Linked
  <2> QED
    BY <1>2, <1>3, <1>4, <2>1, SMT
<1>6. ASSUME NEW p \in Proc, p # q, Has(p, f0[q]) PROVE FALSE
  BY <1>2, <1>3, <1>4, <1>6, SMT
<1> QED
  BY <1>1, <1>5, <1>6

\* A file that is read has a reference, besides those of the calls that close it.
LEMMA ReaderKeeps ==
  ASSUME Counting, IInv, NEW q \in Proc, pc[q] \in {"ilock", "io"}
  PROVE  /\ f0[q] \in File /\ ref[f0[q]] >= 1
         /\ \A p \in Proc : Has(p, f0[q]) => ref[f0[q]] >= 2
<1>1. PICK d \in Fd : ofile[q][d] = f0[q]
  BY DEF IInv, Reads
<1>2. f0[q] \in File
  BY DEF IInv, Shape
<1>3. ref[f0[q]] = Links(f0[q]) + Holds(f0[q])
  BY <1>2 DEF IInv, Refs
<1>4. Links(f0[q]) >= 1
  BY <1>1, Linked
<1>5. Links(f0[q]) \in Nat /\ Holds(f0[q]) \in Nat
  BY Counts
<1>6. ASSUME NEW p \in Proc, Has(p, f0[q]) PROVE Holds(f0[q]) >= 1
  BY <1>6, Holding
<1> QED
  BY <1>2, <1>3, <1>4, <1>5, <1>6, SMT

\* A file in a descriptor or in a call that closes it has a reference.
LEMMA Referred ==
  ASSUME Counting, IInv, NEW f \in File
  PROVE  /\ \A p \in Proc, d \in Fd : ofile[p][d] = f => ref[f] >= 1
         /\ \A p \in Proc : Has(p, f) => ref[f] >= 1
<1>1. ref[f] = Links(f) + Holds(f) /\ Links(f) \in Nat /\ Holds(f) \in Nat
  BY Counts DEF IInv, Refs
<1>2. ASSUME NEW p \in Proc, NEW d \in Fd, ofile[p][d] = f PROVE ref[f] >= 1
  BY <1>1, <1>2, Linked, SMT
<1>3. ASSUME NEW p \in Proc, Has(p, f) PROVE ref[f] >= 1
  BY <1>1, <1>3, Holding, SMT
<1> QED
  BY <1>2, <1>3

-----------------------------------------------------------------------------
(* What a step that leaves its variables alone preserves.                  *)

\* A step that changes no open file, close or lookup keeps the counts of objects right.
LEMMA ObjectsKept ==
  ASSUME ObjectRefs, UNCHANGED <<obj, pend, ino, iref, ends>>
  PROVE  ObjectRefs'
  BY DEF ObjectRefs, Opens, OpenOn, Closings, Closing, Looks, Looking

\* The pointers change with the descriptors only.
LEMMA LinksKept ==
  ASSUME UNCHANGED ofile
  PROVE  \A f \in File : Links(f)' = Links(f)
  BY DEF Links, Pointers

\* The held files change with the calls only.
LEMMA HoldsKept ==
  ASSUME NEW f, \A p \in Proc : Has(p, f)' <=> Has(p, f)
  PROVE  Holds(f)' = Holds(f)
<1>1. Held(f)' = Held(f)
  BY DEF Held, Has
<1> QED
  BY <1>1 DEF Holds

\* A step that leaves descriptors, counts and held files alone keeps the counts right.
LEMMA RefsKept ==
  ASSUME Refs, UNCHANGED <<ref, ofile>>, \A p \in Proc, f \in File : Has(p, f)' <=> Has(p, f)
  PROVE  Refs'
  BY LinksKept, HoldsKept DEF Refs

\* A step that changes nothing.
LEMMA Stutter == IInv /\ UNCHANGED vars => IInv'
<1> SUFFICES ASSUME IInv, UNCHANGED vars PROVE IInv'
  OBVIOUS
<1>1. TypeOK'
  BY DEF IInv, TypeOK, vars, table, calls
<1>2. Shape' /\ Children'
  BY DEF IInv, Shape, Children, vars, calls
<1>3. Refs'
  BY RefsKept DEF IInv, vars, table, calls, Has
<1>4. ObjectRefs'
  BY ObjectsKept DEF IInv, vars, table, calls
<1>5. Unset' /\ Fresh' /\ Offsets'
  BY DEF IInv, Unset, Fresh, Offsets, vars, table, calls
<1>6. Reads' /\ Locked'
  BY DEF IInv, Reads, Locked, vars, table, calls
<1> QED
  BY <1>1, <1>2, <1>3, <1>4, <1>5, <1>6 DEF IInv

-----------------------------------------------------------------------------
(* open and pipe                                                           *)

\* open() looks its inode up.
LEMMA StepOpen == ASSUME Counting, NEW p \in Proc, IInv, sys_open(p) PROVE IInv'
<1>1. TypeOK'
  BY SMT DEF IInv, TypeOK, Pcs, sys_open, Goto, table
<1>2. Shape'
  BY DEF IInv, TypeOK, Shape, sys_open, Goto
<1>3. Children'
  BY SMT DEF IInv, TypeOK, Children, sys_open, Goto
<1>4. Refs'
  BY RefsKept, Apart DEF IInv, TypeOK, Shape, Has, sys_open, Goto, table
<1>5. ObjectRefs'
  <2>1. PICK i \in Inode : ino' = [ino EXCEPT ![p] = i] /\ iref' = [iref EXCEPT ![i] = @ + 1]
    BY DEF sys_open
  <2>2. OnlyIno(p) /\ ino'[p] = i /\ ino[p] = None
    BY <2>1 DEF IInv, TypeOK, Shape, OnlyIno, sys_open
  <2>3. \A x \in Inode : Looks(x)' = Looks(x) + One(i = x)
    BY <2>2, SetsIno, Counts, Apart, SMT DEF One
  <2>4. \A x : Opens(x)' = Opens(x) /\ Closings(x)' = Closings(x)
    BY DEF sys_open, table, Opens, OpenOn, Closings, Closing
  <2>5. UNCHANGED ends /\ iref \in [Inode -> Nat]
    BY DEF sys_open, IInv, TypeOK
  <2> QED
    BY <2>1, <2>3, <2>4, <2>5, Counts, SMT DEF IInv, ObjectRefs, One
<1>6. Unset' /\ Offsets'
  BY DEF IInv, Unset, Offsets, sys_open, table
<1>7. Fresh' /\ Reads' /\ Locked'
  <2>1. Fresh'
    BY DEF IInv, TypeOK, Fresh, sys_open, Goto, table
  <2>2. Reads'
    BY DEF IInv, TypeOK, Reads, sys_open, Goto, table
  <2>3. Locked'
    BY DEF IInv, TypeOK, Locked, sys_open, Goto, table
  <2> QED
    BY <2>1, <2>2, <2>3
<1> QED
  BY <1>1, <1>2, <1>3, <1>4, <1>5, <1>6, <1>7 DEF IInv

\* filealloc() gives a file that nobody refers to.
LEMMA Allocates ==
  ASSUME Counting, IInv, NEW f \in File, filealloc(f)
  PROVE  /\ ref[f] = 0 /\ obj[f] = None /\ ref' = [ref EXCEPT ![f] = 1]
         /\ \A p \in Proc, d \in Fd : ofile[p][d] # f
         /\ \A p \in Proc : ~Has(p, f) /\ (pc[p] \in {"ilock", "io"} => f0[p] # f)
<1>1. ref[f] = 0 /\ obj[f] = None /\ ref' = [ref EXCEPT ![f] = 1]
  BY DEF filealloc, First, Slots, IInv, Unset
<1> QED
  BY <1>1, Referred, ReaderKeeps, SMT

\* A call takes the file that filealloc() gives it.
LEMMA RefsTaken ==
  ASSUME Counting, IInv, NEW p \in Proc, Alone(p), NEW f \in File, filealloc(f), UNCHANGED ofile,
         \A g \in File : Has(p, g)' <=> Has(p, g) \/ g = f
  PROVE  Refs'
<1>1. ~Has(p, f) /\ ref[f] = 0 /\ ref' = [ref EXCEPT ![f] = 1]
  BY Allocates
<1>2. \A g \in File : Holds(g)' = Holds(g) + One(g = f)
  BY <1>1, SetsHeld, Counts, SMT DEF One
<1> QED
  BY <1>1, <1>2, LinksKept, Counts, SMT DEF IInv, TypeOK, Refs, One

\* fdalloc() sets a descriptor that was free, and no other.
LEMMA Fdallocs ==
  ASSUME IInv, NEW p \in Proc, NEW d \in Fd, NEW f \in File, fdalloc(p, d, f)
  PROVE  /\ ofile' \in [Proc -> [Fd -> File \cup {NoFile}]]
         /\ ofile[p][d] = NoFile /\ ofile'[p][d] = f /\ OnlyFd(p, d)
  BY SetsFd DEF fdalloc, First, FreeFds, IInv, TypeOK

\* open() fails, runs out of descriptors, or returns one for a new file.
LEMMA StepOpenFile == ASSUME Counting, NEW p \in Proc, IInv, sys_open_file(p) PROVE IInv'
<1>0. /\ pc[p] = "open" /\ f0[p] = NoFile /\ f1[p] = NoFile
      /\ UNCHANGED <<f1, pend, child, iref, ends, ilk, start>>
  BY DEF sys_open_file, IInv, Shape
<1>1. CASE Slots = {} /\ Goto(p, "close") /\ UNCHANGED <<table, ofile, f0, ino, moved>>
  <2>1. TypeOK' /\ Unset' /\ Offsets'
    BY <1>0, <1>1 DEF IInv, TypeOK, Pcs, Unset, Offsets, Goto, table
  <2>2. Shape' /\ Children'
    <3>1. Shape'
      BY <1>0, <1>1 DEF IInv, TypeOK, Shape, Goto
    <3>2. Children'
      BY <1>0, <1>1 DEF IInv, TypeOK, Children, Goto
    <3> QED
      BY <3>1, <3>2
  <2>3. Refs'
    BY <1>0, <1>1, RefsKept, Apart, SMT DEF IInv, TypeOK, Has, Goto, table
  <2>4. ObjectRefs'
    BY <1>0, <1>1, ObjectsKept DEF IInv, table
  <2>5. Fresh' /\ Reads' /\ Locked'
    <3>1. Fresh'
      BY <1>0, <1>1 DEF IInv, TypeOK, Fresh, Goto, table
    <3>2. Reads'
      BY <1>0, <1>1 DEF IInv, TypeOK, Reads, Goto, table
    <3>3. Locked'
      BY <1>0, <1>1 DEF IInv, TypeOK, Locked, Goto, table
    <3> QED
      BY <3>1, <3>2, <3>3
  <2> QED
    BY <2>1, <2>2, <2>3, <2>4, <2>5 DEF IInv
<1>2. ASSUME NEW f \in File, filealloc(f), f0' = [f0 EXCEPT ![p] = f],
             Goto(p, "close"), UNCHANGED <<obj, off, ofile, ino, moved>>
      PROVE  IInv'
  <2>0. /\ ref[f] = 0 /\ obj[f] = None /\ ref' = [ref EXCEPT ![f] = 1]
        /\ \A q \in Proc : ~Has(q, f)
    BY <1>2, Allocates
  <2>1. TypeOK' /\ Unset' /\ Offsets'
    BY <1>0, <1>2, <2>0 DEF IInv, TypeOK, Pcs, Unset, Offsets, Goto
  <2>2. Shape' /\ Children'
    <3>1. Shape'
      BY <1>0, <1>2, Apart DEF IInv, TypeOK, Shape, Goto
    <3>2. Children'
      BY <1>0, <1>2, Apart, SMT DEF IInv, TypeOK, Children, Goto
    <3> QED
      BY <3>1, <3>2
  <2>3. Refs'
    <3>1. Alone(p) /\ \A g \in File : Has(p, g)' <=> Has(p, g) \/ g = f
      BY <1>0, <1>2, Apart DEF IInv, TypeOK, Alone, Has, Goto
    <3> QED
      BY <1>0, <1>2, <3>1, RefsTaken
  <2>4. ObjectRefs'
    BY <1>0, <1>2, ObjectsKept DEF IInv
  <2>5. Fresh' /\ Reads' /\ Locked'
    <3>1. Fresh'
      BY <1>0, <1>2, <2>0 DEF IInv, TypeOK, Shape, Fresh, Has, Goto
    <3>2. Reads'
      BY <1>0, <1>2, <2>0 DEF IInv, TypeOK, Shape, Reads, Has, Goto
    <3>3. Locked'
      BY <1>0, <1>2, <2>0 DEF IInv, TypeOK, Shape, Locked, Has, Goto
    <3> QED
      BY <3>1, <3>2, <3>3
  <2> QED
    BY <2>1, <2>2, <2>3, <2>4, <2>5 DEF IInv
<1>3. ASSUME NEW f \in File, NEW d \in Fd, filealloc(f), fdalloc(p, d, f),
             obj' = [obj EXCEPT ![f] = ino[p]],
             off' = [off EXCEPT ![f] = 0] /\ moved' = [moved EXCEPT ![f] = 0],
             ino' = [ino EXCEPT ![p] = None], Goto(p, "user"), UNCHANGED f0
      PROVE  IInv'
  <2>0. /\ ref[f] = 0 /\ obj[f] = None /\ ref' = [ref EXCEPT ![f] = 1]
        /\ \A q \in Proc : ~Has(q, f) /\ (pc[q] \in {"ilock", "io"} => f0[q] # f)
    BY <1>3, Allocates
  <2>1. /\ ofile' \in [Proc -> [Fd -> File \cup {NoFile}]]
        /\ ofile[p][d] = NoFile /\ ofile'[p][d] = f /\ OnlyFd(p, d)
    BY <1>3, Fdallocs
  <2>2. TypeOK'
    <3>1. ref' \in [File -> Nat] /\ obj' \in [File -> Inode \cup End \cup {None}]
      BY <1>3, <2>0 DEF IInv, TypeOK
    <3>2. off' \in [File -> 0..MAXOFF] /\ moved' \in [File -> 0..MAXOFF]
      BY <1>3, FileAssumption, SMT DEF IInv, TypeOK
    <3>3. pc' \in [Proc -> Pcs] /\ ino' \in [Proc -> Inode \cup {None}]
      BY <1>3 DEF IInv, TypeOK, Pcs, Goto
    <3> QED
      BY <1>0, <1>3, <2>1, <3>1, <3>2, <3>3 DEF IInv, TypeOK
  <2>3. Shape' /\ Children'
    <3>1. Shape'
      BY <1>0, <1>3 DEF IInv, TypeOK, Shape, Goto
    <3>2. Children'
      BY <1>0, <1>3 DEF IInv, TypeOK, Children, Goto
    <3> QED
      BY <3>1, <3>2
  <2>4. Refs'
    <3>1. \A q \in Proc, g \in File : Has(q, g)' <=> Has(q, g)
      BY <1>0, <1>3, Apart DEF IInv, TypeOK, Has, Goto
    <3>2. \A g \in File : Links(g)' = Links(g) + One(g = f)
      BY <2>1, SetsPointer, Counts, Apart, SMT DEF One
    <3>3. \A g \in File : Holds(g)' = Holds(g)
      BY <3>1, HoldsKept
    <3> QED
      BY <2>0, <3>2, <3>3, Counts, SMT DEF IInv, TypeOK, Refs, One
  <2>5. ObjectRefs'
    <3>1. obj'[f] = ino[p] /\ \A g \in File : g # f => obj'[g] = obj[g]
      BY <1>3 DEF IInv, TypeOK
    <3>2. \A x \in Inode \cup End : Opens(x)' = Opens(x) + One(ino[p] = x)
      BY <2>0, <3>1, SetsObj, Counts, Apart, SMT DEF One, End
    <3>3. OnlyIno(p) /\ ino'[p] = None
      BY <1>3 DEF IInv, TypeOK, OnlyIno
    <3>4. \A x \in Inode : Looks(x)' = Looks(x) - One(ino[p] = x)
      BY <3>3, SetsIno, Counts, Apart, SMT DEF One
    <3>5. \A x : Closings(x)' = Closings(x)
      BY <1>0 DEF Closings, Closing
    <3>6. \A x \in End : ino[p] # x
      BY Apart DEF IInv, TypeOK, End
    <3> QED
      BY <1>0, <3>2, <3>4, <3>5, <3>6, Counts, SMT DEF IInv, ObjectRefs, One
  <2>6. Unset' /\ Offsets'
    <3>1. Unset'
      BY <1>3, <2>0, SMT DEF IInv, TypeOK, Unset
    <3>2. Offsets'
      BY <1>3, <2>0 DEF IInv, TypeOK, Offsets
    <3> QED
      BY <3>1, <3>2
  <2>7. Fresh'
    BY <1>0, <1>3, <2>0 DEF IInv, TypeOK, Shape, Fresh, Has, Goto
  <2>8. Reads'
    <3> SUFFICES ASSUME NEW q \in Proc, pc'[q] \in {"ilock", "io"}
                 PROVE  obj'[f0'[q]] \in Inode /\ \E e \in Fd : ofile'[q][e] = f0'[q]
      BY DEF Reads
    <3>1. q # p /\ pc[q] \in {"ilock", "io"} /\ f0'[q] = f0[q]
      BY <1>3 DEF IInv, TypeOK, Goto
    <3>2. obj'[f0[q]] \in Inode
      BY <1>3, <2>0, <3>1 DEF IInv, TypeOK, Shape, Reads
    <3> QED
      BY <2>1, <3>1, <3>2 DEF IInv, Reads, OnlyFd
  <2>9. Locked'
    BY <1>0, <1>3, <2>0 DEF IInv, TypeOK, Shape, Locked, Goto
  <2> QED
    BY <2>2, <2>3, <2>4, <2>5, <2>6, <2>7, <2>8, <2>9 DEF IInv
<1> QED
  BY <1>1, <1>2, <1>3 DEF sys_open_file

\* pipe() allocates its first file, or fails.
LEMMA StepPipe == ASSUME Counting, NEW p \in Proc, IInv, sys_pipe(p) PROVE IInv'
<1>0. /\ pc[p] = "user" /\ f0[p] = NoFile /\ f1[p] = NoFile /\ Goto(p, "pipe")
      /\ UNCHANGED <<obj, off, ofile, f1, pend, ino, child, iref, ends, ilk, start, moved>>
  BY DEF sys_pipe, IInv, Shape
<1>1. PICK f \in File : filealloc(f) /\ f0' = [f0 EXCEPT ![p] = f]
  BY DEF sys_pipe
<1>2. /\ ref[f] = 0 /\ obj[f] = None /\ ref' = [ref EXCEPT ![f] = 1]
      /\ \A q \in Proc : ~Has(q, f)
  BY <1>1, Allocates
<1>3. TypeOK' /\ Unset' /\ Offsets'
  BY <1>0, <1>1, <1>2 DEF IInv, TypeOK, Pcs, Unset, Offsets, Goto
<1>4. Shape' /\ Children'
  <2>1. Shape'
    BY <1>0, <1>1, Apart DEF IInv, TypeOK, Shape, Goto
  <2>2. Children'
    BY <1>0, <1>1, Apart, SMT DEF IInv, TypeOK, Children, Goto
  <2> QED
    BY <2>1, <2>2
<1>5. Refs'
  <2>1. Alone(p) /\ \A g \in File : Has(p, g)' <=> Has(p, g) \/ g = f
    BY <1>0, <1>1, Apart DEF IInv, TypeOK, Alone, Has, Goto
  <2> QED
    BY <1>0, <1>1, <2>1, RefsTaken
<1>6. ObjectRefs'
  BY <1>0, ObjectsKept DEF IInv
<1>7. Fresh'
  BY <1>0, <1>1, <1>2 DEF IInv, TypeOK, Shape, Fresh, Has, Goto
<1>8. Reads' /\ Locked'
  <2>1. Reads'
    BY <1>0, <1>1 DEF IInv, TypeOK, Reads, Goto
  <2>2. Locked'
    BY <1>0, <1>1 DEF IInv, TypeOK, Locked, Goto
  <2> QED
    BY <2>1, <2>2
<1> QED
  BY <1>3, <1>4, <1>5, <1>6, <1>7, <1>8 DEF IInv

\* pipealloc() fails after the first file, which is closed again.
LEMMA StepPipeBad == ASSUME Counting, NEW p \in Proc, IInv, pipealloc_bad(p) PROVE IInv'
<1>0. /\ pc[p] = "pipe" /\ f1[p] = NoFile /\ Goto(p, "close")
      /\ UNCHANGED <<obj, off, ofile, f0, pend, ino, child, iref, ends, ilk, start, moved>>
  BY DEF pipealloc_bad, IInv, Shape
<1>1. Offsets' /\ Children'
  <2>1. Offsets'
    BY <1>0 DEF IInv, TypeOK, Offsets, Goto
  <2>2. Children'
    BY <1>0 DEF IInv, TypeOK, Children, Goto
  <2> QED
    BY <2>1, <2>2
<1>2. ObjectRefs'
  BY <1>0, ObjectsKept DEF IInv
<1>3. Reads' /\ Locked'
  <2>1. Reads'
    BY <1>0 DEF IInv, TypeOK, Reads, Goto
  <2>2. Locked'
    BY <1>0 DEF IInv, TypeOK, Locked, Goto
  <2> QED
    BY <2>1, <2>2
<1>4. CASE UNCHANGED <<ref, f1>>
  <2>1. TypeOK' /\ Shape' /\ Unset' /\ Fresh'
    BY <1>0, <1>4 DEF IInv, TypeOK, Pcs, Shape, Unset, Fresh, Goto
  <2>2. Refs'
    BY <1>0, <1>4, RefsKept DEF IInv, TypeOK, Has, Goto
  <2> QED
    BY <1>1, <1>2, <1>3, <2>1, <2>2 DEF IInv
<1>5. ASSUME NEW f \in File, filealloc(f), f1' = [f1 EXCEPT ![p] = f] PROVE IInv'
  <2>0. /\ ref[f] = 0 /\ obj[f] = None /\ ref' = [ref EXCEPT ![f] = 1]
        /\ \A q \in Proc : ~Has(q, f)
    BY <1>5, Allocates
  <2>1. TypeOK' /\ Unset'
    BY <1>0, <1>5, <2>0 DEF IInv, TypeOK, Pcs, Unset, Goto
  <2>2. Shape'
    BY <1>0, <1>5, <2>0, Apart, SMT DEF IInv, TypeOK, Shape, Has, Goto
  <2>3. Refs'
    <3>1. Alone(p) /\ \A g \in File : Has(p, g)' <=> Has(p, g) \/ g = f
      BY <1>0, <1>5, Apart DEF IInv, TypeOK, Alone, Has, Goto
    <3> QED
      BY <1>0, <1>5, <3>1, RefsTaken
  <2>4. Fresh'
    BY <1>0, <1>5, <2>0 DEF IInv, TypeOK, Shape, Fresh, Has, Goto
  <2> QED
    BY <1>1, <1>2, <1>3, <2>1, <2>2, <2>3, <2>4 DEF IInv
<1> QED
  BY <1>4, <1>5 DEF pipealloc_bad

\* Both files of a new pipe are set up, and nothing else.
LEMMA Piped ==
  ASSUME Counting, NEW p \in Proc, IInv, pc[p] = "pipe", NEW f \in File, filealloc(f), NEW k \in Page,
         NewPipe(p, f, k)
  PROVE  /\ f0[p] \in File /\ f0[p] # f /\ obj[f0[p]] = None /\ ref[f0[p]] = 1
         /\ obj' \in [File -> Inode \cup End \cup {None}]
         /\ obj'[f0[p]] = <<"r", k>> /\ obj'[f] = <<"w", k>>
         /\ \A g \in File \ {f0[p], f} : obj'[g] = obj[g]
         /\ <<"r", k>> \in End \ ends /\ <<"w", k>> \in End \ ends
<1>1. ref[f] = 0 /\ f0[p] \in File /\ obj[f0[p]] = None /\ ref[f0[p]] = 1
  BY Allocates DEF IInv, Shape, Fresh
<1>2. <<"r", k>> \in End \ ends /\ <<"w", k>> \in End \ ends
  BY DEF NewPipe, End
<1>3. obj \in [File -> Inode \cup End \cup {None}] /\ f0[p] # f
  BY <1>1, SMT DEF IInv, TypeOK
<1>4. obj' = [obj EXCEPT ![f0[p]] = <<"r", k>>, ![f] = <<"w", k>>]
  BY DEF NewPipe
<1> QED
  BY <1>1, <1>2, <1>3, <1>4

\* Both ends of the new pipe are referred to by one file each.
LEMMA PipeObjects ==
  ASSUME Counting, NEW p \in Proc, IInv, pc[p] = "pipe", NEW f \in File, filealloc(f), NEW k \in Page,
         NewPipe(p, f, k), UNCHANGED <<pend, ino, iref>>
  PROVE  ObjectRefs'
<1> DEFINE r == <<"r", k>>
           w == <<"w", k>>
<1>0. r # w
  OBVIOUS
<1>1. /\ f0[p] \in File /\ f0[p] # f /\ obj[f0[p]] = None /\ obj'[f0[p]] = r /\ obj'[f] = w
      /\ \A g \in File \ {f0[p], f} : obj'[g] = obj[g]
      /\ r \in End \ ends /\ w \in End \ ends
  BY Piped, SMT
<1>2. obj[f] = None /\ ends' = ends \cup {r, w}
  BY Allocates DEF NewPipe
<1>3. None \notin Inode \cup End /\ Inode \cap End = {}
  BY Apart DEF End
<1> HIDE DEF r, w
<1>4. \A x \in Inode \cup End : x # w => Opens(x)' = Opens(x) + One(x = r)
  BY <1>1, <1>2, <1>3, SetsObj, Counts, SMT DEF One
<1>5. Opens(w)' = Opens(w) + 1
  BY <1>0, <1>1, <1>2, <1>3, SetsObj, Counts, SMT DEF One
<1>6. \A x : Closings(x)' = Closings(x) /\ Looks(x)' = Looks(x)
  BY DEF Closings, Closing, Looks, Looking
<1> QED
  BY <1>0, <1>1, <1>2, <1>3, <1>4, <1>5, <1>6, Counts, SMT DEF IInv, ObjectRefs, One

\* pipe() returns two descriptors, or closes both files when there are too few.
LEMMA StepPipealloc == ASSUME Counting, NEW p \in Proc, IInv, pipealloc(p) PROVE IInv'
<1>0. /\ pc[p] = "pipe" /\ f1[p] = NoFile
      /\ UNCHANGED <<off, pend, ino, child, iref, ilk, start, moved>>
  BY DEF pipealloc, IInv, Shape
<1>1. PICK f \in File, k \in Page :
        /\ filealloc(f) /\ NewPipe(p, f, k)
        /\ \/ /\ f1' = [f1 EXCEPT ![p] = f] /\ Goto(p, "close") /\ UNCHANGED <<f0, ofile>>
           \/ /\ f0' = [f0 EXCEPT ![p] = NoFile] /\ Goto(p, "user") /\ UNCHANGED f1
              /\ \E d, e \in Fd :
                   /\ First(d, FreeFds(p)) /\ First(e, FreeFds(p) \ {d})
                   /\ ofile' = [ofile EXCEPT ![p][d] = f0[p], ![p][e] = f]
  BY DEF pipealloc
<1>2. /\ ref[f] = 0 /\ obj[f] = None /\ ref' = [ref EXCEPT ![f] = 1]
      /\ \A q \in Proc : ~Has(q, f)
  BY <1>1, Allocates
<1>3. /\ f0[p] \in File /\ f0[p] # f /\ obj[f0[p]] = None /\ ref[f0[p]] = 1
      /\ obj' \in [File -> Inode \cup End \cup {None}]
      /\ \A g \in File \ {f0[p], f} : obj'[g] = obj[g]
  <2>1. pc[p] = "pipe" /\ filealloc(f) /\ NewPipe(p, f, k)
    BY <1>0, <1>1
  <2> QED
    BY <2>1, Piped
<1>4. ObjectRefs'
  BY <1>0, <1>1, PipeObjects
<1>5. Offsets' /\ Unset'
  <2>1. Offsets'
    BY <1>0, <1>2, <1>3 DEF IInv, TypeOK, Offsets
  <2>2. Unset'
    BY <1>0, <1>2, <1>3, SMT DEF IInv, TypeOK, Unset
  <2> QED
    BY <2>1, <2>2
<1>6. ref' \in [File -> Nat] /\ ends' \subseteq End
  <2>1. <<"r", k>> \in End /\ <<"w", k>> \in End /\ ends' = ends \cup {<<"r", k>>, <<"w", k>>}
    BY <1>0, <1>1, Piped DEF NewPipe
  <2> QED
    BY <1>2, <2>1 DEF IInv, TypeOK
<1>7. ASSUME NEW q \in Proc, pc[q] = "pipe", q # p PROVE f0[q] \in File \ {f0[p], f} /\ ref[f0[q]] = 1
  <2>1. f0[q] \in File /\ ref[f0[q]] = 1 /\ ~Has(p, f0[q])
    BY <1>7, FreshAlone DEF IInv, Fresh
  <2> QED
    BY <1>0, <1>2, <2>1, SMT DEF Has
<1>8. ASSUME NEW q \in Proc, pc[q] \in {"ilock", "io"} PROVE f0[q] \in File /\ obj'[f0[q]] = obj[f0[q]]
  BY <1>2, <1>3, <1>8, Apart, SMT DEF IInv, Shape, Reads
<1>9. CASE f1' = [f1 EXCEPT ![p] = f] /\ Goto(p, "close") /\ UNCHANGED <<f0, ofile>>
  <2>1. TypeOK'
    BY <1>0, <1>3, <1>6, <1>9 DEF IInv, TypeOK, Pcs, Goto
  <2>2. Shape' /\ Children'
    <3>1. Shape'
      BY <1>0, <1>3, <1>9, Apart, SMT DEF IInv, TypeOK, Shape, Goto
    <3>2. Children'
      BY <1>0, <1>3, <1>9, Apart, SMT DEF IInv, TypeOK, Children, Goto
    <3> QED
      BY <3>1, <3>2
  <2>3. Refs'
    <3>1. Alone(p) /\ \A g \in File : Has(p, g)' <=> Has(p, g) \/ g = f
      BY <1>0, <1>9, Apart DEF IInv, TypeOK, Alone, Has, Goto
    <3> QED
      BY <1>1, <1>9, <3>1, RefsTaken
  <2>4. Fresh'
    BY <1>0, <1>2, <1>3, <1>7, <1>9 DEF IInv, TypeOK, Fresh, Goto
  <2>5. Reads' /\ Locked'
    <3>1. Reads'
      BY <1>0, <1>8, <1>9 DEF IInv, TypeOK, Reads, Goto
    <3>2. Locked'
      BY <1>0, <1>8, <1>9 DEF IInv, TypeOK, Locked, Goto
    <3> QED
      BY <3>1, <3>2
  <2> QED
    BY <1>4, <1>5, <2>1, <2>2, <2>3, <2>4, <2>5 DEF IInv
<1>10. ASSUME f0' = [f0 EXCEPT ![p] = NoFile], Goto(p, "user"), UNCHANGED f1,
              NEW d \in Fd, NEW e \in Fd, First(d, FreeFds(p)), First(e, FreeFds(p) \ {d}),
              ofile' = [ofile EXCEPT ![p][d] = f0[p], ![p][e] = f]
       PROVE  IInv'
  <2>1. /\ ofile' \in [Proc -> [Fd -> File \cup {NoFile}]]
        /\ d # e /\ ofile[p][d] = NoFile /\ ofile[p][e] = NoFile
        /\ ofile'[p][d] = f0[p] /\ ofile'[p][e] = f
        /\ \A q \in Proc, c \in Fd : q # p \/ c \notin {d, e} => ofile'[q][c] = ofile[q][c]
    BY <1>3, <1>10 DEF First, FreeFds, IInv, TypeOK
  <2>2. TypeOK'
    BY <1>0, <1>3, <1>6, <1>10, <2>1 DEF IInv, TypeOK, Pcs, Goto
  <2>3. Shape' /\ Children'
    <3>1. Shape'
      BY <1>0, <1>10 DEF IInv, TypeOK, Shape, Goto
    <3>2. Children'
      BY <1>0, <1>10 DEF IInv, TypeOK, Children, Goto
    <3> QED
      BY <3>1, <3>2
  <2>4. Refs'
    <3>1. Alone(p) /\ \A g \in File : ~Has(p, g)' /\ (Has(p, g) <=> g = f0[p])
      BY <1>0, <1>3, <1>10, Apart, SMT DEF IInv, TypeOK, Alone, Has, Goto
    <3>2. \A g \in File : Holds(g)' = Holds(g) - One(g = f0[p])
      BY <3>1, SetsHeld, Counts, SMT DEF One
    <3>3. \A g \in File : g # f => Links(g)' = Links(g) + One(g = f0[p])
      BY <2>1, PointerMoves, Counts, Apart, SMT DEF One
    <3>4. Links(f)' = Links(f) + 1
      BY <1>3, <2>1, PointerMoves, Counts, Apart, SMT DEF One
    <3>5. \A g \in File : ref'[g] = ref[g] + One(g = f)
      BY <1>2, SMT DEF IInv, TypeOK, One
    <3> QED
      BY <1>3, <3>2, <3>3, <3>4, <3>5, Counts, SMT DEF IInv, Refs, One
  <2>5. Fresh'
    BY <1>0, <1>2, <1>7, <1>3, <1>10 DEF IInv, TypeOK, Fresh, Goto
  <2>6. Reads'
    <3> SUFFICES ASSUME NEW q \in Proc, pc'[q] \in {"ilock", "io"}
                 PROVE  obj'[f0'[q]] \in Inode /\ \E c \in Fd : ofile'[q][c] = f0'[q]
      BY DEF Reads
    <3>1. q # p /\ pc[q] \in {"ilock", "io"} /\ f0'[q] = f0[q]
      BY <1>10 DEF IInv, TypeOK, Goto
    <3> QED
      BY <1>8, <2>1, <3>1, SMT DEF IInv, Reads
  <2>7. Locked'
    BY <1>0, <1>8, <1>10, SMT DEF IInv, TypeOK, Locked, Goto
  <2> QED
    BY <1>4, <1>5, <2>2, <2>3, <2>4, <2>5, <2>6, <2>7 DEF IInv
<1> QED
  BY <1>1, <1>9, <1>10

-----------------------------------------------------------------------------
(* dup and fork                                                            *)

\* filedup(), and a descriptor that was free refers to the file.
LEMMA Duplicates ==
  ASSUME Counting, IInv, NEW a \in Proc, NEW c \in Fd, ofile[a][c] # NoFile,
         NEW b \in Proc, NEW d \in Fd, ofile[b][d] = NoFile,
         ofile' = [ofile EXCEPT ![b][d] = ofile[a][c]], ref' = [ref EXCEPT ![ofile[a][c]] = @ + 1],
         UNCHANGED <<obj, off, calls, iref, ends, ilk, start, moved>>
  PROVE  IInv'
<1> DEFINE v == ofile[a][c]
<1>1. v \in File
  BY SMT DEF IInv, TypeOK
<1>2. /\ ofile' \in [Proc -> [Fd -> File \cup {NoFile}]]
      /\ ofile'[b][d] = v /\ OnlyFd(b, d)
  BY <1>1, SetsFd DEF IInv, TypeOK
<1>3. ref' \in [File -> Nat] /\ \A g \in File : ref'[g] = ref[g] + One(g = v)
  BY <1>1, SMT DEF IInv, TypeOK, One
<1>4. \A q \in Proc : pc[q] = "pipe" => f0[q] \in File /\ f0[q] # v
  BY FreshAlone
<1> HIDE DEF v
<1>5. TypeOK'
  BY <1>2, <1>3 DEF IInv, TypeOK, calls
<1>6. Shape' /\ Children' /\ Offsets'
  <2>1. Shape'
    BY DEF IInv, Shape, calls
  <2>2. Children'
    BY DEF IInv, Children, calls
  <2>3. Offsets'
    BY DEF IInv, Offsets, calls
  <2> QED
    BY <2>1, <2>2, <2>3
<1>7. Refs'
  <2>1. \A g \in File : Links(g)' = Links(g) + One(g = v)
    BY <1>2, SetsPointer, Counts, Apart, SMT DEF One
  <2>2. \A g \in File : Holds(g)' = Holds(g)
    BY HoldsKept DEF Has, calls
  <2> QED
    BY <1>3, <2>1, <2>2, Counts, SMT DEF IInv, Refs, One
<1>8. ObjectRefs'
  BY ObjectsKept DEF IInv, calls
<1>9. Unset'
  BY <1>3, SMT DEF IInv, TypeOK, Unset, One
<1>10. Fresh'
  BY <1>3, <1>4, SMT DEF IInv, Fresh, One, calls
<1>11. Reads'
  BY <1>2, Apart, SMT DEF IInv, Shape, Reads, OnlyFd, calls
<1>12. Locked'
  BY DEF IInv, Locked, calls
<1> QED
  BY <1>5, <1>6, <1>7, <1>8, <1>9, <1>10, <1>11, <1>12 DEF IInv

\* dup() shares a file.
LEMMA StepDup == ASSUME Counting, NEW p \in Proc, IInv, sys_dup(p) PROVE IInv'
<1>1. PICK d \in OpenFds(p), e \in Fd : /\ fdalloc(p, e, ofile[p][d])
                                        /\ ref' = [ref EXCEPT ![ofile[p][d]] = @ + 1]
  BY DEF sys_dup
<1>2. d \in Fd /\ ofile[p][d] # NoFile /\ ofile[p][e] = NoFile
  BY <1>1 DEF OpenFds, FreeFds, fdalloc, First
<1> QED
  BY <1>1, <1>2, Duplicates DEF sys_dup, fdalloc

\* fork() shares one more file with the child.
LEMMA StepFiledup == ASSUME Counting, NEW p \in Proc, IInv, filedup(p) PROVE IInv'
<1>1. child[p] \in Proc
  BY DEF filedup, IInv, Children
<1>2. PICK d \in Fd : /\ First(d, {e \in OpenFds(p) : ofile[child[p]][e] = NoFile})
                      /\ ofile' = [ofile EXCEPT ![child[p]][d] = ofile[p][d]]
                      /\ ref' = [ref EXCEPT ![ofile[p][d]] = @ + 1]
  BY DEF filedup
<1>3. ofile[p][d] # NoFile /\ ofile[child[p]][d] = NoFile
  BY <1>2 DEF OpenFds, FreeFds, First
<1> QED
  BY <1>1, <1>2, <1>3, Duplicates DEF filedup

\* fork() begins.
LEMMA StepFork == ASSUME Counting, NEW p \in Proc, IInv, fork(p) PROVE IInv'
<1>1. TypeOK' /\ Unset' /\ Offsets'
  <2>1. TypeOK'
    BY SMT DEF IInv, TypeOK, Pcs, fork, Goto, table
  <2>2. Unset'
    BY DEF IInv, Pcs, Unset, fork, Goto, table
  <2>3. Offsets'
    BY DEF IInv, Pcs, Offsets, fork, Goto, table
  <2> QED
    BY <2>1, <2>2, <2>3
<1>2. Shape'
  BY DEF IInv, TypeOK, Shape, fork, Goto
<1>3. Children'
  BY Apart, SMT DEF IInv, TypeOK, Children, fork, Goto
<1>4. Refs'
  BY RefsKept, Apart DEF IInv, TypeOK, Has, fork, Goto, table, Shape
<1>5. ObjectRefs'
  BY ObjectsKept DEF IInv, fork, table
<1>6. Fresh' /\ Reads' /\ Locked'
  <2>1. Fresh'
    BY DEF IInv, TypeOK, Fresh, fork, Goto, table
  <2>2. Reads'
    BY DEF IInv, TypeOK, Reads, fork, Goto, table
  <2>3. Locked'
    BY DEF IInv, TypeOK, Locked, fork, Goto, table
  <2> QED
    BY <2>1, <2>2, <2>3
<1> QED
  BY <1>1, <1>2, <1>3, <1>4, <1>5, <1>6 DEF IInv

\* The child runs.
LEMMA StepForkRun == ASSUME Counting, NEW p \in Proc, IInv, fork_run(p) PROVE IInv'
<1>0. /\ pc[p] = "fork" /\ child[p] \in Proc /\ pc[child[p]] = "dead"
      /\ pc' \in [Proc -> Pcs] /\ pc'[p] = "user" /\ pc'[child[p]] = "user"
      /\ \A q \in Proc \ {p, child[p]} : pc'[q] = pc[q]
  BY DEF fork_run, IInv, TypeOK, Pcs, Children
<1>1. TypeOK' /\ Unset' /\ Offsets'
  BY <1>0 DEF IInv, TypeOK, Unset, Offsets, fork_run, table
<1>2. Shape'
  BY <1>0 DEF IInv, Shape, fork_run
<1>3. Children'
  BY <1>0, Apart, SMT DEF IInv, TypeOK, Children, fork_run
<1>4. Refs'
  <2>1. \A q \in Proc, f \in File : Has(q, f)' <=> Has(q, f)
    BY <1>0, Apart DEF IInv, Shape, Has, fork_run
  <2> QED
    BY <2>1, RefsKept DEF IInv, fork_run, table
<1>5. ObjectRefs'
  BY ObjectsKept DEF IInv, fork_run, table
<1>6. Fresh' /\ Reads' /\ Locked'
  <2>1. Fresh'
    BY <1>0 DEF IInv, Fresh, fork_run, table
  <2>2. Reads'
    BY <1>0 DEF IInv, Reads, fork_run, table
  <2>3. Locked'
    BY <1>0 DEF IInv, Locked, fork_run, table
  <2> QED
    BY <2>1, <2>2, <2>3
<1> QED
  BY <1>1, <1>2, <1>3, <1>4, <1>5, <1>6 DEF IInv

-----------------------------------------------------------------------------
(* close and exit                                                          *)

\* A call takes the file of a descriptor, which it clears, to close it.
LEMMA Unlinks ==
  ASSUME Counting, IInv, NEW p \in Proc, NEW d \in OpenFds(p), pc[p] \in {"user", "exit"}, Done(p),
         f0' = [f0 EXCEPT ![p] = ofile[p][d]], ofile' = [ofile EXCEPT ![p][d] = NoFile],
         NEW l \in {"close", "exit"}, Goto(p, l),
         UNCHANGED <<table, f1, pend, ino, child, iref, ends, ilk, start, moved>>
  PROVE  IInv'
<1> DEFINE v == ofile[p][d]
<1>1. d \in Fd /\ v \in File /\ f0'[p] = v
  BY SMT DEF OpenFds, FreeFds, IInv, TypeOK
<1>2. /\ ofile' \in [Proc -> [Fd -> File \cup {NoFile}]]
      /\ ofile'[p][d] = NoFile /\ OnlyFd(p, d)
  BY <1>1, SetsFd DEF IInv, TypeOK
<1>3. TypeOK'
  BY <1>1, <1>2 DEF IInv, TypeOK, Pcs, Goto, table
<1>4. Shape' /\ Children'
  <2>1. Shape'
    BY <1>1, Apart, SMT DEF IInv, TypeOK, Shape, Goto, Done
  <2>2. Children'
    BY <1>1, Apart, SMT DEF IInv, TypeOK, Children, Goto, Done
  <2> QED
    BY <2>1, <2>2
<1>5. Refs'
  <2>1. Alone(p)
    BY DEF IInv, TypeOK, Alone, Goto
  <2>2. \A g \in File : ~Has(p, g) /\ (Has(p, g)' <=> g = v)
    BY <1>1, Apart, SMT DEF IInv, TypeOK, Has, Goto, Done
  <2>3. \A g \in File : Links(g)' = Links(g) - One(g = v)
    BY <1>1, <1>2, SetsPointer, Counts, Apart, SMT DEF One
  <2> HIDE DEF v
  <2>4. \A g \in File : Holds(g)' = Holds(g) + One(g = v)
    BY <2>1, <2>2, SetsHeld, Counts, SMT DEF One
  <2> QED
    BY <2>3, <2>4, Counts, SMT DEF IInv, Refs, One, table
<1>6. ObjectRefs'
  BY ObjectsKept DEF IInv, table
<1>7. Unset' /\ Offsets'
  BY DEF IInv, Unset, Offsets, table
<1>8. Fresh'
  BY DEF IInv, TypeOK, Fresh, Goto, table
<1>9. Reads'
  <2> SUFFICES ASSUME NEW q \in Proc, pc'[q] \in {"ilock", "io"}
               PROVE  obj'[f0'[q]] \in Inode /\ \E e \in Fd : ofile'[q][e] = f0'[q]
    BY DEF Reads
  <2>1. q # p /\ pc[q] \in {"ilock", "io"} /\ f0'[q] = f0[q]
    BY DEF IInv, TypeOK, Goto
  <2> QED
    BY <1>2, <2>1, SMT DEF IInv, Reads, OnlyFd, table
<1>10. Locked'
  BY DEF IInv, TypeOK, Locked, Goto, table
<1> QED
  BY <1>3, <1>4, <1>5, <1>6, <1>7, <1>8, <1>9, <1>10 DEF IInv

\* close() clears the descriptor and goes on to fileclose().
LEMMA StepClose == ASSUME Counting, NEW p \in Proc, IInv, sys_close(p) PROVE IInv'
<1>1. Done(p) /\ pc[p] = "user"
  BY DEF sys_close, IInv, Shape, Done
<1> QED
  BY <1>1, Unlinks DEF sys_close

\* exit() does so for one descriptor after another.
LEMMA StepExitFile == ASSUME Counting, NEW p \in Proc, IInv, exit_file(p) PROVE IInv'
<1>1. Goto(p, "exit")
  BY DEF exit_file, Goto, IInv, TypeOK
<1> QED
  BY <1>1, Unlinks DEF exit_file, First

\* exit() begins.
LEMMA StepExit == ASSUME Counting, NEW p \in Proc, IInv, exit(p) PROVE IInv'
<1>1. TypeOK' /\ Unset' /\ Offsets'
  BY DEF IInv, TypeOK, Pcs, Unset, Offsets, exit, Goto, table
<1>2. Shape' /\ Children'
  <2>1. Shape'
    BY DEF IInv, TypeOK, Shape, exit, Goto
  <2>2. Children'
    BY DEF IInv, TypeOK, Children, exit, Goto
  <2> QED
    BY <2>1, <2>2
<1>3. Refs'
  BY RefsKept, Apart, SMT DEF IInv, TypeOK, Has, exit, Goto, table, Shape
<1>4. ObjectRefs'
  BY ObjectsKept DEF IInv, exit, table
<1>5. Fresh' /\ Reads' /\ Locked'
  <2>1. Fresh'
    BY DEF IInv, TypeOK, Fresh, exit, Goto, table
  <2>2. Reads'
    BY DEF IInv, TypeOK, Reads, exit, Goto, table
  <2>3. Locked'
    BY DEF IInv, TypeOK, Locked, exit, Goto, table
  <2> QED
    BY <2>1, <2>2, <2>3
<1> QED
  BY <1>1, <1>2, <1>3, <1>4, <1>5 DEF IInv

\* fileclose() is called with a file that the call has, and has no longer then.
LEMMA Releases ==
  ASSUME Counting, IInv, NEW p \in Proc, NEW f \in File, Closes(p, f), UNCHANGED pc
  PROVE  /\ f0' \in [Proc -> File \cup {NoFile}] /\ f1' \in [Proc -> File \cup {NoFile}]
         /\ f0'[p] \in {f0[p], NoFile} /\ f1'[p] \in {f1[p], NoFile} /\ Alone(p)
         /\ \A g \in File : Has(p, g)' <=> Has(p, g) /\ g # f
         /\ Has(p, f)
<1>1. /\ f0 \in [Proc -> File \cup {NoFile}] /\ f1 \in [Proc -> File \cup {NoFile}]
      /\ f0[p] # NoFile => f0[p] # f1[p]
      /\ pc[p] \in {"close", "exit"} /\ NoFile \notin File
  BY Apart DEF IInv, TypeOK, Shape, Closes
<1>2. \/ f0[p] = f /\ f0' = [f0 EXCEPT ![p] = NoFile] /\ UNCHANGED f1
      \/ f0[p] = NoFile /\ f1[p] = f /\ f1' = [f1 EXCEPT ![p] = NoFile] /\ UNCHANGED f0
  BY DEF Closes
<1>3. Alone(p) /\ f0'[p] \in {f0[p], NoFile} /\ f1'[p] \in {f1[p], NoFile}
  BY <1>1, <1>2 DEF Alone
<1>4. Has(p, f) /\ \A g \in File : Has(p, g)' <=> Has(p, g) /\ g # f
  BY <1>1, <1>2, SMT DEF Has
<1> QED
  BY <1>1, <1>2, <1>3, <1>4

\* fileclose() drops a reference, and with the last one frees the slot.
LEMMA StepFileclose == ASSUME Counting, NEW p \in Proc, IInv, fileclose(p) PROVE IInv'
<1>0. UNCHANGED <<off, ofile, pc, ino, child, iref, ends, ilk, start, moved>>
  BY DEF fileclose
<1>1. PICK f \in File :
        /\ Closes(p, f)
        /\ ref' = [ref EXCEPT ![f] = @ - 1]
        /\ \/ ref[f] > 1 /\ UNCHANGED <<obj, pend>>
           \/ /\ ref[f] = 1
              /\ pend' = [pend EXCEPT ![p] = obj[f]]
              /\ obj' = [obj EXCEPT ![f] = None]
  BY DEF fileclose
<1>2. pc[p] \in {"close", "exit"} /\ pend[p] = None
  BY <1>1 DEF Closes
<1>3. /\ f0' \in [Proc -> File \cup {NoFile}] /\ f1' \in [Proc -> File \cup {NoFile}]
      /\ f0'[p] \in {f0[p], NoFile} /\ f1'[p] \in {f1[p], NoFile} /\ Alone(p)
      /\ \A g \in File : Has(p, g)' <=> Has(p, g) /\ g # f
      /\ Has(p, f)
  BY <1>0, <1>1, Releases
<1>4. ref' \in [File -> Nat] /\ \A g \in File : ref'[g] = ref[g] - One(g = f)
  BY <1>1, SMT DEF IInv, TypeOK, One
<1>5. TypeOK'
  <2>1. obj' \in [File -> Inode \cup End \cup {None}] /\ pend' \in [Proc -> Inode \cup End \cup {None}]
    BY <1>1 DEF IInv, TypeOK
  <2> QED
    BY <1>0, <1>3, <1>4, <2>1 DEF IInv, TypeOK
<1>6. Shape'
  <2>1. \A q \in Proc : q # p => f0'[q] = f0[q] /\ f1'[q] = f1[q] /\ pend'[q] = pend[q]
    BY <1>1, <1>3 DEF IInv, TypeOK, Alone
  <2> QED
    BY <1>0, <1>2, <1>3, <2>1, SMT DEF IInv, Shape
<1>7. Children' /\ Offsets'
  BY <1>0 DEF IInv, Children, Offsets
<1>8. Refs'
  <2>1. \A g \in File : Holds(g)' = Holds(g) - One(g = f)
    BY <1>3, SetsHeld, Counts, SMT DEF One
  <2> QED
    BY <1>0, <1>4, <2>1, LinksKept, Counts, SMT DEF IInv, Refs, One
<1>9. Unset'
  BY <1>1, <1>4, SMT DEF IInv, TypeOK, Unset, One
<1>10. ObjectRefs'
  <2>1. CASE UNCHANGED <<obj, pend>>
    BY <1>0, <2>1, ObjectsKept DEF IInv
  <2>2. CASE pend' = [pend EXCEPT ![p] = obj[f]] /\ obj' = [obj EXCEPT ![f] = None]
    <3>1. /\ obj'[f] = None /\ \A g \in File : g # f => obj'[g] = obj[g]
          /\ pend'[p] = obj[f] /\ OnlyPend(p)
      BY <2>2 DEF IInv, TypeOK, OnlyPend
    <3>2. None \notin Inode \cup End
      BY Apart DEF End
    <3>3. \A x \in Inode \cup End : Opens(x)' = Opens(x) - One(obj[f] = x)
      BY <3>1, <3>2, SetsObj, Counts, SMT DEF One
    <3>4. \A x \in Inode \cup End : Closings(x)' = Closings(x) + One(obj[f] = x)
      BY <1>2, <3>1, <3>2, SetsPend, Counts, SMT DEF One
    <3>5. \A x : Looks(x)' = Looks(x)
      BY <1>0 DEF Looks, Looking
    <3> QED
      BY <1>0, <3>3, <3>4, <3>5, Counts, SMT DEF IInv, ObjectRefs, One
  <2> QED
    BY <1>1, <2>1, <2>2
<1>11. \A q \in Proc : q # p => f0'[q] = f0[q]
  BY <1>3 DEF Alone
<1>12. Fresh'
  <2>1. \A q \in Proc : pc[q] = "pipe" => q # p /\ f0[q] \in File /\ f0[q] # f
    BY <1>2, <1>3, FreshAlone
  <2>2. \A g \in File : g # f => obj'[g] = obj[g]
    BY <1>1 DEF IInv, TypeOK
  <2> QED
    BY <1>0, <1>4, <1>11, <2>1, <2>2, SMT DEF IInv, Fresh, One
<1>13. \A q \in Proc : pc[q] \in {"ilock", "io"} => f0'[q] = f0[q] /\ obj'[f0[q]] = obj[f0[q]]
  <2>1. \A q \in Proc : pc[q] \in {"ilock", "io"} => q # p /\ f0[q] \in File /\ (f0[q] = f => ref[f] >= 2)
    BY <1>2, <1>3, ReaderKeeps
  <2> QED
    BY <1>1, <1>11, <2>1, SMT DEF IInv, TypeOK
<1>14. Reads' /\ Locked'
  <2>0. Reads /\ Locked /\ UNCHANGED <<pc, ofile, ilk, start, off>>
    BY <1>0 DEF IInv
  <2>1. Reads'
    BY <1>13, <2>0, SMT DEF Reads
  <2>2. Locked'
    BY <1>13, <2>0, SMT DEF Locked
  <2> QED
    BY <2>1, <2>2
<1> QED
  BY <1>5, <1>6, <1>7, <1>8, <1>9, <1>10, <1>12, <1>14 DEF IInv

\* After ftable.lock: pipeclose() or iput() of the object the slot had.
LEMMA StepObject == ASSUME Counting, NEW p \in Proc, IInv, fileclose_object(p) PROVE IInv'
<1>0. /\ pend[p] # None /\ pend'[p] = None /\ OnlyPend(p)
      /\ UNCHANGED <<table, ofile, pc, f0, f1, ino, child, ilk, start, moved>>
      /\ pend' \in [Proc -> Inode \cup End \cup {None}]
  BY DEF fileclose_object, IInv, TypeOK, OnlyPend
<1>1. /\ None \notin Inode \cup End /\ Inode \cap End = {}
      /\ iref \in [Inode -> Nat] /\ ends \subseteq End
  BY Apart DEF End, IInv, TypeOK
<1>2. \A x \in Inode \cup End : Closings(x)' = Closings(x) - One(pend[p] = x)
  BY <1>0, <1>1, SetsPend, Counts, SMT DEF One
<1>3. \A x : Opens(x)' = Opens(x) /\ Looks(x)' = Looks(x)
  BY <1>0 DEF Opens, OpenOn, Looks, Looking, table
<1>4. Closings(pend[p]) >= 1
  BY Objects
<1>5. iref' \in [Inode -> Nat] /\ ends' \subseteq End /\ ObjectRefs'
  <2>1. CASE pend[p] \in Inode /\ iref' = [iref EXCEPT ![pend[p]] = @ - 1] /\ UNCHANGED ends
    <3>1. iref[pend[p]] >= 1
      BY <1>4, <2>1, Counts, SMT DEF IInv, ObjectRefs
    <3>2. iref' \in [Inode -> Nat] /\ \A i \in Inode : iref'[i] = iref[i] - One(pend[p] = i)
      BY <1>1, <2>1, <3>1, SMT DEF One
    <3> QED
      BY <1>1, <1>2, <1>3, <2>1, <3>2, Counts, SMT DEF IInv, ObjectRefs, One
  <2>2. CASE pend[p] \in End /\ ends' = ends \ {pend[p]} /\ UNCHANGED iref
    <3>1. pend[p] \in ends /\ \A n \in End : One(n \in ends') = One(n \in ends) - One(pend[p] = n)
      BY <1>4, <2>2, Counts, SMT DEF IInv, ObjectRefs, One
    <3> QED
      BY <1>1, <1>2, <1>3, <2>2, <3>1, Counts, SMT DEF IInv, ObjectRefs, One
  <2> QED
    BY <2>1, <2>2 DEF fileclose_object
<1>6. TypeOK'
  BY <1>0, <1>5 DEF IInv, TypeOK, table
<1>7. Shape' /\ Children' /\ Unset' /\ Offsets'
  <2>1. Shape'
    BY <1>0 DEF IInv, Shape, OnlyPend, table
  <2>2. Children'
    BY <1>0, SMT DEF IInv, Children, OnlyPend, table
  <2>3. Unset'
    BY <1>0 DEF IInv, Unset, OnlyPend, table
  <2>4. Offsets'
    BY <1>0 DEF IInv, Offsets, OnlyPend, table
  <2> QED
    BY <2>1, <2>2, <2>3, <2>4
<1>8. Refs'
  BY <1>0, RefsKept DEF IInv, Has, table
<1>9. Fresh' /\ Reads' /\ Locked'
  <2>1. Fresh'
    BY <1>0 DEF IInv, Fresh, table
  <2>2. Reads'
    BY <1>0 DEF IInv, Reads, table
  <2>3. Locked'
    BY <1>0 DEF IInv, Locked, table
  <2> QED
    BY <2>1, <2>2, <2>3
<1> QED
  BY <1>5, <1>6, <1>7, <1>8, <1>9 DEF IInv

\* The call that closed its files returns.
LEMMA StepClosed == ASSUME Counting, NEW p \in Proc, IInv, closed(p) PROVE IInv'
<1>0. /\ pc[p] \in {"close", "exit"} /\ Done(p)
      /\ pc' \in [Proc -> Pcs] /\ pc'[p] \in {"dead", "user"}
      /\ \A q \in Proc : q # p => pc'[q] = pc[q]
      /\ ino' \in [Proc -> Inode \cup {None}] /\ ino'[p] = None /\ OnlyIno(p)
      /\ UNCHANGED <<table, ofile, f0, f1, pend, child, ends, ilk, start, moved>>
  BY DEF closed, Goto, IInv, TypeOK, Pcs, OnlyIno
<1>1. ObjectRefs' /\ iref' \in [Inode -> Nat]
  <2>1. \A x \in Inode : Looks(x)' = Looks(x) - One(ino[p] = x)
    <3>1. OnlyIno(p) /\ ino'[p] = None
      BY <1>0
    <3> QED
      BY <3>1, SetsIno, Counts, Apart, SMT DEF One
  <2>2. \A x : Opens(x)' = Opens(x) /\ Closings(x)' = Closings(x)
    BY <1>0 DEF Opens, OpenOn, Closings, Closing, table
  <2>3. \A i \in Inode : ino[p] = i => iref[i] >= 1
    BY Objects, Counts, SMT DEF IInv, ObjectRefs
  <2>4. iref' \in [Inode -> Nat] /\ \A i \in Inode : iref'[i] = iref[i] - One(ino[p] = i)
    BY <2>3, SMT DEF closed, IInv, TypeOK, One
  <2> QED
    BY <1>0, <2>1, <2>2, <2>4, Counts, SMT DEF IInv, ObjectRefs, One
<1>2. TypeOK' /\ Unset' /\ Offsets'
  BY <1>0, <1>1 DEF IInv, TypeOK, Unset, Offsets, table
<1>3. Shape' /\ Children'
  <2>1. Shape'
    BY <1>0 DEF IInv, Shape, Done, OnlyIno
  <2>2. Children'
    BY <1>0, SMT DEF IInv, Children, Done, OnlyIno
  <2> QED
    BY <2>1, <2>2
<1>4. Refs'
  BY <1>0, RefsKept, Apart DEF IInv, Has, Done, table
<1>5. Fresh' /\ Reads' /\ Locked'
  <2>1. Fresh'
    BY <1>0 DEF IInv, Fresh, table
  <2>2. Reads'
    BY <1>0 DEF IInv, Reads, table
  <2>3. Locked'
    BY <1>0 DEF IInv, Locked, table
  <2> QED
    BY <2>1, <2>2, <2>3
<1> QED
  BY <1>1, <1>2, <1>3, <1>4, <1>5 DEF IInv

-----------------------------------------------------------------------------
(* read and write                                                          *)

\* read() or write() picks a descriptor.
LEMMA StepFileread == ASSUME Counting, NEW p \in Proc, IInv, fileread(p) PROVE IInv'
<1>0. /\ pc[p] = "user" /\ f0[p] = NoFile /\ f1[p] = NoFile /\ Goto(p, "ilock")
      /\ UNCHANGED <<table, ofile, f1, pend, ino, child, iref, ends, ilk, start, moved>>
  BY DEF fileread, IInv, Shape
<1>1. PICK d \in Fd : /\ ofile[p][d] \in File /\ obj[ofile[p][d]] \in Inode
                      /\ f0' = [f0 EXCEPT ![p] = ofile[p][d]]
  <2>1. \A d \in OpenFds(p) : d \in Fd /\ ofile[p][d] \in File
    BY SMT DEF OpenFds, FreeFds, IInv, TypeOK
  <2> QED
    BY <2>1 DEF fileread
<1>2. TypeOK' /\ Unset' /\ Offsets'
  BY <1>0, <1>1 DEF IInv, TypeOK, Pcs, Unset, Offsets, Goto, table
<1>3. Shape' /\ Children'
  <2>1. Shape'
    BY <1>0, <1>1, Apart DEF IInv, TypeOK, Shape, Goto
  <2>2. Children'
    BY <1>0, <1>1, Apart, SMT DEF IInv, TypeOK, Children, Goto
  <2> QED
    BY <2>1, <2>2
<1>4. Refs'
  <2>1. \A q \in Proc, f \in File : Has(q, f)' <=> Has(q, f)
    BY <1>0, <1>1 DEF IInv, TypeOK, Has, Goto
  <2> QED
    BY <1>0, <2>1, RefsKept DEF IInv, table
<1>5. ObjectRefs'
  BY <1>0, ObjectsKept DEF IInv, table
<1>6. Fresh' /\ Reads' /\ Locked'
  <2>1. Fresh'
    BY <1>0, <1>1 DEF IInv, TypeOK, Fresh, Goto, table
  <2>2. Reads'
    BY <1>0, <1>1 DEF IInv, TypeOK, Reads, Goto, table
  <2>3. Locked'
    BY <1>0, <1>1 DEF IInv, TypeOK, Locked, Goto, table
  <2> QED
    BY <2>1, <2>2, <2>3
<1> QED
  BY <1>2, <1>3, <1>4, <1>5, <1>6 DEF IInv

\* It gets the lock of the inode and the offset.
LEMMA StepIlock == ASSUME Counting, NEW p \in Proc, IInv, fileread_ilock(p) PROVE IInv'
<1>0. /\ pc[p] = "ilock" /\ f0[p] \in File /\ obj[f0[p]] \in Inode /\ Goto(p, "io")
      /\ ilk[obj[f0[p]]] = None /\ ilk' = [ilk EXCEPT ![obj[f0[p]]] = p]
      /\ start' = [start EXCEPT ![p] = off[f0[p]]]
      /\ UNCHANGED <<table, ofile, f0, f1, pend, ino, child, iref, ends, moved>>
  BY DEF fileread_ilock, IInv, Shape, Reads
<1>1. TypeOK' /\ Unset' /\ Offsets'
  BY <1>0 DEF IInv, TypeOK, Pcs, Unset, Offsets, Goto, table
<1>2. Shape' /\ Children'
  <2>1. Shape'
    BY <1>0 DEF IInv, TypeOK, Shape, Goto
  <2>2. Children'
    BY <1>0, SMT DEF IInv, TypeOK, Children, Goto
  <2> QED
    BY <2>1, <2>2
<1>3. Refs'
  BY <1>0, RefsKept DEF IInv, TypeOK, Has, Goto, table
<1>4. ObjectRefs'
  BY <1>0, ObjectsKept DEF IInv, table
<1>5. Fresh' /\ Reads'
  BY <1>0 DEF IInv, TypeOK, Fresh, Reads, Goto, table
<1>6. Locked'
  BY <1>0, Apart, SMT DEF IInv, TypeOK, Reads, Locked, Goto, table
<1> QED
  BY <1>1, <1>2, <1>3, <1>4, <1>5, <1>6 DEF IInv

\* It moves f->off and unlocks the inode.
LEMMA StepOff == ASSUME Counting, NEW p \in Proc, IInv, fileread_off(p) PROVE IInv'
<1>0. /\ pc[p] = "io" /\ f0[p] \in File /\ f1[p] = NoFile /\ obj[f0[p]] \in Inode
      /\ ilk[obj[f0[p]]] = p /\ start[p] = off[f0[p]] /\ off = moved /\ Goto(p, "user")
      /\ ilk' = [ilk EXCEPT ![obj[f0[p]]] = None] /\ f0' = [f0 EXCEPT ![p] = NoFile]
      /\ start' = [start EXCEPT ![p] = 0]
      /\ UNCHANGED <<ref, obj, ofile, f1, pend, ino, child, iref, ends>>
  BY DEF fileread_off, IInv, Shape, Reads, Locked, Offsets
<1>1. /\ off' \in [File -> 0..MAXOFF] /\ moved' = off'
      /\ \A f \in File : f # f0[p] => off'[f] = off[f]
  <2>1. off \in [File -> 0..MAXOFF] /\ MAXOFF \in Nat
    BY FileAssumption, SMT DEF IInv, TypeOK
  <2>2. CASE /\ start[p] < MAXOFF /\ off' = [off EXCEPT ![f0[p]] = @ + 1]
             /\ moved' = [moved EXCEPT ![f0[p]] = @ + 1]
    BY <1>0, <2>1, <2>2, SMT
  <2>3. CASE UNCHANGED <<off, moved>>
    BY <1>0, <2>1, <2>3
  <2> QED
    BY <2>2, <2>3 DEF fileread_off
<1>2. TypeOK' /\ Unset' /\ Offsets'
  <2>1. TypeOK'
    <3>1. pc' \in [Proc -> Pcs] /\ ilk' \in [Inode -> Proc \cup {None}]
      BY <1>0 DEF IInv, TypeOK, Pcs, Goto
    <3>2. f0' \in [Proc -> File \cup {NoFile}]
      BY <1>0 DEF IInv, TypeOK
    <3>3. start' \in [Proc -> 0..MAXOFF]
      BY <1>0, FileAssumption, SMT DEF IInv, TypeOK
    <3> QED
      BY <1>0, <1>1, <3>1, <3>2, <3>3 DEF IInv, TypeOK
  <2>2. Unset'
    BY <1>0, <1>1, Apart DEF IInv, Pcs, Unset, Goto
  <2>3. Offsets'
    BY <1>0, <1>1, Apart DEF IInv, Pcs, Offsets, Goto
  <2> QED
    BY <2>1, <2>2, <2>3
<1>3. Shape' /\ Children'
  <2>1. Shape'
    BY <1>0 DEF IInv, TypeOK, Shape, Goto
  <2>2. Children'
    BY <1>0, SMT DEF IInv, TypeOK, Children, Goto
  <2> QED
    BY <2>1, <2>2
<1>4. Refs'
  BY <1>0, RefsKept, Apart DEF IInv, TypeOK, Has, Goto
<1>5. ObjectRefs'
  BY <1>0, ObjectsKept DEF IInv
<1>6. Fresh' /\ Reads'
  BY <1>0 DEF IInv, TypeOK, Fresh, Reads, Goto
<1>7. Locked'
  BY <1>0, <1>1, SMT DEF IInv, TypeOK, Shape, Reads, Locked, Goto
<1> QED
  BY <1>2, <1>3, <1>4, <1>5, <1>6, <1>7 DEF IInv

-----------------------------------------------------------------------------
(* The theorems.                                                           *)

\* From here on the library's theorems about finite sets are in scope.
INSTANCE FiniteSetTheorems

\* What the steps assume of finite sets is so.
LEMMA Counted == Counting
<1>1. IsFiniteSet(Proc) /\ IsFiniteSet(Fd) /\ IsFiniteSet(File)
  BY FileAssumption, FS_Interval, SMT DEF Fd, File
<1>2. IsFiniteSet(Proc \X Fd)
  BY <1>1, FS_Product
<1> QED
  BY <1>1, <1>2, FS_Subset, FS_CardinalityType, FS_AddElement, FS_RemoveElement DEF Counting

\* The invariant holds when the first process starts.
LEMMA InitInv == Init => IInv
<1> SUFFICES ASSUME Init PROVE IInv
  OBVIOUS
<1>1. TypeOK
  BY FileAssumption, SMT DEF Init, TypeOK, Pcs, NoFile
<1>2. Shape /\ Children /\ Unset /\ Fresh /\ Reads /\ Locked /\ Offsets
  BY DEF Init, Shape, Children, Unset, Fresh, Reads, Locked, Offsets
<1>3. Refs
  <2>1. \A f \in File : Pointers(f) = {} /\ Held(f) = {}
    BY Apart DEF Init, Pointers, Held
  <2>2. \A f \in File : Links(f) = 0 /\ Holds(f) = 0
    BY <2>1, FS_EmptySet DEF Links, Holds
  <2> QED
    BY <2>2, SMT DEF Init, Refs
<1>4. ObjectRefs
  <2>1. None \notin Inode \cup End
    BY FileAssumption DEF End
  <2>2. \A x \in Inode \cup End : OpenOn(x) = {} /\ Closing(x) = {} /\ Looking(x) = {}
    BY <2>1 DEF Init, OpenOn, Closing, Looking
  <2>3. \A x \in Inode \cup End : Opens(x) = 0 /\ Closings(x) = 0 /\ Looks(x) = 0
    BY <2>2, FS_EmptySet DEF Opens, Closings, Looks
  <2> QED
    BY <2>3, SMT DEF Init, ObjectRefs, One
<1> QED
  BY <1>1, <1>2, <1>3, <1>4 DEF IInv

\* Every step keeps it.
LEMMA StepInv == IInv /\ [Next]_vars => IInv'
<1> SUFFICES ASSUME IInv, [Next]_vars PROVE IInv'
  OBVIOUS
<1> USE Counted
<1>1. CASE UNCHANGED vars
  BY <1>1, Stutter
<1>2. ASSUME NEW p \in Proc,
             sys_open(p) \/ sys_open_file(p) \/ sys_pipe(p) \/ pipealloc_bad(p) \/ pipealloc(p)
      PROVE  IInv'
  BY <1>2, StepOpen, StepOpenFile, StepPipe, StepPipeBad, StepPipealloc
<1>3. ASSUME NEW p \in Proc, sys_dup(p) \/ fork(p) \/ filedup(p) \/ fork_run(p) PROVE IInv'
  BY <1>3, StepDup, StepFork, StepFiledup, StepForkRun
<1>4. ASSUME NEW p \in Proc,
             \/ sys_close(p) \/ exit(p) \/ exit_file(p)
             \/ fileclose(p) \/ fileclose_object(p) \/ closed(p)
      PROVE  IInv'
  BY <1>4, StepClose, StepExit, StepExitFile, StepFileclose, StepObject, StepClosed
<1>5. ASSUME NEW p \in Proc, fileread(p) \/ fileread_ilock(p) \/ fileread_off(p) PROVE IInv'
  BY <1>5, StepFileread, StepIlock, StepOff
<1> QED
  BY <1>1, <1>2, <1>3, <1>4, <1>5 DEF Next

\* So it always holds.
LEMMA Invariant == Spec => []IInv
  BY InitInv, StepInv, PTL DEF Spec

\* Whatever the numbers of processes, slots, descriptors, inodes and pages,
\* f->ref counts the descriptors and the calls that refer to a file, an inode
\* has one reference per open file, lookup and pending iput(), and an end of a
\* pipe is open exactly as long as one file or one fileclose() refers to it.
THEOREM FileRefsExact == Spec => []RefsExact
<1>1. IInv => RefsExact
  BY DEF IInv, RefsExact, Shape, Refs, Unset, ObjectRefs, Links, Holds, Opens, Closings, Looks, One
<1> QED
  BY <1>1, Invariant, PTL

\* Processes that share a file transfer every chunk of it once: between ilock()
\* and the update of f->off in fileread() and filewrite() nobody else moves it.
THEOREM FileChunksOnce == Spec => []ChunksOnce
<1>1. IInv => ChunksOnce
  BY DEF IInv, ChunksOnce, Shape, Locked, Offsets
<1> QED
  BY <1>1, Invariant, PTL
=============================================================================
