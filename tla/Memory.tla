------------------------------ MODULE Memory -------------------------------
(***************************************************************************)
(* Physical pages (kalloc.c), address spaces (vm.c) and the calls of       *)
(* proc.c, exec.c and sysproc.c that build, copy, resize and discard them. *)
(* A call is one step: the pages it takes are its own until it ends, and   *)
(* two calls meet only in kalloc(), whose lock orders them.  Every loop    *)
(* may run out of pages at any page.                                       *)
(***************************************************************************)
EXTENDS Integers, Sequences, FiniteSets, FiniteSetsExt, SequencesExt, TLC, Bind

CONSTANTS
  NPAGE,      \* pages kinit1() and kinit2() put on the free list
  PGSIZE,     \* bytes in a page
  NPTENTRIES, \* pages a page table maps
  TOP,        \* user pages below KERNBASE
  NKTAB,      \* page tables for the kernel's half of an address space
  NPROC,      \* slots of the process table
  Program,    \* what exec() finds: a sequence of segments
  ArgBytes,   \* sizes of the arguments pushed by exec()
  Increment,  \* arguments of sbrk()
  ShmSize     \* arguments of shm_alloc()

ASSUME MemoryAssumption ==
  /\ {NPAGE, PGSIZE, NPTENTRIES, TOP, NKTAB, NPROC} \subseteq Nat \ {0}
  /\ Increment \subseteq Int /\ ShmSize \subseteq Int /\ ArgBytes \subseteq Nat

Page == 1..NPAGE
KERNBASE == TOP * PGSIZE
Slot == 1..NPROC
initproc == 1
Vpn == 0..TOP - 1
Pdx == 0..(TOP - 1) \div NPTENTRIES

\* Page numbers of [from, to) after PGROUNDUP(from).
Pages(from, to) == {v \in Vpn : v >= (from + PGSIZE - 1) \div PGSIZE /\ v * PGSIZE < to}

Ascending(vs) == [k \in 1..Cardinality(vs) |-> Min(vs) + k - 1]
\* An unsigned address: KERNBASE is half of all.
Unsigned(a) == a % (2 * KERNBASE)

VARIABLES
  free,   \* kmem.freelist
  kern,   \* pages the kernel keeps: kpgdir and its tables
  shm,    \* pages shm_alloc() has returned
  ptable, \* state, sz, parent, kstack and address space of each process
  ret,    \* result of the last call: "ok", -1 as "fail", or "panic"
  overrun \* pages whose links, tables or stacks shm_alloc() has cleared (ghost)

memvars == <<free, kern, shm, ptable, ret, overrun>>

\* An address space: its directory, its tables, the pages they map, and the
\* pages without PTE_U.
NoSpace == [dir |-> 0, ktab |-> {}, tab |-> [t \in Pdx |-> 0], pte |-> [v \in Vpn |-> 0],
            guard |-> {}]
Unused == [state |-> "UNUSED", sz |-> 0, parent |-> 0, kstack |-> 0, as |-> NoSpace]

\* The types of the page sets and of the process table.
MemTypeOK ==
  /\ free \subseteq Page /\ kern \subseteq Page /\ shm \subseteq Page
  /\ ret \in {"ok", "fail", "panic"}
  /\ \A i \in Slot :
       LET p == ptable[i]
       IN  /\ p.state \in {"UNUSED", "RUNNABLE", "ZOMBIE"}
           /\ p.sz \in 0..KERNBASE - 1 /\ p.parent \in {0} \cup Slot
           /\ p.kstack \in {0} \cup Page /\ p.as.dir \in {0} \cup Page
           /\ p.as.tab \in [Pdx -> {0} \cup Page] /\ p.as.pte \in [Vpn -> {0} \cup Page]

-----------------------------------------------------------------------------
(* vm.c.  m is what a function works on: the free pages, an address space  *)
(* and how it went.                                                        *)

kalloc(m) == Min(m.free)
Taken(m) == [m EXCEPT !.free = @ \ {kalloc(m)}]
Failed(m) == [m EXCEPT !.ok = "fail"]

\* walkpgdir() with alloc = 1.
walkpgdir(m, v) ==
  LET t == v \div NPTENTRIES
  IN  IF m.as.tab[t] # 0 THEN m
      ELSE IF m.free = {} THEN Failed(m)
      ELSE [Taken(m) EXCEPT !.as.tab[t] = kalloc(m)]

\* mappages() of one page; a mapping that is there already is a panic.
mappages(m, v, page) ==
  Bind(walkpgdir(m, v), LAMBDA w :
    CASE w.ok # "ok" -> w
      [] w.ok = "ok" /\ w.as.pte[v] # 0 -> [w EXCEPT !.ok = "panic"]
      [] OTHER -> [w EXCEPT !.as.pte[v] = page])

\* Mutant of MapNew: the page is lost when there is no page for its table.
MapNew_leak(m0, v) ==
  Bind(m0, LAMBDA m :
    IF m.ok # "ok" THEN m ELSE IF m.free = {} THEN Failed(m)
    ELSE mappages(Taken(m), v, kalloc(m)))

\* The body of the loops of allocuvm() and copyuvm().
MapNew(m0, v) ==
  Bind(m0, LAMBDA m :
    IF m.ok # "ok" THEN m ELSE IF m.free = {} THEN Failed(m)
    ELSE Bind(mappages(Taken(m), v, kalloc(m)), LAMBDA w :
           IF w.ok = "fail" THEN [w EXCEPT !.free = @ \cup {kalloc(m)}] ELSE w))

\* deallocuvm(): pages from newsz up are freed, tables stay.
deallocuvm(m, oldsz, newsz) ==
  LET vs == {v \in Pages(newsz, oldsz) : m.as.pte[v] # 0}
  IN  IF newsz >= oldsz THEN m
      ELSE [m EXCEPT !.free = @ \cup {m.as.pte[v] : v \in vs},
                     !.as.pte = [v \in Vpn |-> IF v \in vs THEN 0 ELSE @[v]],
                     !.as.guard = @ \ vs]

\* Mutant of Undo: what was mapped before memory ran out stays.
Undo_none(m, oldsz, newsz) == m

\* allocuvm() takes back what it mapped.
Undo(m, oldsz, newsz) == deallocuvm(m, newsz, oldsz)

allocuvm(m, oldsz, newsz) ==
  CASE newsz >= KERNBASE -> Failed(m)
    [] newsz < oldsz -> m
    [] OTHER -> Bind(FoldLeft(MapNew, m, Ascending(Pages(oldsz, newsz))), LAMBDA g :
                  IF g.ok = "fail" THEN Undo(g, oldsz, newsz) ELSE g)

\* The size allocuvm() and deallocuvm() return.
Larger(oldsz, newsz) == IF newsz < oldsz THEN oldsz ELSE newsz
Smaller(oldsz, newsz) == IF newsz >= oldsz THEN oldsz ELSE newsz

\* The pages of an address space, and the free pages when freevm() is done.
PagesOf(as) == ({as.dir} \cup as.ktab \cup {as.tab[t] : t \in Pdx} \cup {as.pte[v] : v \in Vpn}) \ {0}
freevm(m) == m.free \cup PagesOf(m.as)

\* setupkvm(); without enough pages for the kernel's tables it gives all back.
setupkvm(pages) ==
  LET ps == {x \in pages : Cardinality({y \in pages : y < x}) < 1 + NKTAB}
      m == [free |-> pages, as |-> NoSpace, ok |-> "ok"]
  IN  IF Cardinality(ps) < 1 + NKTAB THEN Failed(m)
      ELSE [m EXCEPT !.free = @ \ ps, !.as.dir = Min(ps), !.as.ktab = ps \ {Min(ps)}]

\* copyuvm(): panics at a page below sz that is not there.
copyuvm(pages, as, sz) ==
  Bind(setupkvm(pages), LAMBDA d :
    IF d.ok = "fail" THEN d
    ELSE Bind(FoldLeft(MapNew, d, Ascending(Pages(0, sz))), LAMBDA m :
      CASE \E v \in Pages(0, sz) : as.pte[v] = 0 -> [m EXCEPT !.ok = "panic"]
        [] m.ok = "fail" -> [m EXCEPT !.free = freevm(m)]
        [] OTHER -> [m EXCEPT !.as.guard = as.guard \cap Pages(0, sz)]))

\* copyout() of len bytes at va: only pages with PTE_U are written.
copyout(as, va, len) ==
  \A a \in va..va + len - 1 : a >= 0 /\ as.pte[a \div PGSIZE] # 0
                                     /\ a \div PGSIZE \notin as.guard

-----------------------------------------------------------------------------

MemInit ==
  /\ LET k == setupkvm(Page) IN free = k.free /\ kern = PagesOf(k.as)
  /\ shm = {} /\ overrun = {} /\ ptable = [i \in Slot |-> Unused] /\ ret = "ok"

\* inituvm(): a page for the first instructions, at address 0.
inituvm(m) == MapNew(m, 0)

\* userinit(): the first process has one page.
userinit ==
  /\ ptable[initproc].state = "UNUSED"
  /\ \E m \in {inituvm(setupkvm(free \ {Min(free)}))} :
       /\ free' = m.free /\ ret' = m.ok
       /\ ptable' = [ptable EXCEPT ![initproc] = [state |-> "RUNNABLE", sz |-> PGSIZE,
                       parent |-> 0, kstack |-> Min(free), as |-> m.as]]
  /\ UNCHANGED <<kern, shm, overrun>>

\* A process runs user code while its first page is there; without it, it
\* faults and trap() kills it.
Runs(p) == ptable[p].state = "RUNNABLE" /\ ptable[p].as.pte[0] # 0

fork(p) ==
  /\ Runs(p)
  /\ LET slots == {i \in Slot : ptable[i].state = "UNUSED"}
     IN  \/ /\ slots = {} \/ free = {}
            /\ ret' = "fail" /\ UNCHANGED <<free, ptable>>
         \/ /\ slots # {} /\ free # {}
            /\ \E m \in {copyuvm(free \ {Min(free)}, ptable[p].as, ptable[p].sz)} :
                 /\ ret' = m.ok
                 /\ \/ /\ m.ok = "ok"
                       /\ free' = m.free
                       /\ ptable' = [ptable EXCEPT ![Min(slots)] =
                            [state |-> "RUNNABLE", sz |-> ptable[p].sz, parent |-> p,
                             kstack |-> Min(free), as |-> m.as]]
                    \/ /\ m.ok # "ok"
                       /\ free' = m.free \cup {Min(free)} /\ UNCHANGED ptable
  /\ UNCHANGED <<kern, shm, overrun>>

\* sys_sbrk() and growproc().  A size of 0 is taken for a failure, after the
\* pages are gone.
growproc(p, n) ==
  /\ Runs(p) /\ n # 0
  /\ LET sz == ptable[p].sz
         newsz == Unsigned(sz + n)
         m0 == [free |-> free, as |-> ptable[p].as, ok |-> "ok"]
         size == IF n > 0 THEN Larger(sz, newsz) ELSE Smaller(sz, newsz)
     IN  \E m \in {IF n > 0 THEN allocuvm(m0, sz, newsz) ELSE deallocuvm(m0, sz, newsz)} :
           /\ free' = m.free
           /\ ret' = IF m.ok = "ok" /\ size = 0 THEN "fail" ELSE m.ok
           /\ ptable' = [ptable EXCEPT ![p].as = m.as,
                            ![p].sz = IF m.ok = "ok" /\ size # 0 THEN size ELSE @]
  /\ UNCHANGED <<kern, shm, overrun>>

\* loaduvm(): its pages are there, or it panics; the file may be too short.
loaduvm(m, ph) ==
  CASE \E v \in ph.vaddr \div PGSIZE..TOP - 1 : v * PGSIZE < ph.vaddr + ph.filesz /\ m.as.pte[v] = 0
         -> [m EXCEPT !.ok = "panic"]
    [] ph.short -> Failed(m)
    [] OTHER -> m

\* clearpteu()
clearpteu(m, v) ==
  IF m.as.tab[v \div NPTENTRIES] = 0 THEN [m EXCEPT !.ok = "panic"]
  ELSE [m EXCEPT !.as.guard = @ \cup {v}]

\* A segment in exec(): allocated, then refused or loaded.
Segment(m0, ph) ==
  Bind(m0, LAMBDA m :
    IF m.ok # "ok" THEN m
    ELSE IF ph.memsz < ph.filesz \/ Unsigned(ph.vaddr + ph.memsz) < ph.vaddr THEN Failed(m)
    ELSE Bind(allocuvm(m, m.sz, ph.vaddr + ph.memsz), LAMBDA a :
           IF a.ok # "ok" THEN a
           ELSE IF Larger(m.sz, ph.vaddr + ph.memsz) = 0 \/ ph.vaddr % PGSIZE # 0
                THEN Failed(a)
           ELSE loaduvm([a EXCEPT !.sz = Larger(m.sz, ph.vaddr + ph.memsz)], ph)))

\* Two more pages: the lower one loses PTE_U, the upper one is the stack.
Stack(m, low) ==
  Bind(allocuvm(m, low, low + 2 * PGSIZE), LAMBDA a :
    IF m.ok # "ok" THEN m ELSE IF a.ok # "ok" THEN a
    ELSE clearpteu([a EXCEPT !.sz = low + 2 * PGSIZE], low \div PGSIZE))

\* The new image up to the commit; args bytes are copied to the top of the stack.
Image(pages, prog, args) ==
  Bind(FoldLeft(Segment, setupkvm(pages) @@ [sz |-> 0], prog), LAMBDA m :
    Bind(Stack(m, ((m.sz + PGSIZE - 1) \div PGSIZE) * PGSIZE), LAMBDA s :
      IF s.ok = "ok" /\ ~copyout(s.as, s.sz - args, args) THEN Failed(s) ELSE s))

exec(p, prog, args) ==
  /\ Runs(p)
  /\ \E m \in {Image(free, prog, args)} :
       /\ ret' = m.ok
       /\ \/ /\ m.ok = "ok"
             /\ ptable' = [ptable EXCEPT ![p].as = m.as, ![p].sz = m.sz]
             /\ free' = m.free \cup PagesOf(ptable[p].as)
          \/ /\ m.ok # "ok"
             /\ free' = freevm(m) /\ UNCHANGED ptable
  /\ UNCHANGED <<kern, shm, overrun>>

\* exit(): the pages stay until the parent waits; children go to init.
exit(p) ==
  /\ ptable[p].state = "RUNNABLE" /\ p # initproc
  /\ ptable' = [i \in Slot |->
       IF i = p THEN [ptable[i] EXCEPT !.state = "ZOMBIE"]
       ELSE IF ptable[i].parent = p THEN [ptable[i] EXCEPT !.parent = initproc]
       ELSE ptable[i]]
  /\ ret' = "ok" /\ UNCHANGED <<free, kern, shm, overrun>>

\* wait() finds a zombie and frees its kernel stack and its address space.
wait(p) ==
  /\ Runs(p)
  /\ LET zombies == {i \in Slot : ptable[i].parent = p /\ ptable[i].state = "ZOMBIE"}
         z == Min(zombies)
     IN  /\ zombies # {}
         /\ free' = freevm([free |-> free \cup {ptable[z].kstack}, as |-> ptable[z].as])
         /\ ptable' = [ptable EXCEPT ![z] = Unused]
  /\ ret' = "ok" /\ UNCHANGED <<kern, shm, overrun>>

\* Pages where clearing a byte loses no more than data: those mapped for user code
\* and those shm_alloc() has given out.
DataPages ==
  shm \cup UNION {{ptable[i].as.pte[v] : v \in Vpn} : i \in Slot}

\* sys_shm_alloc(): always one page, of which size bytes are cleared; nothing ever gives
\* it back.  With a size above PGSIZE the memset() goes on into the pages after it.
sys_shm_alloc(p, size) ==
  /\ Runs(p)
  /\ \/ /\ size <= 0 \/ free = {}
        /\ ret' = "fail" /\ UNCHANGED <<free, shm, overrun>>
     \/ /\ size > 0 /\ free # {}
        /\ free' = free \ {Min(free)} /\ shm' = shm \cup {Min(free)} /\ ret' = "ok"
        /\ overrun' = (Min(free) + 1..Min(free) + (size - 1) \div PGSIZE) \ DataPages
  /\ UNCHANGED <<kern, ptable>>

\* Once a link, a table or a stack is cleared, or the memset() has left memory, what
\* the kernel does next depends on bytes the model does not have: it stops.
MemNext ==
  /\ overrun = {}
  /\ \/ userinit
     \/ \E p \in Slot :
          \/ fork(p) \/ exit(p) \/ wait(p)
          \/ \E size \in ShmSize : sys_shm_alloc(p, size)
          \/ \E n \in Increment : growproc(p, n)
          \/ \E prog \in Program, args \in ArgBytes : exec(p, prog, args)

-----------------------------------------------------------------------------
(* Properties                                                              *)

\* Mutant of argptr: the end of the block is not looked at.
argptr_start(p, i, size) == size >= 0 /\ Unsigned(i) < ptable[p].sz

\* argptr(): a block the kernel will read or write for the process.
argptr(p, i, size) ==
  size >= 0 /\ Unsigned(i) < ptable[p].sz /\ Unsigned(i) + size <= ptable[p].sz

\* fetchstr(): the bytes the kernel may read for a string at i.
fetchstr(p, i) ==
  IF Unsigned(i) >= ptable[p].sz THEN {} ELSE Unsigned(i)..ptable[p].sz - 1

Live == {i \in Slot : ptable[i].state # "UNUSED"}

\* How many places hold a page: the free list, the kernel, the pages given out by
\* shm_alloc(), and the stacks, directories, tables and mappings of processes.
Holders(pg) ==
  LET B(b) == IF b THEN 1 ELSE 0
      In(i) == LET as == ptable[i].as IN
        B(ptable[i].kstack = pg) + B(as.dir = pg) + B(pg \in as.ktab)
        + Cardinality({t \in Pdx : as.tab[t] = pg}) + Cardinality({v \in Vpn : as.pte[v] = pg})
  IN  B(pg \in free) + B(pg \in kern) + B(pg \in shm) + MapThenSumSet(In, Live)

\* Every page of memory is in exactly one place after every call, whether it ran
\* out of memory half way or not: no page is lost, freed twice or shared, unless
\* shm_alloc() of more than a page cleared the link of a free page, a table or a stack
\* that lies behind the page it gave out.
PagesExact == MemTypeOK /\ (overrun = {} => \A pg \in Page : Holders(pg) = 1)

\* What argptr() and fetchstr() let through is mapped, whatever was grown, shrunk, forked or
\* executed before: the kernel does not fault on an argument.
ArgumentsMapped ==
  \A p \in Slot : Runs(p) =>
    \A i \in -KERNBASE..KERNBASE - 1 :
      LET Mapped_(a) == ptable[p].as.pte[a \div PGSIZE] # 0
      IN  /\ \A a \in fetchstr(p, i) : Mapped_(a)
          /\ \A size \in 0..KERNBASE - Unsigned(i) :
               argptr(p, i, size) => \A a \in Unsigned(i)..Unsigned(i) + size - 1 : Mapped_(a)

\* The memory of a process that can run is all there below sz and nothing is
\* mapped above it, so that copyuvm() meets no hole and no panic of vm.c is
\* reached; and what argptr() lets through is mapped.  The exception is again a table
\* that shm_alloc() has cleared.
MappedToSize ==
  overrun = {} =>
    /\ ret # "panic"
    /\ \A p \in Slot : Runs(p) =>
         \A v \in Vpn : ptable[p].as.pte[v] # 0 <=> v * PGSIZE < ptable[p].sz
    /\ ArgumentsMapped

\* A call that returns -1 leaves the size and the pages of every process as they
\* were; the exception is sbrk() down to nothing, which growproc() calls a
\* failure after the pages are gone.
FailureKeepsImage ==
  [][ret' = "fail" =>
       \A p \in Slot : /\ ptable'[p].sz = ptable[p].sz
                       /\ \/ ptable'[p].as.pte = ptable[p].as.pte
                          \/ ptable'[p].as.pte[0] = 0]_memvars
=============================================================================
