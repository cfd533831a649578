-------------------------------- MODULE Boot --------------------------------
(***************************************************************************)
(* main(): the boot processor sets up the page allocator, starts the other *)
(* processors one by one through a stack pointer at a fixed address, and   *)
(* lets processes run.  The allocator's lock is used from kinit2() on; a   *)
(* kalloc() is the two steps that race without it.                         *)
(***************************************************************************)
EXTENDS Naturals, Sequences, FiniteSets

CONSTANTS
  NCPU,   \* processors found by mpinit(); 1 is the boot processor
  Early,  \* pages kinit1() frees
  Later   \* pages kinit2() frees

\* Sequences of pages, none of which is in a sequence, or in two, twice.
Distinct(s) == \A k, l \in DOMAIN s : s[k] = s[l] => k = l
Disjoint(s, t) == \A k \in DOMAIN s, l \in DOMAIN t : s[k] # t[l]

ASSUME BootAssumption ==
  /\ NCPU \in Nat \ {0} /\ Early \in Seq(Nat \ {0}) /\ Later \in Seq(Nat \ {0})
  /\ Len(Early) >= NCPU
  /\ Distinct(Early) /\ Distinct(Later) /\ Disjoint(Early, Later)

Cpu == 1..NCPU

VARIABLES
  at,        \* where each processor is in main(), entryother.S and mpmain()
  c,         \* the cpu startothers() is at
  code4,     \* the word below the entry code: the next stack
  ipis,      \* STARTUP interrupts on their way
  started,   \* cpu->started
  stack,     \* the stack each processor runs on
  use_lock, kmem_lock, freelist,   \* kmem
  r,         \* kalloc()'s r on each processor: the list that begins with that page
  given,     \* pages kalloc() returned, in order
  user       \* a process is RUNNABLE
bootvars == <<at, c, code4, ipis, started, stack, use_lock, kmem_lock, freelist, r, given, user>>
kmem == <<use_lock, kmem_lock, freelist, r, given>>

\* The types of the processors' state and of the allocator's.
BootTypeOK ==
  /\ at \in [Cpu -> {"halted", "kinit1", "startothers", "ipi", "wait", "kinit2", "userinit",
                     "mpmain", "scheduler", "taken"}]
  /\ c \in 1..NCPU + 1 /\ code4 \in Nat /\ ipis \subseteq Cpu \X {1, 2}
  /\ started \in [Cpu -> BOOLEAN] /\ stack \in [Cpu -> Nat]
  /\ use_lock \in BOOLEAN /\ kmem_lock \in Cpu \cup {0}
  /\ freelist \in Seq(Nat) /\ r \in [Cpu -> Seq(Nat)] /\ given \in Seq(Nat) /\ user \in BOOLEAN

BootInit ==
  /\ at = [i \in Cpu |-> IF i = 1 THEN "kinit1" ELSE "halted"]
  /\ c = 2 /\ code4 = 0 /\ ipis = {} /\ started = [i \in Cpu |-> FALSE]
  /\ stack = [i \in Cpu |-> 0]
  /\ use_lock = FALSE /\ kmem_lock = 0 /\ freelist = <<>> /\ r = [i \in Cpu |-> <<>>]
  /\ given = <<>> /\ user = FALSE

\* kinit1() and kvmalloc(), which takes no page that matters here.
kinit1 ==
  /\ at[1] = "kinit1"
  /\ freelist' = Early \o freelist
  /\ at' = [at EXCEPT ![1] = "startothers"]
  /\ UNCHANGED <<c, code4, ipis, started, stack, use_lock, kmem_lock, r, given, user>>

\* The next processor gets a stack; kalloc() runs alone, without the lock.
startothers ==
  /\ at[1] = "startothers"
  /\ \/ /\ c <= NCPU
        /\ code4' = Head(freelist) /\ freelist' = Tail(freelist)
        /\ given' = Append(given, Head(freelist))
        /\ at' = [at EXCEPT ![1] = "ipi"]
     \/ /\ c > NCPU
        /\ at' = [at EXCEPT ![1] = "kinit2"]
        /\ UNCHANGED <<code4, freelist, given>>
  /\ UNCHANGED <<c, ipis, started, stack, use_lock, kmem_lock, r, user>>

\* STARTUP is sent twice.
lapicstartap ==
  /\ at[1] = "ipi"
  /\ ipis' = ipis \cup {<<c, 1>>, <<c, 2>>}
  /\ at' = [at EXCEPT ![1] = "wait"]
  /\ UNCHANGED <<c, code4, started, stack, kmem, user>>

\* Mutant of UpYet: startothers() does not wait.
UpYet_always(i) == TRUE

\* while(c->started == 0)
UpYet(i) == started[i]

awaits ==
  /\ at[1] = "wait" /\ UpYet(c)
  /\ c' = c + 1 /\ at' = [at EXCEPT ![1] = "startothers"]
  /\ UNCHANGED <<code4, ipis, started, stack, kmem, user>>

\* A processor accepts a STARTUP when halted: entryother.S loads the stack.
startup(i) ==
  /\ \E k \in {1, 2} :
       /\ <<i, k>> \in ipis /\ ipis' = ipis \ {<<i, k>>}
       /\ \/ /\ at[i] = "halted"
             /\ stack' = [stack EXCEPT ![i] = code4]
             /\ at' = [at EXCEPT ![i] = "mpmain"]
          \/ at[i] # "halted" /\ UNCHANGED <<stack, at>>
  /\ UNCHANGED <<c, code4, started, kmem, user>>

\* mpmain(): started, then the scheduler.
mpmain(i) ==
  /\ at[i] = "mpmain"
  /\ started' = [started EXCEPT ![i] = TRUE]
  /\ at' = [at EXCEPT ![i] = "scheduler"]
  /\ UNCHANGED <<c, code4, ipis, stack, kmem, user>>

\* The rest of memory is freed; from here on the lock is used.
kinit2 ==
  /\ at[1] = "kinit2"
  /\ freelist' = Later \o freelist
  /\ use_lock' = TRUE
  /\ at' = [at EXCEPT ![1] = "userinit"]
  /\ UNCHANGED <<c, code4, ipis, started, stack, kmem_lock, r, given, user>>

\* The first process becomes RUNNABLE: any scheduler may run it.
userinit_ ==
  /\ at[1] = "userinit"
  /\ user' = TRUE
  /\ at' = [at EXCEPT ![1] = "mpmain"]
  /\ UNCHANGED <<c, code4, ipis, started, stack, kmem>>

\* kalloc() for a process on processor i: r = kmem.freelist ...
kalloc_read(i) ==
  /\ user /\ at[i] = "scheduler" /\ freelist # <<>>
  /\ use_lock => kmem_lock = 0
  /\ kmem_lock' = IF use_lock THEN i ELSE kmem_lock
  /\ r' = [r EXCEPT ![i] = freelist]
  /\ at' = [at EXCEPT ![i] = "taken"]
  /\ UNCHANGED <<c, code4, ipis, started, stack, use_lock, freelist, given, user>>

\* ... and kmem.freelist = r->next.
kalloc_next(i) ==
  /\ at[i] = "taken"
  /\ freelist' = Tail(r[i]) /\ given' = Append(given, Head(r[i]))
  /\ kmem_lock' = IF use_lock THEN 0 ELSE kmem_lock
  /\ at' = [at EXCEPT ![i] = "scheduler"] /\ r' = [r EXCEPT ![i] = <<>>]
  /\ UNCHANGED <<c, code4, ipis, started, stack, use_lock, user>>

BootNext ==
  \/ kinit1 \/ startothers \/ lapicstartap \/ awaits \/ kinit2 \/ userinit_
  \/ \E i \in Cpu : startup(i) \/ mpmain(i) \/ kalloc_read(i) \/ kalloc_next(i)

BootSpec == BootInit /\ [][BootNext]_bootvars

-----------------------------------------------------------------------------
(* Properties                                                              *)

\* kalloc() returns no page twice, although it takes no lock until kinit2(), and no
\* two processors run on one stack, although the word at 0x7000 - 4 through which
\* they get it is reused for the next.
PagesOnce ==
  /\ Distinct(given)
  /\ \A i, j \in Cpu \ {1} : stack[i] # 0 /\ stack[i] = stack[j] => i = j
=============================================================================
