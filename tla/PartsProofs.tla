---------------------------- MODULE PartsProofs ----------------------------
(***************************************************************************)
(* Proofs about two parts that share no state with the others: Boot, for   *)
(* any number of processors and pages (the word through which              *)
(* startothers() passes stacks is not written before it is read, and       *)
(* kalloc() is never raced, with and without its lock), and Clock, for any *)
(* number of processes and any width of the clock.                         *)
(***************************************************************************)
EXTENDS Boot, Clock, RingProofs, Integers, TLAPS

-----------------------------------------------------------------------------
(* Boot                                                                    *)


\* The processors before c are up, those after it are halted; c itself is sent its
\* interrupts when it has a stack, and cannot be halted with one on its way later on.
Order ==
  /\ at[1] # "halted" /\ c >= 2
  /\ at[1] = "kinit1" => c = 2
  /\ at[1] \in {"ipi", "wait"} => c <= NCPU
  /\ \A i \in Cpu \ {1} :
       /\ i < c => at[i] # "halted"
       /\ i > c => at[i] = "halted"
       /\ i = c /\ at[1] \in {"kinit1", "startothers", "ipi"} => at[i] = "halted"
       /\ at[i] = "halted" => ~started[i]
       /\ at[i] = "halted" => stack[i] = 0
       /\ at[i] \in {"halted", "mpmain", "scheduler", "taken"}
       /\ at[i] = "halted" /\ (<<i, 1>> \in ipis \/ <<i, 2>> \in ipis) => i = c /\ at[1] = "wait"

\* A page is in a sequence.
Has(s, x) == \E k \in DOMAIN s : s[k] = x

\* A processor runs on a page that was given out, and the word below the entry code
\* holds one that no other processor runs on.
Stacks ==
  /\ stack[1] = 0
  /\ \A i \in Cpu : stack[i] # 0 => Has(given, stack[i])
  /\ at[1] \in {"ipi", "wait"} => Has(given, code4)
  /\ at[1] = "ipi" => \A i \in Cpu \ {1} : stack[i] # 0 => stack[i] # code4
  /\ at[1] = "wait" => \A i \in Cpu \ {1} : stack[i] # 0 /\ i # c => stack[i] # code4

\* A page is free or given out, once; kinit1() has freed enough for the stacks.
Pages ==
  /\ Distinct(freelist) /\ Disjoint(given, freelist)
  /\ at[1] = "kinit1" => freelist = <<>> /\ given = <<>>
  /\ at[1] \in {"startothers", "ipi", "wait", "kinit2"} =>
       Disjoint(Later, given) /\ Disjoint(Later, freelist)
  /\ at[1] = "startothers" => Len(freelist) >= NCPU + 1 - c
  /\ at[1] \in {"ipi", "wait"} => Len(freelist) >= NCPU - c

\* Processes run after kinit2() only, and a kalloc() half way holds the lock.
Alloc ==
  /\ user => use_lock
  /\ at[1] \in {"userinit", "mpmain", "scheduler", "taken"} <=> use_lock
  /\ \A i \in Cpu : at[i] = "taken" =>
       use_lock /\ kmem_lock = i /\ r[i] = freelist /\ freelist # <<>>
  /\ \A i \in Cpu : kmem_lock = i => at[i] = "taken"

Inv == BootTypeOK /\ Order /\ Stacks /\ PagesOnce /\ Pages /\ Alloc

-----------------------------------------------------------------------------
(* Sequences of pages                                                      *)

\* What kalloc() takes off a list is not in the rest of it.
LEMMA TakeFirst ==
  ASSUME NEW s \in Seq(Nat), s # <<>>, Distinct(s)
  PROVE  /\ Head(s) \in Nat /\ Tail(s) \in Seq(Nat) /\ Distinct(Tail(s))
         /\ Len(Tail(s)) = Len(s) - 1
         /\ \E k \in DOMAIN s : s[k] = Head(s)
         /\ \A k \in DOMAIN Tail(s) : Tail(s)[k] # Head(s) /\ \E l \in DOMAIN s : s[l] = Tail(s)[k]
<1>1. Head(s) = s[1] /\ 1 \in DOMAIN s /\ Len(s) > 0
  OBVIOUS
<1>2. Tail(s) \in Seq(Nat) /\ Len(Tail(s)) = Len(s) - 1
  OBVIOUS
<1>3. \A k \in DOMAIN Tail(s) : k + 1 \in DOMAIN s /\ Tail(s)[k] = s[k + 1] /\ k \in Nat /\ k + 1 # 1
  OBVIOUS
<1>4. Distinct(Tail(s))
  BY <1>2, <1>3 DEF Distinct
<1>5. ASSUME NEW k \in DOMAIN Tail(s)
      PROVE  Tail(s)[k] # Head(s) /\ \E l \in DOMAIN s : s[l] = Tail(s)[k]
  BY <1>1, <1>3 DEF Distinct
<1> QED
  BY <1>1, <1>2, <1>4, <1>5

\* A new page at the end of what was given out.
LEMMA GiveOne ==
  ASSUME NEW s \in Seq(Nat), NEW x \in Nat, Distinct(s), \A k \in DOMAIN s : s[k] # x
  PROVE  /\ Append(s, x) \in Seq(Nat) /\ Distinct(Append(s, x))
         /\ \E k \in DOMAIN Append(s, x) : Append(s, x)[k] = x
         /\ \A k \in DOMAIN s : \E l \in DOMAIN Append(s, x) : Append(s, x)[l] = s[k]
         /\ \A k \in DOMAIN Append(s, x) :
              Append(s, x)[k] = x \/ \E l \in DOMAIN s : s[l] = Append(s, x)[k]
<1>1. Append(s, x) \in Seq(Nat) /\ Len(Append(s, x)) = Len(s) + 1
  OBVIOUS
<1>2. \A k \in DOMAIN s : k \in DOMAIN Append(s, x) /\ Append(s, x)[k] = s[k]
  OBVIOUS
<1>3. Len(s) + 1 \in DOMAIN Append(s, x) /\ Append(s, x)[Len(s) + 1] = x
  OBVIOUS
<1>4. \A k \in DOMAIN Append(s, x) : k \in DOMAIN s \/ k = Len(s) + 1
  OBVIOUS
<1> QED
  BY <1>1, <1>2, <1>3, <1>4 DEF Distinct

\* A take from the free list: what is free and what is given out stay apart, and a
\* third list that is apart from both stays so.
LEMMA Moved ==
  ASSUME NEW s \in Seq(Nat), NEW t \in Seq(Nat), t # <<>>,
         Distinct(s), Distinct(t), Disjoint(s, t)
  PROVE  /\ Head(t) \in Nat /\ Tail(t) \in Seq(Nat) /\ Len(Tail(t)) = Len(t) - 1
         /\ Append(s, Head(t)) \in Seq(Nat)
         /\ Distinct(Append(s, Head(t))) /\ Distinct(Tail(t))
         /\ Disjoint(Append(s, Head(t)), Tail(t))
         /\ ~Has(s, Head(t)) /\ Has(Append(s, Head(t)), Head(t))
         /\ \A x : Has(s, x) => Has(Append(s, Head(t)), x)
         /\ \A u : Disjoint(u, s) /\ Disjoint(u, t) =>
                     Disjoint(u, Append(s, Head(t))) /\ Disjoint(u, Tail(t))
<1>1. Head(t) \in Nat /\ Tail(t) \in Seq(Nat) /\ Distinct(Tail(t)) /\ Len(Tail(t)) = Len(t) - 1
  BY TakeFirst
<1>2. PICK m \in DOMAIN t : t[m] = Head(t)
  BY TakeFirst
<1>3. \A l \in DOMAIN Tail(t) : Tail(t)[l] # Head(t) /\ \E n \in DOMAIN t : t[n] = Tail(t)[l]
  BY TakeFirst
<1>4. \A k \in DOMAIN s : s[k] # Head(t)
  BY <1>2 DEF Disjoint
<1> DEFINE a == Append(s, Head(t))
<1>5. a \in Seq(Nat) /\ Distinct(a)
  BY <1>1, <1>4, GiveOne
<1>6. (\E k \in DOMAIN a : a[k] = Head(t)) /\ \A k \in DOMAIN s : \E l \in DOMAIN a : a[l] = s[k]
  BY <1>1, <1>4, GiveOne
<1>7. \A k \in DOMAIN a : a[k] = Head(t) \/ \E l \in DOMAIN s : s[l] = a[k]
  BY <1>1, <1>4, GiveOne
<1> HIDE DEF a
<1>8. Disjoint(a, Tail(t))
  BY <1>3, <1>7 DEF Disjoint
<1>9. ASSUME NEW u, Disjoint(u, s), Disjoint(u, t)
      PROVE  Disjoint(u, a) /\ Disjoint(u, Tail(t))
  BY <1>2, <1>3, <1>7, <1>9 DEF Disjoint
<1>10. ~Has(s, Head(t)) /\ Has(a, Head(t)) /\ \A x : Has(s, x) => Has(a, x)
  BY <1>4, <1>6 DEF Has
<1> QED
  BY <1>1, <1>5, <1>8, <1>9, <1>10 DEF a

\* kinit2() puts its pages before those that are free.
LEMMA Joins ==
  ASSUME NEW s \in Seq(Nat), NEW t \in Seq(Nat), Distinct(s), Distinct(t), Disjoint(s, t)
  PROVE  /\ s \o t \in Seq(Nat) /\ Distinct(s \o t) /\ Len(s \o t) = Len(s) + Len(t)
         /\ \A k \in DOMAIN (s \o t) :
              \/ \E l \in DOMAIN s : s[l] = (s \o t)[k]
              \/ \E l \in DOMAIN t : t[l] = (s \o t)[k]
<1>1. s \o t \in Seq(Nat) /\ Len(s \o t) = Len(s) + Len(t)
  OBVIOUS
<1>2. \A k \in DOMAIN (s \o t) :
        \/ k \in DOMAIN s /\ (s \o t)[k] = s[k]
        \/ k - Len(s) \in DOMAIN t /\ (s \o t)[k] = t[k - Len(s)]
  OBVIOUS
<1> DEFINE b == s \o t
<1>3. ASSUME NEW k \in DOMAIN b, NEW l \in DOMAIN b, b[k] = b[l]
      PROVE  k = l
  <2>1. k \in Int /\ l \in Int /\ Len(s) \in Int
    BY <1>1
  <2>2. \/ k \in DOMAIN s /\ b[k] = s[k]
        \/ k - Len(s) \in DOMAIN t /\ b[k] = t[k - Len(s)]
    BY <1>2
  <2>3. \/ l \in DOMAIN s /\ b[l] = s[l]
        \/ l - Len(s) \in DOMAIN t /\ b[l] = t[l - Len(s)]
    BY <1>2
  <2> HIDE DEF b
  <2>4. CASE k \in DOMAIN s /\ b[k] = s[k]
    BY <1>3, <2>3, <2>4 DEF Distinct, Disjoint
  <2>5. CASE k - Len(s) \in DOMAIN t /\ b[k] = t[k - Len(s)]
    <3>1. l - Len(s) \in DOMAIN t /\ b[l] = t[l - Len(s)]
      BY <1>3, <2>3, <2>5 DEF Disjoint
    <3>2. k - Len(s) = l - Len(s)
      BY <1>3, <2>5, <3>1 DEF Distinct
    <3> QED
      BY <2>1, <3>2
  <2> QED
    BY <2>2, <2>4, <2>5
<1> QED
  BY <1>1, <1>2, <1>3 DEF Distinct

-----------------------------------------------------------------------------
(* The invariant                                                           *)

LEMMA InitInv == BootInit => Inv
<1> SUFFICES ASSUME BootInit PROVE Inv
  OBVIOUS
<1> USE BootAssumption DEF BootInit, Cpu
<1>1. BootTypeOK
  <2>1. 1 \in Cpu /\ 2 \in 1..NCPU + 1 /\ <<>> \in Seq(Nat)
    OBVIOUS
  <2> QED
    BY <2>1 DEF BootTypeOK
<1>2. Order /\ Stacks
  BY DEF Order, Stacks
<1>3. PagesOnce /\ Pages
  BY DEF PagesOnce, Pages, Distinct, Disjoint
<1>4. Alloc
  BY DEF Alloc
<1> QED
  BY <1>1, <1>2, <1>3, <1>4 DEF Inv

\* kinit1() frees what the stacks will be taken from.
LEMMA StepKinit1 == Inv /\ kinit1 => Inv'
<1> SUFFICES ASSUME Inv, kinit1 PROVE Inv'
  OBVIOUS
<1> USE BootAssumption DEF Inv, kinit1, Cpu
<1>1. freelist' = Early /\ given = <<>> /\ Early \in Seq(Nat)
  BY DEF Pages
<1>2. BootTypeOK'
  BY <1>1 DEF BootTypeOK
<1>3. Order'
  BY DEF Order, BootTypeOK
<1>4. Stacks' /\ PagesOnce'
  BY DEF Stacks, PagesOnce, BootTypeOK
<1>5. Pages'
  BY <1>1 DEF Pages, Order, BootTypeOK, PagesOnce, Disjoint
<1>6. Alloc'
  BY DEF Alloc, BootTypeOK, Order
<1> QED
  BY <1>2, <1>3, <1>4, <1>5, <1>6

\* The stack of the next processor is a page nobody runs on.
LEMMA StepStartothers == Inv /\ startothers => Inv'
<1> SUFFICES ASSUME Inv, startothers PROVE Inv'
  OBVIOUS
<1> USE BootAssumption DEF Inv, Cpu
<1>1. CASE /\ c <= NCPU /\ code4' = Head(freelist) /\ freelist' = Tail(freelist)
           /\ given' = Append(given, Head(freelist)) /\ at' = [at EXCEPT ![1] = "ipi"]
  <2>1. freelist \in Seq(Nat) /\ given \in Seq(Nat) /\ freelist # <<>>
    BY <1>1 DEF BootTypeOK, Pages, startothers
  <2>2. Distinct(freelist) /\ Distinct(given) /\ Disjoint(given, freelist)
        /\ Disjoint(Later, given) /\ Disjoint(Later, freelist)
    BY DEF Pages, PagesOnce, startothers
  <2>3. /\ code4' \in Nat /\ freelist' \in Seq(Nat) /\ Len(freelist') = Len(freelist) - 1
        /\ given' \in Seq(Nat)
        /\ Distinct(given') /\ Distinct(freelist') /\ Disjoint(given', freelist')
    BY <1>1, <2>1, <2>2, Moved
  <2>12. ~Has(given, code4') /\ Has(given', code4') /\ \A x : Has(given, x) => Has(given', x)
    BY <1>1, <2>1, <2>2, Moved
  <2>4. Disjoint(Later, given') /\ Disjoint(Later, freelist')
    BY <1>1, <2>1, <2>2, Moved
  <2>5. /\ at[1] = "startothers" /\ at'[1] = "ipi" /\ \A i \in Cpu \ {1} : at'[i] = at[i]
        /\ c' = c /\ stack' = stack /\ ipis' = ipis /\ started' = started /\ user' = user
        /\ use_lock' = use_lock /\ kmem_lock' = kmem_lock /\ r' = r
    BY <1>1 DEF BootTypeOK, startothers
  <2>6. BootTypeOK'
    BY <1>1, <2>3, <2>5 DEF BootTypeOK
  <2>7. Order'
    BY <1>1, <2>5 DEF Order, BootTypeOK
  <2>8. Stacks'
    <3>1. \A i \in Cpu : stack[i] # 0 => stack[i] # code4' /\ Has(given', stack[i])
      BY <2>12 DEF Stacks
    <3>2. Has(given, code4)' /\ \A i \in Cpu : stack[i] # 0 => Has(given, stack[i])'
      BY <2>5, <2>12, <3>1 DEF Has
    <3> QED
      BY <2>5, <3>1, <3>2 DEF Stacks
  <2>9. PagesOnce'
    <3>1. Distinct(given)'
      BY <2>3 DEF Distinct
    <3> QED
      BY <2>5, <3>1 DEF PagesOnce
  <2>10. Pages'
    <3>1. Len(freelist) >= NCPU + 1 - c /\ Len(freelist) \in Nat /\ c \in Nat
      BY <2>1, <2>5 DEF Pages, BootTypeOK
    <3>2. Len(freelist') >= NCPU - c'
      BY <2>3, <2>5, <3>1
    <3> QED
      BY <2>3, <2>4, <2>5, <3>2 DEF Pages, Distinct, Disjoint
  <2>11. Alloc'
    <3>1. ~use_lock /\ ~user
      BY <2>5 DEF Alloc
    <3>2. \A i \in Cpu : at[i] # "taken" /\ kmem_lock # i
      BY <3>1 DEF Alloc
    <3>3. \A i \in Cpu : at'[i] # "taken" /\ kmem_lock' # i
      BY <2>5, <3>2
    <3> QED
      BY <2>5, <3>1, <3>3 DEF Alloc
  <2> QED
    BY <2>6, <2>7, <2>8, <2>9, <2>10, <2>11
<1>2. CASE c > NCPU /\ at' = [at EXCEPT ![1] = "kinit2"] /\ UNCHANGED <<code4, freelist, given>>
  <2> USE <1>2 DEF startothers
  <2>1. BootTypeOK'
    BY DEF BootTypeOK
  <2>2. Order'
    BY DEF Order, BootTypeOK
  <2>3. Stacks' /\ PagesOnce'
    BY DEF Stacks, PagesOnce, BootTypeOK, Distinct
  <2>4. Pages'
    BY DEF Pages, BootTypeOK, Distinct, Disjoint
  <2>5. Alloc'
    BY DEF Alloc, BootTypeOK
  <2> QED
    BY <2>1, <2>2, <2>3, <2>4, <2>5
<1> QED
  BY <1>1, <1>2 DEF startothers

\* The interrupts go to the processor that is waited for.
LEMMA StepLapicstartap == Inv /\ lapicstartap => Inv'
<1> SUFFICES ASSUME Inv, lapicstartap PROVE Inv'
  OBVIOUS
<1>0. NCPU \in Nat /\ NCPU >= 1
  BY BootAssumption
<1> USE <1>0 DEF Inv, Cpu
<1>1. /\ at[1] = "ipi" /\ at'[1] = "wait" /\ \A i \in Cpu \ {1} : at'[i] = at[i]
      /\ c' = c /\ c <= NCPU /\ c >= 2 /\ code4' = code4 /\ stack' = stack /\ started' = started
      /\ ipis' = ipis \cup {<<c, 1>>, <<c, 2>>}
      /\ user' = user /\ use_lock' = use_lock /\ kmem_lock' = kmem_lock /\ r' = r
      /\ freelist' = freelist /\ given' = given
  BY DEF BootTypeOK, Order, lapicstartap, kmem
<1>2. BootTypeOK'
  <2>1. at' = [at EXCEPT ![1] = "wait"]
    BY DEF lapicstartap
  <2>2. ipis' \subseteq Cpu \X {1, 2}
    <3>1. c \in Cpu /\ ipis \subseteq Cpu \X {1, 2}
      BY <1>1 DEF BootTypeOK
    <3>2. <<c, 1>> \in Cpu \X {1, 2} /\ <<c, 2>> \in Cpu \X {1, 2}
      BY <3>1
    <3> HIDE DEF Cpu
    <3> QED
      BY <1>1, <3>1, <3>2
  <2>3. at' \in [Cpu -> {"halted", "kinit1", "startothers", "ipi", "wait", "kinit2", "userinit",
                         "mpmain", "scheduler", "taken"}]
    BY <2>1 DEF BootTypeOK
  <2> QED
    BY <1>1, <2>2, <2>3 DEF BootTypeOK
<1>3. Order'
  BY <1>1 DEF Order, BootTypeOK
<1>4. Stacks' /\ PagesOnce'
  BY <1>1 DEF Stacks, PagesOnce, Has, Distinct
<1>5. Pages'
  BY <1>1 DEF Pages, Distinct, Disjoint
<1>6. Alloc'
  BY <1>1 DEF Alloc
<1> QED
  BY <1>2, <1>3, <1>4, <1>5, <1>6

\* startothers() goes on when the processor has said that it runs.
LEMMA StepAwaits == Inv /\ awaits => Inv'
<1> SUFFICES ASSUME Inv, awaits PROVE Inv'
  OBVIOUS
<1>0. NCPU \in Nat /\ NCPU >= 1
  BY BootAssumption
<1> USE <1>0 DEF Inv, Cpu
<1>1. /\ at[1] = "wait" /\ at'[1] = "startothers" /\ \A i \in Cpu \ {1} : at'[i] = at[i]
      /\ c' = c + 1 /\ c <= NCPU /\ c >= 2 /\ c \in Nat /\ started[c]
      /\ code4' = code4 /\ stack' = stack /\ started' = started /\ ipis' = ipis
      /\ user' = user /\ use_lock' = use_lock /\ kmem_lock' = kmem_lock /\ r' = r
      /\ freelist' = freelist /\ given' = given
  BY DEF BootTypeOK, Order, awaits, kmem, UpYet
<1>2. BootTypeOK'
  <2>1. at' = [at EXCEPT ![1] = "startothers"]
    BY DEF awaits
  <2> QED
    BY <1>1, <2>1 DEF BootTypeOK
<1>3. Order'
  <2>1. c \in Cpu \ {1}
    BY <1>1
  <2>2. at[c] # "halted"
    BY <1>1, <2>1, Zenon DEF Order
  <2>3. \A i \in Cpu \ {1} : /\ i < c' => at[i] # "halted"
                             /\ i > c' => at[i] = "halted"
                             /\ i = c' => at[i] = "halted"
    <3>1. \A i \in Cpu \ {1} : (i < c => at[i] # "halted") /\ (i > c => at[i] = "halted")
      BY DEF Order
    <3> QED
      BY <1>1, <2>2, <3>1
  <2>4. \A i \in Cpu \ {1} :
          /\ at[i] = "halted" => ~started[i] /\ stack[i] = 0
          /\ at[i] \in {"halted", "mpmain", "scheduler", "taken"}
    BY DEF Order
  <2>5. \A i \in Cpu \ {1} : at[i] = "halted" => <<i, 1>> \notin ipis /\ <<i, 2>> \notin ipis
    BY <2>2 DEF Order
  <2> QED
    BY <1>1, <2>3, <2>4, <2>5 DEF Order
<1>4. Stacks' /\ PagesOnce'
  BY <1>1 DEF Stacks, PagesOnce, Has, Distinct
<1>5. Pages'
  BY <1>1 DEF Pages, Distinct, Disjoint, BootTypeOK
<1>6. Alloc'
  BY <1>1 DEF Alloc
<1> QED
  BY <1>2, <1>3, <1>4, <1>5, <1>6

\* A halted processor finds its own stack in the word; one that runs is not disturbed.
LEMMA StepStartup == ASSUME NEW i \in Cpu PROVE Inv /\ startup(i) => Inv'
<1> SUFFICES ASSUME Inv, startup(i) PROVE Inv'
  OBVIOUS
<1>0. NCPU \in Nat /\ NCPU >= 1
  BY BootAssumption
<1> USE <1>0 DEF Inv, Cpu
<1>1. PICK k \in {1, 2} : /\ <<i, k>> \in ipis /\ ipis' = ipis \ {<<i, k>>}
                          /\ \/ /\ at[i] = "halted"
                                /\ stack' = [stack EXCEPT ![i] = code4]
                                /\ at' = [at EXCEPT ![i] = "mpmain"]
                             \/ at[i] # "halted" /\ UNCHANGED <<stack, at>>
  BY DEF startup
<1>2. /\ c' = c /\ code4' = code4 /\ started' = started
      /\ user' = user /\ use_lock' = use_lock /\ kmem_lock' = kmem_lock /\ r' = r
      /\ freelist' = freelist /\ given' = given
  BY DEF startup, kmem
<1>3. Pages' /\ Alloc' /\ Order' /\ Stacks' /\ PagesOnce' /\ BootTypeOK'
  <2>1. CASE at[i] # "halted" /\ UNCHANGED <<stack, at>>
    <3>1. BootTypeOK'
      BY <1>1, <1>2, <2>1 DEF BootTypeOK
    <3>2. Order'
      BY <1>1, <1>2, <2>1 DEF Order
    <3>3. Stacks' /\ PagesOnce'
      BY <1>2, <2>1 DEF Stacks, PagesOnce, Has, Distinct
    <3>4. Pages' /\ Alloc'
      BY <1>2, <2>1 DEF Pages, Alloc, Distinct, Disjoint
    <3> QED
      BY <3>1, <3>2, <3>3, <3>4
  <2>2. CASE /\ at[i] = "halted" /\ stack' = [stack EXCEPT ![i] = code4]
             /\ at' = [at EXCEPT ![i] = "mpmain"]
    <3>1. /\ i # 1 /\ i = c /\ at[1] = "wait" /\ at'[1] = "wait" /\ at'[i] = "mpmain"
          /\ stack'[i] = code4 /\ \A j \in Cpu \ {i} : at'[j] = at[j] /\ stack'[j] = stack[j]
      <4>1. i # 1 /\ i = c /\ at[1] = "wait"
        BY <1>1, <2>2 DEF Order
      <4> QED
        BY <2>2, <4>1 DEF BootTypeOK
    <3>2. BootTypeOK'
      BY <1>1, <1>2, <2>2 DEF BootTypeOK
    <3>3. Order'
      BY <1>1, <1>2, <3>1 DEF Order
    <3>4. Stacks'
      <4>1. Has(given, code4) /\ \A j \in Cpu : stack[j] # 0 => Has(given, stack[j])
        BY <3>1 DEF Stacks
      <4>2. \A j \in Cpu : stack'[j] # 0 => Has(given, stack[j])'
        BY <1>2, <3>1, <4>1 DEF Has
      <4>3. Has(given, code4)'
        BY <1>2, <4>1 DEF Has
      <4>4. stack'[1] = 0 /\ \A j \in Cpu \ {1} : stack'[j] # 0 /\ j # c' => stack'[j] # code4'
        BY <1>2, <3>1 DEF Stacks
      <4> QED
        BY <3>1, <4>2, <4>3, <4>4 DEF Stacks
    <3>5. PagesOnce'
      <4>1. \A j \in Cpu \ {1} : stack[j] # 0 /\ j # i => stack[j] # code4
        BY <3>1 DEF Stacks
      <4>2. Distinct(given)'
        BY <1>2 DEF PagesOnce, Distinct
      <4>3. \A j, l \in Cpu \ {1} : stack[j] # 0 /\ stack[j] = stack[l] => j = l
        BY DEF PagesOnce
      <4>4. \A j, l \in Cpu \ {1} : stack'[j] # 0 /\ stack'[j] = stack'[l] => j = l
        BY <3>1, <4>1, <4>3
      <4> QED
        BY <4>2, <4>4 DEF PagesOnce
    <3>6. Pages'
      BY <1>2, <3>1 DEF Pages, Distinct, Disjoint
    <3>7. Alloc'
      BY <1>2, <3>1 DEF Alloc
    <3> QED
      BY <3>2, <3>3, <3>4, <3>5, <3>6, <3>7
  <2> QED
    BY <1>1, <2>1, <2>2
<1> QED
  BY <1>3

\* A processor says that it runs, and schedules.
LEMMA StepMpmain == ASSUME NEW i \in Cpu PROVE Inv /\ mpmain(i) => Inv'
<1> SUFFICES ASSUME Inv, mpmain(i) PROVE Inv'
  OBVIOUS
<1>0. NCPU \in Nat /\ NCPU >= 1
  BY BootAssumption
<1> USE <1>0 DEF Inv, Cpu
<1>1. /\ at[i] = "mpmain" /\ at'[i] = "scheduler" /\ \A j \in Cpu \ {i} : at'[j] = at[j]
      /\ started'[i] /\ \A j \in Cpu \ {i} : started'[j] = started[j]
  BY DEF BootTypeOK, mpmain
<1>2. /\ c' = c /\ code4' = code4 /\ ipis' = ipis /\ stack' = stack
      /\ user' = user /\ use_lock' = use_lock /\ kmem_lock' = kmem_lock /\ r' = r
      /\ freelist' = freelist /\ given' = given
  BY DEF mpmain, kmem
<1>3. BootTypeOK'
  BY <1>2 DEF BootTypeOK, mpmain
<1>4. Order'
  BY <1>1, <1>2 DEF Order
<1>5. Stacks' /\ PagesOnce'
  BY <1>1, <1>2 DEF Stacks, PagesOnce, Has, Distinct
<1>6. Pages'
  BY <1>1, <1>2 DEF Pages, Distinct, Disjoint
<1>7. Alloc'
  <2>1. at'[1] \in {"userinit", "mpmain", "scheduler", "taken"} <=>
          at[1] \in {"userinit", "mpmain", "scheduler", "taken"}
    BY <1>1
  <2>2. \A j \in Cpu : at'[j] = "taken" <=> at[j] = "taken"
    BY <1>1
  <2> QED
    BY <1>2, <2>1, <2>2 DEF Alloc
<1> QED
  BY <1>3, <1>4, <1>5, <1>6, <1>7

\* kinit2() frees the rest, and the lock is used from now on.
LEMMA StepKinit2 == Inv /\ kinit2 => Inv'
<1> SUFFICES ASSUME Inv, kinit2 PROVE Inv'
  OBVIOUS
<1>0. NCPU \in Nat /\ NCPU >= 1 /\ Later \in Seq(Nat) /\ Distinct(Later)
  BY BootAssumption
<1> USE <1>0 DEF Inv, Cpu
<1>1. /\ at[1] = "kinit2" /\ at'[1] = "userinit" /\ \A j \in Cpu \ {1} : at'[j] = at[j]
      /\ c' = c /\ code4' = code4 /\ ipis' = ipis /\ stack' = stack /\ started' = started
      /\ user' = user /\ use_lock' = TRUE /\ kmem_lock' = kmem_lock /\ r' = r /\ given' = given
  BY DEF BootTypeOK, kinit2
<1>2. /\ freelist \in Seq(Nat) /\ Distinct(freelist) /\ Disjoint(Later, freelist)
      /\ Disjoint(Later, given) /\ Disjoint(given, freelist)
  BY <1>1 DEF BootTypeOK, Pages
<1>3. freelist' \in Seq(Nat) /\ Distinct(freelist')
  BY <1>2, Joins DEF kinit2
<1>4. \A k \in DOMAIN freelist' : Has(Later, freelist'[k]) \/ Has(freelist, freelist'[k])
  <2>1. freelist' = Later \o freelist
    BY DEF kinit2
  <2>2. \A k \in DOMAIN (Later \o freelist) :
          Has(Later, (Later \o freelist)[k]) \/ Has(freelist, (Later \o freelist)[k])
    BY <1>2, Joins DEF Has
  <2> QED
    BY <2>1, <2>2, Zenon
<1>5. Disjoint(given, freelist')
  BY <1>2, <1>4 DEF Disjoint, Has
<1>6. BootTypeOK'
  <2>1. at' = [at EXCEPT ![1] = "userinit"]
    BY DEF kinit2
  <2> QED
    BY <1>1, <1>3, <2>1 DEF BootTypeOK
<1>7. Order'
  BY <1>1 DEF Order
<1>8. Stacks' /\ PagesOnce'
  BY <1>1 DEF Stacks, PagesOnce, Has, Distinct
<1>9. Pages'
  BY <1>1, <1>3, <1>5 DEF Pages, Distinct, Disjoint
<1>10. Alloc'
  <2>1. \A j \in Cpu : at[j] # "taken" /\ kmem_lock # j
    BY <1>1 DEF Alloc
  <2>2. \A j \in Cpu : at'[j] # "taken" /\ kmem_lock' # j
    BY <1>1, <2>1
  <2> QED
    BY <1>1, <2>2 DEF Alloc
<1> QED
  BY <1>6, <1>7, <1>8, <1>9, <1>10

\* Processes run once the lock is used.
LEMMA StepUserinit == Inv /\ userinit_ => Inv'
<1> SUFFICES ASSUME Inv, userinit_ PROVE Inv'
  OBVIOUS
<1>0. NCPU \in Nat /\ NCPU >= 1
  BY BootAssumption
<1> USE <1>0 DEF Inv, Cpu
<1>1. /\ at[1] = "userinit" /\ at'[1] = "mpmain" /\ \A j \in Cpu \ {1} : at'[j] = at[j]
      /\ c' = c /\ code4' = code4 /\ ipis' = ipis /\ stack' = stack /\ started' = started
      /\ user' = TRUE /\ use_lock' = use_lock /\ kmem_lock' = kmem_lock /\ r' = r
      /\ freelist' = freelist /\ given' = given
  BY DEF BootTypeOK, userinit_, kmem
<1>2. BootTypeOK'
  <2>1. at' = [at EXCEPT ![1] = "mpmain"]
    BY DEF userinit_
  <2> QED
    BY <1>1, <2>1 DEF BootTypeOK
<1>3. Order'
  BY <1>1 DEF Order
<1>4. Stacks' /\ PagesOnce'
  BY <1>1 DEF Stacks, PagesOnce, Has, Distinct
<1>5. Pages'
  BY <1>1 DEF Pages, Distinct, Disjoint
<1>6. Alloc'
  BY <1>1 DEF Alloc
<1> QED
  BY <1>2, <1>3, <1>4, <1>5, <1>6

\* kalloc() holds the lock from its read of the list on.
LEMMA StepRead == ASSUME NEW i \in Cpu PROVE Inv /\ kalloc_read(i) => Inv'
<1> SUFFICES ASSUME Inv, kalloc_read(i) PROVE Inv'
  OBVIOUS
<1>0. NCPU \in Nat /\ NCPU >= 1
  BY BootAssumption
<1> USE <1>0 DEF Inv, Cpu
<1>1. /\ use_lock /\ user /\ kmem_lock = 0 /\ kmem_lock' = i /\ freelist # <<>>
  BY DEF kalloc_read, Alloc
<1>2. /\ at[i] = "scheduler" /\ at'[i] = "taken" /\ \A j \in Cpu \ {i} : at'[j] = at[j]
      /\ r'[i] = freelist /\ \A j \in Cpu \ {i} : r'[j] = r[j]
  BY DEF BootTypeOK, kalloc_read
<1>3. /\ c' = c /\ code4' = code4 /\ ipis' = ipis /\ stack' = stack /\ started' = started
      /\ user' = user /\ use_lock' = use_lock /\ freelist' = freelist /\ given' = given
  BY DEF kalloc_read
<1>4. BootTypeOK'
  <2>1. at' = [at EXCEPT ![i] = "taken"] /\ r' = [r EXCEPT ![i] = freelist]
    BY DEF kalloc_read
  <2>2. r' \in [Cpu -> Seq(Nat)]
    BY <2>1 DEF BootTypeOK
  <2>3. at' \in [Cpu -> {"halted", "kinit1", "startothers", "ipi", "wait", "kinit2", "userinit",
                         "mpmain", "scheduler", "taken"}]
    BY <2>1 DEF BootTypeOK
  <2> QED
    BY <1>1, <1>3, <2>2, <2>3 DEF BootTypeOK
<1>5. Order'
  BY <1>2, <1>3 DEF Order
<1>6. Stacks' /\ PagesOnce'
  BY <1>2, <1>3 DEF Stacks, PagesOnce, Has, Distinct
<1>7. Pages'
  BY <1>2, <1>3 DEF Pages, Distinct, Disjoint
<1>8. Alloc'
  <2>1. \A j \in Cpu : at[j] # "taken"
    BY <1>1 DEF Alloc
  <2>2. at'[1] \in {"userinit", "mpmain", "scheduler", "taken"}
    BY <1>1, <1>2 DEF Alloc
  <2> QED
    BY <1>1, <1>2, <1>3, <2>1, <2>2 DEF Alloc
<1> QED
  BY <1>4, <1>5, <1>6, <1>7, <1>8

\* The list is still the one that was read.
LEMMA StepNext == ASSUME NEW i \in Cpu PROVE Inv /\ kalloc_next(i) => Inv'
<1> SUFFICES ASSUME Inv, kalloc_next(i) PROVE Inv'
  OBVIOUS
<1>0. NCPU \in Nat /\ NCPU >= 1
  BY BootAssumption
<1> USE <1>0 DEF Inv, Cpu
<1>1. /\ use_lock /\ kmem_lock = i /\ kmem_lock' = 0 /\ r[i] = freelist /\ freelist # <<>>
  BY DEF kalloc_next, Alloc
<1>2. /\ at[i] = "taken" /\ at'[i] = "scheduler" /\ \A j \in Cpu \ {i} : at'[j] = at[j]
      /\ \A j \in Cpu \ {i} : r'[j] = r[j]
  BY DEF BootTypeOK, kalloc_next
<1>3. /\ c' = c /\ code4' = code4 /\ ipis' = ipis /\ stack' = stack /\ started' = started
      /\ user' = user /\ use_lock' = use_lock
  BY DEF kalloc_next
<1>4. freelist' = Tail(freelist) /\ given' = Append(given, Head(freelist))
  BY <1>1 DEF kalloc_next
<1>5. /\ freelist \in Seq(Nat) /\ given \in Seq(Nat)
      /\ Distinct(freelist) /\ Distinct(given) /\ Disjoint(given, freelist)
  BY DEF BootTypeOK, Pages, PagesOnce
<1>6. /\ freelist' \in Seq(Nat) /\ given' \in Seq(Nat)
      /\ Distinct(given') /\ Distinct(freelist') /\ Disjoint(given', freelist')
  BY <1>1, <1>4, <1>5, Moved
<1>7. \A x : Has(given, x) => Has(given', x)
  BY <1>1, <1>4, <1>5, Moved
<1>8. at[1] \in {"userinit", "mpmain", "scheduler", "taken"}
  BY <1>1 DEF Alloc
<1>9. at'[1] \in {"userinit", "mpmain", "scheduler", "taken"}
  BY <1>2, <1>8
<1>10. BootTypeOK'
  <2>1. at' = [at EXCEPT ![i] = "scheduler"] /\ r' = [r EXCEPT ![i] = <<>>]
    BY DEF kalloc_next
  <2>2. r' \in [Cpu -> Seq(Nat)]
    <3>1. <<>> \in Seq(Nat)
      OBVIOUS
    <3> QED
      BY <2>1, <3>1 DEF BootTypeOK
  <2>3. at' \in [Cpu -> {"halted", "kinit1", "startothers", "ipi", "wait", "kinit2", "userinit",
                         "mpmain", "scheduler", "taken"}]
    BY <2>1 DEF BootTypeOK
  <2> QED
    BY <1>1, <1>3, <1>6, <2>2, <2>3 DEF BootTypeOK
<1>11. Order'
  BY <1>2, <1>3, <1>8, <1>9 DEF Order
<1>12. Stacks'
  <2>1. \A j \in Cpu : stack[j] # 0 => Has(given', stack[j])
    BY <1>7 DEF Stacks
  <2>2. \A j \in Cpu : stack[j] # 0 => Has(given, stack[j])'
    BY <1>3, <2>1 DEF Has
  <2> QED
    BY <1>3, <1>9, <2>2 DEF Stacks
<1>13. PagesOnce'
  <2>1. Distinct(given)'
    BY <1>6 DEF Distinct
  <2> QED
    BY <1>3, <2>1 DEF PagesOnce
<1>14. Pages'
  BY <1>6, <1>9 DEF Pages, Distinct, Disjoint
<1>15. Alloc'
  <2>1. \A j \in Cpu \ {i} : at[j] # "taken"
    BY <1>1 DEF Alloc
  <2>2. \A j \in Cpu : at'[j] # "taken" /\ kmem_lock' # j
    BY <1>1, <1>2, <2>1
  <2>3. user' => use_lock'
    BY <1>1, <1>3
  <2> QED
    BY <1>1, <1>3, <1>9, <2>2, <2>3 DEF Alloc
<1> QED
  BY <1>10, <1>11, <1>12, <1>13, <1>14, <1>15

LEMMA StepInv == Inv /\ [BootNext]_bootvars => Inv'
<1> SUFFICES ASSUME Inv, [BootNext]_bootvars PROVE Inv'
  OBVIOUS
<1>1. CASE UNCHANGED bootvars
  <2> USE <1>1 DEF bootvars
  <2>1. BootTypeOK' /\ Order'
    BY DEF Inv, BootTypeOK, Order
  <2>2. Stacks' /\ PagesOnce'
    BY DEF Inv, Stacks, PagesOnce, Has, Distinct
  <2>3. Pages' /\ Alloc'
    BY DEF Inv, Pages, Alloc, Distinct, Disjoint
  <2> QED
    BY <2>1, <2>2, <2>3 DEF Inv
<1>2. CASE kinit1 \/ startothers \/ lapicstartap \/ awaits \/ kinit2 \/ userinit_
  BY <1>2, StepKinit1, StepStartothers, StepLapicstartap, StepAwaits, StepKinit2, StepUserinit
<1>3. CASE \E i \in Cpu : startup(i) \/ mpmain(i) \/ kalloc_read(i) \/ kalloc_next(i)
  BY <1>3, StepStartup, StepMpmain, StepRead, StepNext
<1> QED
  BY <1>1, <1>2, <1>3 DEF BootNext

\* The inductive invariant holds in every state of the boot.
LEMMA BootInv == BootSpec => []Inv
<1> QED
  BY InitInv, StepInv, PTL DEF BootSpec

\* The state of the processors and of the allocator keeps its types.
THEOREM BootTypeCorrect == BootSpec => []BootTypeOK
<1>1. Inv => BootTypeOK
  BY DEF Inv
<1> QED
  BY <1>1, BootInv, PTL

\* For any number of processors and pages, kalloc() returns no page twice while main()
\* sets the system up and after, and no two processors get the same stack.
THEOREM BootPagesOnce == BootSpec => []PagesOnce
<1>1. Inv => PagesOnce
  BY DEF Inv
<1> QED
  BY <1>1, BootInv, PTL


-----------------------------------------------------------------------------
(* Clock                                                                   *)


\* A process in sys_sleep(), not late before it is runnable, has slept as many ticks as
\* it reads off the clock; it is asleep before its time, and when it is runnable past its
\* time, that is for want of a CPU.
OnTime(p) ==
  /\ sl[p].pc = "user" => real[p] = 0
  /\ sl[p].pc # "runnable" => late[p] = 0
  /\ sl[p].pc \in {"sleep", "asleep", "runnable"} /\ sl[p].n >= 0 =>
       Uint(ticks - sl[p].ticks0) = real[p]
  /\ sl[p].pc \in {"sleep", "asleep"} /\ sl[p].n >= 0 => real[p] < sl[p].n
  /\ sl[p].pc = "runnable" /\ sl[p].n >= 0 => real[p] <= sl[p].n + late[p]
  /\ sl[p].pc = "returned" /\ sl[p].ret = 0 /\ sl[p].n >= 0 =>
       sl[p].n <= real[p] /\ real[p] <= sl[p].n + MAXDELAY

ClockInv == ClockTypeOK /\ \A p \in Sleeper : OnTime(p)

\* What is assumed of the constants.
LEMMA ClockConstants ==
  /\ HALF \in Nat \ {0} /\ MAXDELAY \in Nat /\ MAXDELAY <= HALF
  /\ UINT \in Nat \ {0} /\ UINT = HALF + HALF
  /\ \A n \in Interval : n \in Int /\ -HALF <= n /\ n < HALF
  BY ClockAssumption DEF UINT

\* The time between two readings of the clock.
LEMMA Elapsed ==
  ASSUME NEW u \in 0..UINT-1, NEW v \in 0..UINT-1
  PROVE  /\ Uint(v - u) \in 0..UINT-1
         /\ v >= u => Uint(v - u) = v - u
         /\ v < u => Uint(v - u) = v - u + UINT
<1>1. UINT \in Nat \ {0} /\ v - u \in Int
  BY ClockConstants
<1>2. (v - u) % UINT \in 0..UINT-1
  BY <1>1, Division
<1>3. /\ v >= u => (v - u) % UINT = v - u
      /\ v < u => (v - u) % UINT = v - u + UINT
  BY <1>1, Distance
<1> QED
  BY <1>2, <1>3 DEF Uint

\* A tick later it is one more.
LEMMA TickElapsed ==
  ASSUME NEW u \in 0..UINT-1, NEW v \in 0..UINT-1, NEW d, Uint(v - u) = d, d + 1 < UINT
  PROVE  Tick(v) \in 0..UINT-1 /\ Uint(Tick(v) - u) = d + 1
<1>1. UINT \in Nat \ {0}
  BY ClockConstants
<1> DEFINE x == Tick(v)
<1>2. /\ x \in 0..UINT-1
      /\ v < UINT - 1 => x = v + 1
      /\ v = UINT - 1 => x = 0
  BY <1>1, NextCount DEF Tick, Uint
<1> HIDE DEF x
<1>3. /\ x >= u => Uint(x - u) = x - u
      /\ x < u => Uint(x - u) = x - u + UINT
  BY <1>2, Elapsed
<1>4. /\ v >= u => d = v - u
      /\ v < u => d = v - u + UINT
  BY Elapsed
<1>5. Uint(x - u) = d + 1
  BY <1>1, <1>2, <1>3, <1>4
<1> QED
  BY <1>2, <1>5 DEF x

\* The clock stays in range.
LEMMA TickType == ASSUME NEW v \in 0..UINT-1 PROVE Tick(v) \in 0..UINT-1
  BY ClockConstants, NextCount DEF Tick, Uint

\* n is compared as itself unless it is negative.
LEMMA Compared ==
  ASSUME NEW n \in Interval, n >= 0
  PROVE  Uint(n) = n /\ n < HALF /\ n \in Nat
<1>1. n \in 0..UINT-1 /\ 0 \in 0..UINT-1 /\ n - 0 = n /\ n < HALF /\ n \in Nat
  BY ClockConstants
<1>2. Uint(n - 0) = n - 0
  BY <1>1, Elapsed
<1> QED
  BY <1>1, <1>2

\* One process: what a record of sl holds.
Sleep == [pc : {"user", "runnable", "sleep", "asleep", "returned"}, n : Interval \cup {0},
          ticks0 : 0..UINT - 1, killed : BOOLEAN, ret : {0, -1}]

\* What Loop and kill() make of it.
LEMMA SleepRecords ==
  ASSUME NEW s \in Sleep, NEW t \in 0..UINT-1, NEW n \in Interval \cup {0}
  PROVE  /\ [s EXCEPT !.pc = "sleep", !.n = n, !.ticks0 = t] \in Sleep
         /\ [s EXCEPT !.pc = "returned", !.n = n, !.ret = -1] \in Sleep
         /\ [s EXCEPT !.pc = "returned", !.n = n, !.ret = 0] \in Sleep
         /\ Killed(s) \in Sleep
<1>1. [s EXCEPT !.pc = "sleep", !.n = n, !.ticks0 = t] \in Sleep
  BY DEF Sleep
<1>2. [s EXCEPT !.pc = "returned", !.n = n, !.ret = -1] \in Sleep
  BY DEF Sleep
<1>3. [s EXCEPT !.pc = "returned", !.n = n, !.ret = 0] \in Sleep
  BY DEF Sleep
<1>4. Killed(s) \in Sleep
  <2>1. CASE s.pc = "asleep"
    BY <2>1 DEF Sleep, Killed
  <2>2. CASE s.pc # "asleep"
    BY <2>2 DEF Sleep, Killed
  <2> QED
    BY <2>1, <2>2
<1> QED
  BY <1>1, <1>2, <1>3, <1>4

\* One turn of the loop of sys_sleep(), called when the process has slept d ticks.
LEMMA LoopInv ==
  ASSUME NEW p \in Sleeper, ClockInv, NEW t \in 0..UINT-1, NEW n \in Interval \cup {0}, Loop(p, t, n),
         UNCHANGED <<ticks, real>>,
         late' = late \/ late' = [late EXCEPT ![p] = 0], late'[p] = 0,
         n >= 0 => Uint(ticks - t) = real[p] /\ real[p] <= n + MAXDELAY
  PROVE  ClockInv'
<1>1. /\ ticks \in 0..UINT-1 /\ sl \in [Sleeper -> Sleep] /\ real \in [Sleeper -> 0..UINT]
      /\ late \in [Sleeper -> 0..MAXDELAY]
  BY DEF ClockInv, ClockTypeOK, Sleep
<1>2. \A q \in Sleeper \ {p} : sl'[q] = sl[q] /\ real'[q] = real[q] /\ late'[q] = late[q]
  BY <1>1 DEF Loop
<1>3. late' \in [Sleeper -> 0..MAXDELAY]
  BY <1>1, ClockConstants
<1>4. sl' \in [Sleeper -> Sleep]
  <2>1. PICK s \in Sleep : sl' = [sl EXCEPT ![p] = s]
    <3>1. sl[p] \in Sleep
      BY <1>1
    <3> QED
      BY <3>1, SleepRecords DEF Loop
  <2> QED
    BY <1>1, <2>1
<1>5. ClockTypeOK'
  BY <1>1, <1>3, <1>4 DEF ClockTypeOK, Sleep
<1>6. \A q \in Sleeper \ {p} : OnTime(q)'
  <2> TAKE q \in Sleeper \ {p}
  <2>1. sl'[q] = sl[q] /\ real'[q] = real[q] /\ late'[q] = late[q] /\ ticks' = ticks
    BY <1>2
  <2>2. OnTime(q)
    BY DEF ClockInv
  <2> QED
    BY <2>1, <2>2 DEF OnTime
<1>7. n >= 0 => Uint(n) = n
  <2>1. 0 >= 0 => Uint(0) = 0
    <3>1. 0 \in 0..UINT-1 /\ 0 - 0 = 0
      BY ClockConstants
    <3> QED
      BY <3>1, Elapsed
  <2> QED
    BY <2>1, Compared
<1>8. sl[p] \in Sleep /\ real[p] \in 0..UINT /\ UINT \in Nat /\ n \in Int
  BY <1>1, ClockConstants
<1>9. CASE Before(ticks, t, n) /\ sl' = [sl EXCEPT ![p] = [@ EXCEPT !.pc = "sleep", !.n = n, !.ticks0 = t]]
  <2>1. sl'[p].pc = "sleep" /\ sl'[p].n = n /\ sl'[p].ticks0 = t
    BY <1>1, <1>8, <1>9 DEF Sleep
  <2>2. n >= 0 => real[p] < n
    BY <1>7, <1>9 DEF Before
  <2>3. OnTime(p)'
    BY <2>1, <2>2 DEF OnTime
  <2> QED
    BY <1>5, <1>6, <2>3 DEF ClockInv
<1>10. CASE sl' = [sl EXCEPT ![p] = [@ EXCEPT !.pc = "returned", !.n = n, !.ret = -1]]
  <2>1. sl'[p].pc = "returned" /\ sl'[p].ret = -1
    BY <1>1, <1>8, <1>10 DEF Sleep
  <2>3. OnTime(p)'
    BY <2>1 DEF OnTime
  <2> QED
    BY <1>5, <1>6, <2>3 DEF ClockInv
<1>11. CASE ~Before(ticks, t, n) /\ sl' = [sl EXCEPT ![p] = [@ EXCEPT !.pc = "returned", !.n = n, !.ret = 0]]
  <2>1. sl'[p].pc = "returned" /\ sl'[p].n = n
    BY <1>1, <1>8, <1>11 DEF Sleep
  <2>2. n >= 0 => n <= real[p]
    BY <1>7, <1>8, <1>11 DEF Before
  <2>3. OnTime(p)'
    BY <2>1, <2>2 DEF OnTime
  <2> QED
    BY <1>5, <1>6, <2>3 DEF ClockInv
<1> QED
  BY <1>9, <1>10, <1>11 DEF Loop

\* sys_sleep() is called.
LEMMA StepSysSleep ==
  ASSUME ClockInv, NEW p \in Sleeper, NEW n \in Interval, sys_sleep(p, n) PROVE ClockInv'
<1>1. /\ sl[p].pc = "user" /\ Loop(p, ticks, n) /\ UNCHANGED <<ticks, real>> /\ late' = late
  BY DEF sys_sleep
<1>2. /\ ticks \in 0..UINT-1 /\ n \in Interval \cup {0} /\ late'[p] = 0 /\ real[p] = 0
  BY <1>1 DEF ClockInv, ClockTypeOK, OnTime
<1>3. Uint(ticks - ticks) = 0
  <2>1. Uint(ticks - ticks) = ticks - ticks /\ ticks - ticks = 0
    BY <1>2, Elapsed
  <2> QED
    BY <2>1
<1>4. n >= 0 => Uint(ticks - ticks) = real[p] /\ real[p] <= n + MAXDELAY
  BY <1>2, <1>3, ClockConstants
<1> QED
  BY <1>1, <1>2, <1>4, LoopInv

\* A sleeper runs again.
LEMMA StepWakes == ASSUME ClockInv, NEW p \in Sleeper, wakes(p) PROVE ClockInv'
<1> DEFINE t == sl[p].ticks0
           n == sl[p].n
<1>1. /\ sl[p].pc = "runnable" /\ Loop(p, t, n) /\ UNCHANGED <<ticks, real>>
      /\ late' = [late EXCEPT ![p] = 0]
  BY DEF wakes
<1>2. /\ sl[p] \in Sleep /\ late[p] \in 0..MAXDELAY /\ real[p] \in 0..UINT /\ late'[p] = 0
  BY <1>1 DEF ClockInv, ClockTypeOK, Sleep
<1>3. t \in 0..UINT-1 /\ n \in Interval \cup {0} /\ n \in Int
  BY <1>2, ClockConstants DEF Sleep
<1>4. n >= 0 => Uint(ticks - t) = real[p] /\ real[p] <= n + late[p]
  BY <1>1 DEF ClockInv, OnTime
<1>5. n >= 0 => Uint(ticks - t) = real[p] /\ real[p] <= n + MAXDELAY
  BY <1>2, <1>3, <1>4, ClockConstants
<1> HIDE DEF t, n
<1> QED
  BY <1>1, <1>2, <1>3, <1>5, LoopInv

\* Steps of one process that leave the clock alone.
LEMMA OthersOnTime ==
  ASSUME ClockInv, NEW p \in Sleeper, ticks' = ticks,
         \A q \in Sleeper \ {p} : sl'[q] = sl[q] /\ real'[q] = real[q] /\ late'[q] = late[q]
  PROVE  \A q \in Sleeper \ {p} : OnTime(q)'
<1> TAKE q \in Sleeper \ {p}
<1>1. sl'[q] = sl[q] /\ real'[q] = real[q] /\ late'[q] = late[q] /\ ticks' = ticks
  OBVIOUS
<1>2. OnTime(q)
  BY DEF ClockInv
<1> QED
  BY <1>1, <1>2 DEF OnTime

\* A process goes to sleep, leaves sys_sleep() or is killed.
LEMMA StepOwn ==
  ASSUME ClockInv, NEW p \in Sleeper, sleep(p) \/ leaves(p) \/ kill(p) PROVE ClockInv'
<1>1. /\ ticks \in 0..UINT-1 /\ sl \in [Sleeper -> Sleep] /\ real \in [Sleeper -> 0..UINT]
      /\ late \in [Sleeper -> 0..MAXDELAY] /\ OnTime(p) /\ UINT \in Nat
  BY ClockConstants DEF ClockInv, ClockTypeOK, Sleep
<1>2. ticks' = ticks /\ late' = late
  BY DEF sleep, leaves, kill
<1>3. CASE sleep(p)
  <2>1. sl' = [sl EXCEPT ![p].pc = "asleep"] /\ real' = real /\ sl[p].pc = "sleep"
    BY <1>3 DEF sleep
  <2>2. sl' \in [Sleeper -> Sleep] /\ \A q \in Sleeper \ {p} : sl'[q] = sl[q]
    BY <1>1, <2>1 DEF Sleep
  <2>3. sl'[p].pc = "asleep" /\ sl'[p].n = sl[p].n /\ sl'[p].ticks0 = sl[p].ticks0
    BY <1>1, <2>1 DEF Sleep
  <2>4. OnTime(p)'
    BY <1>1, <1>2, <2>1, <2>3 DEF OnTime
  <2>5. ClockTypeOK'
    BY <1>1, <1>2, <2>1, <2>2 DEF ClockTypeOK, Sleep
  <2> QED
    BY <1>2, <2>1, <2>2, <2>4, <2>5, OthersOnTime DEF ClockInv
<1>4. CASE leaves(p)
  <2>1. sl' = [sl EXCEPT ![p] = Awake] /\ real' = [real EXCEPT ![p] = 0] /\ sl[p].pc = "returned"
    BY <1>4 DEF leaves
  <2>2. sl' \in [Sleeper -> Sleep] /\ \A q \in Sleeper \ {p} : sl'[q] = sl[q] /\ real'[q] = real[q]
    BY <1>1, <2>1, ClockConstants DEF Sleep, Awake
  <2>3. sl'[p].pc = "user" /\ real'[p] = 0
    BY <1>1, <2>1 DEF Awake
  <2>4. OnTime(p)'
    BY <1>1, <1>2, <2>1, <2>3 DEF OnTime
  <2>5. ClockTypeOK'
    BY <1>1, <1>2, <2>1, <2>2 DEF ClockTypeOK, Sleep
  <2> QED
    BY <1>2, <2>2, <2>4, <2>5, OthersOnTime DEF ClockInv
<1>5. CASE kill(p)
  <2>1. sl' = [sl EXCEPT ![p] = Killed(@)] /\ real' = real /\ sl[p].pc # "returned"
    BY <1>5 DEF kill
  <2>2. sl' \in [Sleeper -> Sleep] /\ \A q \in Sleeper \ {p} : sl'[q] = sl[q]
    <3>1. Killed(sl[p]) \in Sleep
      <4>1. sl[p] \in Sleep /\ ticks \in 0..UINT-1 /\ 0 \in Interval \cup {0}
        BY <1>1
      <4> QED
        BY <4>1, SleepRecords
    <3> QED
      BY <1>1, <2>1, <3>1
  <2>3. /\ sl'[p].pc = IF sl[p].pc = "asleep" THEN "runnable" ELSE sl[p].pc
        /\ sl'[p].n = sl[p].n /\ sl'[p].ticks0 = sl[p].ticks0
    BY <1>1, <2>1 DEF Sleep, Killed
  <2>4. OnTime(p)'
    <3>1. sl[p].n \in Int /\ real[p] \in Nat
      BY <1>1, ClockConstants DEF Sleep
    <3> QED
      BY <1>1, <1>2, <2>1, <2>3, <3>1 DEF OnTime
  <2>5. ClockTypeOK'
    BY <1>1, <1>2, <2>1, <2>2 DEF ClockTypeOK, Sleep
  <2> QED
    BY <1>2, <2>1, <2>2, <2>4, <2>5, OthersOnTime DEF ClockInv
<1> QED
  BY <1>3, <1>4, <1>5

\* The timer interrupt.
LEMMA StepTimer == ASSUME ClockInv, timer PROVE ClockInv'
<1>1. /\ ticks \in 0..UINT-1 /\ sl \in [Sleeper -> Sleep] /\ real \in [Sleeper -> 0..UINT]
      /\ late \in [Sleeper -> 0..MAXDELAY]
  BY DEF ClockInv, ClockTypeOK, Sleep
<1>2. /\ HALF \in Nat \ {0} /\ MAXDELAY \in Nat /\ MAXDELAY <= HALF
      /\ UINT \in Nat \ {0} /\ UINT = HALF + HALF
  BY ClockConstants
<1>3. ticks' = Tick(ticks) /\ ticks' \in 0..UINT-1
  BY <1>1, TickType DEF timer
<1>4. SUFFICES ASSUME NEW p \in Sleeper
               PROVE  /\ OnTime(p)' /\ sl'[p] \in Sleep /\ real'[p] \in 0..UINT
                      /\ late'[p] \in 0..MAXDELAY
  <2>1. /\ sl' = [p \in Sleeper |-> sl'[p]] /\ real' = [p \in Sleeper |-> real'[p]]
        /\ late' = [p \in Sleeper |-> late'[p]]
    BY DEF timer
  <2>2. /\ sl' \in [Sleeper -> Sleep] /\ real' \in [Sleeper -> 0..UINT]
        /\ late' \in [Sleeper -> 0..MAXDELAY]
    BY <1>4, <2>1
  <2> QED
    BY <1>3, <1>4, <2>2 DEF ClockInv, ClockTypeOK, Sleep
<1>5. /\ sl[p] \in Sleep /\ real[p] \in 0..UINT /\ late[p] \in 0..MAXDELAY /\ OnTime(p)
      /\ sl[p].pc # "sleep" /\ (sl[p].pc = "runnable" => late[p] < MAXDELAY)
      /\ sl[p].ticks0 \in 0..UINT-1
  BY <1>1 DEF ClockInv, timer, tickslock, Sleep
<1>6. /\ sl'[p] = [sl[p] EXCEPT !.pc = Woken(sl[p], Tick(ticks))]
      /\ real'[p] = IF sl[p].pc \in {"asleep", "runnable"} /\ real[p] < UINT
                    THEN real[p] + 1 ELSE real[p]
      /\ late'[p] = IF sl[p].pc = "runnable" THEN late[p] + 1
                    ELSE IF sl'[p].pc = "asleep" /\ sl[p].killed THEN 1 ELSE late[p]
  BY DEF timer
<1>7. sl[p].n \in Int /\ (sl[p].n >= 0 => sl[p].n < HALF)
  BY <1>5, ClockConstants DEF Sleep
<1>8. CASE sl[p].pc \in {"user", "returned"}
  <2>1. sl'[p] = sl[p]
    BY <1>5, <1>6, <1>8 DEF Sleep, Woken
  <2>2. real'[p] = real[p] /\ late'[p] = late[p]
    BY <1>6, <1>8, <2>1
  <2> QED
    BY <1>5, <1>8, <2>1, <2>2 DEF OnTime
<1>9. CASE sl[p].pc \in {"asleep", "runnable"}
  <2>1. sl'[p] = [sl[p] EXCEPT !.pc = "runnable"]
    BY <1>5, <1>6, <1>9 DEF Sleep, Woken
  <2>2. /\ sl'[p] \in Sleep /\ sl'[p].pc = "runnable" /\ sl'[p].n = sl[p].n
        /\ sl'[p].ticks0 = sl[p].ticks0
    BY <1>5, <2>1 DEF Sleep
  <2>3. late'[p] \in 0..MAXDELAY /\ late'[p] = IF sl[p].pc = "runnable" THEN late[p] + 1 ELSE late[p]
    BY <1>2, <1>5, <1>6, <1>9, <2>2
  <2>4. real'[p] \in 0..UINT
    BY <1>2, <1>5, <1>6
  <2>5. ASSUME sl[p].n >= 0
        PROVE  /\ real'[p] = real[p] + 1 /\ real[p] + 1 < UINT
               /\ real'[p] <= sl[p].n + late'[p]
    <3>1. CASE sl[p].pc = "asleep"
      <4>1. late[p] = 0 /\ real[p] < sl[p].n
        BY <1>5, <2>5, <3>1 DEF OnTime
      <4> QED
        BY <1>2, <1>5, <1>6, <1>7, <2>3, <2>5, <3>1, <4>1
    <3>2. CASE sl[p].pc = "runnable"
      <4>1. real[p] <= sl[p].n + late[p]
        BY <1>5, <2>5, <3>2 DEF OnTime
      <4> QED
        BY <1>2, <1>5, <1>6, <1>7, <2>3, <2>5, <3>2, <4>1
    <3> QED
      BY <1>9, <3>1, <3>2
  <2>6. ASSUME sl[p].n >= 0
        PROVE  Uint(Tick(ticks) - sl[p].ticks0) = real[p] + 1
    <3> DEFINE u == sl[p].ticks0
               d == real[p]
    <3>1. u \in 0..UINT-1 /\ Uint(ticks - u) = d /\ d + 1 < UINT
      BY <1>5, <1>9, <2>5, <2>6 DEF OnTime
    <3> HIDE DEF u, d
    <3>2. Uint(Tick(ticks) - u) = d + 1
      BY <1>1, <3>1, TickElapsed
    <3> QED
      BY <3>2 DEF u, d
  <2>7. OnTime(p)'
    BY <1>3, <2>2, <2>5, <2>6 DEF OnTime
  <2> QED
    BY <2>2, <2>3, <2>4, <2>7
<1> QED
  BY <1>5, <1>8, <1>9 DEF Sleep

\* At first nobody sleeps.
LEMMA InitClock == ClockInit => ClockInv
<1>1. ASSUME ClockInit PROVE ClockInv
  <2>1. Awake \in Sleep
    BY ClockConstants DEF Awake, Sleep
  <2>2. ClockTypeOK
    BY <1>1, <2>1, ClockConstants DEF ClockInit, ClockTypeOK, Sleep
  <2>3. \A p \in Sleeper : OnTime(p)
    BY <1>1 DEF ClockInit, OnTime, Awake
  <2> QED
    BY <2>2, <2>3 DEF ClockInv
<1> QED
  BY <1>1

\* Every step keeps the invariant.
LEMMA StepClock == ClockInv /\ [ClockNext]_clockvars => ClockInv'
<1> SUFFICES ASSUME ClockInv, [ClockNext]_clockvars PROVE ClockInv'
  OBVIOUS
<1>1. CASE ClockNext
  BY <1>1, StepTimer, StepOwn, StepWakes, StepSysSleep DEF ClockNext
<1>2. CASE UNCHANGED clockvars
  <2>1. ticks' = ticks /\ sl' = sl /\ real' = real /\ late' = late
    BY <1>2 DEF clockvars
  <2>2. ClockTypeOK'
    BY <2>1 DEF ClockInv, ClockTypeOK
  <2>3. ASSUME NEW p \in Sleeper PROVE OnTime(p)'
    BY <2>1 DEF ClockInv, OnTime
  <2> QED
    BY <2>2, <2>3 DEF ClockInv
<1> QED
  BY <1>1, <1>2

\* sleep(n) of any number of processes, on a clock of any width and wherever it wraps
\* around, as long as no runnable process waits half the range of the clock for a CPU.
THEOREM ClockSleepsItsTime == ClockSpec => []SleepsItsTime
<1>1. ClockInv => SleepsItsTime
  <2> SUFFICES ASSUME ClockInv, NEW p \in Sleeper
               PROVE  /\ sl[p].pc = "returned" /\ sl[p].ret = 0 /\ sl[p].n >= 0 =>
                            sl[p].n <= real[p] /\ real[p] <= sl[p].n + MAXDELAY
                      /\ sl[p].pc = "asleep" =>
                            (sl[p].killed => late[p] = 0) /\ (sl[p].n >= 0 => real[p] < sl[p].n)
    BY DEF SleepsItsTime, ClockInv
  <2> QED
    BY DEF ClockInv, OnTime
<1> QED
  BY <1>1, InitClock, StepClock, PTL DEF ClockSpec
=============================================================================
