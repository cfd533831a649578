------------------------------ MODULE Umalloc ------------------------------
(***************************************************************************)
(* malloc() and free() of umalloc.c: first fit in a circular list of free  *)
(* blocks in address order.  Addresses count headers; the static header    *)
(* base is 0, the heap begins at 1.                                        *)
(***************************************************************************)
EXTENDS Naturals, FiniteSets, FiniteSetsExt, Bind

CONSTANTS
  MAXHEAP,  \* units sbrk() can give before it fails
  HSIZE,    \* sizeof(Header)
  NALLOC,   \* the least morecore() asks for
  NBytes    \* arguments of malloc()

ASSUME UmallocAssumption ==
  /\ {MAXHEAP, HSIZE, NALLOC} \subseteq Nat \ {0} /\ NBytes \subseteq Nat \ {0}

base == 0
NULL == MAXHEAP + 1
Addr == 0..MAXHEAP

Nothing == [size |-> 0, ptr |-> 0]

VARIABLES hdr, freep, brk, blocks, gaps
heapvars == <<hdr, freep, brk, blocks, gaps>>

\* The headers, the list, the break, what is allocated and what others took.
HeapTypeOK ==
  /\ hdr \in [Addr -> [size : Nat, ptr : Addr]]
  /\ freep \in Addr \cup {NULL} /\ brk \in 1..MAXHEAP + 1
  /\ blocks \in [DOMAIN blocks -> NBytes] /\ DOMAIN blocks \subseteq Addr
  /\ gaps \subseteq Addr

HeapInit ==
  /\ hdr = [a \in Addr |-> Nothing]
  /\ freep = NULL /\ brk = 1 /\ blocks = [a \in {} |-> 0] /\ gaps = {}

\* The k-th header after p on the list.
After(h, p, k) ==
  LET o[j \in 0..k] == IF j = 0 THEN p ELSE h[o[j - 1]].ptr IN o[k]

\* The first k from which on that satisfies Test.
First(from, Test(_)) == Min({k \in from..MAXHEAP + 1 : Test(k)})

\* Where free() stops: bp lies between p and its successor, or past either end.
Stop(h, p, bp) ==
  \/ bp > p /\ bp < h[p].ptr
  \/ p >= h[p].ptr /\ (bp > p \/ bp < h[p].ptr)

\* Mutant of Joined: only the lower neighbour is joined.
Joined_lower(h, p, bp) ==
  IF p + h[p].size = bp THEN [h EXCEPT ![p].size = @ + h[bp].size, ![bp] = Nothing]
  ELSE [h EXCEPT ![bp].ptr = h[p].ptr, ![p].ptr = bp]

\* bp goes in after p, joined to the neighbours it touches; the header of a
\* block that was joined to a lower one is no more.
Joined(h, p, bp) ==
  LET up == h[p].ptr
      upper == bp + h[bp].size = up
      lower == p + h[p].size = bp
      b == IF upper THEN [size |-> h[bp].size + h[up].size, ptr |-> h[up].ptr]
                    ELSE [size |-> h[bp].size, ptr |-> up]
  IN  [a \in Addr |->
         CASE a = p  -> IF lower THEN [size |-> h[p].size + b.size, ptr |-> b.ptr]
                                 ELSE [size |-> h[p].size, ptr |-> bp]
           [] a = bp -> IF lower THEN Nothing ELSE b
           [] OTHER  -> IF upper /\ a = up THEN Nothing ELSE h[a]]

\* free(): the new list, with freep at p.
Released(m, bp) ==
  LET p == After(m.hdr, m.freep, First(0, LAMBDA k : Stop(m.hdr, After(m.hdr, m.freep, k), bp)))
  IN  [m EXCEPT !.hdr = Joined(m.hdr, p, bp), !.freep = p]

free_(bp) ==
  /\ bp \in DOMAIN blocks
  /\ \E m \in {Released([hdr |-> hdr, freep |-> freep], bp)} : hdr' = m.hdr /\ freep' = m.freep
  /\ blocks' = [a \in DOMAIN blocks \ {bp} |-> blocks[a]]
  /\ UNCHANGED <<brk, gaps>>

Units(n) == (n + HSIZE - 1) \div HSIZE + 1

\* morecore(): what sbrk() gave goes on the list.
Core(m, nu) ==
  Released([m EXCEPT !.hdr[brk].size = nu], brk)

Enough(m, k, nu) == m.hdr[After(m.hdr, m.freep, k)].size >= nu

\* The block is unlinked when it fits exactly; else its tail is returned.
Carve(h, prevp, p, nu) ==
  IF h[p].size = nu THEN [hdr |-> [h EXCEPT ![prevp].ptr = h[p].ptr, ![p].ptr = 0], p |-> p]
  ELSE LET q == p + h[p].size - nu
       IN  [hdr |-> [h EXCEPT ![p].size = @ - nu, ![q].size = nu], p |-> q]

\* malloc(): a turn round the list, then morecore() and another.
malloc(n) ==
  LET nu == Units(n)
      ask == Max({nu, NALLOC})
      m0 == [hdr |-> hdr, freep |-> IF freep = NULL THEN base ELSE freep]
      length == First(1, LAMBDA k : After(m0.hdr, m0.freep, k) = m0.freep)
      fits == \E k \in 1..length : Enough(m0, k, nu)
  IN  \/ /\ ~fits /\ brk + ask > MAXHEAP + 1
         /\ hdr' = m0.hdr /\ freep' = m0.freep
         /\ UNCHANGED <<brk, blocks, gaps>>
      \/ /\ fits \/ brk + ask <= MAXHEAP + 1
         /\ \E m \in {IF fits THEN m0 ELSE Core(m0, ask)} :
              \E k \in {First(1, LAMBDA j : Enough(m, j, nu))} :
                \E c \in {Carve(m.hdr, After(m.hdr, m.freep, k - 1), After(m.hdr, m.freep, k), nu)} :
                  /\ hdr' = c.hdr
                  /\ freep' = After(m.hdr, m.freep, k - 1)
                  /\ blocks' = [a \in DOMAIN blocks \cup {c.p} |-> IF a = c.p THEN n ELSE blocks[a]]
         /\ brk' = IF fits THEN brk ELSE brk + ask
         /\ UNCHANGED gaps

\* The program calls sbrk() itself.
sbrk ==
  /\ brk <= MAXHEAP
  /\ gaps' = gaps \cup {brk} /\ brk' = brk + 1
  /\ UNCHANGED <<hdr, freep, blocks>>

HeapNext == sbrk \/ (\E n \in NBytes : malloc(n)) \/ (\E bp \in Addr : free_(bp))

-----------------------------------------------------------------------------
(* Properties                                                              *)

FreeList == IF freep = NULL THEN {} ELSE {After(hdr, freep, k) : k \in 0..MAXHEAP} \ {base}
Owners(a) == {b \in FreeList \cup DOMAIN blocks : b <= a /\ a < b + hdr[b].size}

\* Every unit below the break is in exactly one free or allocated block, or the
\* program's own: malloc() and free() lose nothing and give nothing out twice.
\* Free blocks never touch: whatever the order of the calls, free() has joined
\* every block to both its neighbours.  A block has room for what was asked for,
\* next to its header.
HeapPartitioned ==
  /\ HeapTypeOK
  /\ FreeList \cap DOMAIN blocks = {}
  /\ \A a \in 1..brk - 1 : Cardinality(Owners(a)) = IF a \in gaps THEN 0 ELSE 1
  /\ \A b \in FreeList : b + hdr[b].size \notin FreeList
  /\ \A b \in DOMAIN blocks : (hdr[b].size - 1) * HSIZE >= blocks[b]
=============================================================================
