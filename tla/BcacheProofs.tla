---------------------------- MODULE BcacheProofs ----------------------------
(***************************************************************************)
(* Proofs about Bcache for any number of processes, buffers and blocks: a  *)
(* block has one buffer, a request has one owner, and bread() returns the  *)
(* last content of the block.                                              *)
(***************************************************************************)
EXTENDS Bcache, TLAPS

\* Zenon proves the leaves; those with arithmetic or sequences cite SMT.
USE ZenonT(30)

\* What the steps use of finite sets; it is proved from the library's theorems further
\* down, where they come into scope.
Counting ==
  /\ \A S : IsFiniteSet(S) => Cardinality(S) \in Nat /\ (Cardinality(S) = 0 <=> S = {})
  /\ \A S, T : IsFiniteSet(S) /\ T \subseteq S => IsFiniteSet(T) /\ Cardinality(T) <= Cardinality(S)
  /\ \A S, x : IsFiniteSet(S) =>
       /\ IsFiniteSet(S \cup {x})
       /\ x \notin S => Cardinality(S \cup {x}) = Cardinality(S) + 1
       /\ x \in S => Cardinality(S \ {x}) = Cardinality(S) - 1

Users(b) == {p \in Proc : my[p] = b}
Queued == Range(idequeue)
Inside == {"bread", "iowait", "ioready", "use"}

Types ==
  /\ blockno \in [Buf -> Block \cup {None}]
  /\ refcnt \in [Buf -> Nat]
  /\ valid \in [Buf -> BOOLEAN] /\ dirty \in [Buf -> BOOLEAN]
  /\ data \in [Buf -> Data]
  /\ holder \in [Buf -> Proc \cup {None}]
  /\ idequeue \in Seq(Buf)
  /\ disk \in [Block -> Data] /\ contents \in [Block -> Data]
  /\ pc \in [Proc -> Pcs]
  /\ my \in [Proc -> Buf \cup {None}]
  /\ want \in [Proc -> Block \cup {None}]
  /\ panicked \in BOOLEAN

\* Every buffer is in the list.
List ==
  /\ mru \in [1..Cardinality(Buf) -> Buf]
  /\ \A b \in Buf : \E i \in 1..Cardinality(Buf) : mru[i] = b

\* refcnt counts the processes between bget() and the end of brelse().
Counts == \A b \in Buf : refcnt[b] = Cardinality(Users(b))

\* A process has the buffer of the block it asked for.
Mine ==
  \A p \in Proc : /\ my[p] = None <=> pc[p] = "idle"
                  /\ my[p] # None => want[p] \in Block /\ blockno[my[p]] = want[p]

One == \A b, c \in Buf : b # c /\ blockno[b] = blockno[c] => blockno[b] = None

\* The holder of a sleep lock is the one process inside bread(), iderw() or the user's
\* code with the buffer, and a process asleep in acquiresleep() waits for another.
Locks ==
  /\ \A b \in Buf, p \in Proc : holder[b] = p <=> my[p] = b /\ pc[p] \in Inside
  /\ \A p \in Proc : pc[p] = "lockwait" => holder[my[p]] \notin {p, None}

\* A request is queued once, by the holder, who waits for it, and as long as it is
\* queued the flags say that it is not done.
Queue ==
  /\ IsInjective(idequeue)
  /\ \A b \in Queued : /\ holder[b] \in Proc /\ pc[holder[b]] \in {"iowait", "ioready"}
                       /\ ~valid[b] \/ dirty[b]
  /\ \A p \in Proc : pc[p] = "iowait" => my[p] \in Queued
  /\ \A p \in Proc : pc[p] = "ioready" /\ my[p] \notin Queued => valid[my[p]] /\ ~dirty[my[p]]

Flags ==
  /\ \A b \in Buf : dirty[b] => valid[b] /\ blockno[b] # None
  /\ \A p \in Proc : pc[p] = "use" => valid[my[p]]

\* A valid buffer has the last content of its block, and so has the disk unless a
\* buffer of the block is still to be written.
Latest ==
  ~IdeErrors =>
    /\ \A b \in Buf : valid[b] /\ blockno[b] # None => data[b] = contents[blockno[b]]
    /\ \A k \in Block : (\A b \in Buf : blockno[b] = k => ~dirty[b]) => disk[k] = contents[k]

Inv == /\ Types /\ List /\ Counts /\ Mine /\ One /\ Locks /\ Queue /\ Flags /\ Latest

-----------------------------------------------------------------------------
(* Sequences and sets                                                      *)

\* A buffer is queued.
LEMMA Appended ==
  ASSUME NEW q \in Seq(Buf), NEW b \in Buf, IsInjective(q), b \notin Range(q)
  PROVE  /\ Append(q, b) \in Seq(Buf) /\ IsInjective(Append(q, b))
         /\ Range(Append(q, b)) = Range(q) \cup {b}
  BY SMT DEF IsInjective, Range

\* The head of the queue is taken off.
LEMMA Taken ==
  ASSUME NEW q \in Seq(Buf), q # << >>, IsInjective(q)
  PROVE  /\ Head(q) \in Buf /\ Head(q) \in Range(q)
         /\ Tail(q) \in Seq(Buf) /\ IsInjective(Tail(q))
         /\ Range(Tail(q)) = Range(q) \ {Head(q)}
<1>1. /\ Len(q) \in Nat /\ Len(q) >= 1 /\ DOMAIN q = 1..Len(q) /\ Head(q) = q[1]
      /\ Tail(q) \in Seq(Buf) /\ DOMAIN Tail(q) = 1..(Len(q) - 1)
      /\ \A i \in 1..(Len(q) - 1) : Tail(q)[i] = q[i + 1]
  BY SMT
<1>2. Head(q) \in Buf /\ Head(q) \in Range(q)
  BY <1>1, SMT DEF Range
<1>3. IsInjective(Tail(q))
  BY <1>1, SMT DEF IsInjective
<1>4. ASSUME NEW x \in Range(Tail(q)) PROVE x \in Range(q) \ {Head(q)}
  <2>1. PICK i \in 1..(Len(q) - 1) : x = q[i + 1]
    BY <1>1, <1>4 DEF Range
  <2> QED
    BY <1>1, <2>1, SMT DEF Range, IsInjective
<1>5. ASSUME NEW x \in Range(q), x # Head(q) PROVE x \in Range(Tail(q))
  <2>1. PICK i \in 1..Len(q) : x = q[i] /\ i # 1
    BY <1>1, <1>5 DEF Range
  <2>2. i - 1 \in 1..(Len(q) - 1) /\ Tail(q)[i - 1] = x
    BY <1>1, <2>1, SMT
  <2> QED
    BY <1>1, <2>2 DEF Range
<1> QED
  BY <1>1, <1>2, <1>3, <1>4, <1>5

\* The queue holds buffers.
LEMMA QueuedBuf == Types => Queued \subseteq Buf
  BY SMT DEF Types, Queued, Range

\* The sets that are counted are finite.
LEMMA Finite ==
  ASSUME Counting
  PROVE  /\ IsFiniteSet(Proc) /\ IsFiniteSet(Buf) /\ Cardinality(Buf) \in Nat /\ Cardinality(Proc) \in Nat
         /\ \A b : IsFiniteSet(Users(b)) /\ Cardinality(Users(b)) \in Nat /\ Cardinality(Users(b)) <= Cardinality(Proc)
<1>1. IsFiniteSet(Proc) /\ IsFiniteSet(Buf)
  BY BcacheAssumption
<1>2. \A b : Users(b) \in SUBSET Proc
  BY DEF Users
<1> QED
  BY <1>1, <1>2 DEF Counting

\* Moving a buffer to the head of the list loses none.
LEMMA Fronted ==
  ASSUME Counting, List, NEW b \in Buf
  PROVE  /\ ToFront(mru, b) \in [1..Cardinality(Buf) -> Buf]
         /\ \A c \in Buf : \E i \in 1..Cardinality(Buf) : ToFront(mru, b)[i] = c
<1> DEFINE n == Cardinality(Buf)
<1>0. n \in Nat /\ mru \in [1..n -> Buf] /\ DOMAIN mru = 1..n
  BY Finite DEF List
<1> HIDE DEF n
<1> DEFINE k == CHOOSE i \in 1..n : mru[i] = b
<1>1. k \in 1..n /\ mru[k] = b
  BY DEF List, n
<1>2. ToFront(mru, b) = [i \in 1..n |-> IF i = 1 THEN b ELSE IF i <= k THEN mru[i - 1] ELSE mru[i]]
  BY <1>0 DEF ToFront
<1> HIDE DEF k
<1>3. ToFront(mru, b) \in [1..n -> Buf]
  <2>1. ASSUME NEW i \in 1..n PROVE (IF i = 1 THEN b ELSE IF i <= k THEN mru[i - 1] ELSE mru[i]) \in Buf
    BY <1>0, SMT
  <2> QED
    BY <1>2, <2>1
<1>4. ASSUME NEW c \in Buf PROVE \E i \in 1..n : ToFront(mru, b)[i] = c
  <2>1. PICK i \in 1..n : mru[i] = c
    BY DEF List, n
  <2>2. CASE i = k
    <3>1. 1 \in 1..n /\ ToFront(mru, b)[1] = b
      BY <1>0, <1>1, <1>2, SMT
    <3> QED
      BY <1>1, <2>1, <2>2, <3>1
  <2>3. CASE i < k
    <3>1. i + 1 \in 1..n /\ i + 1 # 1 /\ i + 1 <= k /\ (i + 1) - 1 = i
      BY <1>0, <1>1, <2>3, SMT
    <3>2. ToFront(mru, b)[i + 1] = mru[(i + 1) - 1]
      BY <1>2, <3>1
    <3> QED
      BY <2>1, <3>1, <3>2
  <2>4. CASE i > k
    <3>1. i # 1 /\ ~(i <= k)
      BY <1>0, <1>1, <2>4, SMT
    <3>2. ToFront(mru, b)[i] = mru[i]
      BY <1>2, <3>1
    <3> QED
      BY <2>1, <3>2
  <2> QED
    BY <1>0, <1>1, <2>2, <2>3, <2>4, SMT
<1> QED
  BY <1>3, <1>4 DEF n

\* A process with the sleep lock and no request: its buffer is its own and not queued.
LEMMA Owner ==
  ASSUME NEW p \in Proc, Inv, pc[p] \in {"bread", "use"}
  PROVE  /\ my[p] \in Buf /\ holder[my[p]] = p /\ my[p] \notin Queued /\ Queued \subseteq Buf
         /\ \A b \in Buf : holder[b] = p => b = my[p]
         /\ \A q \in Proc \ {p} : pc[q] = "ioready" => my[q] \in Buf \ {my[p]}
<1>0. None \notin Proc /\ None \notin Buf
  BY BcacheAssumption
<1> USE <1>0 DEF Inv
<1>1. my[p] \in Buf /\ holder[my[p]] = p
  BY SMT DEF Mine, Types, Locks, Inside
<1>2. my[p] \notin Queued
  BY <1>1 DEF Queue
<1>3. \A b \in Buf : holder[b] = p => b = my[p]
  BY DEF Locks
<1>4. \A q \in Proc \ {p} : pc[q] = "ioready" => my[q] \in Buf \ {my[p]}
  BY <1>1, SMT DEF Locks, Inside, Mine, Types
<1> QED
  BY <1>1, <1>2, <1>3, <1>4, QueuedBuf

\* The process that has the buffer gives it and its block the content v.
Writes(p, v) ==
  /\ my[p] \in Buf /\ blockno[my[p]] \in Block
  /\ blockno' = blockno /\ valid' = valid /\ disk' = disk
  /\ \A b \in Buf \ {my[p]} : dirty'[b] = dirty[b] /\ data'[b] = data[b]
  /\ dirty'[my[p]] = TRUE /\ data'[my[p]] = v /\ contents'[blockno[my[p]]] = v
  /\ \A k \in Block \ {blockno[my[p]]} : contents'[k] = contents[k]

\* Then the buffer is the one place of the new content, and no other buffer had the block.
LEMMA Written == ASSUME NEW p \in Proc, NEW v, Inv, Writes(p, v) PROVE Latest'
<1>0. None \notin Block
  BY BcacheAssumption
<1> USE <1>0 DEF Inv, Writes
<1> SUFFICES ASSUME ~IdeErrors PROVE Latest'
  BY DEF Latest
<1>1. ASSUME NEW b \in Buf, valid[b], blockno[b] # None PROVE data'[b] = contents'[blockno[b]]
  <2>1. CASE b = my[p]
    BY <2>1
  <2>2. CASE b # my[p]
    <3>1. blockno[b] # blockno[my[p]] /\ blockno[b] \in Block
      BY <1>1, <2>2, SMT DEF One, Types
    <3> QED
      BY <1>1, <2>2, <3>1 DEF Latest
  <2> QED
    BY <2>1, <2>2
<1>2. ASSUME NEW k \in Block, \A b \in Buf : blockno[b] = k => ~dirty'[b] PROVE disk[k] = contents'[k]
  <2>1. k # blockno[my[p]] /\ \A b \in Buf : blockno[b] = k => ~dirty[b]
    BY <1>2
  <2> QED
    BY <2>1 DEF Latest
<1> QED
  BY <1>1, <1>2 DEF Latest

\* One process goes on with its buffer, and nothing else changes.
Moves(p) ==
  /\ pc' \in [Proc -> Pcs] /\ \A q \in Proc \ {p} : pc'[q] = pc[q]
  /\ blockno' = blockno /\ refcnt' = refcnt /\ valid' = valid /\ dirty' = dirty
  /\ data' = data /\ holder' = holder /\ mru' = mru /\ idequeue' = idequeue
  /\ disk' = disk /\ my' = my /\ want' = want /\ panicked' = panicked
  /\ contents' = contents

\* What it takes: it stays inside or outside the sleep lock, it sleeps in acquiresleep()
\* only behind another process and in iderw() only for a queued request, it stays in
\* iderw() as long as its request is queued, and it has a valid buffer when it leaves.
LEMMA MovesInv ==
  ASSUME NEW p \in Proc, Inv, Moves(p), pc[p] # "idle", pc'[p] # "idle",
         pc[p] \in Inside <=> pc'[p] \in Inside,
         pc'[p] = "lockwait" => holder[my[p]] \notin {p, None},
         pc[p] \in Inside /\ my[p] \in Queued => pc'[p] \in {"iowait", "ioready"},
         pc'[p] = "iowait" => my[p] \in Queued,
         pc'[p] = "ioready" => pc[p] = "iowait",
         pc'[p] = "use" => valid[my[p]]
  PROVE  Inv'
<1> USE DEF Inv, Moves
<1>1. Queued' = Queued /\ Queued \subseteq Buf
  BY QueuedBuf DEF Queued
<1>2. Types'
  BY DEF Types
<1>3. List' /\ Counts' /\ One' /\ Latest'
  BY SMT DEF List, Counts, Users, One, Latest
<1>4. Mine' /\ Flags'
  BY SMT DEF Mine, Flags
<1>5. Locks'
  BY SMT DEF Locks
<1>6. Queue'
  <2>1. \A b \in Queued : pc'[holder[b]] \in {"iowait", "ioready"}
    BY <1>1, SMT DEF Queue, Locks
  <2> QED
    BY <1>1, <2>1 DEF Queue
<1> QED
  BY <1>2, <1>3, <1>4, <1>5, <1>6

\* kill() wakes a sleeper early.
LEMMA StepKill == ASSUME NEW p \in Proc, Inv, kill(p) PROVE Inv'
<1>1. /\ (pc[p] = "lockwait" /\ pc'[p] = "lock") \/ (pc[p] = "iowait" /\ pc'[p] = "ioready")
      /\ Moves(p)
  BY DEF Inv, kill, Types, Goto, Pcs, buf, Moves
<1> QED
  BY <1>1, MovesInv DEF Inside

\* The request is done and the data is there, or the process sleeps again.
LEMMA StepWoken == ASSUME NEW p \in Proc, Inv, iderw_woken(p) PROVE Inv'
<1>1. /\ pc[p] = "ioready" /\ Moves(p)
      /\ (valid[my[p]] /\ ~dirty[my[p]] /\ pc'[p] = "use")
         \/ (~(valid[my[p]] /\ ~dirty[my[p]]) /\ pc'[p] = "iowait")
  BY DEF Inv, iderw_woken, Types, Goto, Pcs, buf, Moves
<1>2. /\ pc'[p] = "iowait" => my[p] \in Queued
      /\ pc'[p] = "use" => my[p] \notin Queued /\ valid[my[p]]
  BY <1>1 DEF Inv, Queue
<1> QED
  BY <1>1, <1>2, MovesInv DEF Inside

\* The sleep lock is held by another process.
LEMMA StepLockWait == ASSUME NEW p \in Proc, Inv, acquiresleep(p), holder[my[p]] # None PROVE Inv'
<1>1. pc[p] = "lock" /\ pc'[p] = "lockwait" /\ Moves(p)
  BY DEF Inv, acquiresleep, Types, Goto, Pcs, buf, Moves
<1>2. my[p] \in Buf
  BY <1>1 DEF Inv, Mine, Types
<1>3. holder[my[p]] \notin {p, None}
  BY <1>1, <1>2, SMT DEF Inv, Locks, Inside
<1> QED
  BY <1>1, <1>3, MovesInv DEF Inside

\* The buffer is valid.
LEMMA StepBreadValid == ASSUME NEW p \in Proc, Inv, bread(p), valid[my[p]] PROVE Inv'
<1>1. pc[p] = "bread" /\ pc'[p] = "use" /\ Moves(p)
  BY DEF Inv, bread, Types, Goto, Pcs, buf, Moves
<1> QED
  BY <1>1, Owner, MovesInv DEF Inside

\* The sleep lock is free.
LEMMA StepLock == ASSUME NEW p \in Proc, Inv, ~panicked, acquiresleep(p), holder[my[p]] = None PROVE Inv'
<1>0. None \notin Proc /\ None \notin Buf /\ None \notin Block
  BY BcacheAssumption
<1> USE <1>0 DEF Inv
<1>1. /\ pc[p] = "lock" /\ pc'[p] = "bread" /\ pc' \in [Proc -> Pcs] /\ \A q \in Proc \ {p} : pc'[q] = pc[q]
      /\ my[p] \in Buf /\ holder' = [holder EXCEPT ![my[p]] = p]
  BY SMT DEF acquiresleep, Types, Goto, Pcs, Mine
<1>2. /\ blockno' = blockno /\ refcnt' = refcnt /\ valid' = valid /\ dirty' = dirty
      /\ data' = data /\ mru' = mru /\ idequeue' = idequeue /\ disk' = disk
      /\ my' = my /\ want' = want /\ panicked' = panicked /\ contents' = contents
  BY DEF acquiresleep, buf
<1>3. my[p] \notin Queued
  BY <1>1, <1>2 DEF Queue
<1>4. \A b \in Buf \ {my[p]} : holder'[b] = holder[b]
  BY <1>1 DEF Types
<1>9. Queued' = Queued /\ Queued \subseteq Buf
  BY <1>2, QueuedBuf DEF Queued
<1>10. Types'
  BY <1>1, <1>2 DEF Types, Pcs
<1>11. List' /\ Counts' /\ One' /\ Latest'
  BY <1>2, SMT DEF List, Counts, Users, One, Latest
<1>13. Mine'
  BY <1>1, <1>2, SMT DEF Mine, Types
<1>15. Locks'
  BY <1>1, <1>2, SMT DEF Locks, Mine, Types, Inside
<1>16. Queue'
  BY <1>1, <1>2, <1>3, <1>4, <1>9, SMT DEF Queue
<1>17. Flags'
  BY <1>1, <1>2 DEF Flags, Types, Mine
<1> QED
  BY <1>10, <1>11, <1>13, <1>15, <1>16, <1>17

\* The block has to be read from the disk.
LEMMA StepBread == ASSUME Counting, NEW p \in Proc, Inv, ~panicked, bread(p), ~valid[my[p]] PROVE Inv'
<1>0. None \notin Proc /\ None \notin Buf /\ None \notin Block
  BY BcacheAssumption
<1> USE <1>0 DEF Inv
<1>1. /\ pc[p] = "bread" /\ pc'[p] = "iowait" /\ pc' \in [Proc -> Pcs] /\ \A q \in Proc \ {p} : pc'[q] = pc[q]
  BY DEF bread, Types, Goto, Pcs, iderw
<1>2. /\ blockno' = blockno /\ refcnt' = refcnt /\ valid' = valid /\ dirty' = dirty
      /\ data' = data /\ holder' = holder /\ mru' = mru /\ disk' = disk /\ my' = my
      /\ want' = want /\ panicked' = panicked /\ contents' = contents
  BY DEF bread, buf, iderw
<1>3. my[p] \in Buf /\ holder[my[p]] = p /\ my[p] \notin Queued /\ Queued \subseteq Buf
      /\ (\A b \in Buf : holder[b] = p => b = my[p])
      /\ \A q \in Proc \ {p} : pc[q] = "ioready" => my[q] \in Buf \ {my[p]}
  BY <1>1, Owner
<1>4. /\ idequeue' \in Seq(Buf) /\ IsInjective(idequeue') /\ Queued' = Queued \cup {my[p]}
  <2>1. idequeue \in Seq(Buf) /\ IsInjective(idequeue) /\ my[p] \notin Range(idequeue)
    BY <1>3 DEF Types, Queue, Queued
  <2>2. idequeue' = Append(idequeue, my[p])
    BY DEF bread, iderw
  <2> QED
    BY <1>3, <2>1, <2>2, Appended DEF Queued
<1>10. Types'
  BY <1>1, <1>2, <1>4 DEF Types, Pcs
<1>11. List' /\ Counts' /\ One' /\ Latest'
  BY <1>2, SMT DEF List, Counts, Users, One, Latest
<1>13. Mine'
  BY <1>1, <1>2 DEF Mine, Types
<1>15. Locks'
  BY <1>1, <1>2, SMT DEF Locks, Mine, Types, Inside
<1>16. Queue'
  BY <1>1, <1>2, <1>3, <1>4, SMT DEF Queue
<1>17. Flags'
  BY <1>1, <1>2 DEF Flags, Types, Mine
<1> QED
  BY <1>10, <1>11, <1>13, <1>15, <1>16, <1>17

\* bwrite(): the buffer and its block change, and the request is queued.
LEMMA StepBwrite == ASSUME Counting, NEW p \in Proc, Inv, ~panicked, NEW v \in Data, bwrite(p, v) PROVE Inv'
<1>0. None \notin Proc /\ None \notin Buf /\ None \notin Block
  BY BcacheAssumption
<1> USE <1>0 DEF Inv
<1>1. /\ pc[p] = "use" /\ pc'[p] = "iowait" /\ pc' \in [Proc -> Pcs] /\ \A q \in Proc \ {p} : pc'[q] = pc[q]
  BY DEF bwrite, Types, Goto, Pcs, iderw
<1>2. /\ blockno' = blockno /\ refcnt' = refcnt /\ valid' = valid /\ holder' = holder
      /\ mru' = mru /\ disk' = disk /\ my' = my /\ want' = want
      /\ panicked' = panicked
  BY DEF bwrite, buf, iderw
<1>3. my[p] \in Buf /\ holder[my[p]] = p /\ my[p] \notin Queued /\ Queued \subseteq Buf
      /\ (\A b \in Buf : holder[b] = p => b = my[p])
      /\ \A q \in Proc \ {p} : pc[q] = "ioready" => my[q] \in Buf \ {my[p]}
  BY <1>1, Owner
<1>4. /\ idequeue' \in Seq(Buf) /\ IsInjective(idequeue') /\ Queued' = Queued \cup {my[p]}
  <2>1. idequeue \in Seq(Buf) /\ IsInjective(idequeue) /\ my[p] \notin Range(idequeue)
    BY <1>3 DEF Types, Queue, Queued
  <2>2. idequeue' = Append(idequeue, my[p])
    BY DEF bwrite, iderw
  <2> QED
    BY <1>3, <2>1, <2>2, Appended DEF Queued
<1>5. blockno[my[p]] \in Block /\ blockno[my[p]] # None /\ valid[my[p]]
  <2>1. want[p] \in Block /\ blockno[my[p]] = want[p]
    BY <1>3 DEF Mine
  <2>2. valid[my[p]]
    BY <1>1 DEF Flags
  <2> QED
    BY <2>1, <2>2
<1>6. /\ (\A b \in Buf \ {my[p]} : dirty'[b] = dirty[b] /\ data'[b] = data[b])
      /\ data' \in [Buf -> Data] /\ dirty' \in [Buf -> BOOLEAN] /\ contents' \in [Block -> Data]
      /\ dirty'[my[p]] = TRUE /\ data'[my[p]] = v /\ contents'[blockno[my[p]]] = v
      /\ \A k \in Block \ {blockno[my[p]]} : contents'[k] = contents[k]
  BY <1>3, <1>5, SMT DEF bwrite, Types
<1>10. Types'
  BY <1>1, <1>2, <1>4, <1>6 DEF Types, Pcs
<1>11. List' /\ Counts' /\ One'
  BY <1>2 DEF List, Counts, Users, One
<1>13. Mine'
  BY <1>1, <1>2 DEF Mine, Types
<1>15. Locks'
  BY <1>1, <1>2, SMT DEF Locks, Mine, Types, Inside
<1>16. Queue'
  BY <1>1, <1>2, <1>3, <1>4, <1>6, SMT DEF Queue
<1>17. Flags'
  BY <1>1, <1>2, <1>3, <1>5, <1>6, SMT DEF Flags
<1>18. Latest'
  BY <1>2, <1>3, <1>5, <1>6, Written DEF Writes
<1> QED
  BY <1>10, <1>11, <1>13, <1>15, <1>16, <1>17, <1>18

\* log_write(): the buffer and its block change, and the log keeps the buffer.
LEMMA StepLogWrite == ASSUME Counting, NEW p \in Proc, Inv, ~panicked, NEW v \in Data, log_write(p, v) PROVE Inv'
<1>0. None \notin Proc /\ None \notin Buf /\ None \notin Block
  BY BcacheAssumption
<1> USE <1>0 DEF Inv
<1>1. pc[p] = "use" /\ pc' = pc
  BY DEF log_write, Types, Goto
<1>2. /\ blockno' = blockno /\ refcnt' = refcnt /\ valid' = valid /\ holder' = holder
      /\ mru' = mru /\ idequeue' = idequeue /\ disk' = disk /\ my' = my
      /\ want' = want /\ panicked' = panicked
  BY DEF log_write, buf
<1>3. my[p] \in Buf /\ holder[my[p]] = p /\ my[p] \notin Queued /\ Queued \subseteq Buf
      /\ (\A b \in Buf : holder[b] = p => b = my[p])
      /\ \A q \in Proc \ {p} : pc[q] = "ioready" => my[q] \in Buf \ {my[p]}
  BY <1>1, Owner
<1>5. blockno[my[p]] \in Block /\ blockno[my[p]] # None /\ valid[my[p]]
  <2>1. want[p] \in Block /\ blockno[my[p]] = want[p]
    BY <1>3 DEF Mine
  <2>2. valid[my[p]]
    BY <1>1 DEF Flags
  <2> QED
    BY <2>1, <2>2
<1>6. /\ (\A b \in Buf \ {my[p]} : dirty'[b] = dirty[b] /\ data'[b] = data[b])
      /\ data' \in [Buf -> Data] /\ dirty' \in [Buf -> BOOLEAN] /\ contents' \in [Block -> Data]
      /\ dirty'[my[p]] = TRUE /\ data'[my[p]] = v /\ contents'[blockno[my[p]]] = v
      /\ \A k \in Block \ {blockno[my[p]]} : contents'[k] = contents[k]
  BY <1>3, <1>5, SMT DEF log_write, Types
<1>9. Queued' = Queued /\ Queued \subseteq Buf
  BY <1>2, QueuedBuf DEF Queued
<1>10. Types'
  BY <1>1, <1>2, <1>6 DEF Types, Pcs
<1>11. List' /\ Counts' /\ One'
  BY <1>2 DEF List, Counts, Users, One
<1>13. Mine'
  BY <1>1, <1>2 DEF Mine, Types
<1>15. Locks'
  BY <1>1, <1>2 DEF Locks, Mine, Types, Inside
<1>16. Queue'
  BY <1>1, <1>2, <1>3, <1>6, <1>9 DEF Queue
<1>17. Flags'
  BY <1>1, <1>2, <1>3, <1>5, <1>6 DEF Flags
<1>18. Latest'
  BY <1>2, <1>3, <1>5, <1>6, Written DEF Writes
<1> QED
  BY <1>10, <1>11, <1>13, <1>15, <1>16, <1>17, <1>18

\* The sleep lock is released, and who waits for it wakes.
LEMMA StepRelease == ASSUME NEW p \in Proc, Inv, ~panicked, releasesleep(p) PROVE Inv'
<1>0. None \notin Proc /\ None \notin Buf /\ None \notin Block
  BY BcacheAssumption
<1> USE <1>0 DEF Inv
<1>1. /\ pc[p] = "use" /\ pc'[p] = "brelse" /\ pc' \in [Proc -> Pcs]
      /\ \A q \in Proc \ {p} : pc'[q] = IF my[q] = my[p] /\ pc[q] = "lockwait" THEN "lock" ELSE pc[q]
  BY DEF releasesleep, Types, Goto, Pcs, wakeup
<1>2. /\ blockno' = blockno /\ refcnt' = refcnt /\ valid' = valid /\ dirty' = dirty
      /\ data' = data /\ mru' = mru /\ idequeue' = idequeue /\ disk' = disk
      /\ my' = my /\ want' = want /\ panicked' = panicked /\ contents' = contents
  BY DEF releasesleep, buf
<1>3. my[p] \in Buf /\ holder[my[p]] = p /\ my[p] \notin Queued /\ Queued \subseteq Buf
      /\ (\A b \in Buf : holder[b] = p => b = my[p])
      /\ \A q \in Proc \ {p} : pc[q] = "ioready" => my[q] \in Buf \ {my[p]}
  BY <1>1, Owner
<1>4. /\ holder' \in [Buf -> Proc \cup {None}] /\ holder'[my[p]] = None
      /\ \A b \in Buf \ {my[p]} : holder'[b] = holder[b]
  BY <1>3 DEF releasesleep, Types
<1>5. \A q \in Proc \ {p} : /\ pc'[q] \in Inside <=> pc[q] \in Inside
                            /\ pc'[q] = "idle" <=> pc[q] = "idle"
                            /\ pc'[q] \in {"iowait", "ioready", "use", "lockwait"} => pc'[q] = pc[q]
  BY <1>1 DEF Inside
<1>9. Queued' = Queued /\ Queued \subseteq Buf
  BY <1>2, QueuedBuf DEF Queued
<1>10. Types'
  BY <1>1, <1>2, <1>4 DEF Types, Pcs
<1>11. List' /\ Counts' /\ One' /\ Latest'
  BY <1>2, SMT DEF List, Counts, Users, One, Latest
<1>13. Mine'
  BY <1>1, <1>2, <1>5 DEF Mine
<1>15. Locks'
  <2>1. \A b \in Buf, q \in Proc : holder'[b] = q <=> my[q] = b /\ pc'[q] \in Inside
    <3>1. TAKE b \in Buf, q \in Proc
    <3>2. CASE q = p
      <4>1. pc'[p] \notin Inside
        BY <1>1 DEF Inside
      <4> QED
        BY <1>3, <1>4, <3>2, <4>1
    <3>3. CASE q # p /\ b = my[p]
      <4>1. holder'[b] # q /\ holder[b] # q
        BY <1>3, <1>4, <3>3
      <4> QED
        BY <1>5, <3>3, <4>1, SMT DEF Locks
    <3>4. CASE q # p /\ b # my[p]
      BY <1>4, <1>5, <3>4, SMT DEF Locks
    <3> QED
      BY <3>2, <3>3, <3>4
  <2>2. ASSUME NEW q \in Proc, pc'[q] = "lockwait" PROVE holder'[my[q]] \notin {q, None}
    <3>1. q # p /\ pc[q] = "lockwait" /\ my[q] # my[p] /\ my[q] \in Buf
      BY <1>1, <1>5, <2>2, SMT DEF Mine, Types
    <3> QED
      BY <1>4, <3>1 DEF Locks
  <2> QED
    BY <1>2, <2>1, <2>2 DEF Locks
<1>16. Queue'
  <2>1. \A q \in Proc \ {p} : pc[q] \in {"iowait", "ioready"} => pc'[q] = pc[q]
    BY <1>1
  <2>2. \A b \in Queued : /\ holder'[b] \in Proc /\ pc'[holder'[b]] \in {"iowait", "ioready"}
                          /\ ~valid[b] \/ dirty[b]
    BY <1>3, <1>4, <2>1, SMT DEF Queue
  <2>3. \A q \in Proc : pc'[q] \in {"iowait", "ioready"} => pc[q] = pc'[q]
    BY <1>1, <1>5
  <2> QED
    BY <1>2, <1>9, <2>2, <2>3 DEF Queue
<1>17. Flags'
  BY <1>1, <1>2, <1>5 DEF Flags
<1> QED
  BY <1>10, <1>11, <1>13, <1>15, <1>16, <1>17

\* The reference is given back, and a buffer without any moves to the head of the list.
LEMMA StepBrelse == ASSUME Counting, NEW p \in Proc, Inv, ~panicked, brelse(p) PROVE Inv'
<1>0. None \notin Proc /\ None \notin Buf /\ None \notin Block
  BY BcacheAssumption
<1> USE <1>0 DEF Inv
<1>1. /\ pc[p] = "brelse" /\ pc'[p] = "idle" /\ pc' \in [Proc -> Pcs] /\ \A q \in Proc \ {p} : pc'[q] = pc[q]
      /\ my'[p] = None /\ want'[p] = None /\ my' \in [Proc -> Buf \cup {None}]
      /\ want' \in [Proc -> Block \cup {None}]
      /\ \A q \in Proc \ {p} : my'[q] = my[q] /\ want'[q] = want[q]
  BY DEF brelse, Types, Goto, Pcs
<1>2. /\ blockno' = blockno /\ valid' = valid /\ dirty' = dirty /\ data' = data
      /\ holder' = holder /\ idequeue' = idequeue /\ disk' = disk
      /\ panicked' = panicked /\ contents' = contents
  BY DEF brelse, buf
<1>3. my[p] \in Buf /\ my[p] # None
  BY <1>1 DEF Mine, Types
<1>4. refcnt' = [refcnt EXCEPT ![my[p]] = refcnt[my[p]] - 1] /\ p \in Users(my[p])
  BY <1>3 DEF brelse, Users
<1>5. \A b \in Buf : Users(b)' = Users(b) \ {p}
  BY <1>1, <1>3, <1>0, SMT DEF Users, Types
<1>6. \A b \in Buf \ {my[p]} : Users(b)' = Users(b)
  BY <1>5 DEF Users
<1>7. refcnt[my[p]] = Cardinality(Users(my[p])) /\ Cardinality(Users(my[p])) >= 1
      /\ Cardinality(Users(my[p]) \ {p}) = Cardinality(Users(my[p])) - 1
  <2>1. IsFiniteSet(Users(my[p])) /\ Cardinality(Users(my[p])) \in Nat
    BY Finite
  <2>2. Cardinality(Users(my[p])) # 0
    BY <1>4, <2>1 DEF Counting
  <2>3. Cardinality(Users(my[p]) \ {p}) = Cardinality(Users(my[p])) - 1
    BY <1>4, <2>1 DEF Counting
  <2> QED
    BY <1>3, <2>1, <2>2, <2>3, SMT DEF Counts
<1>8. refcnt' \in [Buf -> Nat]
  BY <1>3, <1>4, <1>7, SMT DEF Types
<1>9. Queued' = Queued /\ Queued \subseteq Buf
  BY <1>2, QueuedBuf DEF Queued
<1>10. Types'
  BY <1>1, <1>2, <1>8 DEF Types, Pcs
<1>11. List'
  <2>1. mru' = mru \/ mru' = ToFront(mru, my[p])
    BY DEF brelse
  <2>2. CASE mru' = mru
    BY <2>2 DEF List
  <2>3. CASE mru' = ToFront(mru, my[p])
    <3>1. /\ ToFront(mru, my[p]) \in [1..Cardinality(Buf) -> Buf]
          /\ \A c \in Buf : \E i \in 1..Cardinality(Buf) : ToFront(mru, my[p])[i] = c
      BY <1>3, Fronted
    <3> QED
      BY <2>3, <3>1 DEF List
  <2> QED
    BY <2>1, <2>2, <2>3
<1>12. Counts'
  BY <1>3, <1>4, <1>5, <1>6, <1>7 DEF Counts, Types
<1>13. Mine'
  <2>1. ASSUME NEW q \in Proc
        PROVE  /\ my'[q] = None <=> pc'[q] = "idle"
               /\ my'[q] # None => want'[q] \in Block /\ blockno[my'[q]] = want'[q]
    <3>1. CASE q = p
      BY <1>1, <3>1
    <3>2. CASE q # p
      BY <1>1, <3>2 DEF Mine
    <3> QED
      BY <3>1, <3>2
  <2> QED
    BY <1>2, <2>1 DEF Mine
<1>14. One' /\ Latest'
  BY <1>2 DEF One, Latest
<1>15. Locks'
  <2>1. pc[p] \notin Inside /\ pc'[p] \notin Inside
    BY <1>1 DEF Inside
  <2> QED
    BY <1>1, <1>2, <2>1, SMT DEF Locks
<1>16. Queue'
  BY <1>1, <1>2, <1>9, SMT DEF Queue
<1>17. Flags'
  BY <1>1, <1>2 DEF Flags
<1> QED
  BY <1>10, <1>11, <1>12, <1>13, <1>14, <1>15, <1>16, <1>17

\* The disk interrupt: the request at the head of the queue is done, and its owner wakes.
LEMMA StepIdeintr == ASSUME Counting, Inv, ~panicked, ideintr PROVE Inv'
<1>0. None \notin Proc /\ None \notin Buf /\ None \notin Block
  BY BcacheAssumption
<1> USE <1>0 DEF Inv
<1> DEFINE b == Head(idequeue)
<1>1. /\ b \in Buf /\ b \in Queued /\ Queued \subseteq Buf
      /\ idequeue' \in Seq(Buf) /\ IsInjective(idequeue') /\ Queued' = Queued \ {b}
  <2>1. idequeue \in Seq(Buf) /\ idequeue # << >> /\ IsInjective(idequeue) /\ idequeue' = Tail(idequeue)
    BY DEF ideintr, Types, Queue
  <2> QED
    BY <2>1, Taken, QueuedBuf DEF Queued
<1>2. /\ blockno' = blockno /\ refcnt' = refcnt /\ holder' = holder /\ mru' = mru
      /\ my' = my /\ want' = want /\ panicked' = panicked /\ contents' = contents
  BY DEF ideintr
<1>3. /\ valid' = [valid EXCEPT ![b] = TRUE] /\ dirty' = [dirty EXCEPT ![b] = FALSE]
      /\ pc' = wakeup(b, "iowait", "ioready")
      /\ \/ dirty[b] /\ disk' = [disk EXCEPT ![blockno[b]] = data[b]] /\ data' = data
         \/ ~dirty[b] /\ data' = [data EXCEPT ![b] = disk[blockno[b]]] /\ disk' = disk
         \/ ~dirty[b] /\ IdeErrors /\ data' = data /\ disk' = disk
  BY DEF ideintr
<1> HIDE DEF b
<1>4. PICK p \in Proc : holder[b] = p /\ my[p] = b /\ pc[p] \in {"iowait", "ioready"}
  BY <1>1, SMT DEF Queue, Locks
<1>5. blockno[b] \in Block /\ blockno[b] # None
  BY <1>1, <1>4, SMT DEF Mine
<1>6. /\ valid' \in [Buf -> BOOLEAN] /\ dirty' \in [Buf -> BOOLEAN] /\ valid'[b] = TRUE /\ dirty'[b] = FALSE
      /\ \A c \in Buf \ {b} : valid'[c] = valid[c] /\ dirty'[c] = dirty[c]
  BY <1>1, <1>3 DEF Types
<1>7. /\ pc' \in [Proc -> Pcs]
      /\ \A q \in Proc : pc'[q] = IF my[q] = b /\ pc[q] = "iowait" THEN "ioready" ELSE pc[q]
  BY <1>2, <1>3 DEF Types, wakeup, Pcs
<1>8. \A q \in Proc : /\ pc'[q] \in Inside <=> pc[q] \in Inside
                      /\ pc'[q] \in {"iowait", "ioready"} <=> pc[q] \in {"iowait", "ioready"}
                      /\ pc'[q] \notin {"ioready"} => pc'[q] = pc[q]
                      /\ pc'[q] = "iowait" => my[q] # b
                      /\ pc'[q] = "idle" <=> pc[q] = "idle"
  BY <1>7 DEF Inside
<1>9. data' \in [Buf -> Data] /\ disk' \in [Block -> Data]
  <2>1. data[b] \in Data /\ disk[blockno[b]] \in Data
    BY <1>1, <1>5 DEF Types
  <2>2. data' = data \/ data' = [data EXCEPT ![b] = disk[blockno[b]]]
    BY <1>3
  <2>3. disk' = disk \/ disk' = [disk EXCEPT ![blockno[b]] = data[b]]
    BY <1>3
  <2> QED
    BY <2>1, <2>2, <2>3 DEF Types
<1>10. Types'
  BY <1>1, <1>2, <1>6, <1>7, <1>9 DEF Types
<1>11. List' /\ Counts' /\ One'
  BY <1>2 DEF List, Counts, Users, One
<1>13. Mine'
  BY <1>2, <1>8 DEF Mine
<1>15. Locks'
  BY <1>2, <1>8, SMT DEF Locks
<1>16. Queue'
  <2>1. ASSUME NEW q \in Proc, pc'[q] = "ioready", my[q] \notin Queued'
        PROVE  valid'[my[q]] /\ ~dirty'[my[q]]
    <3>1. CASE my[q] = b
      BY <1>6, <3>1
    <3>2. CASE my[q] # b
      <4>1. pc[q] = "ioready" /\ my[q] \notin Queued
        BY <1>1, <1>7, <2>1, <3>2
      <4>2. my[q] \in Buf
        BY <4>1 DEF Mine, Types
      <4> QED
        BY <1>6, <3>2, <4>1, <4>2 DEF Queue
    <3> QED
      BY <3>1, <3>2
  <2>2. \A c \in Queued' : \E q \in Proc : holder[c] = q /\ pc'[q] \in {"iowait", "ioready"}
    BY <1>1, <1>8, SMT DEF Queue
  <2>3. \A c \in Queued' : ~valid'[c] \/ dirty'[c]
    BY <1>1, <1>6 DEF Queue
  <2>4. \A q \in Proc : pc'[q] = "iowait" => my[q] \in Queued'
    BY <1>1, <1>8 DEF Queue
  <2> QED
    BY <1>1, <1>2, <2>1, <2>2, <2>3, <2>4 DEF Queue
<1>17. Flags'
  <2>1. \A c \in Buf : dirty'[c] => valid'[c] /\ blockno'[c] # None
    BY <1>2, <1>6 DEF Flags
  <2>2. ASSUME NEW q \in Proc, pc'[q] = "use" PROVE valid'[my[q]]
    <3>1. pc[q] = "use" /\ my[q] \in Buf
      BY <1>8, <2>2 DEF Mine, Types
    <3> QED
      BY <1>6, <3>1 DEF Flags
  <2> QED
    BY <1>2, <2>1, <2>2 DEF Flags
<1>18. Latest'
  <2> SUFFICES ASSUME ~IdeErrors PROVE Latest'
    BY DEF Latest
  <2>1. \A c \in Buf \ {b} : blockno[c] # blockno[b]
    BY <1>1, <1>5 DEF One
  <2>2. CASE dirty[b] /\ disk' = [disk EXCEPT ![blockno[b]] = data[b]] /\ data' = data
    <3>1. data[b] = contents[blockno[b]]
      BY <1>1, <1>5, <2>2 DEF Latest, Flags
    <3>2. disk'[blockno[b]] = data[b] /\ \A k \in Block \ {blockno[b]} : disk'[k] = disk[k]
      BY <1>5, <2>2 DEF Types
    <3>3. \A c \in Buf : valid'[c] /\ blockno[c] # None => data[c] = contents[blockno[c]]
      BY <1>6, <3>1 DEF Latest
    <3>4. ASSUME NEW k \in Block, \A c \in Buf : blockno[c] = k => ~dirty'[c] PROVE disk'[k] = contents[k]
      <4>1. CASE k = blockno[b]
        BY <3>1, <3>2, <4>1
      <4>2. CASE k # blockno[b]
        <5>1. \A c \in Buf : blockno[c] = k => ~dirty[c]
          BY <1>6, <3>4, <4>2
        <5> QED
          BY <3>2, <4>2, <5>1 DEF Latest
      <4> QED
        BY <4>1, <4>2
    <3> QED
      BY <1>2, <2>2, <3>3, <3>4 DEF Latest
  <2>3. CASE ~dirty[b] /\ data' = [data EXCEPT ![b] = disk[blockno[b]]] /\ disk' = disk
    <3>1. data'[b] = disk[blockno[b]] /\ \A c \in Buf \ {b} : data'[c] = data[c]
      BY <1>1, <2>3 DEF Types
    <3>2. disk[blockno[b]] = contents[blockno[b]]
      BY <1>5, <2>1, <2>3 DEF Latest
    <3>3. \A c \in Buf : dirty'[c] = dirty[c]
      BY <1>6, <2>3 DEF Types
    <3> QED
      BY <1>1, <1>2, <1>6, <2>3, <3>1, <3>2, <3>3, SMT DEF Latest
  <2> QED
    BY <1>3, <2>2, <2>3
<1> QED
  BY <1>10, <1>11, <1>13, <1>15, <1>16, <1>17, <1>18

\* The steps of bget() that find the block in buffer b, and that give it buffer v.
Found(p, k, b) ==
  /\ pc[p] = "idle" /\ blockno[b] = k
  /\ want' = [want EXCEPT ![p] = k]
  /\ refcnt' = [refcnt EXCEPT ![b] = refcnt[b] + 1]
  /\ my' = [my EXCEPT ![p] = b]
  /\ pc' = [pc EXCEPT ![p] = "lock"]
  /\ UNCHANGED <<blockno, valid, dirty, panicked, data, holder, mru, idequeue, disk, contents>>

Recycled(p, k, v) ==
  /\ pc[p] = "idle" /\ Unused(v) /\ \A b \in Buf : blockno[b] # k
  /\ blockno' = [blockno EXCEPT ![v] = k]
  /\ valid' = [valid EXCEPT ![v] = FALSE]
  /\ dirty' = [dirty EXCEPT ![v] = FALSE]
  /\ refcnt' = [refcnt EXCEPT ![v] = 1]
  /\ want' = [want EXCEPT ![p] = k]
  /\ my' = [my EXCEPT ![p] = v]
  /\ pc' = [pc EXCEPT ![p] = "lock"]
  /\ UNCHANGED <<panicked, data, holder, mru, idequeue, disk, contents>>

\* bget() finds the block in the cache.
LEMMA BgetCached ==
  ASSUME Counting, NEW p \in Proc, NEW k \in Block, NEW b \in Buf, Inv, Found(p, k, b)
  PROVE  Inv'
<1>0. None \notin Proc /\ None \notin Buf /\ None \notin Block
  BY BcacheAssumption
<1> USE <1>0 DEF Inv
<1>1. /\ my[p] = None /\ pc'[p] = "lock" /\ pc' \in [Proc -> Pcs] /\ (\A q \in Proc \ {p} : pc'[q] = pc[q])
      /\ my' \in [Proc -> Buf \cup {None}] /\ my'[p] = b /\ (\A q \in Proc \ {p} : my'[q] = my[q])
      /\ want' \in [Proc -> Block \cup {None}] /\ want'[p] = k /\ \A q \in Proc \ {p} : want'[q] = want[q]
  <2>1. my[p] = None /\ pc[p] = "idle"
    BY DEF Found, Mine
  <2>2. pc'[p] = "lock" /\ pc' \in [Proc -> Pcs] /\ \A q \in Proc \ {p} : pc'[q] = pc[q]
    BY DEF Found, Types, Pcs
  <2>3. my' \in [Proc -> Buf \cup {None}] /\ my'[p] = b /\ \A q \in Proc \ {p} : my'[q] = my[q]
    BY DEF Found, Types
  <2>4. want' \in [Proc -> Block \cup {None}] /\ want'[p] = k /\ \A q \in Proc \ {p} : want'[q] = want[q]
    BY DEF Found, Types
  <2> QED
    BY <2>1, <2>2, <2>3, <2>4
<1>2. /\ blockno' = blockno /\ valid' = valid /\ dirty' = dirty /\ data' = data
      /\ holder' = holder /\ mru' = mru /\ idequeue' = idequeue /\ disk' = disk
      /\ panicked' = panicked /\ contents' = contents
  BY DEF Found
<1>3. pc[p] \notin Inside /\ pc'[p] \notin Inside /\ pc'[p] \notin {"lockwait", "iowait", "ioready", "use", "idle"}
      /\ pc[p] = "idle" /\ b # None /\ blockno[b] = k
  BY <1>1 DEF Inside, Found
<1>4. \A c \in Buf \ {b} : Users(c)' = Users(c) /\ refcnt'[c] = refcnt[c]
  <2>1. \A c \in Buf \ {b}, q \in Proc : my'[q] = c <=> my[q] = c
    BY <1>1, <1>3
  <2>2. \A c \in Buf \ {b} : Users(c)' = Users(c)
    BY <2>1 DEF Users
  <2>3. \A c \in Buf \ {b} : refcnt'[c] = refcnt[c]
    BY DEF Found, Types
  <2> QED
    BY <2>2, <2>3
<1>5. Users(b)' = Users(b) \cup {p} /\ p \notin Users(b)
  <2>1. \A q \in Proc : my'[q] = b <=> my[q] = b \/ q = p
    BY <1>1
  <2> QED
    BY <1>1, <1>3, <2>1 DEF Users
<1>6. Cardinality(Users(b)') = Cardinality(Users(b)) + 1
  <2>1. IsFiniteSet(Users(b))
    BY Finite
  <2> QED
    BY <1>5, <2>1 DEF Counting
<1>7. refcnt' \in [Buf -> Nat] /\ refcnt'[b] = refcnt[b] + 1
  BY SMT DEF Found, Types
<1>9. Queued' = Queued /\ Queued \subseteq Buf
  BY <1>2, QueuedBuf DEF Queued
<1>10. Types'
  BY <1>1, <1>2, <1>7 DEF Types, Pcs
<1>11. List' /\ One' /\ Latest'
  BY <1>2 DEF List, One, Latest
<1>12. Counts'
  BY <1>4, <1>6, <1>7 DEF Counts
<1>13. Mine'
  BY <1>1, <1>2, <1>3, SMT DEF Mine
<1>15. Locks'
  BY <1>1, <1>2, <1>3, SMT DEF Locks
<1>16. Queue'
  BY <1>1, <1>2, <1>3, <1>9, SMT DEF Queue
<1>17. Flags'
  BY <1>1, <1>2, <1>3 DEF Flags
<1> QED
  BY <1>10, <1>11, <1>12, <1>13, <1>15, <1>16, <1>17

\* bget() recycles a buffer that nobody uses: it is not locked, not queued, and not the
\* only place of its block's content.
LEMMA BgetRecycled ==
  ASSUME Counting, NEW p \in Proc, NEW k \in Block, NEW v \in Buf, Inv, Recycled(p, k, v)
  PROVE  Inv'
<1>0. None \notin Proc /\ None \notin Buf /\ None \notin Block
  BY BcacheAssumption
<1> USE <1>0 DEF Inv
<1>1. /\ my[p] = None /\ pc'[p] = "lock" /\ pc' \in [Proc -> Pcs] /\ (\A q \in Proc \ {p} : pc'[q] = pc[q])
      /\ my' \in [Proc -> Buf \cup {None}] /\ my'[p] = v /\ (\A q \in Proc \ {p} : my'[q] = my[q])
      /\ want' \in [Proc -> Block \cup {None}] /\ want'[p] = k /\ \A q \in Proc \ {p} : want'[q] = want[q]
  <2>1. my[p] = None /\ pc[p] = "idle"
    BY DEF Recycled, Mine
  <2>2. pc'[p] = "lock" /\ pc' \in [Proc -> Pcs] /\ \A q \in Proc \ {p} : pc'[q] = pc[q]
    BY DEF Recycled, Types, Pcs
  <2>3. my' \in [Proc -> Buf \cup {None}] /\ my'[p] = v /\ \A q \in Proc \ {p} : my'[q] = my[q]
    BY DEF Recycled, Types
  <2>4. want' \in [Proc -> Block \cup {None}] /\ want'[p] = k /\ \A q \in Proc \ {p} : want'[q] = want[q]
    BY DEF Recycled, Types
  <2> QED
    BY <2>1, <2>2, <2>3, <2>4
<1>2. /\ data' = data /\ holder' = holder /\ mru' = mru /\ idequeue' = idequeue
      /\ disk' = disk /\ panicked' = panicked /\ contents' = contents
  BY DEF Recycled
<1>3. pc[p] \notin Inside /\ pc'[p] \notin Inside /\ pc'[p] \notin {"lockwait", "iowait", "ioready", "use", "idle"}
      /\ pc[p] = "idle" /\ v # None
  BY <1>1 DEF Inside, Recycled
<1>4. /\ blockno' \in [Buf -> Block \cup {None}] /\ valid' \in [Buf -> BOOLEAN]
      /\ blockno'[v] = k /\ valid'[v] = FALSE /\ dirty' = dirty /\ dirty[v] = FALSE
      /\ \A c \in Buf \ {v} : blockno'[c] = blockno[c] /\ valid'[c] = valid[c]
  BY SMT DEF Recycled, Types, Unused
<1>5. Users(v) = {} /\ \A q \in Proc : my[q] # v
  <2>1. Cardinality(Users(v)) = 0 /\ IsFiniteSet(Users(v))
    BY Finite DEF Counts, Recycled, Unused
  <2>2. Users(v) = {}
    BY <2>1 DEF Counting
  <2> QED
    BY <2>2 DEF Users
<1>6. \A c \in Buf \ {v} : Users(c)' = Users(c) /\ refcnt'[c] = refcnt[c]
  <2>1. \A c \in Buf \ {v}, q \in Proc : my'[q] = c <=> my[q] = c
    BY <1>1, <1>3
  <2>2. \A c \in Buf \ {v} : Users(c)' = Users(c)
    BY <2>1 DEF Users
  <2>3. \A c \in Buf \ {v} : refcnt'[c] = refcnt[c]
    BY DEF Recycled, Types
  <2> QED
    BY <2>2, <2>3
<1>7. Users(v)' = {p} /\ refcnt'[v] = 1 /\ refcnt' \in [Buf -> Nat]
  <2>1. \A q \in Proc : my'[q] = v <=> q = p
    BY <1>1, <1>5
  <2>2. Users(v)' = {p}
    BY <2>1 DEF Users
  <2>3. refcnt'[v] = 1 /\ refcnt' \in [Buf -> Nat]
    BY DEF Recycled, Types
  <2> QED
    BY <2>2, <2>3
<1>8. v \notin Queued
  <2>1. \A q \in Proc : holder[v] # q
    BY <1>5 DEF Locks
  <2> QED
    BY <2>1 DEF Queue
<1>9. Queued' = Queued /\ Queued \subseteq Buf
  BY <1>2, QueuedBuf DEF Queued
<1>10. Types'
  BY <1>1, <1>2, <1>4, <1>7 DEF Types, Pcs
<1>11. List'
  BY <1>2 DEF List
<1>12. Counts'
  <2>1. Cardinality({p}) = 1
    <3>1. IsFiniteSet(Users(v)) /\ Cardinality(Users(v)) = 0 /\ p \notin Users(v) /\ Users(v) \cup {p} = {p}
      BY <1>5, Finite DEF Counting
    <3> QED
      BY <3>1, SMT DEF Counting
  <2> QED
    BY <1>6, <1>7, <2>1 DEF Counts
<1>13. Mine'
  <2>1. \A q \in Proc \ {p} : my[q] # None => my[q] \in Buf \ {v}
    BY <1>5 DEF Types
  <2> QED
    BY <1>1, <1>2, <1>3, <1>4, <2>1, SMT DEF Mine
<1>14. One'
  <2>1. \A b \in Buf : blockno[b] # k
    BY DEF Recycled
  <2> QED
    BY <1>0, <1>4, <2>1, SMT DEF One
<1>15. Locks'
  BY <1>1, <1>2, <1>3, SMT DEF Locks
<1>16. Queue'
  <2>1. \A q \in Proc \ {p} : my[q] # None => my[q] \in Buf \ {v}
    BY <1>5 DEF Types
  <2>2. \A q \in Proc : pc[q] = "ioready" => my[q] # None
    BY DEF Mine
  <2> QED
    BY <1>1, <1>2, <1>3, <1>4, <1>8, <1>9, <2>1, <2>2, SMT DEF Queue
<1>17. Flags'
  <2>1. \A q \in Proc \ {p} : pc[q] = "use" => my[q] \in Buf \ {v}
    BY <1>5 DEF Types, Mine
  <2> QED
    BY <1>1, <1>3, <1>4, <2>1, SMT DEF Flags
<1>18. Latest'
  <2> SUFFICES ASSUME ~IdeErrors PROVE Latest'
    BY DEF Latest
  <2>1. \A b \in Buf : valid'[b] /\ blockno'[b] # None => data[b] = contents[blockno'[b]]
    BY <1>4 DEF Latest
  <2>2. ASSUME NEW j \in Block, \A b \in Buf : blockno'[b] = j => ~dirty[b] PROVE disk[j] = contents[j]
    <3>1. \A b \in Buf : blockno[b] = j => ~dirty[b]
      BY <1>4, <2>2
    <3> QED
      BY <3>1 DEF Latest
  <2> QED
    BY <1>2, <1>4, <2>1, <2>2 DEF Latest
<1> QED
  BY <1>10, <1>11, <1>12, <1>13, <1>14, <1>15, <1>16, <1>17, <1>18

\* From here on the library's theorems about finite sets are in scope.
INSTANCE FiniteSetTheorems

\* What the steps assume of finite sets is so.
LEMMA Counted == Counting
  BY FS_CardinalityType, FS_EmptySet, FS_Subset, FS_AddElement, FS_RemoveElement DEF Counting

\* bget() finds the block, recycles a buffer, or panics when there is none.
LEMMA StepBget == ASSUME Counting, NEW p \in Proc, NEW k \in Block, Inv, bget(p, k) PROVE Inv'
<1>1. CASE \E b \in Buf : /\ blockno[b] = k
                          /\ refcnt' = [refcnt EXCEPT ![b] = @ + 1]
                          /\ my' = [my EXCEPT ![p] = b]
                          /\ Goto(p, "lock")
                          /\ UNCHANGED <<blockno, valid, dirty, panicked>>
  <2>1. PICK b \in Buf : /\ blockno[b] = k
                         /\ refcnt' = [refcnt EXCEPT ![b] = refcnt[b] + 1]
                         /\ my' = [my EXCEPT ![p] = b]
                         /\ pc' = [pc EXCEPT ![p] = "lock"]
                         /\ UNCHANGED <<blockno, valid, dirty, panicked>>
    BY <1>1 DEF Goto
  <2>2. pc[p] = "idle" /\ want' = [want EXCEPT ![p] = k] /\ UNCHANGED <<data, holder, mru, idequeue, disk, contents>>
    BY DEF bget
  <2> QED
    BY <1>1, <2>1, <2>2, BgetCached DEF Found
<1>2. ASSUME \A b \in Buf : blockno[b] # k, UNCHANGED panicked, Goto(p, "lock"),
             NEW b \in Buf, Victim(b),
             blockno' = [blockno EXCEPT ![b] = k], valid' = [valid EXCEPT ![b] = FALSE],
             dirty' = [dirty EXCEPT ![b] = FALSE], refcnt' = [refcnt EXCEPT ![b] = 1],
             my' = [my EXCEPT ![p] = b]
      PROVE  Inv'
  <2>1. Unused(b) /\ pc' = [pc EXCEPT ![p] = "lock"]
    BY <1>2 DEF Victim, Goto
  <2>2. /\ pc[p] = "idle" /\ want' = [want EXCEPT ![p] = k]
        /\ UNCHANGED <<data, holder, mru, idequeue, disk, contents>>
    BY DEF bget
  <2> QED
    BY <1>2, <2>1, <2>2, BgetRecycled DEF Recycled
<1>3. CASE (\A b \in Buf : blockno[b] # k /\ ~Unused(b)) /\ panicked' = TRUE
  <2>1. /\ pc[p] = "idle" /\ pc' = pc /\ blockno' = blockno /\ refcnt' = refcnt /\ valid' = valid
        /\ dirty' = dirty /\ my' = my /\ data' = data /\ holder' = holder /\ mru' = mru
        /\ idequeue' = idequeue /\ disk' = disk /\ contents' = contents
        /\ want' = [want EXCEPT ![p] = k]
    BY <1>3 DEF bget
  <2>3. want' \in [Proc -> Block \cup {None}] /\ (\A q \in Proc \ {p} : want'[q] = want[q]) /\ my[p] = None
    BY <2>1 DEF Inv, Types, Mine
  <2>4. Types'
    BY <1>3, <2>1, <2>3 DEF Inv, Types
  <2>5. Mine'
    BY <2>1, <2>3 DEF Inv, Mine
  <2>6. List' /\ One' /\ Locks'
    BY <2>1 DEF Inv, List, One, Locks
  <2>7. Counts'
    BY <2>1 DEF Inv, Counts, Users
  <2>9. Queue' /\ Flags' /\ Latest'
    BY <2>1 DEF Inv, Queue, Queued, Flags, Latest
  <2> QED
    BY <2>4, <2>5, <2>6, <2>7, <2>9 DEF Inv
<1> QED
  BY <1>1, <1>2, <1>3 DEF bget

\* The invariant holds after binit().
LEMMA InitInv == Init => Inv
<1> SUFFICES ASSUME Init PROVE Inv
  OBVIOUS
<1>0. /\ None \notin Proc /\ None \notin Buf /\ None \notin Block /\ MAXPIN \in Nat /\ Blank \in Data
      /\ IsFiniteSet(Buf)
  BY BcacheAssumption
<1> USE <1>0
<1>1. Types
  <2>1. << >> \in Seq(Buf)
    BY SMT
  <2> QED
    BY <2>1 DEF Types, Init, Pcs
<1>2. List
  <2> DEFINE n == Cardinality(Buf)
  <2>1. n \in Nat /\ ExistsBijection(1..n, Buf)
    BY FS_CardinalityType
  <2>2. mru \in Bijection(1..n, Buf)
    BY <2>1 DEF Init, ExistsBijection
  <2> QED
    BY <2>2 DEF List, Bijection, Injection, Surjection
<1>3. Counts
  <2>1. \A b \in Buf : Users(b) = {}
    BY DEF Init, Users
  <2> QED
    BY <2>1, FS_EmptySet DEF Counts, Init
<1>4. Mine /\ One /\ Locks /\ Flags
  BY DEF Init, Mine, One, Locks, Inside, Flags
<1>5. Queue
  <2>1. IsInjective(idequeue) /\ Queued = {}
    BY SMT DEF Init, Queued, Range, IsInjective
  <2> QED
    BY <2>1 DEF Init, Queue
<1>6. Latest
  BY DEF Init, Latest
<1> QED
  BY <1>1, <1>2, <1>3, <1>4, <1>5, <1>6 DEF Inv

\* Every step keeps it.
LEMMA StepInv == Inv /\ [Next]_vars => Inv'
<1> SUFFICES ASSUME Inv, [Next]_vars PROVE Inv'
  OBVIOUS
<1> USE Counted
<1>1. ASSUME NEW p \in Proc, NEW k \in Block, bget(p, k) PROVE Inv'
  BY <1>1, StepBget
<1>2. ASSUME NEW p \in Proc, Step(p) PROVE Inv'
  <2>1. CASE ~panicked /\ acquiresleep(p)
    BY <2>1, StepLock, StepLockWait
  <2>2. CASE ~panicked /\ bread(p)
    BY <2>2, StepBread, StepBreadValid
  <2>3. CASE ~panicked /\ (iderw_woken(p) \/ brelse(p))
    BY <2>3, StepWoken, StepBrelse
  <2> QED
    BY <1>2, <2>1, <2>2, <2>3 DEF Step
<1>3. ASSUME NEW p \in Proc, ~panicked /\ (kill(p) \/ releasesleep(p)) PROVE Inv'
  BY <1>3, StepKill, StepRelease
<1>4. ASSUME NEW p \in Proc, ~panicked, NEW v \in Data, bwrite(p, v) \/ log_write(p, v) PROVE Inv'
  BY <1>4, StepBwrite, StepLogWrite
<1>5. CASE ~panicked /\ ideintr
  BY <1>5, StepIdeintr
<1>6. CASE UNCHANGED vars
  <2>1. /\ pc' = pc /\ blockno' = blockno /\ refcnt' = refcnt /\ valid' = valid
        /\ dirty' = dirty /\ my' = my /\ data' = data /\ holder' = holder /\ mru' = mru
        /\ idequeue' = idequeue /\ disk' = disk /\ contents' = contents /\ want' = want
        /\ panicked' = panicked
    BY <1>6 DEF vars, buf
  <2>2. Types'
    BY <2>1 DEF Inv, Types
  <2>3. List' /\ One' /\ Locks' /\ Mine'
    BY <2>1, SMT DEF Inv, List, One, Locks, Mine
  <2>4. Counts'
    BY <2>1 DEF Inv, Counts, Users
  <2>5. Queue' /\ Flags' /\ Latest'
    BY <2>1 DEF Inv, Queue, Queued, Flags, Latest
  <2> QED
    BY <2>2, <2>3, <2>4, <2>5 DEF Inv
<1> QED
  BY <1>1, <1>2, <1>3, <1>4, <1>5, <1>6 DEF Next

\* So it always holds.
LEMMA Invariant == Spec => []Inv
  BY InitInv, StepInv, PTL DEF Spec

-----------------------------------------------------------------------------

\* As long as the disk does not fail, whatever is evicted, written back or logged in
\* between, bread() returns the content that was last given to the block it asks for.
THEOREM BcacheReadsLatest == ~IdeErrors /\ Spec => []ReadsLatest
<1> SUFFICES ASSUME ~IdeErrors PROVE Spec => []ReadsLatest
  OBVIOUS
<1>1. Inv => ReadsLatest
  <2> SUFFICES ASSUME Inv, NEW p \in Proc, pc[p] = "use"
               PROVE  blockno[my[p]] = want[p] /\ valid[my[p]] /\ data[my[p]] = contents[want[p]]
    BY DEF ReadsLatest
  <2>0. Types /\ Mine /\ Flags
    BY DEF Inv
  <2>3. my[p] \in Buf /\ want[p] \in Block /\ blockno[my[p]] = want[p]
    BY <2>0 DEF Types, Mine
  <2>4. valid[my[p]]
    BY <2>0, <2>3 DEF Flags
  <2>1. my[p] \in Buf /\ want[p] \in Block /\ blockno[my[p]] = want[p] /\ valid[my[p]]
    BY <2>3, <2>4
  <2>2. want[p] # None
    BY <2>1, BcacheAssumption
  <2> QED
    BY <2>1, <2>2 DEF Inv, Latest
<1> QED
  BY <1>1, Invariant, PTL

\* A block has one buffer, and bget() does not recycle a buffer another process is waiting
\* for, whatever is pinned, evicted or killed meanwhile.
THEOREM BcacheOneBuffer == Spec => []OneBuffer
<1>1. Inv => OneBuffer
  <2> SUFFICES ASSUME Inv PROVE OneBuffer
    OBVIOUS
  <2>1. refcnt \in [Buf -> 0..Cardinality(Proc)]
    <3>1. \A b \in Buf : refcnt[b] \in 0..Cardinality(Proc)
      BY Counted, Finite, SMT DEF Inv, Counts
    <3> QED
      BY <3>1 DEF Inv, Types
  <2>2. mru \in Seq(Buf) /\ Len(mru) = Cardinality(Buf) /\ Range(mru) = Buf
    <3>1. Cardinality(Buf) \in Nat
      BY Counted, Finite
    <3> QED
      BY <3>1, SMT DEF Inv, List, Range
  <2>3. TypeOK
    BY <2>1, <2>2 DEF TypeOK, Inv, Types
  <2> QED
    BY <2>3 DEF OneBuffer, Inv, One, Mine
<1> QED
  BY <1>1, Invariant, PTL

\* Every request in the disk queue is there once, and its owner holds the buffer inside
\* iderw(); no wakeup of iderw() or acquiresleep() is lost, whoever is killed meanwhile.
THEOREM BcacheRequestsOwned == Spec => []RequestsOwned
<1>1. Inv => RequestsOwned
  <2> SUFFICES ASSUME Inv PROVE RequestsOwned
    OBVIOUS
  <2>1. IsInjective(idequeue) /\ \A p \in Proc : pc[p] = "iowait" => my[p] \in Range(idequeue)
    BY DEF Inv, Queue, Queued
  <2>2. \A b \in Range(idequeue) :
          \E p \in Proc : holder[b] = p /\ my[p] = b /\ pc[p] \in {"iowait", "ioready"}
    <3>1. Range(idequeue) \subseteq Buf
      BY QueuedBuf DEF Inv, Queued
    <3>2. \A b \in Range(idequeue) : holder[b] \in Proc /\ pc[holder[b]] \in {"iowait", "ioready"}
      BY DEF Inv, Queue, Queued
    <3>3. \A b \in Buf : holder[b] \in Proc => my[holder[b]] = b
      BY DEF Inv, Locks
    <3> QED
      BY <3>1, <3>2, <3>3
  <2>3. \A p \in Proc : pc[p] = "lockwait" => holder[my[p]] \notin {p, None}
    BY DEF Inv, Locks
  <2> QED
    BY <2>1, <2>2, <2>3 DEF RequestsOwned
<1> QED
  BY <1>1, Invariant, PTL

=============================================================================
