----------------------------- MODULE LogProofs -----------------------------
(***************************************************************************)
(* Proofs about Log for any number of processes, blocks and log slots: the *)
(* type invariant, that the log never overflows when calls stay below      *)
(* their reservation, and that it implements AtomicDisk.                   *)
(***************************************************************************)
EXTENDS Log, FiniteSetTheorems, TLAPS

NoDup(s) == \A i, j \in 1..Len(s) : s[i] = s[j] => i = j

\* commit() runs exactly when log.committing is set, and only when no system
\* call is open; recovery runs before any.
Control ==
  /\ mode = "recover" => /\ phase \in {"read_head", "install_trans", "clear"}
                         /\ ~committing
                         /\ InOp = {}
                         /\ dirty = {}
  /\ mode # "recover" => /\ phase # "read_head"
                         /\ committing <=> phase # "none"
  /\ committing => InOp = {}
  /\ outstanding = Cardinality(InOp)

\* A process holds one buffer between its change and log_write()'s end, and
\* no other process holds the same one.
Buffers ==
  /\ \A p \in Op : pc[p] # "log_write" => buf[p] = {}
  /\ \A p \in Op : pc[p] = "log_write" =>
       \E b \in Block : buf[p] = {b} /\ (b \in Logged \/ used[p] < OPBLOCKS)
  /\ \A p, q \in Op : \A b \in Block : b \in buf[p] /\ b \in buf[q] => p = q

\* The slots reserved by begin_op() for the open calls and not yet filled.
Reserved == {s \in InOp \X (1..MAXOPBLOCKS) : s[2] > used[s[1]]}

Capacity ==
  /\ Len(lh) + Cardinality(Reserved) <= LOGSIZE
  /\ Len(hdr) <= LOGSIZE

\* The header on disk is empty outside the window from the commit point to
\* the end of installation; within it, it names the blocks of lh.
Header ==
  /\ NoDup(lh) /\ NoDup(hdr)
  /\ phase \in {"install_trans", "clear"} => hdr = lh
  /\ phase \in {"none", "write_log", "write_head", "done"} => hdr = <<>>
  /\ phase \in {"read_head", "done"} => lh = <<>>
  /\ phase \in {"write_log", "install_trans"} => tail \in 1..Len(lh)
  /\ phase = "write_head" => lh # <<>>

\* A clean cached block holds what is on disk; the blocks of the transaction
\* are pinned until installed.
Pinned ==
  /\ \A b \in Block :
       cache[b] # NoData /\ b \notin dirty /\ b \notin Locked
         => cache[b] = home[b]
  /\ \A b \in dirty \cup Locked : cache[b] # NoData
  /\ mode # "recover" =>
       /\ phase \in {"none", "write_log", "write_head"} => dirty = Logged
       /\ phase = "install_trans" => dirty = {lh[i] : i \in tail..Len(lh)}
       /\ phase \in {"clear", "done"} => dirty = {}

\* The log blocks already written hold the contents to commit, and the home
\* blocks already installed hold the contents of the log.
Written ==
  /\ phase = "write_log" =>
       \A i \in 1..Len(lh) : i < tail => logd[i] = Bdata(lh[i])
  /\ phase = "write_head"
     \/ (mode # "recover" /\ phase \in {"install_trans", "clear"}) =>
       \A i \in 1..Len(lh) : logd[i] = Bdata(lh[i])
  /\ phase = "install_trans" =>
       \A i \in 1..Len(lh) : i < tail => home[lh[i]] = logd[i]
  /\ phase = "clear" => \A i \in 1..Len(lh) : home[lh[i]] = logd[i]

IInv ==
  /\ TypeOK
  /\ Control
  /\ Buffers
  /\ Capacity
  /\ Header
  /\ Pinned
  /\ Written

-----------------------------------------------------------------------------
(* Counting reserved slots.                                                *)

\* The unfilled slots of the calls in S are finitely many, at most
\* MAXOPBLOCKS for each: what begin_op() counts with
\* (log.outstanding+1)*MAXOPBLOCKS.
LEMMA SlotCount ==
  ASSUME NEW S \in SUBSET Op, NEW u
  PROVE  LET R == {s \in S \X (1..MAXOPBLOCKS) : s[2] > u[s[1]]}
         IN  /\ IsFiniteSet(S) /\ Cardinality(S) \in Nat
             /\ IsFiniteSet(R) /\ Cardinality(R) \in Nat
             /\ Cardinality(R) <= Cardinality(S) * MAXOPBLOCKS
<1> DEFINE R == {s \in S \X (1..MAXOPBLOCKS) : s[2] > u[s[1]]}
<1>1. IsFiniteSet(S)
  BY LogAssumption, FS_Subset
<1>2. Cardinality(S) \in Nat
  BY <1>1, FS_CardinalityType
<1>3. IsFiniteSet(1..MAXOPBLOCKS) /\ Cardinality(1..MAXOPBLOCKS) = MAXOPBLOCKS
  BY LogAssumption, FS_Interval
<1>4. /\ IsFiniteSet(S \X (1..MAXOPBLOCKS))
      /\ Cardinality(S \X (1..MAXOPBLOCKS)) = Cardinality(S) * MAXOPBLOCKS
  BY <1>1, <1>3, FS_Product
<1>5. R \in SUBSET (S \X (1..MAXOPBLOCKS))
  OBVIOUS
<1>6. IsFiniteSet(R) /\ Cardinality(R) <= Cardinality(S) * MAXOPBLOCKS
  BY <1>4, <1>5, FS_Subset
<1>7. Cardinality(R) \in Nat
  BY <1>6, FS_CardinalityType
<1> QED
  BY <1>1, <1>2, <1>6, <1>7

\* The facts of SlotCount about the current state.
LEMMA ReservedCount ==
  ASSUME TypeOK
  PROVE  /\ IsFiniteSet(InOp) /\ Cardinality(InOp) \in Nat
         /\ IsFiniteSet(Reserved) /\ Cardinality(Reserved) \in Nat
         /\ Cardinality(Reserved) <= Cardinality(InOp) * MAXOPBLOCKS
<1>1. InOp \in SUBSET Op
  BY DEF InOp
<1> QED
  BY <1>1, SlotCount DEF Reserved

-----------------------------------------------------------------------------
(* The invariant is preserved, action by action.                           *)

\* Before initlog() runs, the invariant holds of the disk mkfs wrote.
LEMMA InitInv == Init => IInv
<1> SUFFICES ASSUME Init PROVE IInv
  OBVIOUS
<1>1. TypeOK
  <2>1. 0 \in 0..OPBLOCKS
    BY LogAssumption
  <2>2. lh \in Seq(Block) /\ hdr \in Seq(Block)
    BY DEF Init
  <2> QED
    BY <2>1, <2>2, LogAssumption DEF Init, TypeOK, Phases, Pcs
<1>2. InOp = {} /\ Locked = {}
  BY DEF Init, InOp, Locked
<1>3. Reserved = {} /\ Cardinality(InOp) = 0 /\ Cardinality(Reserved) = 0
  BY <1>2, FS_EmptySet DEF Reserved
<1>4. Control
  BY <1>2, <1>3 DEF Init, Control
<1>5. Buffers /\ Pinned /\ Written
  BY <1>2 DEF Init, Buffers, Pinned, Written
<1>6. Capacity /\ Header
  BY <1>3, LogAssumption DEF Init, Capacity, Header, NoDup
<1> QED
  BY <1>1, <1>4, <1>5, <1>6 DEF IInv

\* begin_op() reserves MAXOPBLOCKS slots only when they are free.
LEMMA BeginOpInv ==
  ASSUME NEW p \in Op, IInv, begin_op(p)
  PROVE  IInv'
<1> USE DEF IInv
<1>1. UNCHANGED <<home, logd, hdr, mode, lh, committing, cache, dirty, phase,
                  tail, buf>>
  BY DEF begin_op, disk, bcache
<1>2. Logged' = Logged /\ Locked' = Locked
  BY <1>1 DEF Logged, Locked
<1>3. p \notin InOp /\ buf[p] = {} /\ mode = "up"
  BY DEF begin_op, InOp, Buffers, TypeOK, Pcs
<1>4. Header' /\ Pinned' /\ Written'
  BY <1>1, <1>2 DEF Header, NoDup, Pinned, Written, Bdata
<1>5. CASE MustWait /\ pc' = [pc EXCEPT ![p] = "sleep"]
                    /\ UNCHANGED <<outstanding, used>>
  <2>1. TypeOK'
    BY <1>1, <1>5 DEF TypeOK, Pcs
  <2>2. InOp' = InOp
    BY <1>3, <1>5 DEF InOp, TypeOK
  <2>3. Reserved' = Reserved
    BY <2>2, <1>5 DEF Reserved
  <2>4. Control' /\ Capacity'
    BY <1>1, <1>5, <2>2, <2>3 DEF Control, Capacity
  <2>5. Buffers'
    BY <1>1, <1>2, <1>3, <1>5 DEF Buffers, TypeOK
  <2> QED
    BY <1>4, <2>1, <2>4, <2>5
<1>6. CASE ~MustWait /\ outstanding' = outstanding + 1
                     /\ pc' = [pc EXCEPT ![p] = "op"]
                     /\ used' = [used EXCEPT ![p] = 0]
  <2>1. TypeOK'
    BY <1>1, <1>6, LogAssumption DEF TypeOK, Pcs
  <2>2. InOp' = InOp \cup {p}
    BY <1>3, <1>6 DEF InOp, TypeOK
  <2>3. Cardinality(InOp') = outstanding + 1
    BY <1>3, <2>2, ReservedCount, FS_AddElement DEF Control
  <2>4. ~committing /\ Len(lh) + (outstanding + 1) * MAXOPBLOCKS <= LOGSIZE
    <3>1. (outstanding + 1) * MAXOPBLOCKS \in Nat
      BY LogAssumption DEF TypeOK
    <3> QED
      BY <1>6, <3>1, LogAssumption DEF MustWait, TypeOK
  <2>5. Control'
    BY <1>1, <1>3, <1>6, <2>3, <2>4 DEF Control
  <2>6. Capacity'
    <3>1. InOp' \in SUBSET Op
      BY DEF InOp
    <3>2. /\ Cardinality(Reserved') \in Nat
          /\ Cardinality(Reserved') <= Cardinality(InOp') * MAXOPBLOCKS
      BY <3>1, SlotCount DEF Reserved
    <3>3. Cardinality(Reserved') <= (outstanding + 1) * MAXOPBLOCKS
      BY <2>3, <3>2
    <3>4. (outstanding + 1) * MAXOPBLOCKS \in Nat
      BY LogAssumption DEF TypeOK
    <3> QED
      BY <1>1, <2>4, <3>2, <3>3, <3>4, LogAssumption DEF Capacity, TypeOK
  <2>7. Buffers'
    BY <1>1, <1>2, <1>3, <1>6 DEF Buffers, TypeOK
  <2> QED
    BY <1>4, <2>1, <2>5, <2>6, <2>7
<1> QED
  BY <1>5, <1>6 DEF begin_op

\* A kill() of a process asleep in begin_op() disturbs nothing.
LEMMA KillInv ==
  ASSUME NEW p \in Op, IInv, kill(p)
  PROVE  IInv'
<1> USE DEF IInv
<1>1. /\ UNCHANGED <<home, logd, hdr, mode, lh, outstanding, committing,
                     cache, dirty, phase, tail, buf, used>>
      /\ pc[p] = "sleep" /\ pc' = [pc EXCEPT ![p] = "begin_op"]
  BY DEF kill, disk, header, bcache
<1>2. Logged' = Logged /\ Locked' = Locked
  BY <1>1 DEF Logged, Locked
<1>3. InOp' = InOp
  BY <1>1 DEF InOp, TypeOK
<1>4. Reserved' = Reserved
  BY <1>1, <1>3 DEF Reserved
<1>5. TypeOK'
  BY <1>1 DEF TypeOK, Pcs
<1>6. Control' /\ Capacity'
  BY <1>1, <1>3, <1>4 DEF Control, Capacity
<1>7. Buffers'
  BY <1>1, <1>2 DEF Buffers, TypeOK
<1>8. Header' /\ Pinned' /\ Written'
  BY <1>1, <1>2 DEF Header, NoDup, Pinned, Written, Bdata
<1> QED
  BY <1>5, <1>6, <1>7, <1>8

\* Changing a locked buffer's data, then log_write()'s unlocked checks.
LEMMA LogWriteCheckInv ==
  ASSUME NEW p \in Op, NEW b \in Block, NEW v \in Data, IInv,
         log_write_check(p, b, v)
  PROVE  IInv'
<1> USE DEF IInv
<1>1. /\ UNCHANGED <<home, logd, hdr, lh, outstanding, committing, dirty,
                     phase, tail, used>>
      /\ mode = "up" /\ mode' \in {"up", "panic"}
      /\ pc[p] = "op" /\ pc' = [pc EXCEPT ![p] = "log_write"]
      /\ buf' = [buf EXCEPT ![p] = {b}]
      /\ cache' = [cache EXCEPT ![b] = v]
      /\ b \notin Locked /\ (b \in Logged \/ used[p] < OPBLOCKS)
  BY DEF log_write_check, disk, header
<1>2. Logged' = Logged
  BY <1>1 DEF Logged
<1>3. Locked' = Locked \cup {b}
  <2>1. \A q \in Op : buf'[q] = IF q = p THEN {b} ELSE buf[q]
    BY <1>1 DEF TypeOK
  <2>2. buf[p] = {}
    BY <1>1 DEF Buffers
  <2> QED
    BY <2>1, <2>2 DEF Locked
<1>4. InOp' = InOp /\ p \in InOp
  BY <1>1 DEF InOp, TypeOK
<1>5. Reserved' = Reserved
  BY <1>1, <1>4 DEF Reserved
<1>6. TypeOK'
  BY <1>1 DEF TypeOK, Pcs
<1>7. Control' /\ Capacity'
  BY <1>1, <1>4, <1>5 DEF Control, Capacity
<1>8. Buffers'
  <2>1. \A q \in Op : b \notin buf[q]
    BY <1>1 DEF Locked
  <2>2. \A q \in Op : /\ buf'[q] = IF q = p THEN {b} ELSE buf[q]
                      /\ pc'[q] = IF q = p THEN "log_write" ELSE pc[q]
    BY <1>1 DEF TypeOK
  <2>3. \A q \in Op : pc'[q] # "log_write" => buf'[q] = {}
    BY <2>2 DEF Buffers
  <2>4. \A q \in Op : pc'[q] = "log_write" =>
          \E c \in Block : buf'[q] = {c} /\ (c \in Logged \/ used[q] < OPBLOCKS)
    BY <1>1, <2>2 DEF Buffers
  <2>5. \A q, r \in Op : \A c \in Block : c \in buf'[q] /\ c \in buf'[r] => q = r
    BY <2>1, <2>2 DEF Buffers
  <2> QED
    BY <1>1, <1>2, <2>3, <2>4, <2>5 DEF Buffers
<1>9. Header'
  BY <1>1 DEF Header, NoDup
<1>10. phase = "none"
  BY <1>1, <1>4 DEF Control
<1>11. Pinned'
  BY <1>1, <1>2, <1>3, <1>10, LogAssumption DEF Pinned, TypeOK
<1>12. Written'
  BY <1>1, <1>10 DEF Written
<1> QED
  BY <1>6, <1>7, <1>8, <1>9, <1>11, <1>12

\* log_write() fills one of the reserved slots of its call, or absorbs.
LEMMA LogWriteInv ==
  ASSUME NEW p \in Op, IInv, log_write(p)
  PROVE  IInv'
<1> USE DEF IInv
<1>1. PICK b \in Block : buf[p] = {b} /\ (b \in Logged \/ used[p] < OPBLOCKS)
  BY DEF log_write, Buffers
<1>2. /\ UNCHANGED <<home, logd, hdr, mode, outstanding, committing, cache,
                     phase, tail>>
      /\ mode = "up"
      /\ pc[p] = "log_write" /\ pc' = [pc EXCEPT ![p] = "op"]
      /\ buf' = [buf EXCEPT ![p] = {}]
      /\ dirty' = dirty \cup {b}
      /\ \/ b \in Logged /\ UNCHANGED <<lh, used>>
         \/ /\ b \notin Logged
            /\ lh' = Append(lh, b)
            /\ used' = [used EXCEPT ![p] = @ + 1]
  BY <1>1 DEF log_write, disk
<1>3. InOp' = InOp /\ p \in InOp
  BY <1>2 DEF InOp, TypeOK
<1>4. phase = "none" /\ hdr = <<>> /\ ~committing
  BY <1>2, <1>3 DEF Control, Header
<1>5. Locked' = Locked \ {b}
  BY <1>1, <1>2 DEF Locked, Buffers, TypeOK
<1>6. Logged' = Logged \cup {b} /\ Len(lh') \in Nat /\ lh' \in Seq(Block)
  <2>1. CASE b \in Logged /\ UNCHANGED <<lh, used>>
    <3>1. Logged' = Logged
      BY <2>1 DEF Logged
    <3> QED
      BY <2>1, <3>1 DEF TypeOK
  <2>2. CASE lh' = Append(lh, b)
    <3>1. /\ lh' \in Seq(Block) /\ Len(lh') = Len(lh) + 1 /\ Len(lh) \in Nat
          /\ \A i \in 1..Len(lh) : lh'[i] = lh[i]
          /\ lh'[Len(lh) + 1] = b
      BY <2>2 DEF TypeOK
    <3> QED
      BY <3>1 DEF Logged
  <2> QED
    BY <1>2, <2>1, <2>2
<1>7. TypeOK'
  BY <1>1, <1>2, <1>6, LogAssumption DEF TypeOK, Pcs
<1>8. Control'
  BY <1>2, <1>3 DEF Control
<1>9. Buffers'
  BY <1>1, <1>2, <1>6 DEF Buffers, TypeOK
<1>10. Capacity'
  <2>1. CASE UNCHANGED <<lh, used>>
    BY <1>2, <1>3, <2>1 DEF Capacity, Reserved
  <2>2. CASE b \notin Logged /\ lh' = Append(lh, b)
             /\ used' = [used EXCEPT ![p] = @ + 1]
    <3> DEFINE s == <<p, used[p] + 1>>
    <3>1. used[p] \in Nat /\ used[p] + 1 \in 1..MAXOPBLOCKS
      BY <1>1, <2>2, LogAssumption DEF TypeOK
    <3>2. s \in Reserved
      BY <1>3, <3>1 DEF Reserved
    <3>3. Reserved' = Reserved \ {s}
      <4>1. \A r \in InOp \X (1..MAXOPBLOCKS) :
              r[2] > used'[r[1]] <=> r[2] > used[r[1]] /\ r # s
        <5> SUFFICES ASSUME NEW q \in InOp, NEW i \in 1..MAXOPBLOCKS
                     PROVE  i > used'[q] <=> i > used[q] /\ <<q, i>> # s
          OBVIOUS
        <5>1. used'[q] = IF q = p THEN used[p] + 1 ELSE used[q]
          BY <2>2 DEF TypeOK, InOp
        <5>2. used[q] \in Nat
          BY DEF TypeOK, InOp
        <5> QED
          BY <3>1, <5>1, <5>2
      <4> QED
        BY <1>3, <4>1 DEF Reserved
    <3>4. Cardinality(Reserved') = Cardinality(Reserved) - 1
      BY <3>2, <3>3, ReservedCount, FS_RemoveElement
    <3>5. Len(lh') = Len(lh) + 1 /\ Len(lh) \in Nat
      BY <2>2 DEF TypeOK
    <3> QED
      BY <1>2, <3>4, <3>5, ReservedCount, LogAssumption DEF Capacity
  <2> QED
    BY <1>2, <2>1, <2>2
<1>11. Header'
  <2>1. NoDup(lh')
    <3>1. CASE UNCHANGED <<lh, used>>
      BY <3>1 DEF Header, NoDup
    <3>2. CASE b \notin Logged /\ lh' = Append(lh, b)
      <4>1. /\ Len(lh') = Len(lh) + 1 /\ Len(lh) \in Nat
            /\ \A i \in 1..Len(lh) : lh'[i] = lh[i] /\ lh[i] # b
            /\ lh'[Len(lh) + 1] = b
        BY <3>2 DEF TypeOK, Logged
      <4> QED
        BY <4>1 DEF Header, NoDup
    <3> QED
      BY <1>2, <3>1, <3>2
  <2> QED
    BY <1>2, <1>4, <2>1 DEF Header, NoDup
<1>12. Pinned'
  <2>1. dirty = Logged /\ b \in Locked
    BY <1>1, <1>2, <1>4 DEF Pinned, Locked
  <2> QED
    BY <1>2, <1>4, <1>5, <1>6, <2>1 DEF Pinned
<1>13. Written'
  BY <1>2, <1>4 DEF Written
<1> QED
  BY <1>7, <1>8, <1>9, <1>10, <1>11, <1>12, <1>13

\* end_op() gives up the reservation; the last one starts the commit.
LEMMA EndOpInv ==
  ASSUME NEW p \in Op, IInv, end_op(p)
  PROVE  IInv'
<1> USE DEF IInv
<1>1. /\ UNCHANGED <<home, logd, hdr, lh, cache, dirty, buf, used>>
      /\ mode = "up" /\ pc[p] = "op" /\ outstanding' = outstanding - 1
  BY DEF end_op, disk, bcache
<1>2. Logged' = Logged /\ Locked' = Locked
  BY <1>1 DEF Logged, Locked
<1>3. p \in InOp /\ ~committing /\ phase = "none" /\ buf[p] = {}
  BY <1>1 DEF InOp, Control, Buffers
<1>4. mode' = "up"
  BY <1>1, <1>3 DEF end_op
<1>5. /\ \A q \in Op : q # p => \/ pc'[q] = pc[q]
                                \/ pc[q] = "sleep" /\ pc'[q] = "begin_op"
      /\ pc'[p] \in {"user", "commit"}
      /\ pc' \in [Op -> Pcs]
  BY DEF end_op, wakeup, TypeOK, Pcs
<1>6. InOp' = InOp \ {p}
  BY <1>3, <1>5 DEF InOp
<1>7. Cardinality(InOp') = outstanding - 1 /\ outstanding \in Nat \ {0}
  <2>1. Cardinality(InOp') = Cardinality(InOp) - 1
    BY <1>3, <1>6, ReservedCount, FS_RemoveElement
  <2>2. Cardinality(InOp) # 0
    BY <1>3, ReservedCount, FS_EmptySet
  <2> QED
    BY <2>1, <2>2, ReservedCount DEF Control
<1>8. TypeOK'
  <2>1. committing' \in BOOLEAN /\ phase' \in Phases /\ tail' \in Nat
    BY DEF end_op, TypeOK, Phases
  <2> QED
    BY <1>1, <1>4, <1>5, <1>7, <2>1 DEF TypeOK
<1>9. Buffers'
  <2>1. \A q \in Op : pc'[q] = "log_write" <=> pc[q] = "log_write"
    BY <1>1, <1>5
  <2> QED
    BY <1>1, <1>2, <2>1 DEF Buffers
<1>10. Capacity'
  <2>1. Reserved' \in SUBSET Reserved
    BY <1>1, <1>6 DEF Reserved
  <2>2. /\ Cardinality(Reserved') <= Cardinality(Reserved)
        /\ Cardinality(Reserved') \in Nat
    BY <2>1, ReservedCount, FS_Subset, FS_CardinalityType
  <2> QED
    BY <1>1, <2>2, ReservedCount, LogAssumption DEF Capacity, TypeOK
<1>11. CASE /\ outstanding = 1 /\ committing' = TRUE /\ tail' = 1
            /\ phase' = IF lh = <<>> THEN "done" ELSE "write_log"
  <2>1. IsFiniteSet(InOp')
    BY <1>6, ReservedCount, FS_RemoveElement
  <2>2. InOp' = {}
    BY <1>7, <1>11, <2>1, FS_EmptySet
  <2>3. Control'
    BY <1>1, <1>3, <1>4, <1>7, <1>11, <2>2 DEF Control
  <2>4. lh # <<>> => 1 \in 1..Len(lh)
    BY DEF TypeOK
  <2>5. Header'
    BY <1>1, <1>3, <1>11, <2>4 DEF Header, NoDup
  <2>6. lh = <<>> => Logged = {}
    BY DEF Logged
  <2>7. Pinned'
    BY <1>1, <1>2, <1>3, <1>4, <1>11, <2>6 DEF Pinned
  <2>8. Written'
    BY <1>11 DEF Written, TypeOK
  <2> QED
    BY <1>8, <1>9, <1>10, <2>3, <2>5, <2>7, <2>8
<1>12. CASE UNCHANGED <<committing, phase, tail>>
  <2>1. Control'
    BY <1>1, <1>3, <1>4, <1>6, <1>7, <1>12 DEF Control
  <2>2. Header' /\ Pinned' /\ Written'
    BY <1>1, <1>2, <1>3, <1>4, <1>12 DEF Header, NoDup, Pinned, Written
  <2> QED
    BY <1>8, <1>9, <1>10, <2>1, <2>2
<1> QED
  BY <1>11, <1>12 DEF end_op

\* While commit() or recovery runs, no process is inside a system call: no
\* buffer is locked and no slot is reserved.
LEMMA Quiet ==
  ASSUME IInv, phase # "none"
  PROVE  InOp = {} /\ Locked = {} /\ Reserved = {}
<1> USE DEF IInv
<1>1. InOp = {}
  BY DEF Control, TypeOK
<1>2. \A p \in Op : buf[p] = {}
  BY <1>1 DEF InOp, Buffers
<1>3. Locked = {} /\ Reserved = {}
  BY <1>1, <1>2 DEF Locked, Reserved
<1> QED
  BY <1>1, <1>3

\* A step that leaves the processes and the in-memory header alone, and the
\* phase inside the commit or the recovery it was in.
LEMMA CommitFrame ==
  ASSUME IInv, phase # "none", UNCHANGED thread
  PROVE  /\ InOp' = {} /\ Locked' = {} /\ Reserved' = {}
         /\ UNCHANGED <<outstanding, lh>> =>
              /\ outstanding' = Cardinality(InOp')
              /\ Logged' = Logged
              /\ Len(lh') + Cardinality(Reserved') <= LOGSIZE
              /\ Buffers'
<1> USE DEF IInv
<1>1. InOp = {} /\ Locked = {} /\ Reserved = {}
  BY Quiet
<1>2. InOp' = InOp /\ Locked' = Locked /\ Reserved' = Reserved
  BY DEF InOp, Locked, Reserved, thread
<1>3. ASSUME UNCHANGED <<outstanding, lh>>
      PROVE  Logged' = Logged /\ Buffers'
  BY <1>3 DEF Logged, Buffers, thread
<1>4. ASSUME UNCHANGED <<outstanding, lh>>
      PROVE  /\ outstanding' = Cardinality(InOp')
             /\ Len(lh') + Cardinality(Reserved') <= LOGSIZE
  BY <1>2, <1>4 DEF Control, Capacity
<1> QED
  BY <1>1, <1>2, <1>3, <1>4

\* write_log() copies the next block of the transaction to its slot.
LEMMA WriteLogInv ==
  ASSUME IInv, write_log
  PROVE  IInv'
<1> USE DEF IInv
<1> DEFINE c == lh[tail]
<1>1. /\ UNCHANGED <<home, hdr, mode, lh, outstanding, committing, dirty>>
      /\ UNCHANGED thread
      /\ phase = "write_log"
      /\ logd' = [logd EXCEPT ![tail] = Bdata(c)]
      /\ cache' = [cache EXCEPT ![c] = Bdata(c)]
      /\ tail' = tail + 1
      /\ phase' = IF tail = Len(lh) THEN "write_head" ELSE phase
  BY DEF write_log, header
<1>2. /\ tail \in 1..Len(lh) /\ Len(lh) \in Nat /\ Len(lh) <= LOGSIZE
      /\ tail \in LogSlot /\ c \in Block
  <2>1. tail \in 1..Len(lh) /\ Len(lh) \in Nat
    BY <1>1 DEF Header, TypeOK
  <2>2. Len(lh) <= LOGSIZE
    BY <2>1, ReservedCount, LogAssumption DEF Capacity
  <2> QED
    BY <2>1, <2>2, LogAssumption DEF TypeOK, LogSlot
<1>3. mode # "recover" /\ c \in dirty /\ cache[c] # NoData
  <2>1. mode # "recover"
    BY <1>1 DEF Control
  <2> QED
    BY <1>1, <1>2, <2>1 DEF Pinned, Logged
<1>4. cache' = cache /\ Bdata(c) = cache[c] /\ Bdata(c) \in Data
  BY <1>1, <1>2, <1>3 DEF Bdata, TypeOK
<1>5. /\ Locked' = {} /\ InOp' = {} /\ Logged' = Logged
      /\ outstanding' = Cardinality(InOp') /\ Buffers'
      /\ Len(lh') + Cardinality(Reserved') <= LOGSIZE
  BY <1>1, CommitFrame
<1>6. TypeOK'
  BY <1>1, <1>2, <1>4 DEF TypeOK, Phases, thread
<1>7. Control' /\ Capacity' /\ Header'
  <2>1. lh # <<>>
    BY <1>2
  <2> QED
    BY <1>1, <1>2, <1>3, <1>5, <2>1 DEF Control, Capacity, Header, NoDup
<1>8. Pinned'
  BY <1>1, <1>3, <1>4, <1>5, Quiet DEF Pinned
<1>9. Written'
  <2>1. \A i \in 1..Len(lh) : i < tail + 1 => logd'[i] = Bdata(lh[i])
    <3> SUFFICES ASSUME NEW i \in 1..Len(lh), i < tail + 1
                 PROVE  logd'[i] = Bdata(lh[i])
      OBVIOUS
    <3>1. CASE i = tail
      BY <1>1, <1>2, <3>1 DEF TypeOK
    <3>2. CASE i < tail
      BY <1>1, <1>2, <3>2 DEF TypeOK, Written
    <3> QED
      BY <1>2, <3>1, <3>2
  <2>2. \A i \in 1..Len(lh) : Bdata(lh[i])' = Bdata(lh[i])
    BY <1>1, <1>4 DEF Bdata
  <2>3. tail = Len(lh) => \A i \in 1..Len(lh) : logd'[i] = Bdata(lh[i])'
    BY <1>2, <2>1, <2>2
  <2> QED
    BY <1>1, <1>2, <2>1, <2>2, <2>3 DEF Written
<1> QED
  BY <1>5, <1>6, <1>7, <1>8, <1>9

\* The header is written when every log block has been.
LEMMA WriteHeadInv ==
  ASSUME IInv, write_head
  PROVE  IInv'
<1> USE DEF IInv
<1>1. /\ UNCHANGED <<home, logd, mode, lh, outstanding, committing, cache,
                     dirty, thread>>
      /\ phase = "write_head" /\ phase' = "install_trans"
      /\ tail' = 1 /\ hdr' = lh
  BY DEF write_head, header, bcache
<1>2. mode # "recover"
  BY <1>1 DEF Control
<1>3. /\ Locked' = {} /\ InOp' = {} /\ Logged' = Logged
      /\ outstanding' = Cardinality(InOp') /\ Buffers'
      /\ Len(lh') + Cardinality(Reserved') <= LOGSIZE
  BY <1>1, CommitFrame
<1>4. 1 \in 1..Len(lh) /\ Len(lh) <= LOGSIZE
  <2>1. lh # <<>> /\ Len(lh) \in Nat
    BY <1>1 DEF Header, TypeOK
  <2>2. Len(lh) # 0
    BY <2>1 DEF TypeOK
  <2> QED
    BY <2>1, <2>2, ReservedCount, LogAssumption DEF Capacity
<1>5. TypeOK'
  BY <1>1 DEF TypeOK, Phases, thread
<1>6. Control' /\ Capacity' /\ Header'
  BY <1>1, <1>2, <1>3, <1>4 DEF Control, Capacity, Header, NoDup
<1>7. Pinned'
  <2>1. {lh[i] : i \in 1..Len(lh)}' = {lh[i] : i \in 1..Len(lh)}
    BY <1>1
  <2> QED
    BY <1>1, <1>2, <1>3, <2>1, Quiet DEF Pinned, Logged
<1>8. Written'
  BY <1>1, <1>2 DEF Written, Bdata
<1> QED
  BY <1>3, <1>5, <1>6, <1>7, <1>8

\* install_trans() copies the next log block to its home location.
LEMMA InstallTransInv ==
  ASSUME IInv, install_trans
  PROVE  IInv'
<1> USE DEF IInv
<1> DEFINE c == lh[tail]
<1>1. /\ UNCHANGED <<logd, hdr, mode, lh, outstanding, committing, thread>>
      /\ phase = "install_trans"
      /\ home' = [home EXCEPT ![c] = logd[tail]]
      /\ cache' = [cache EXCEPT ![c] = logd[tail]]
      /\ dirty' = dirty \ {c}
      /\ tail' = tail + 1
      /\ phase' = IF tail = Len(lh) THEN "clear" ELSE phase
  BY DEF install_trans, header
<1>2. /\ tail \in 1..Len(lh) /\ Len(lh) \in Nat
      /\ tail \in LogSlot /\ c \in Block /\ hdr = lh
      /\ \A i \in 1..Len(lh) : lh[i] \in Block /\ i \in LogSlot
  <2>1. tail \in 1..Len(lh) /\ Len(lh) \in Nat /\ hdr = lh
    BY <1>1 DEF Header, TypeOK
  <2>2. Len(lh) <= LOGSIZE
    BY <2>1, ReservedCount, LogAssumption DEF Capacity
  <2> QED
    BY <2>1, <2>2, LogAssumption DEF TypeOK, LogSlot
<1>3. /\ Locked' = {} /\ InOp' = {} /\ Logged' = Logged
      /\ outstanding' = Cardinality(InOp') /\ Buffers'
      /\ Len(lh') + Cardinality(Reserved') <= LOGSIZE
  BY <1>1, CommitFrame
<1>4. \A i \in 1..Len(lh) : lh[i] = c => i = tail
  BY <1>2 DEF Header, NoDup
<1>5. logd[tail] \in Data /\ logd[tail] # NoData
  BY <1>2, LogAssumption DEF TypeOK
<1>6. TypeOK'
  BY <1>1, <1>2, <1>5 DEF TypeOK, Phases, thread
<1>7. Control' /\ Capacity' /\ Header'
  <2>1. dirty = {} => dirty' = {}
    BY <1>1
  <2> QED
    BY <1>1, <1>2, <1>3, <2>1 DEF Control, Capacity, Header, NoDup
<1>8. Pinned'
  <2>1. \A b \in Block : cache'[b] # NoData /\ b \notin dirty' =>
                           cache'[b] = home'[b]
    BY <1>1, <1>2, Quiet DEF Pinned, TypeOK
  <2>2. \A b \in dirty' : cache'[b] # NoData
    BY <1>1, <1>2 DEF Pinned, TypeOK
  <2>3. mode # "recover" => dirty' = {lh[i] : i \in (tail + 1)..Len(lh)}
    <3> SUFFICES ASSUME mode # "recover"
                 PROVE  dirty' = {lh[i] : i \in (tail + 1)..Len(lh)}
      OBVIOUS
    <3>1. dirty = {lh[i] : i \in tail..Len(lh)}
      BY <1>1 DEF Pinned
    <3>2. \A i \in (tail + 1)..Len(lh) : i \in tail..Len(lh) /\ lh[i] # c
      BY <1>2, <1>4
    <3>3. \A i \in tail..Len(lh) : i = tail \/ i \in (tail + 1)..Len(lh)
      BY <1>2
    <3> QED
      BY <1>1, <3>1, <3>2, <3>3
  <2>4. tail = Len(lh) => {lh[i] : i \in (tail + 1)..Len(lh)} = {}
    BY <1>2
  <2> QED
    BY <1>1, <1>2, <1>3, <2>1, <2>2, <2>3, <2>4 DEF Pinned
<1>9. Written'
  <2>1. \A i \in 1..Len(lh) : i < tail + 1 => home'[lh[i]] = logd[i]
    <3> SUFFICES ASSUME NEW i \in 1..Len(lh), i < tail + 1
                 PROVE  home'[lh[i]] = logd[i]
      OBVIOUS
    <3>1. CASE i = tail
      BY <1>1, <1>2, <3>1 DEF TypeOK
    <3>2. CASE i < tail
      BY <1>1, <1>2, <1>4, <3>2 DEF TypeOK, Written
    <3> QED
      BY <1>2, <3>1, <3>2
  <2>2. mode # "recover" =>
          \A i \in 1..Len(lh) : logd[i] = Bdata(lh[i])'
    <3> SUFFICES ASSUME mode # "recover", NEW i \in 1..Len(lh)
                 PROVE  logd[i] = Bdata(lh[i])'
      OBVIOUS
    <3>1. logd[i] = Bdata(lh[i])
      BY <1>1 DEF Written
    <3>2. CASE i = tail
      BY <1>1, <1>2, <1>5, <3>2 DEF TypeOK, Bdata
    <3>3. CASE i # tail
      <4>1. lh[i] # c /\ lh[i] \in Block
        BY <1>2, <1>4, <3>3
      <4>2. cache'[lh[i]] = cache[lh[i]] /\ home'[lh[i]] = home[lh[i]]
        BY <1>1, <4>1 DEF TypeOK
      <4> QED
        BY <1>1, <3>1, <4>2 DEF Bdata
    <3> QED
      BY <3>2, <3>3
  <2>3. tail = Len(lh) => \A i \in 1..Len(lh) : home'[lh[i]] = logd[i]
    BY <1>2, <2>1
  <2> QED
    BY <1>1, <1>2, <2>1, <2>2, <2>3 DEF Written
<1> QED
  BY <1>3, <1>6, <1>7, <1>8, <1>9

\* The header is cleared when every block is installed.
LEMMA ClearHeadInv ==
  ASSUME IInv, clear_head, Running
  PROVE  IInv'
<1> USE DEF IInv
<1>1. /\ UNCHANGED <<home, logd, outstanding, committing, cache, dirty, tail,
                     thread>>
      /\ phase = "clear" /\ lh' = <<>> /\ hdr' = <<>> /\ mode' = "up"
      /\ phase' = IF mode = "recover" THEN "none" ELSE "done"
  BY DEF clear_head, bcache
<1>2. Locked' = {} /\ InOp' = {} /\ Reserved' = {} /\ InOp = {}
  BY <1>1, CommitFrame, Quiet
<1>3. dirty = {} /\ Logged' = {}
  BY <1>1 DEF Control, Pinned, Logged
<1>4. TypeOK'
  BY <1>1 DEF TypeOK, Phases, thread
<1>5. Control'
  BY <1>1, <1>2 DEF Control
<1>6. Buffers'
  BY <1>1, <1>2 DEF Buffers, InOp, thread
<1>7. Capacity' /\ Header'
  <2>1. Cardinality(Reserved') = 0
    BY <1>2, FS_EmptySet
  <2> QED
    BY <1>1, <2>1, LogAssumption DEF Capacity, Header, NoDup
<1>8. Pinned' /\ Written'
  BY <1>1, <1>2, <1>3, Quiet DEF Pinned, Written
<1> QED
  BY <1>4, <1>5, <1>6, <1>7, <1>8

\* end_op() after commit() lets system calls start again.
LEMMA EndCommitInv ==
  ASSUME IInv, end_commit
  PROVE  IInv'
<1> USE DEF IInv
<1>1. /\ UNCHANGED <<home, logd, hdr, mode, lh, outstanding, cache, dirty,
                     tail, buf, used>>
      /\ phase = "done" /\ phase' = "none" /\ committing' = FALSE
      /\ pc' = [q \in Op |-> IF pc[q] = "commit" THEN "user" ELSE wakeup(q)]
  BY DEF end_commit, disk, bcache
<1>2. InOp = {} /\ Locked = {} /\ Reserved = {}
  BY <1>1, Quiet
<1>3. \A q \in Op : pc'[q] \in Pcs \ {"op", "log_write"}
  BY <1>1, <1>2 DEF InOp, wakeup, TypeOK, Pcs
<1>4. InOp' = {}
  BY <1>3 DEF InOp
<1>5. Locked' = {} /\ Reserved' = {} /\ Logged' = Logged
  BY <1>1, <1>2, <1>4 DEF Locked, Reserved, Logged
<1>6. TypeOK'
  <2>1. pc' \in [Op -> Pcs]
    BY <1>1, <1>3
  <2> QED
    BY <1>1, <2>1 DEF TypeOK, Phases
<1>7. mode # "recover" /\ lh = <<>> /\ dirty = {}
  BY <1>1 DEF Control, Header, Pinned
<1>8. Control'
  BY <1>1, <1>2, <1>4, <1>7 DEF Control
<1>9. Buffers'
  <2>1. \A q \in Op : buf[q] = {}
    BY <1>2 DEF Locked
  <2> QED
    BY <1>1, <1>3, <2>1 DEF Buffers
<1>10. Capacity' /\ Header'
  BY <1>1, <1>2, <1>5 DEF Capacity, Header, NoDup
<1>11. Logged' = {}
  BY <1>1, <1>7 DEF Logged
<1>12. Pinned' /\ Written'
  BY <1>1, <1>2, <1>5, <1>7, <1>11 DEF Pinned, Written
<1> QED
  BY <1>6, <1>8, <1>9, <1>10, <1>12

\* read_head() finds the header the crashed machine left.
LEMMA ReadHeadInv ==
  ASSUME IInv, read_head
  PROVE  IInv'
<1> USE DEF IInv
<1>1. /\ UNCHANGED <<home, logd, hdr, mode, outstanding, committing, cache,
                     dirty, thread>>
      /\ phase = "read_head" /\ lh' = hdr /\ tail' = 1
      /\ phase' = IF hdr = <<>> THEN "clear" ELSE "install_trans"
  BY DEF read_head, disk, bcache
<1>2. Locked' = {} /\ InOp' = {} /\ Reserved' = {} /\ InOp = {} /\ Locked = {}
  BY <1>1, CommitFrame, Quiet
<1>3. mode = "recover"
  BY <1>1 DEF Control
<1>4. TypeOK'
  BY <1>1 DEF TypeOK, Phases, thread
<1>5. Control'
  BY <1>1, <1>2, <1>3 DEF Control
<1>6. Buffers'
  BY <1>1, <1>2 DEF Buffers, InOp, thread
<1>7. Capacity'
  <2>1. Cardinality(Reserved') = 0
    BY <1>2, FS_EmptySet
  <2> QED
    BY <1>1, <2>1 DEF Capacity, TypeOK
<1>8. Header'
  <2>1. hdr # <<>> => 1 \in 1..Len(hdr)
    BY DEF TypeOK
  <2> QED
    BY <1>1, <2>1 DEF Header, NoDup
<1>9. Pinned'
  BY <1>1, <1>2, <1>3 DEF Pinned
<1>10. Written'
  BY <1>1, <1>3 DEF Written
<1> QED
  BY <1>4, <1>5, <1>6, <1>7, <1>8, <1>9, <1>10

\* A crash keeps the disk, and forgets the rest.
LEMMA CrashInv ==
  ASSUME IInv, crash
  PROVE  IInv'
<1> USE DEF IInv
<1>1. UNCHANGED <<home, logd, hdr>>
  BY DEF crash, disk
<1>2. InOp' = {} /\ Locked' = {}
  BY DEF crash, InOp, Locked
<1>3. Reserved' = {} /\ Cardinality(InOp') = 0 /\ Cardinality(Reserved') = 0
  BY <1>2, FS_EmptySet DEF Reserved
<1>4. TypeOK'
  <2>1. 0 \in 0..OPBLOCKS
    BY LogAssumption
  <2>2. home' \in [Block -> Data] /\ logd' \in [LogSlot -> Data]
        /\ hdr' \in Seq(Block)
    BY <1>1 DEF TypeOK
  <2>3. lh' \in Seq(Block) /\ outstanding' \in Nat /\ tail' \in Nat
        /\ mode' \in {"recover", "up", "panic"} /\ committing' \in BOOLEAN
        /\ phase' \in Phases
    <3>1. <<>> \in Seq(Block)
      OBVIOUS
    <3> QED
      BY <3>1, Zenon DEF crash, Phases
  <2>4. cache' \in [Block -> Data \cup {NoData}] /\ dirty' \in SUBSET Block
    BY DEF crash
  <2>5. pc' \in [Op -> Pcs] /\ buf' \in [Op -> SUBSET Block]
    BY DEF crash, Pcs
  <2>6. used' \in [Op -> 0..OPBLOCKS]
    BY <2>1 DEF crash
  <2> QED
    BY <2>2, <2>3, <2>4, <2>5, <2>6 DEF TypeOK
<1>5. Control' /\ Buffers'
  BY <1>2, <1>3 DEF crash, Control, Buffers
<1>6. Capacity' /\ Header'
  BY <1>1, <1>3, LogAssumption DEF crash, Capacity, Header, NoDup
<1>7. Pinned' /\ Written'
  BY <1>2 DEF crash, Pinned, Written
<1> QED
  BY <1>4, <1>5, <1>6, <1>7

\* Loading a block into the cache, or dropping an unpinned one, changes no
\* content that bread() returns.
LEMMA CacheInv ==
  ASSUME NEW b \in Block, IInv, bread(b) \/ bget_recycle(b)
  PROVE  IInv' /\ \A c \in Block : Bdata(c)' = Bdata(c)
<1> USE DEF IInv
<1>1. /\ UNCHANGED <<home, logd, hdr, mode, lh, outstanding, committing,
                     dirty, phase, tail, pc, buf, used>>
      /\ \/ cache[b] = NoData /\ cache' = [cache EXCEPT ![b] = home[b]]
         \/ /\ cache[b] # NoData /\ b \notin Locked /\ b \notin dirty
            /\ cache' = [cache EXCEPT ![b] = NoData]
  BY DEF bread, bget_recycle, disk, header, thread
<1>2. Logged' = Logged /\ Locked' = Locked /\ InOp' = InOp
      /\ Reserved' = Reserved
  BY <1>1 DEF Logged, Locked, InOp, Reserved
<1>3. \A c \in Block : Bdata(c)' = Bdata(c)
  BY <1>1 DEF Bdata, TypeOK, Pinned
<1>4. TypeOK'
  BY <1>1 DEF TypeOK
<1>5. Control' /\ Capacity' /\ Buffers' /\ Header'
  <2>1. Control' /\ Capacity'
    BY <1>1, <1>2 DEF Control, Capacity
  <2>2. Buffers'
    BY <1>1, <1>2 DEF Buffers
  <2>3. Header'
    BY <1>1 DEF Header, NoDup
  <2> QED
    BY <2>1, <2>2, <2>3
<1>6. Pinned'
  <2>1. \A c \in Block : cache'[c] = IF c # b THEN cache[c]
                                     ELSE IF cache[b] = NoData THEN home[b]
                                     ELSE NoData
    BY <1>1 DEF TypeOK
  <2>2. \A c \in Block : cache'[c] # NoData /\ c \notin dirty'
                           /\ c \notin Locked' => cache'[c] = home'[c]
    BY <1>1, <1>2, <2>1 DEF Pinned
  <2>3. home[b] # NoData
    BY LogAssumption DEF TypeOK
  <2>4. dirty \cup Locked \in SUBSET Block
    BY DEF TypeOK, Locked
  <2>5. cache[b] # NoData => b \notin dirty \cup Locked
    BY <1>1
  <2>6. \A c \in dirty' \cup Locked' : cache'[c] # NoData
    BY <1>1, <1>2, <2>1, <2>3, <2>4, <2>5 DEF Pinned
  <2> QED
    BY <1>1, <1>2, <2>2, <2>6 DEF Pinned
<1>7. Written'
  <2>1. \A i \in 1..Len(lh) : lh[i] \in Block
    BY DEF TypeOK
  <2> QED
    BY <1>1, <1>3, <2>1 DEF Written
<1> QED
  BY <1>3, <1>4, <1>5, <1>6, <1>7

\* A step that changes nothing preserves the invariant.
LEMMA StutterInv ==
  ASSUME IInv, UNCHANGED vars
  PROVE  IInv'
<1>1. UNCHANGED <<home, logd, hdr, mode, lh, outstanding, committing, cache,
                  dirty, phase, tail, pc, buf, used>>
  BY DEF vars, disk, header, bcache, thread
<1>2. Logged' = Logged /\ Locked' = Locked /\ InOp' = InOp
      /\ Reserved' = Reserved
  BY <1>1 DEF Logged, Locked, InOp, Reserved
<1>3. TypeOK' /\ Control' /\ Capacity'
  BY <1>1, <1>2 DEF IInv, TypeOK, Control, Capacity
<1>4. Buffers'
  BY <1>1, <1>2 DEF IInv, Buffers
<1>5. Header'
  BY <1>1 DEF IInv, Header, NoDup
<1>6. Pinned'
  BY <1>1, <1>2 DEF IInv, Pinned
<1>7. Written'
  BY <1>1 DEF IInv, Written, Bdata
<1> QED
  BY <1>3, <1>4, <1>5, <1>6, <1>7 DEF IInv

\* Every step of log.c preserves the invariant.
LEMMA NextInv == IInv /\ [Next]_vars => IInv'
<1> SUFFICES ASSUME IInv, [Next]_vars PROVE IInv'
  OBVIOUS
<1>1. ASSUME NEW p \in Op, begin_op(p) \/ kill(p) \/ log_write(p) \/ end_op(p)
      PROVE  IInv'
  BY <1>1, BeginOpInv, KillInv, LogWriteInv, EndOpInv
<1>2. ASSUME NEW p \in Op, NEW b \in Block, NEW v \in Data,
             log_write_check(p, b, v)
      PROVE  IInv'
  BY <1>2, LogWriteCheckInv
<1>3. CASE CommitStep
  BY <1>3, WriteLogInv, WriteHeadInv, InstallTransInv, ClearHeadInv,
     EndCommitInv, ReadHeadInv DEF CommitStep
<1>4. ASSUME NEW b \in Block, bread(b) \/ bget_recycle(b)
      PROVE  IInv'
  BY <1>4, CacheInv
<1>5. CASE crash
  BY <1>5, CrashInv
<1>6. CASE UNCHANGED vars
  BY <1>6, StutterInv
<1> QED
  BY <1>1, <1>2, <1>3, <1>4, <1>5, <1>6 DEF Next

\* The inductive invariant holds in every state of every behaviour.
LEMMA InductiveInv == Spec => []IInv
BY InitInv, NextInv, PTL DEF Spec

\* The state of the log keeps its types: in particular every slot write_log()
\* and install_trans() touch exists, whatever crashes.
THEOREM LogTypeCorrect == Spec => []TypeOK
<1>1. IInv => TypeOK
  BY DEF IInv
<1> QED
  BY <1>1, InductiveInv, PTL

-----------------------------------------------------------------------------
(* When no system call is open, the log is empty.                          *)

\* end_op() of the last call commits everything logged before it returns.
Idle == mode # "recover" /\ phase = "none" /\ InOp = {} => lh = <<>>

\* Every step keeps the log empty while no system call is open.
LEMMA IdleInv == IInv /\ Idle /\ [Next]_vars => Idle'
<1> SUFFICES ASSUME IInv, Idle, [Next]_vars PROVE Idle'
  OBVIOUS
<1> USE DEF Idle
<1>1. ASSUME NEW p \in Op, begin_op(p) \/ kill(p)
      PROVE  Idle'
  <2>1. /\ UNCHANGED <<mode, phase, lh>>
        /\ \A q \in Op : pc'[q] # pc[q] => pc[q] \notin {"op", "log_write"}
    BY <1>1 DEF begin_op, kill, header, IInv, TypeOK
  <2>2. InOp \subseteq InOp'
    BY <2>1 DEF InOp
  <2> QED
    BY <2>1, <2>2
<1>2. ASSUME NEW p \in Op,
             log_write(p) \/ \E b \in Block, v \in Data : log_write_check(p, b, v)
      PROVE  Idle'
  <2>1. pc'[p] \in {"op", "log_write"}
    BY <1>2 DEF log_write, log_write_check, IInv, TypeOK
  <2> QED
    BY <2>1 DEF InOp
<1>3. ASSUME NEW p \in Op, end_op(p)
      PROVE  Idle'
  <2>1. CASE outstanding = 1
    BY <1>3, <2>1 DEF end_op
  <2>2. CASE outstanding # 1
    <3>1. IInv'
      BY <1>3, EndOpInv
    <3>2. p \in InOp /\ IsFiniteSet(InOp)
      BY <1>3, ReservedCount DEF end_op, InOp, IInv
    <3>3. outstanding \in Nat /\ outstanding = Cardinality(InOp)
      BY DEF IInv, Control, TypeOK
    <3>4. outstanding' = outstanding - 1 /\ outstanding' # 0
      BY <1>3, <2>2, <3>3 DEF end_op
    <3>5. Cardinality(InOp') # 0
      BY <3>1, <3>4 DEF IInv, Control
    <3> QED
      BY <3>5, FS_EmptySet
  <2> QED
    BY <2>1, <2>2
<1>4. CASE CommitStep
  <2>1. CASE clear_head \/ end_commit
    BY <2>1 DEF clear_head, end_commit, IInv, Header
  <2>2. CASE write_log \/ write_head \/ install_trans \/ read_head
    BY <2>2 DEF write_log, write_head, install_trans, read_head
  <2> QED
    BY <1>4, <2>1, <2>2 DEF CommitStep
<1>5. ASSUME NEW b \in Block, bread(b) \/ bget_recycle(b)
      PROVE  Idle'
  BY <1>5 DEF bread, bget_recycle, header, thread, InOp
<1>6. CASE crash
  BY <1>6 DEF crash
<1>7. CASE UNCHANGED vars
  BY <1>7 DEF vars, header, thread, InOp
<1> QED
  BY <1>1, <1>2, <1>3, <1>4, <1>5, <1>6, <1>7 DEF Next

\* The log is empty whenever no system call is open.
LEMMA IdleAlways == Spec => [](IInv /\ Idle)
<1>1. Init => Idle
  BY DEF Init, Idle
<1> QED
  BY <1>1, InitInv, NextInv, IdleInv, PTL DEF Spec

\* With an empty header recovery changes nothing.
LEMMA EmptyHeader ==
  ASSUME IInv, hdr = <<>>
  PROVE  Recovered = home
BY DEF Recovered, IInv, TypeOK

\* Once every end_op() has returned, what the calls wrote is on disk: a crash
\* now loses nothing.
THEOREM LogDurable == Spec => []DurableWhenIdle
<1>1. IInv /\ Idle => DurableWhenIdle
  <2> SUFFICES ASSUME IInv, Idle, mode = "up", ~committing, outstanding = 0
               PROVE  Recovered = Memory
    BY DEF DurableWhenIdle
  <2>1. InOp = {} /\ phase = "none" /\ hdr = <<>>
    <3>1. Cardinality(InOp) = 0 /\ IsFiniteSet(InOp)
      BY ReservedCount DEF IInv, Control
    <3>2. InOp = {}
      BY <3>1, FS_EmptySet
    <3> QED
      BY <3>2 DEF IInv, Control, Header
  <2>2. lh = <<>>
    BY <2>1 DEF Idle
  <2>3. dirty = {} /\ Locked = {}
    <3>1. dirty = {}
      BY <2>1, <2>2 DEF IInv, Pinned, Logged
    <3>2. \A p \in Op : buf[p] = {}
      BY <2>1 DEF IInv, Buffers, InOp
    <3> QED
      BY <3>1, <3>2 DEF Locked
  <2>4. \A b \in Block : Bdata(b) = home[b]
    BY <2>3 DEF Bdata, IInv, Pinned
  <2>5. Memory = home
    BY <2>4 DEF Memory, IInv, TypeOK
  <2> QED
    BY <2>1, <2>5, EmptyHeader
<1> QED
  BY <1>1, IdleAlways, PTL

\* install_trans() is the only step that writes home blocks, and it does so
\* only for the blocks of a committed header.
THEOREM LogWriteAhead == Spec => WriteAhead
<1> DEFINE Ahead == \A b \in Block : home'[b] # home[b] =>
                      \E i \in 1..Len(hdr) : hdr[i] = b /\ home'[b] = logd[i]
<1>1. IInv /\ [Next]_vars => [Ahead]_vars
  <2> SUFFICES ASSUME IInv, Next PROVE Ahead
    OBVIOUS
  <2>1. CASE install_trans
    <3>1. tail \in 1..Len(hdr) /\ hdr = lh /\ lh \in Seq(Block)
      BY <2>1 DEF install_trans, IInv, Header, TypeOK
    <3>2. \A b \in Block : home'[b] # home[b] =>
            b = hdr[tail] /\ home'[b] = logd[tail]
      BY <2>1, <3>1 DEF install_trans, IInv, TypeOK
    <3> QED
      BY <3>1, <3>2
  <2>2. CASE UNCHANGED home
    BY <2>2
  <2>3. install_trans \/ UNCHANGED home
    BY DEF Next, CommitStep, begin_op, kill, log_write_check, log_write,
           end_op, write_log, write_head, clear_head, end_commit, read_head,
           crash, bread, bget_recycle, disk
  <2> QED
    BY <2>1, <2>2, <2>3
<1> QED
  BY <1>1, InductiveInv, PTL DEF Spec, WriteAhead

-----------------------------------------------------------------------------
(* The reservation is enough.                                              *)

\* As long as a system call is open, the slots it reserved and will not use
\* stay free.
LEMMA Slack ==
  ASSUME IInv, InOp # {}
  PROVE  Len(lh) <= LOGSIZE - (MAXOPBLOCKS - OPBLOCKS)
<1>1. PICK p \in Op : p \in InOp
  BY DEF InOp
<1> DEFINE S == {p} \X ((OPBLOCKS + 1)..MAXOPBLOCKS)
<1>2. IsFiniteSet({p}) /\ Cardinality({p}) = 1
  BY FS_Singleton
<1>3. /\ IsFiniteSet((OPBLOCKS + 1)..MAXOPBLOCKS)
      /\ Cardinality((OPBLOCKS + 1)..MAXOPBLOCKS) = MAXOPBLOCKS - OPBLOCKS
  <2>1. OPBLOCKS + 1 \in Int /\ MAXOPBLOCKS \in Int
    BY LogAssumption
  <2>2. /\ IsFiniteSet((OPBLOCKS + 1)..MAXOPBLOCKS)
        /\ Cardinality((OPBLOCKS + 1)..MAXOPBLOCKS) =
             IF OPBLOCKS + 1 > MAXOPBLOCKS THEN 0
             ELSE MAXOPBLOCKS - (OPBLOCKS + 1) + 1
    BY <2>1, FS_Interval
  <2> QED
    BY <2>2, LogAssumption
<1>4. Cardinality(S) = 1 * (MAXOPBLOCKS - OPBLOCKS)
  <2> DEFINE T == (OPBLOCKS + 1)..MAXOPBLOCKS
  <2>1. IsFiniteSet(T) /\ Cardinality(T) = MAXOPBLOCKS - OPBLOCKS
    BY <1>3
  <2> HIDE DEF T
  <2>2. Cardinality({p} \X T) = Cardinality({p}) * Cardinality(T)
    BY <1>2, <2>1, FS_Product
  <2>3. Cardinality({p} \X T) = 1 * (MAXOPBLOCKS - OPBLOCKS)
    BY <1>2, <2>1, <2>2
  <2> QED
    BY <2>3 DEF T
<1>5. S \subseteq Reserved
  BY <1>1, LogAssumption DEF Reserved, IInv, TypeOK
<1>6. Cardinality(S) <= Cardinality(Reserved) /\ Cardinality(Reserved) \in Nat
  BY <1>5, ReservedCount, FS_Subset DEF IInv
<1>7. Len(lh) + Cardinality(Reserved) <= LOGSIZE /\ Len(lh) \in Nat
  BY DEF IInv, Capacity, TypeOK
<1>8. Cardinality(S) = MAXOPBLOCKS - OPBLOCKS
  BY <1>4, LogAssumption
<1> QED
  BY <1>6, <1>7, <1>8, LogAssumption

\* The log in memory and the one on disk stay inside the log area.
Fits == Running /\ Len(lh) < NLOG /\ Len(hdr) < NLOG

\* If every system call leaves some of its reservation unused, and that slack
\* covers the header block which sb.nlog counts too, log_write() never
\* panics and the log never outgrows its area.  For the shipped constants
\* (10, 30 and 30) this asks that a call fill at most 8 slots.
THEOREM LogFits ==
  ASSUME OPBLOCKS < MAXOPBLOCKS,
         LOGSIZE - (MAXOPBLOCKS - OPBLOCKS) < NLOG - 1
  PROVE  Spec => []LogNeverOverflows
<1>1. Init => Fits
  BY LogAssumption DEF Init, Fits, Running
<1>2. IInv /\ IInv' /\ Fits /\ [Next]_vars => Fits'
  <2> SUFFICES ASSUME IInv, IInv', Fits, [Next]_vars PROVE Fits'
    OBVIOUS
  <2> USE DEF Fits, Running
  <2>1. ASSUME NEW p \in Op, NEW b \in Block, NEW v \in Data,
               log_write_check(p, b, v)
        PROVE  Fits'
    <3>1. p \in InOp
      BY <2>1 DEF log_write_check, InOp
    <3>2. Len(lh) <= LOGSIZE - (MAXOPBLOCKS - OPBLOCKS)
      BY <3>1, Slack
    <3>3. outstanding \in Nat /\ outstanding # 0
      <4>1. Cardinality(InOp) # 0
        BY <3>1, ReservedCount, FS_EmptySet DEF IInv
      <4> QED
        BY <4>1 DEF IInv, Control, TypeOK
    <3>4. Len(lh) \in Nat
      <4>1. lh \in Seq(Block)
        BY DEF IInv, TypeOK
      <4> QED
        BY <4>1
    <3>5. ~TooBig
      BY <3>2, <3>3, <3>4, LogAssumption DEF TooBig
    <3> QED
      BY <2>1, <3>5 DEF log_write_check, header, disk
  <2>2. ASSUME NEW p \in Op, log_write(p)
        PROVE  Fits'
    <3>1. p \in InOp'
      BY <2>2 DEF log_write, InOp, IInv, TypeOK
    <3>2. (IInv /\ InOp # {} =>
             Len(lh) <= LOGSIZE - (MAXOPBLOCKS - OPBLOCKS))'
      BY Slack, PTL
    <3>3. Len(lh') <= LOGSIZE - (MAXOPBLOCKS - OPBLOCKS) /\ Len(lh') \in Nat
      <4>1. lh' \in Seq(Block)
        BY DEF IInv, TypeOK
      <4> QED
        BY <3>1, <3>2, <4>1
    <3>4. Len(lh') < NLOG
      BY <3>3, LogAssumption
    <3> QED
      BY <2>2, <3>4 DEF log_write, disk
  <2>3. ASSUME NEW p \in Op, end_op(p)
        PROVE  Fits'
    <3>1. p \in InOp
      BY <2>3 DEF end_op, InOp
    <3>2. ~committing
      BY <3>1 DEF IInv, Control
    <3> QED
      BY <2>3, <3>2 DEF end_op, disk
  <2>4. CASE \/ \E p \in Op : begin_op(p) \/ kill(p)
             \/ \E b \in Block : bread(b) \/ bget_recycle(b)
             \/ UNCHANGED vars
    BY <2>4 DEF begin_op, kill, bread, bget_recycle, vars, header, disk
  <2>5. CASE CommitStep \/ crash
    <3>1. CASE write_log \/ write_head \/ install_trans
      BY <3>1 DEF write_log, write_head, install_trans, header, disk
    <3>2. CASE clear_head \/ crash
      BY <3>2, LogAssumption DEF clear_head, crash, disk
    <3>3. CASE end_commit \/ read_head
      BY <3>3 DEF end_commit, read_head, disk
    <3> QED
      BY <2>5, <3>1, <3>2, <3>3 DEF CommitStep
  <2> QED
    BY <2>1, <2>2, <2>3, <2>4, <2>5 DEF Next
<1>3. Fits => LogNeverOverflows
  BY DEF Fits, LogNeverOverflows
<1> QED
  BY <1>1, <1>2, <1>3, InductiveInv, PTL DEF Spec

-----------------------------------------------------------------------------
(* The log implements AtomicDisk.                                          *)

\* What recovery would install: the log's content for the blocks the header
\* on disk names, the home block's for the others.
LEMMA RecoveredAt ==
  IInv => /\ Recovered = [b \in Block |-> Recovered[b]]
          /\ \A i \in 1..Len(hdr) : Recovered[hdr[i]] = logd[i]
          /\ \A b \in Block : (\A i \in 1..Len(hdr) : hdr[i] # b)
                                => Recovered[b] = home[b]
<1> SUFFICES ASSUME IInv
             PROVE  /\ Recovered = [b \in Block |-> Recovered[b]]
                    /\ \A i \in 1..Len(hdr) : Recovered[hdr[i]] = logd[i]
                    /\ \A b \in Block : (\A i \in 1..Len(hdr) : hdr[i] # b)
                                          => Recovered[b] = home[b]
  OBVIOUS
<1>1. ASSUME NEW i \in 1..Len(hdr)
      PROVE  Recovered[hdr[i]] = logd[i]
  <2>1. hdr[i] \in Block /\ \A j \in 1..Len(hdr) : hdr[j] = hdr[i] => j = i
    BY DEF IInv, Header, NoDup, TypeOK
  <2>2. i <= i
    BY DEF IInv, TypeOK
  <2>3. LastSlot(hdr[i]) = i
    BY <2>1, <2>2 DEF LastSlot
  <2> QED
    BY <2>1, <2>3 DEF Recovered
<1>2. Recovered = [b \in Block |-> Recovered[b]]
  BY DEF Recovered
<1>3. \A b \in Block : (\A i \in 1..Len(hdr) : hdr[i] # b)
                          => Recovered[b] = home[b]
  BY DEF Recovered
<1> QED
  BY <1>1, <1>2, <1>3

\* Recovery depends on the disk only.
LEMMA RecoveredFrame ==
  ASSUME UNCHANGED disk
  PROVE  Recovered' = Recovered
BY DEF Recovered, LastSlot, disk

\* A step that changes no block content and no header leaves memory alone.
LEMMA MemoryFrame ==
  ASSUME IInv, UNCHANGED <<home, logd, hdr>>, mode # "recover" <=> mode' # "recover",
         \A b \in Block : Bdata(b)' = Bdata(b)
  PROVE  Memory' = Memory /\ Recovered' = Recovered
<1>1. Recovered' = Recovered
  BY RecoveredFrame DEF disk
<1> QED
  BY <1>1 DEF Memory

\* A system call's own steps are steps of AtomicDisk or change nothing there.
LEMMA CallRefines ==
  ASSUME NEW p \in Op, IInv,
         \/ begin_op(p) \/ kill(p) \/ log_write(p) \/ end_op(p)
         \/ \E b \in Block, v \in Data : log_write_check(p, b, v)
  PROVE  [Atomic!ANext]_(Atomic!avars)
<1> USE DEF Atomic!ANext, Atomic!avars
<1>1. CASE begin_op(p) \/ kill(p) \/ log_write(p) \/ end_op(p)
  <2>1. /\ UNCHANGED <<home, logd, hdr, cache>>
        /\ mode # "recover" <=> mode' # "recover"
    BY <1>1 DEF begin_op, kill, log_write, end_op, disk, bcache
  <2>2. Memory' = Memory /\ Recovered' = Recovered
    BY <2>1, MemoryFrame DEF Bdata
  <2>3. CASE begin_op(p)
    <3>1. InOp' = InOp \/ (InOp' = InOp \cup {p} /\ p \notin InOp)
      BY <2>3 DEF begin_op, InOp, IInv, TypeOK
    <3> QED
      BY <2>2, <3>1 DEF Atomic!Begin
  <2>4. CASE kill(p) \/ log_write(p)
    <3>1. InOp' = InOp
      BY <2>4 DEF kill, log_write, InOp, IInv, TypeOK
    <3> QED
      BY <2>2, <3>1
  <2>5. CASE end_op(p)
    <3>1. InOp' = InOp \ {p} /\ p \in InOp
      BY <2>5 DEF end_op, wakeup, InOp, IInv, TypeOK
    <3> QED
      BY <2>2, <3>1 DEF Atomic!End
  <2> QED
    BY <1>1, <2>3, <2>4, <2>5
<1>2. ASSUME NEW b \in Block, NEW v \in Data, log_write_check(p, b, v)
      PROVE  Atomic!Write(p, b, v)
  <2>1. /\ UNCHANGED <<home, logd, hdr>> /\ mode = "up"
        /\ mode' \in {"up", "panic"} /\ cache' = [cache EXCEPT ![b] = v]
    BY <1>2 DEF log_write_check, disk
  <2>2. Recovered' = Recovered
    BY <2>1, RecoveredFrame DEF disk
  <2>3. InOp' = InOp /\ p \in InOp
    <3>1. pc \in [Op -> Pcs]
      BY DEF IInv, TypeOK
    <3>2. pc[p] = "op" /\ pc' = [pc EXCEPT ![p] = "log_write"]
      BY <1>2 DEF log_write_check
    <3> QED
      BY <3>1, <3>2 DEF InOp
  <2>4. \A c \in Block : Bdata(c)' = IF c = b THEN v ELSE Bdata(c)
    BY <2>1, LogAssumption DEF Bdata, IInv, TypeOK
  <2>5. Memory' = [Memory EXCEPT ![b] = v]
    BY <2>1, <2>4 DEF Memory
  <2> QED
    BY <2>2, <2>3, <2>5 DEF Atomic!Write
<1> QED
  BY <1>1, <1>2

\* Writing the header is the commit point: the disk would recover to exactly
\* what memory holds.
LEMMA WriteHeadRefines ==
  ASSUME IInv, write_head
  PROVE  Atomic!Commit
<1>1. /\ UNCHANGED <<home, logd, mode, cache, thread>> /\ hdr' = lh
      /\ phase = "write_head" /\ IInv'
  BY WriteHeadInv DEF write_head, header, bcache
<1>2. InOp = {} /\ Locked = {} /\ InOp' = {} /\ mode # "recover"
  BY <1>1, Quiet DEF IInv, Control, InOp, thread
<1>3. Memory = [b \in Block |-> Bdata(b)]
  BY <1>2 DEF Memory
<1>4. Memory' = Memory
  BY <1>1, <1>2 DEF Memory, Bdata
<1>5. (IInv => /\ Recovered = [b \in Block |-> Recovered[b]]
               /\ \A i \in 1..Len(hdr) : Recovered[hdr[i]] = logd[i]
               /\ \A b \in Block : (\A i \in 1..Len(hdr) : hdr[i] # b)
                                     => Recovered[b] = home[b])'
  BY RecoveredAt, PTL
<1>6. ASSUME NEW b \in Block
      PROVE  Recovered'[b] = Bdata(b)
  <2>1. ASSUME NEW i \in 1..Len(lh), lh[i] = b
        PROVE  Recovered'[b] = Bdata(b)
    <3>1. Recovered'[lh[i]] = logd[i]
      BY <1>1, <1>5
    <3>2. logd[i] = Bdata(lh[i])
      BY <1>1 DEF IInv, Written
    <3> QED
      BY <2>1, <3>1, <3>2
  <2>2. ASSUME \A i \in 1..Len(lh) : lh[i] # b
        PROVE  Recovered'[b] = Bdata(b)
    <3>1. Recovered'[b] = home[b]
      BY <1>1, <1>5, <2>2
    <3>2. b \notin dirty
      <4>1. dirty = Logged
        BY <1>1, <1>2 DEF IInv, Pinned
      <4> QED
        BY <2>2, <4>1 DEF Logged
    <3>3. cache[b] # NoData => cache[b] = home[b]
      BY <1>2, <3>2 DEF IInv, Pinned
    <3> QED
      BY <3>1, <3>3 DEF Bdata
  <2> QED
    BY <2>1, <2>2
<1>7. Recovered' = Memory
  BY <1>1, <1>3, <1>5, <1>6
<1> QED
  BY <1>2, <1>4, <1>7 DEF Atomic!Commit

\* Installing a block changes neither what is read nor what would be
\* recovered.
LEMMA InstallRefines ==
  ASSUME IInv, install_trans
  PROVE  Memory' = Memory /\ Recovered' = Recovered
<1> DEFINE c == lh[tail]
<1>1. /\ UNCHANGED <<logd, hdr, mode, lh>> /\ phase = "install_trans" /\ IInv'
      /\ home' = [home EXCEPT ![c] = logd[tail]]
      /\ cache' = [cache EXCEPT ![c] = logd[tail]]
  BY InstallTransInv DEF install_trans, header
<1>2. hdr = lh /\ tail \in 1..Len(hdr) /\ c \in Block
      /\ \A i \in 1..Len(hdr) : hdr[i] \in Block
  <2>1. hdr = lh /\ tail \in 1..Len(lh)
    BY <1>1 DEF IInv, Header
  <2>2. lh \in Seq(Block)
    BY DEF IInv, TypeOK
  <2> QED
    BY <2>1, <2>2
<1>3. (IInv => /\ Recovered = [b \in Block |-> Recovered[b]]
               /\ \A i \in 1..Len(hdr) : Recovered[hdr[i]] = logd[i]
               /\ \A b \in Block : (\A i \in 1..Len(hdr) : hdr[i] # b)
                                     => Recovered[b] = home[b])'
  BY RecoveredAt, PTL
<1>4. ASSUME NEW b \in Block
      PROVE  Recovered'[b] = Recovered[b]
  <2>1. ASSUME NEW i \in 1..Len(hdr), hdr[i] = b
        PROVE  Recovered'[b] = Recovered[b]
    <3>1. Recovered'[hdr[i]] = logd[i]
      BY <1>1, <1>3
    <3>2. Recovered[hdr[i]] = logd[i]
      BY RecoveredAt
    <3> QED
      BY <2>1, <3>1, <3>2
  <2>2. ASSUME \A i \in 1..Len(hdr) : hdr[i] # b
        PROVE  Recovered'[b] = Recovered[b]
    <3>1. b # c
      BY <1>2, <2>2
    <3>2. home'[b] = home[b]
      BY <1>1, <3>1 DEF IInv, TypeOK
    <3>3. Recovered'[b] = home'[b] /\ Recovered[b] = home[b]
      BY <1>1, <1>3, <2>2, RecoveredAt
    <3> QED
      BY <3>2, <3>3
  <2> QED
    BY <2>1, <2>2
<1>5. Recovered' = Recovered
  BY <1>1, <1>3, <1>4, RecoveredAt
<1>6. mode # "recover" => \A b \in Block : Bdata(b)' = Bdata(b)
  <2> SUFFICES ASSUME mode # "recover", NEW b \in Block
               PROVE  Bdata(b)' = Bdata(b)
    OBVIOUS
  <2>1. logd[tail] = Bdata(c) /\ logd[tail] # NoData
    <3>1. logd[tail] = Bdata(c)
      BY <1>1, <1>2 DEF IInv, Written
    <3>2. Bdata(c) # NoData
      BY <1>2, LogAssumption DEF Bdata, IInv, TypeOK
    <3> QED
      BY <3>1, <3>2
  <2> QED
    BY <1>1, <1>2, <2>1 DEF Bdata, IInv, TypeOK
<1> QED
  BY <1>1, <1>5, <1>6 DEF Memory

\* Clearing the header changes nothing either: every block is installed.
LEMMA ClearRefines ==
  ASSUME IInv, clear_head, Running
  PROVE  Memory' = Memory /\ Recovered' = Recovered
<1>1. /\ UNCHANGED <<home, logd, cache>> /\ phase = "clear"
      /\ hdr' = <<>> /\ mode' = "up" /\ IInv'
  BY ClearHeadInv DEF clear_head, bcache
<1>2. hdr = lh /\ \A i \in 1..Len(hdr) : home[hdr[i]] = logd[i]
  <2>1. hdr = lh
    BY <1>1 DEF IInv, Header
  <2>2. \A i \in 1..Len(lh) : home[lh[i]] = logd[i]
    BY <1>1 DEF IInv, Written
  <2> QED
    BY <2>1, <2>2
<1>3. \A b \in Block : Recovered[b] = home[b]
  BY <1>2, RecoveredAt
<1>4. Recovered = home
  BY <1>3, RecoveredAt DEF IInv, TypeOK
<1>5. Recovered' = home
  <2>1. home \in [Block -> Data]
    BY DEF IInv, TypeOK
  <2> QED
    BY <1>1, <2>1 DEF Recovered
<1>6. dirty = {} /\ Locked = {}
  BY <1>1, Quiet DEF IInv, Control, Pinned
<1>7. \A b \in Block : Bdata(b) = home[b]
  BY <1>6 DEF Bdata, IInv, Pinned
<1>8. Memory' = home
  <2>1. \A b \in Block : Bdata(b)' = home[b]
    BY <1>1, <1>7 DEF Bdata
  <2> QED
    BY <1>1, <2>1 DEF Memory, IInv, TypeOK
<1>9. Memory = home
  BY <1>4, <1>7 DEF Memory, IInv, TypeOK
<1> QED
  BY <1>4, <1>5, <1>8, <1>9

\* A step of commit() or of recovery is the abstract commit or changes
\* nothing there.
LEMMA CommitRefines ==
  ASSUME IInv, CommitStep
  PROVE  [Atomic!ANext]_(Atomic!avars)
<1> USE DEF Atomic!ANext, Atomic!avars
<1>1. CASE write_head
  BY <1>1, WriteHeadRefines
<1>2. ASSUME UNCHANGED thread
      PROVE  InOp' = InOp
  BY <1>2 DEF InOp, thread
<1>3. CASE install_trans
  BY <1>2, <1>3, InstallRefines DEF install_trans
<1>4. CASE clear_head
  BY <1>2, <1>4, ClearRefines DEF clear_head, CommitStep
<1>5. CASE write_log
  <2>1. /\ UNCHANGED <<home, hdr, mode, thread>> /\ phase = "write_log"
        /\ cache' = [cache EXCEPT ![lh[tail]] = Bdata(lh[tail])] /\ IInv'
    BY <1>5, WriteLogInv DEF write_log
  <2>2. hdr = <<>> /\ mode # "recover" /\ lh[tail] \in Block
    <3>1. hdr = <<>> /\ tail \in 1..Len(lh)
      BY <2>1 DEF IInv, Header
    <3>2. mode # "recover"
      BY <2>1 DEF IInv, Control
    <3>3. lh \in Seq(Block)
      BY DEF IInv, TypeOK
    <3> QED
      BY <3>1, <3>2, <3>3
  <2>3. Recovered = home
    BY <2>2, EmptyHeader
  <2>4. Recovered' = home
    <3>1. home \in [Block -> Data]
      BY DEF IInv, TypeOK
    <3> QED
      BY <2>1, <2>2, <3>1 DEF Recovered
  <2>5. \A b \in Block : Bdata(b)' = Bdata(b)
    BY <2>1, <2>2, LogAssumption DEF Bdata, IInv, TypeOK
  <2>6. Memory' = Memory
    BY <2>1, <2>2, <2>5 DEF Memory
  <2> QED
    BY <1>2, <2>1, <2>3, <2>4, <2>6
<1>6. CASE end_commit \/ read_head
  <2>1. UNCHANGED <<home, logd, hdr, mode, cache>>
    BY <1>6 DEF end_commit, read_head, disk, bcache
  <2>2. Memory' = Memory /\ Recovered' = Recovered
    BY <2>1, MemoryFrame DEF Bdata
  <2>3. InOp' = InOp
    BY <1>2, <1>6 DEF end_commit, read_head, InOp, wakeup, IInv, TypeOK
  <2> QED
    BY <2>2, <2>3
<1> QED
  BY <1>1, <1>3, <1>4, <1>5, <1>6 DEF CommitStep

\* The log implements AtomicDisk: the writes of the calls committed together
\* become durable in one step, whenever the machine crashes, however often,
\* and whether it was committing, installing or recovering.
THEOREM LogRefines == Spec => AtomicCommit
<1>1. Init => Atomic!AInit
  <2> SUFFICES ASSUME Init PROVE Atomic!AInit
    OBVIOUS
  <2>1. InOp = {}
    BY DEF Init, InOp
  <2>2. Recovered = Format
    <3>1. hdr = <<>> /\ home = Format
      BY DEF Init
    <3> QED
      BY <3>1, InitInv, EmptyHeader
  <2>3. Memory = Format
    BY <2>2 DEF Memory, Init
  <2> QED
    BY <2>1, <2>2, <2>3 DEF Atomic!AInit
<1>2. IInv /\ [Next]_vars => [Atomic!ANext]_(Atomic!avars)
  <2> SUFFICES ASSUME IInv, [Next]_vars
               PROVE  [Atomic!ANext]_(Atomic!avars)
    OBVIOUS
  <2>1. CASE \E p \in Op : \/ begin_op(p) \/ kill(p) \/ log_write(p) \/ end_op(p)
                           \/ \E b \in Block, v \in Data : log_write_check(p, b, v)
    BY <2>1, CallRefines
  <2>2. CASE CommitStep
    BY <2>2, CommitRefines
  <2>3. ASSUME NEW b \in Block, bread(b) \/ bget_recycle(b)
        PROVE  [Atomic!ANext]_(Atomic!avars)
    <3>1. /\ UNCHANGED <<home, logd, hdr, mode, pc>>
          /\ \A c \in Block : Bdata(c)' = Bdata(c)
      BY <2>3, CacheInv DEF bread, bget_recycle, disk, thread
    <3>2. Memory' = Memory /\ Recovered' = Recovered
      BY <3>1, MemoryFrame
    <3>3. InOp' = InOp
      BY <3>1 DEF InOp
    <3> QED
      BY <3>2, <3>3 DEF Atomic!avars
  <2>4. CASE crash
    <3>1. Recovered' = Recovered
      BY <2>4, RecoveredFrame DEF crash
    <3>2. Memory' = Recovered /\ InOp' = {}
      BY <2>4, <3>1 DEF crash, Memory, InOp
    <3> QED
      BY <3>1, <3>2 DEF Atomic!ANext, Atomic!Crash
  <2>5. CASE UNCHANGED vars
    <3>1. UNCHANGED <<home, logd, hdr, mode, cache, pc>>
      BY <2>5 DEF vars, disk, bcache, thread
    <3>2. Memory' = Memory /\ Recovered' = Recovered
      BY <3>1, MemoryFrame DEF Bdata
    <3>3. InOp' = InOp
      BY <3>1 DEF InOp
    <3> QED
      BY <3>2, <3>3 DEF Atomic!avars
  <2> QED
    BY <2>1, <2>2, <2>3, <2>4, <2>5 DEF Next
<1> QED
  BY <1>1, <1>2, InductiveInv, PTL DEF Spec, AtomicCommit, Atomic!ASpec
=============================================================================
