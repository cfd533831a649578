--------------------------- MODULE ConsoleProofs ---------------------------
(***************************************************************************)
(* Proofs about Console for any number of readers and any size of the      *)
(* ring: no reader sleeps on a line, and no reader is given a character    *)
(* that nobody typed.                                                      *)
(***************************************************************************)
EXTENDS Console, RingProofs, WellFoundedInduction, TLAPS

\* The holder of cons.lock is the one reader inside consoleread()'s critical section.
LockHeld == \A p \in Reader : pc[p] \in {"loop", "presleep"} <=> lock = p

\* A reader sleeps, or is about to, only while no line is complete.
Waits == \A p \in Reader : pc[p] \in {"presleep", "sleep"} => r = w

\* While a cell of the ring has never been written, no index has reached it: none of
\* them has wrapped around.
Fresh == \A i \in 0..INPUT_BUF-1 : buf[i] = "nul" => r <= w /\ w <= e /\ e <= i

Inv == TypeOK /\ LockHeld /\ Waits /\ Fresh

-----------------------------------------------------------------------------

\* Remainders are in range.
LEMMA Remainder ==
  ASSUME NEW a \in Int, NEW b \in Nat \ {0}
  PROVE  a % b \in 0..b - 1
  OBVIOUS

\* A number in range is its own remainder.
LEMMA Small ==
  ASSUME NEW b \in Nat \ {0}, NEW a \in 0..b - 1
  PROVE  a % b = a
  OBVIOUS

\* A nonempty set of numbers has a smallest.
LEMMA Smallest ==
  ASSUME NEW S, S \subseteq Nat, S # {}
  PROVE  \E i \in S : \A j \in S : i <= j
<1>1. PICK i \in S : \A j \in S : ~(<<j, i>> \in OpToRel(<, Nat))
  BY NatLessThanWellFounded, WFMin, Zenon
<1>2. \A j \in S : ~(j < i)
  BY <1>1 DEF OpToRel
<1> QED
  BY <1>2

\* i steps back from e, i at most the distance to w, lead to w at last.
LEMMA BackTo ==
  ASSUME NEW b \in Nat \ {0}, NEW x \in 0..b - 1, NEW y \in 0..b - 1
  PROVE  (x - ((x - y) % b)) % b = y
<1>1. CASE x >= y
  <2>1. x - y \in 0..b - 1 
    BY <1>1
  <2>2. (x - y) % b = x - y
    BY <2>1, Small
  <2>3. x - (x - y) = y
    OBVIOUS
  <2> QED
    BY <2>2, <2>3, Small
<1>2. CASE x < y
  <2>1. (x - y) % b = x - y + b
    BY <1>2
  <2>2. (y - b) % b = y
    OBVIOUS
  <2>3. x - (x - y + b) = y - b
    OBVIOUS
  <2> QED
    BY <2>1, <2>2, <2>3
<1> QED
  BY <1>1, <1>2

-----------------------------------------------------------------------------

\* Nobody reads and nothing has been typed at first.
LEMMA InitInv == Init => Inv
<1> SUFFICES ASSUME Init PROVE Inv
  OBVIOUS
<1> USE ConsoleAssumption DEF Init
<1>1. TypeOK
  <2>0. << >> \in Seq(Stored)
    OBVIOUS
  <2>1. left \in [Reader -> Nat] /\ got \in [Reader -> Seq(Stored)]
    BY <2>0
  <2> QED
    BY <2>1 DEF TypeOK, Pcs
<1>2. LockHeld /\ Waits /\ Fresh
  BY DEF LockHeld, Waits, Fresh
<1> QED
  BY <1>1, <1>2 DEF Inv

\* read() begins.
LEMMA StepRead == ASSUME NEW p \in Reader, Inv, read(p) PROVE Inv'
<1>0. None \notin Reader /\ WRAP \in Nat \ {0} /\ INPUT_BUF \in Nat \ {0} /\ WRAP > INPUT_BUF
  BY ConsoleAssumption
<1> USE <1>0 DEF Inv
<1>1. pc[p] = "user" /\ pc'[p] = "call" /\ lock' = lock
      /\ \A q \in Reader \ {p} : pc'[q] = pc[q]
  BY DEF read, TypeOK
<1>2. buf' = buf /\ r' = r /\ w' = w /\ e' = e
  BY DEF read, input
<1>3. TypeOK'
  BY <1>1, <1>2, ConsoleAssumption DEF TypeOK, Pcs, read
<1>4. LockHeld'
  BY <1>1, <1>2 DEF LockHeld, TypeOK
<1>5. Waits' /\ Fresh'
  BY <1>1, <1>2 DEF Waits, Fresh, LockHeld
<1> QED
  BY <1>3, <1>4, <1>5

\* cons.lock is taken when it is free.
LEMMA StepAcquire == ASSUME NEW p \in Reader, Inv, acquire(p) PROVE Inv'
<1>0. None \notin Reader /\ WRAP \in Nat \ {0} /\ INPUT_BUF \in Nat \ {0} /\ WRAP > INPUT_BUF
  BY ConsoleAssumption
<1> USE <1>0 DEF Inv
<1>1. pc[p] = "call" /\ pc'[p] = "loop" /\ lock = None /\ lock' = p
      /\ \A q \in Reader \ {p} : pc'[q] = pc[q]
  BY DEF acquire, TypeOK
<1>2. buf' = buf /\ r' = r /\ w' = w /\ e' = e /\ left' = left /\ got' = got
  BY DEF acquire, input
<1>3. TypeOK'
  BY <1>1, <1>2 DEF TypeOK, Pcs, acquire
<1>4. LockHeld'
  BY <1>1, <1>2 DEF LockHeld, TypeOK
<1>5. Waits' /\ Fresh'
  BY <1>1, <1>2 DEF Waits, Fresh, LockHeld
<1> QED
  BY <1>3, <1>4, <1>5

\* sleep() gives cons.lock up when the reader is SLEEPING.
LEMMA StepSleep == ASSUME NEW p \in Reader, Inv, sleep(p) PROVE Inv'
<1>0. None \notin Reader /\ WRAP \in Nat \ {0} /\ INPUT_BUF \in Nat \ {0} /\ WRAP > INPUT_BUF
  BY ConsoleAssumption
<1> USE <1>0 DEF Inv
<1>1. pc[p] = "presleep" /\ pc'[p] = "sleep" /\ lock' = None
      /\ \A q \in Reader \ {p} : pc'[q] = pc[q]
  BY DEF sleep, TypeOK
<1>2. buf' = buf /\ r' = r /\ w' = w /\ e' = e /\ left' = left /\ got' = got
  BY DEF sleep, input
<1>3. TypeOK'
  BY <1>1, <1>2 DEF TypeOK, Pcs, sleep
<1>4. LockHeld'
  BY <1>1, <1>2 DEF LockHeld, TypeOK
<1>5. Waits' /\ Fresh'
  BY <1>1, <1>2 DEF Waits, Fresh, LockHeld
<1> QED
  BY <1>3, <1>4, <1>5

\* kill() wakes the reader it kills.
LEMMA StepKill == ASSUME NEW p \in Reader, Inv, kill(p) PROVE Inv'
<1>0. None \notin Reader /\ WRAP \in Nat \ {0} /\ INPUT_BUF \in Nat \ {0} /\ WRAP > INPUT_BUF
  BY ConsoleAssumption
<1> USE <1>0 DEF Inv
<1>1. pc'[p] = (IF pc[p] = "sleep" THEN "call" ELSE pc[p]) /\ lock' = lock
      /\ \A q \in Reader \ {p} : pc'[q] = pc[q]
  BY DEF kill, TypeOK
<1>2. buf' = buf /\ r' = r /\ w' = w /\ e' = e /\ left' = left /\ got' = got
  BY DEF kill, input
<1>3. TypeOK'
  BY <1>1, <1>2 DEF TypeOK, Pcs, kill
<1>4. LockHeld'
  BY <1>1, <1>2 DEF LockHeld, TypeOK
<1>5. Waits' /\ Fresh'
  BY <1>1, <1>2 DEF Waits, Fresh, LockHeld
<1> QED
  BY <1>3, <1>4, <1>5

\* Nothing to read: the reader leaves because it was killed, or decides to sleep.
LEMMA StepEmpty == ASSUME NEW p \in Reader, Inv, empty(p) PROVE Inv'
<1>0. None \notin Reader /\ WRAP \in Nat \ {0} /\ INPUT_BUF \in Nat \ {0} /\ WRAP > INPUT_BUF
  BY ConsoleAssumption
<1> USE <1>0 DEF Inv
<1>1. /\ pc[p] = "loop" /\ r = w /\ \A q \in Reader \ {p} : pc'[q] = pc[q]
      /\ (pc'[p] = "user" /\ lock' = None) \/ (pc'[p] = "presleep" /\ lock' = lock)
  BY DEF empty, TypeOK
<1>2. buf' = buf /\ r' = r /\ w' = w /\ e' = e /\ killed' = killed /\ got' = got
  BY DEF empty, input
<1>3. TypeOK'
  <2>1. pc' \in [Reader -> Pcs]
    BY DEF TypeOK, Pcs, empty
  <2>2. left' \in [Reader -> Nat]
    <3>1. left' = left \/ left' = [left EXCEPT ![p] = 0]
      BY DEF empty
    <3>2. left \in [Reader -> Nat] /\ 0 \in Nat
      BY DEF TypeOK
    <3> QED
      BY <3>1, <3>2, Zenon
  <2> QED
    BY <1>1, <1>2, <2>1, <2>2 DEF TypeOK
<1>4. LockHeld'
  <2>1. CASE pc'[p] = "user" /\ lock' = None
    BY <1>1, <2>1 DEF LockHeld, TypeOK
  <2>2. CASE pc'[p] = "presleep" /\ lock' = lock
    BY <1>1, <2>2 DEF LockHeld, TypeOK
  <2> QED
    BY <1>1, <2>1, <2>2
<1>5. Waits' /\ Fresh'
  BY <1>1, <1>2 DEF Waits, Fresh
<1> QED
  BY <1>3, <1>4, <1>5

\* A character is taken: it was typed, and nobody sleeps, for there was one.
LEMMA StepTake == ASSUME NEW p \in Reader, Inv, take(p) PROVE Inv'
<1>0. None \notin Reader /\ WRAP \in Nat \ {0} /\ INPUT_BUF \in Nat \ {0} /\ WRAP > INPUT_BUF
  BY ConsoleAssumption
<1> USE <1>0 DEF Inv
<1>1. /\ pc[p] = "loop" /\ r # w /\ \A q \in Reader \ {p} : pc'[q] = pc[q]
      /\ (pc'[p] = "user" /\ lock' = None) \/ (pc'[p] = "loop" /\ lock' = lock)
  BY DEF take, return, TypeOK
<1>2. buf' = buf /\ w' = w /\ e' = e /\ killed' = killed /\ r' \in {r, (r + 1) % WRAP}
  BY DEF take
<1>3. r % INPUT_BUF \in 0..INPUT_BUF-1 /\ (r + 1) % WRAP \in 0..WRAP-1
  <2>1. r \in 0..WRAP-1 /\ r \in Int /\ r + 1 \in Int
    BY DEF TypeOK
  <2> QED
    BY <2>1, Remainder
<1>4. \A i \in 0..INPUT_BUF-1 : buf[i] = "nul" => r + 1 <= i /\ (r + 1) % WRAP = r + 1 /\ r + 1 <= w
  <2>1. r \in 0..WRAP-1 /\ w \in 0..WRAP-1 /\ e \in 0..WRAP-1 /\ r # w
    BY <1>1 DEF TypeOK
  <2>2. TAKE i \in 0..INPUT_BUF-1
  <2>3. HAVE buf[i] = "nul"
  <2>4. r <= w /\ w <= e /\ e <= i
    BY <2>3 DEF Fresh
  <2>5. r + 1 <= i /\ r + 1 <= w /\ r + 1 \in 0..WRAP-1
    BY <2>1, <2>4
  <2> QED
    BY <2>5, Small
<1>5. buf[r % INPUT_BUF] \in Stored
  <2>1. ASSUME buf[r % INPUT_BUF] = "nul" PROVE r % INPUT_BUF = r
    <3>1. r <= r % INPUT_BUF
      BY <1>3, <2>1 DEF Fresh, TypeOK
    <3>2. r \in 0..INPUT_BUF-1
      BY <1>3, <3>1 DEF TypeOK
    <3> QED
      BY <3>2, Small
  <2>2. r \in Nat
    BY DEF TypeOK
  <2>3. buf[r % INPUT_BUF] # "nul"
    BY <1>3, <1>4, <2>1, <2>2
  <2> QED
    BY <1>3, <2>3 DEF TypeOK
<1>6. left' \in [Reader -> Nat] /\ got' \in [Reader -> Seq(Stored)]
  <2>1. Append(got[p], buf[r % INPUT_BUF]) \in Seq(Stored)
    BY <1>5 DEF TypeOK
  <2>2. got' = got \/ got' = [got EXCEPT ![p] = Append(got[p], buf[r % INPUT_BUF])]
    BY DEF take
  <2>3. left[p] \in Nat /\ left[p] > 0 /\ left \in [Reader -> Nat] /\ got \in [Reader -> Seq(Stored)]
    BY DEF TypeOK, take
  <2>4. left' = [left EXCEPT ![p] = 0] \/ left' = [left EXCEPT ![p] = left[p] - 1]
    BY DEF take
  <2>5. left' \in [Reader -> Nat]
    <3>1. left[p] - 1 \in Nat /\ 0 \in Nat
      BY <2>3
    <3> QED
      BY <2>3, <2>4, <3>1, Zenon
  <2> QED
    BY <2>1, <2>2, <2>3, <2>5
<1>7. TypeOK'
  <2>1. pc' \in [Reader -> Pcs] /\ lock' \in Reader \cup {None}
    BY DEF TypeOK, Pcs, take, return
  <2> QED
    BY <1>2, <1>3, <1>6, <2>1 DEF TypeOK
<1>8. LockHeld'
  <2>1. CASE pc'[p] = "user" /\ lock' = None
    BY <1>1, <2>1 DEF LockHeld, TypeOK
  <2>2. CASE pc'[p] = "loop" /\ lock' = lock
    BY <1>1, <2>2 DEF LockHeld, TypeOK
  <2> QED
    BY <1>1, <2>1, <2>2
<1>9. Waits'
  BY <1>1, <1>2 DEF Waits
<1>10. Fresh'
  BY <1>2, <1>4 DEF Fresh
<1> QED
  BY <1>7, <1>8, <1>9, <1>10

-----------------------------------------------------------------------------

\* An interrupt that moves e back, not before w, or leaves it where it is.
LEMMA Erase ==
  ASSUME Inv, NEW d \in Nat, d \in 0..(e - w) % WRAP, e' = (e - d) % WRAP, lock' = None,
         UNCHANGED <<buf, r, w, pc, killed, left, got>>, lock = None
  PROVE  Inv'
<1>0. None \notin Reader /\ WRAP \in Nat \ {0} /\ INPUT_BUF \in Nat \ {0} /\ WRAP > INPUT_BUF
  BY ConsoleAssumption
<1> USE <1>0 DEF Inv
<1>1. r \in 0..WRAP-1 /\ w \in 0..WRAP-1 /\ e \in 0..WRAP-1 /\ e - d \in Int
  BY DEF TypeOK
<1>2. e' \in 0..WRAP-1
  BY <1>1, Remainder
<1>3. TypeOK'
  BY <1>2 DEF TypeOK
<1>4. LockHeld' /\ Waits'
  BY DEF LockHeld, Waits
<1>5. Fresh'
  <2> SUFFICES ASSUME NEW i \in 0..INPUT_BUF-1, buf[i] = "nul"
               PROVE  w <= e' /\ e' <= i /\ r <= w
    BY DEF Fresh
  <2>1. r <= w /\ w <= e /\ e <= i
    BY DEF Fresh
  <2>2. e - w \in 0..WRAP-1
    BY <1>1, <2>1
  <2>3. (e - w) % WRAP = e - w
    BY <2>2, Small
  <2>4. e - d \in 0..WRAP-1 /\ w <= e - d /\ e - d <= i
    BY <1>1, <2>1, <2>3
  <2>5. (e - d) % WRAP = e - d
    BY <2>4, Small
  <2> QED
    BY <2>1, <2>4, <2>5
<1> QED
  BY <1>3, <1>4, <1>5

\* A character is stored; the reader wakes when the line it ends is complete.
LEMMA Store ==
  ASSUME Inv, NEW k \in Key, store(k), lock = None, UNCHANGED <<lock, killed, left, got>>
  PROVE  Inv'
<1>0. None \notin Reader /\ WRAP \in Nat \ {0} /\ INPUT_BUF \in Nat \ {0} /\ WRAP > INPUT_BUF
  BY ConsoleAssumption
<1> USE <1>0 DEF Inv
<1>1. PICK c \in Stored : buf' = [buf EXCEPT ![e % INPUT_BUF] = c]
  BY DEF store
<1>2. /\ e' = (e + 1) % WRAP /\ r' = r
      /\ (w' = e' /\ pc' = wakeup) \/ (w' = w /\ pc' = pc)
  BY DEF store
<1>3. c # "nul"
  BY ConsoleAssumption DEF Stored
<1>4. r \in 0..WRAP-1 /\ w \in 0..WRAP-1 /\ e \in 0..WRAP-1 /\ e + 1 \in Int
  BY DEF TypeOK
<1>5. e % INPUT_BUF \in 0..INPUT_BUF-1 /\ e' \in 0..WRAP-1
  BY <1>2, <1>4, Remainder
<1>6. buf' \in [0..INPUT_BUF-1 -> Stored \cup {"nul"}]
  BY <1>1, <1>5 DEF TypeOK
<1>7. pc' \in [Reader -> Pcs]
  BY <1>2 DEF TypeOK, wakeup, Pcs
<1>8. TypeOK'
  BY <1>2, <1>4, <1>5, <1>6, <1>7 DEF TypeOK
<1>9. LockHeld' /\ Waits'
  <2>1. CASE w' = e' /\ pc' = wakeup
    <3>1. \A p \in Reader : pc'[p] = (IF pc[p] = "sleep" THEN "call" ELSE pc[p])
      BY <2>1 DEF wakeup
    <3> QED
      BY <3>1 DEF LockHeld, Waits
  <2>2. CASE w' = w /\ pc' = pc
    BY <1>2, <2>2 DEF LockHeld, Waits
  <2> QED
    BY <1>2, <2>1, <2>2
<1>10. Fresh'
  <2> SUFFICES ASSUME NEW i \in 0..INPUT_BUF-1, buf'[i] = "nul"
               PROVE  r <= w' /\ w' <= e' /\ e' <= i
    BY <1>2 DEF Fresh
  <2>1. i # e % INPUT_BUF /\ buf[i] = "nul"
    BY <1>1, <1>3, <1>5 DEF TypeOK
  <2>2. r <= w /\ w <= e /\ e <= i
    BY <2>1 DEF Fresh
  <2>3. e \in 0..INPUT_BUF-1
    BY <1>4, <2>2
  <2>4. e % INPUT_BUF = e
    BY <2>3, Small
  <2>5. e + 1 <= i /\ e + 1 \in 0..WRAP-1
    BY <1>4, <2>1, <2>2, <2>4
  <2>6. e' = e + 1
    BY <1>2, <2>5, Small
  <2> QED
    BY <1>2, <1>4, <2>2, <2>5, <2>6
<1> QED
  BY <1>8, <1>9, <1>10

\* Every key keeps the invariant.
LEMMA StepConsoleintr == ASSUME Inv, NEW k \in Key, consoleintr(k) PROVE Inv'
<1>0. None \notin Reader /\ WRAP \in Nat \ {0} /\ INPUT_BUF \in Nat \ {0} /\ WRAP > INPUT_BUF
  BY ConsoleAssumption
<1> USE <1>0 DEF Inv
<1>1. lock = None /\ lock' = None /\ UNCHANGED <<lock, killed, left, got>>
  BY DEF consoleintr
<1>2. r \in 0..WRAP-1 /\ w \in 0..WRAP-1 /\ e \in 0..WRAP-1
  BY DEF TypeOK
<1>3. (e - w) % WRAP \in 0..WRAP-1
  BY <1>2, Remainder
<1>4. CASE store(k)
  BY <1>1, <1>4, Store
<1>5. CASE backspace(k)
  <2>1. e # w /\ e' = (e - 1) % WRAP /\ UNCHANGED <<buf, r, w, pc>>
    BY <1>5 DEF backspace
  <2>2. (e - w) % WRAP # 0
    <3>1. e - 0 = e /\ (e % WRAP) = e
      BY <1>2, Small
    <3> QED
      BY <1>2, <2>1, <3>1, BackTo
  <2>3. 1 \in 0..(e - w) % WRAP
    BY <1>3, <2>2
  <2> QED
    BY <1>1, <2>1, <2>3, Erase
<1>6. CASE killline(k)
  <2> DEFINE stop == {i \in 0..(e - w) % WRAP :
                        \/ (e - i) % WRAP = w
                        \/ buf[((e - i - 1) % WRAP) % INPUT_BUF] = "nl"}
             back == CHOOSE i \in stop : \A j \in stop : i <= j
  <2>1. e' = (e - back) % WRAP /\ UNCHANGED <<buf, r, w, pc>>
    BY <1>6 DEF killline
  <2>2. (e - w) % WRAP \in stop
    BY <1>2, <1>3, BackTo
  <2>3. stop \subseteq Nat
    BY <1>3
  <2>4. \E i \in stop : \A j \in stop : i <= j
    <3> HIDE DEF stop
    <3> QED
      BY <2>2, <2>3, Smallest
  <2>5. back \in stop
    <3> HIDE DEF stop
    <3> QED
      BY <2>4
  <2>6. back \in Nat /\ back \in 0..(e - w) % WRAP
    <3>1. \A i \in stop : i \in 0..(e - w) % WRAP
      OBVIOUS
    <3> HIDE DEF stop, back
    <3> QED
      BY <2>3, <2>5, <3>1
  <2> HIDE DEF back
  <2> QED
    BY <1>1, <2>1, <2>6, Erase
<1>7. CASE ignored(k)
  <2>1. UNCHANGED <<buf, r, w, e, pc>>
    BY <1>7 DEF ignored, input
  <2>2. e' = (e - 0) % WRAP /\ 0 \in 0..(e - w) % WRAP
    BY <1>2, <1>3, <2>1, Small
  <2> QED
    BY <1>1, <2>1, <2>2, Erase
<1> QED
  BY <1>4, <1>5, <1>6, <1>7 DEF consoleintr

-----------------------------------------------------------------------------

\* Every step keeps the invariant.
LEMMA StepInv == Inv /\ [Next]_vars => Inv'
<1> SUFFICES ASSUME Inv, [Next]_vars PROVE Inv'
  OBVIOUS
<1>1. ASSUME NEW k \in Key, consoleintr(k) PROVE Inv'
  BY <1>1, StepConsoleintr
<1>2. ASSUME NEW p \in Reader, read(p) \/ consoleread(p) \/ kill(p) PROVE Inv'
  BY <1>2, StepRead, StepAcquire, StepEmpty, StepSleep, StepTake, StepKill DEF consoleread
<1>3. CASE UNCHANGED vars
  BY <1>3 DEF vars, input, Inv, TypeOK, LockHeld, Waits, Fresh
<1> QED
  BY <1>1, <1>2, <1>3 DEF Next

\* However many readers wait and whenever keys, reads and kill() come: the wakeup of
\* consoleintr() never falls between consoleread()'s test and sleep(), a reader that has
\* enough leaves no complete line to a sleeping one, and no reader is given a character
\* of the ring that was never typed.
THEOREM ConsoleNoLostWakeup == Spec => []NoLostWakeup
<1>1. Inv => NoLostWakeup
  BY DEF Inv, NoLostWakeup, Waits
<1> QED
  BY <1>1, InitInv, StepInv, PTL DEF Spec


-----------------------------------------------------------------------------
(* The refinement of LineInput                                             *)

\* The number of characters that can be read, and of those that can still be erased.
Readable == (w - r) % WRAP
Erasable == (e - w) % WRAP

\* The indexes are in order around the ring and at most its length apart, and the line
\* that is being typed has no newline yet: back to it or back to w is the same for ^U.
InOrder == Readable + Erasable <= INPUT_BUF
OneLine == \A k \in 1..Erasable : buf[(w + k - 1) % INPUT_BUF] # "nl"
RInv == InOrder /\ OneLine

Constants ==
  /\ WRAP \in Nat \ {0} /\ INPUT_BUF \in Nat \ {0} /\ INPUT_BUF < WRAP /\ WRAP % INPUT_BUF = 0

\* What is assumed of the constants, for the lemmas below.
LEMMA ConstantsHold == Constants
  BY ConsoleAssumption DEF Constants

\* The distance from one index to another.
LEMMA Apart2 ==
  ASSUME NEW u \in 0..WRAP-1, NEW v \in 0..WRAP-1
  PROVE  /\ (v - u) % WRAP \in 0..WRAP-1
         /\ v >= u => (v - u) % WRAP = v - u
         /\ v < u => (v - u) % WRAP = v - u + WRAP
<1>1. WRAP \in Nat \ {0}
  BY ConstantsHold DEF Constants
<1> QED
  BY <1>1, Distance

\* The part of the ring of d from i up to j.
Part(d, i, j) == [n \in 1..((j - i) % WRAP) |-> d[((i + n - 1) % WRAP) % INPUT_BUF]]

\* It is a stretch of the ring.
LEMMA PartIs ==
  ASSUME NEW S, NEW d \in Cells(INPUT_BUF, S), NEW u \in 0..WRAP-1, NEW v \in 0..WRAP-1
  PROVE  /\ Part(d, u, v) = Stretch(d, u, (v - u) % WRAP, INPUT_BUF)
         /\ Part(d, u, v) \in Seq(S) /\ Len(Part(d, u, v)) = (v - u) % WRAP
<1>1. WRAP \in Nat \ {0} /\ INPUT_BUF \in Nat \ {0} /\ WRAP % INPUT_BUF = 0 /\ u \in Nat
  BY ConstantsHold DEF Constants
<1> DEFINE n == (v - u) % WRAP
<1>2. n \in 0..WRAP-1 /\ n \in Nat
  BY Apart2
<1> HIDE DEF n
<1>4. \A k \in 1..n : ((u + k - 1) % WRAP) % INPUT_BUF = (u + k - 1) % INPUT_BUF
  <2> TAKE k \in 1..n
  <2> DEFINE x == u + k - 1
  <2>1. x \in -WRAP..2*WRAP-1
    BY <1>1, <1>2
  <2> HIDE DEF x
  <2>2. (x % WRAP) % INPUT_BUF = x % INPUT_BUF
    BY <1>1, <2>1, Reduced
  <2> QED
    BY <2>2, Zenon DEF x
<1>5. [k \in 1..n |-> d[((u + k - 1) % WRAP) % INPUT_BUF]] = [k \in 1..n |-> d[(u + k - 1) % INPUT_BUF]]
  BY <1>4, Zenon
<1>6. Part(d, u, v) = Stretch(d, u, n, INPUT_BUF)
  BY <1>5, Zenon DEF Part, Stretch, n
<1>7. Stretch(d, u, n, INPUT_BUF) \in Seq(S) /\ Len(Stretch(d, u, n, INPUT_BUF)) = n
  BY <1>1, <1>2, StretchSeq
<1> QED
  BY <1>6, <1>7 DEF n

\* The three indexes.
LEMMA Indexes ==
  ASSUME TypeOK
  PROVE  /\ r \in 0..WRAP-1 /\ w \in 0..WRAP-1 /\ e \in 0..WRAP-1
         /\ Readable \in 0..WRAP-1 /\ Erasable \in 0..WRAP-1
         /\ w >= r => Readable = w - r
         /\ w < r => Readable = w - r + WRAP
         /\ e >= w => Erasable = e - w
         /\ e < w => Erasable = e - w + WRAP
  BY Apart2 DEF TypeOK, Readable, Erasable

\* What consoleintr() compares with INPUT_BUF.
LEMMA UsedIs ==
  ASSUME TypeOK, InOrder
  PROVE  Used = Readable + Erasable
<1>1. /\ WRAP \in Nat \ {0} /\ INPUT_BUF \in Nat /\ INPUT_BUF < WRAP
  BY ConstantsHold DEF Constants
<1>2. /\ e >= r => Used = e - r
      /\ e < r => Used = e - r + WRAP
  BY Indexes, Apart2 DEF Used
<1> QED
  BY <1>1, <1>2, Indexes DEF InOrder

Mapped == [Lines!LNext]_(Lines!lvars)
Line == Ring(w, e)
Complete == Ring(r, w)

\* What the refinement mapping makes of the ring.
LEMMA RingsAre ==
  ASSUME TypeOK
  PROVE  /\ Line = Stretch(buf, w, Erasable, INPUT_BUF)
         /\ Complete = Stretch(buf, r, Readable, INPUT_BUF)
         /\ Line \in Seq(Stored \cup {"nul"}) /\ Len(Line) = Erasable
         /\ Complete \in Seq(Stored \cup {"nul"}) /\ Len(Complete) = Readable
<1> DEFINE S == Stored \cup {"nul"}
<1>1. buf \in Cells(INPUT_BUF, S) /\ r \in 0..WRAP-1 /\ w \in 0..WRAP-1 /\ e \in 0..WRAP-1
  BY Indexes DEF TypeOK, Cells
<1>2. Line = Part(buf, w, e) /\ Complete = Part(buf, r, w)
  BY DEF Line, Complete, Ring, Part
<1> HIDE DEF S
<1>3. Part(buf, w, e) = Stretch(buf, w, (e - w) % WRAP, INPUT_BUF)
      /\ Part(buf, w, e) \in Seq(S) /\ Len(Part(buf, w, e)) = (e - w) % WRAP
  BY <1>1, PartIs, Zenon
<1>4. Part(buf, r, w) = Stretch(buf, r, (w - r) % WRAP, INPUT_BUF)
      /\ Part(buf, r, w) \in Seq(S) /\ Len(Part(buf, r, w)) = (w - r) % WRAP
  BY <1>1, PartIs, Zenon
<1> QED
  BY <1>2, <1>3, <1>4 DEF Readable, Erasable, S

\* The indexes and the ring stay as they are.
LEMMA MapStutter ==
  ASSUME buf' = buf, r' = r, w' = w, e' = e, RInv
  PROVE  Line' = Line /\ Complete' = Complete /\ RInv'
<1>1. Line' = Line /\ Complete' = Complete
  BY DEF Line, Complete, Ring
<1>2. Readable' = Readable /\ Erasable' = Erasable
  BY DEF Readable, Erasable
<1> QED
  BY <1>1, <1>2 DEF RInv, InOrder, OneLine

\* consoleread() is called.
LEMMA MapRead == ASSUME NEW p \in Reader, Inv, RInv, read(p) PROVE RInv' /\ Mapped
<1>1. buf' = buf /\ r' = r /\ w' = w /\ e' = e
  BY DEF read, input
<1>2. PICK n \in Size : left' = [left EXCEPT ![p] = n]
  BY DEF read
<1>3. got' = [got EXCEPT ![p] = <<>>]
  BY DEF read
<1>4. Lines!StartRead(p, n)
  BY <1>1, <1>2, <1>3, MapStutter DEF Lines!StartRead, Line, Complete
<1> QED
  BY <1>1, <1>4, MapStutter DEF Mapped, Lines!LNext

\* Steps that change nothing LineInput speaks of.
LEMMA MapQuiet ==
  ASSUME NEW p \in Reader, Inv, RInv, acquire(p) \/ sleep(p) \/ kill(p)
  PROVE  RInv' /\ Mapped
<1>1. buf' = buf /\ r' = r /\ w' = w /\ e' = e /\ left' = left /\ got' = got
  BY DEF acquire, sleep, kill, input
<1> QED
  BY <1>1, MapStutter DEF Mapped, Lines!lvars, Line, Complete

\* A reader that leaves without a character was killed while nothing was complete.
LEMMA MapEmpty == ASSUME NEW p \in Reader, Inv, RInv, empty(p) PROVE RInv' /\ Mapped
<1>1. buf' = buf /\ r' = r /\ w' = w /\ e' = e /\ got' = got /\ left[p] > 0 /\ r = w
  BY DEF empty, input
<1>2. Complete = <<>>
  <2>1. Readable = 0 /\ Len(Complete) = Readable /\ Complete \in Seq(Stored \cup {"nul"})
    BY <1>1, Indexes, RingsAre DEF Inv
  <2> QED
    BY <2>1
<1>3. CASE left' = left
  BY <1>1, <1>3, MapStutter DEF Mapped, Lines!lvars, Line, Complete
<1>4. CASE left' = [left EXCEPT ![p] = 0]
  <2>1. Lines!Abort(p)
    BY <1>1, <1>2, <1>4, MapStutter DEF Lines!Abort, Line, Complete
  <2> QED
    BY <1>1, <2>1, MapStutter DEF Mapped, Lines!LNext
<1> QED
  BY <1>3, <1>4 DEF empty

\* The oldest complete character, and what is left when it is gone.
LEMMA TakesOldest ==
  ASSUME TypeOK, TypeOK', InOrder, r # w, buf' = buf, w' = w, e' = e, r' = (r + 1) % WRAP
  PROVE  /\ Complete' = Tail(Complete) /\ Readable' = Readable - 1
         /\ Line' = Line /\ Erasable' = Erasable
<1>1. /\ WRAP \in Nat \ {0} /\ INPUT_BUF \in Nat \ {0} /\ INPUT_BUF < WRAP /\ WRAP % INPUT_BUF = 0
  BY ConstantsHold DEF Constants
<1>2. /\ r \in 0..WRAP-1 /\ w \in 0..WRAP-1 /\ Readable \in 0..WRAP-1
      /\ w >= r => Readable = w - r
      /\ w < r => Readable = w - r + WRAP
  BY Indexes
<1>3. /\ r' \in 0..WRAP-1
      /\ r < WRAP - 1 => r' = r + 1
      /\ r = WRAP - 1 => r' = 0
  BY <1>1, <1>2, NextCount
<1>4. /\ w >= r' => Readable' = w - r'
      /\ w < r' => Readable' = w - r' + WRAP
  <2> DEFINE v == r'
  <2>1. v \in 0..WRAP-1
    BY <1>3
  <2>2. Readable' = (w - v) % WRAP
    BY DEF Readable
  <2> HIDE DEF v
  <2>3. /\ w >= v => (w - v) % WRAP = w - v
        /\ w < v => (w - v) % WRAP = w - v + WRAP
    BY <1>2, <2>1, Apart2
  <2>4. /\ w >= v => Readable' = w - v
        /\ w < v => Readable' = w - v + WRAP
    BY <2>2, <2>3
  <2> QED
    BY <2>4 DEF v
<1>5. Readable > 0 /\ Readable' = Readable - 1
  BY <1>1, <1>2, <1>3, <1>4
<1> DEFINE n == Readable
           S == Stored \cup {"nul"}
<1>6. n \in Nat /\ n > 0 /\ r \in Nat /\ buf \in Cells(INPUT_BUF, S) /\ INPUT_BUF \in Nat \ {0}
  BY <1>1, <1>2, <1>5 DEF Cells, TypeOK
<1>7. Complete = Stretch(buf, r, n, INPUT_BUF)
  BY RingsAre
<1>8. Complete' = Stretch(buf, r', n - 1, INPUT_BUF)
  <2>1. Complete' = Part(buf, r', w)
    BY DEF Complete, Ring, Part
  <2>2. buf \in Cells(INPUT_BUF, Stored \cup {"nul"}) /\ r' \in 0..WRAP-1 /\ w \in 0..WRAP-1
    BY <1>2, <1>3 DEF TypeOK, Cells
  <2>3. Part(buf, r', w) = Stretch(buf, r', (w - r') % WRAP, INPUT_BUF)
    BY <2>2, PartIs, Zenon
  <2>4. Readable' = (w - r') % WRAP
    BY DEF Readable
  <2> QED
    BY <1>5, <2>1, <2>3, <2>4
<1> HIDE DEF n, S
<1>9. Tail(Stretch(buf, r, n, INPUT_BUF)) = Stretch(buf, r + 1, n - 1, INPUT_BUF)
  BY <1>6, StretchTail, Zenon
<1>10. Stretch(buf, r + 1, n - 1, INPUT_BUF) = Stretch(buf, r', n - 1, INPUT_BUF)
  <2>1. CASE r < WRAP - 1
    BY <1>3, <2>1
  <2>2. CASE r = WRAP - 1
    <3> DEFINE m == n - 1
    <3>1. m \in Nat
      BY <1>6
    <3>2. r + 1 = WRAP /\ r' = 0
      BY <1>1, <1>3, <2>2
    <3> HIDE DEF m
    <3>3. Stretch(buf, WRAP, m, INPUT_BUF) = Stretch(buf, 0, m, INPUT_BUF)
      BY <1>1, <3>1, StretchWrapped
    <3> QED
      BY <3>2, <3>3 DEF m
  <2> QED
    BY <1>1, <1>2, <2>1, <2>2
<1>11. Line' = Line /\ Erasable' = Erasable
  BY DEF Line, Ring, Erasable
<1> QED
  BY <1>5, <1>7, <1>8, <1>9, <1>10, <1>11

\* A character is taken, or ^D ends the read.
LEMMA MapTake == ASSUME NEW p \in Reader, Inv, Inv', RInv, take(p) PROVE RInv' /\ Mapped
<1>1. left[p] > 0 /\ r # w /\ buf' = buf /\ w' = w /\ e' = e
  BY DEF take
<1> DEFINE c == buf[r % INPUT_BUF]
<1>2. Complete # <<>> /\ Head(Complete) = c
  <2>1. /\ INPUT_BUF \in Nat \ {0} /\ r \in Nat /\ buf \in Cells(INPUT_BUF, Stored \cup {"nul"})
    BY ConstantsHold, Indexes DEF Constants, Inv, TypeOK, Cells
  <2> DEFINE n == Readable
  <2>2. n \in Nat /\ n > 0
    <3>1. /\ r \in 0..WRAP-1 /\ w \in 0..WRAP-1 /\ Readable \in 0..WRAP-1 /\ WRAP \in Nat
          /\ w >= r => Readable = w - r
          /\ w < r => Readable = w - r + WRAP
      BY Indexes, ConstantsHold DEF Inv, Constants
    <3> QED
      BY <1>1, <3>1
  <2>3. Complete = Stretch(buf, r, n, INPUT_BUF)
    BY RingsAre DEF Inv
  <2> HIDE DEF n
  <2>4. /\ Stretch(buf, r, n, INPUT_BUF) # <<>>
        /\ Head(Stretch(buf, r, n, INPUT_BUF)) = buf[r % INPUT_BUF]
    BY <2>1, <2>2, StretchTail, Zenon
  <2> QED
    BY <2>3, <2>4
<1>3. ASSUME r' = (r + 1) % WRAP
      PROVE  RInv' /\ Complete' = Tail(Complete) /\ Line' = Line
  <2>1. Complete' = Tail(Complete) /\ Readable' = Readable - 1 /\ Line' = Line /\ Erasable' = Erasable
    BY <1>1, <1>3, TakesOldest DEF Inv, RInv
  <2>2. Readable \in Nat /\ Erasable \in Nat /\ INPUT_BUF \in Nat
    BY Indexes, ConstantsHold DEF Inv, Constants
  <2>3. InOrder'
    BY <2>1, <2>2 DEF RInv, InOrder
  <2>4. OneLine'
    BY <1>1, <2>1 DEF RInv, OneLine
  <2> QED
    BY <2>1, <2>3, <2>4 DEF RInv
<1>4. ASSUME r' = r
      PROVE  RInv' /\ Complete' = Complete /\ Line' = Line
  BY <1>1, <1>4, MapStutter
<1>5. CASE /\ c = "^D" /\ r' = (IF got[p] # <<>> THEN r ELSE (r + 1) % WRAP)
           /\ left' = [left EXCEPT ![p] = 0] /\ got' = got
  <2>1. /\ RInv' /\ Line' = Line
        /\ Complete' = IF got[p] = <<>> THEN Tail(Complete) ELSE Complete
    BY <1>3, <1>4, <1>5
  <2>2. Lines!EndOfFile(p)
    BY <1>1, <1>2, <1>5, <2>1 DEF Lines!EndOfFile, Line, Complete
  <2> QED
    BY <2>1, <2>2 DEF Mapped, Lines!LNext
<1>6. CASE /\ c # "^D" /\ r' = (r + 1) % WRAP /\ got' = [got EXCEPT ![p] = Append(@, c)]
           /\ \/ (c = "nl" \/ left[p] = 1) /\ left' = [left EXCEPT ![p] = 0]
              \/ c # "nl" /\ left[p] > 1 /\ left' = [left EXCEPT ![p] = @ - 1]
  <2>1. RInv' /\ Line' = Line /\ Complete' = Tail(Complete)
    BY <1>3, <1>6
  <2>2. left' = [left EXCEPT ![p] = IF c = "nl" THEN 0 ELSE @ - 1]
    <3>1. left[p] \in Nat
      BY DEF Inv, TypeOK
    <3>2. left[p] = 1 => left[p] - 1 = 0
      BY <3>1
    <3> HIDE DEF c
    <3> QED
      BY <1>6, <3>1, <3>2
  <2>3. Lines!Read(p)
    BY <1>1, <1>2, <1>6, <2>1, <2>2 DEF Lines!Read, Line, Complete
  <2> QED
    BY <2>1, <2>3 DEF Mapped, Lines!LNext
<1> QED
  BY <1>5, <1>6 DEF take

-----------------------------------------------------------------------------

\* A line that is shorter by n characters, and what is complete stays.
LEMMA Shorter ==
  ASSUME TypeOK, InOrder, NEW n \in 0..Erasable, e' = (e - n) % WRAP, buf' = buf, r' = r, w' = w
  PROVE  Erasable' = Erasable - n /\ Readable' = Readable /\ Complete' = Complete
<1>1. WRAP \in Nat \ {0}
  BY ConstantsHold DEF Constants
<1>2. /\ w \in 0..WRAP-1 /\ e \in 0..WRAP-1 /\ Erasable \in 0..WRAP-1
      /\ e >= w => Erasable = e - w
      /\ e < w => Erasable = e - w + WRAP
  BY Indexes
<1>3. /\ e >= n => e' = e - n
      /\ e < n => e' = e - n + WRAP
  <2>1. e \in 0..WRAP-1 /\ n \in 0..WRAP-1
    BY <1>1, <1>2
  <2>2. /\ e >= n => (e - n) % WRAP = e - n
        /\ e < n => (e - n) % WRAP = e - n + WRAP
    BY <2>1, Apart2
  <2> QED
    BY <2>2
<1> DEFINE v == e'
<1>4. v \in 0..WRAP-1 /\ Erasable' = (v - w) % WRAP
  BY <1>1, <1>2, <1>3 DEF Erasable
<1>5. /\ e >= n => v = e - n
      /\ e < n => v = e - n + WRAP
  BY <1>3
<1> HIDE DEF v
<1>6. /\ v >= w => Erasable' = v - w
      /\ v < w => Erasable' = v - w + WRAP
  BY <1>2, <1>4, Apart2
<1>7. Erasable' = Erasable - n
  BY <1>1, <1>2, <1>4, <1>5, <1>6
<1> QED
  BY <1>7 DEF Readable, Complete, Ring

\* The line after a step.
LEMMA LineNext ==
  ASSUME TypeOK, e' \in 0..WRAP-1, w' \in 0..WRAP-1, buf' \in [0..INPUT_BUF-1 -> Stored \cup {"nul"}]
  PROVE  Line' = Stretch(buf', w', Erasable', INPUT_BUF)
<1>1. Line' = Part(buf', w', e') /\ Erasable' = (e' - w') % WRAP
  BY DEF Line, Ring, Part, Erasable
<1> DEFINE d == buf'
           S == Stored \cup {"nul"}
           u == w'
           v == e'
<1>2. d \in Cells(INPUT_BUF, S) /\ u \in 0..WRAP-1 /\ v \in 0..WRAP-1
  BY DEF Cells
<1> HIDE DEF d, S, u, v
<1>3. Part(d, u, v) = Stretch(d, u, (v - u) % WRAP, INPUT_BUF)
  BY <1>2, PartIs, Zenon
<1> QED
  BY <1>1, <1>3 DEF d, u, v

\* What is complete after a step.
LEMMA CompleteNext ==
  ASSUME TypeOK, r' \in 0..WRAP-1, w' \in 0..WRAP-1, buf' \in [0..INPUT_BUF-1 -> Stored \cup {"nul"}]
  PROVE  Complete' = Stretch(buf', r', Readable', INPUT_BUF)
<1>1. Complete' = Part(buf', r', w') /\ Readable' = (w' - r') % WRAP
  BY DEF Complete, Ring, Part, Readable
<1> DEFINE d == buf'
           S == Stored \cup {"nul"}
           u == r'
           v == w'
<1>2. d \in Cells(INPUT_BUF, S) /\ u \in 0..WRAP-1 /\ v \in 0..WRAP-1
  BY DEF Cells
<1> HIDE DEF d, S, u, v
<1>3. Part(d, u, v) = Stretch(d, u, (v - u) % WRAP, INPUT_BUF)
  BY <1>2, PartIs, Zenon
<1> QED
  BY <1>1, <1>3 DEF d, u, v

\* The backspace key erases the last character.
LEMMA MapBackspace ==
  ASSUME NEW k \in Key, Inv, Inv', RInv, backspace(k), left' = left, got' = got PROVE RInv' /\ Mapped
<1>1. e # w /\ e' = (e - 1) % WRAP /\ buf' = buf /\ r' = r /\ w' = w
  BY DEF backspace
<1>2. WRAP \in Nat \ {0} /\ INPUT_BUF \in Nat \ {0}
  BY ConstantsHold DEF Constants
<1>3. /\ w \in 0..WRAP-1 /\ e \in 0..WRAP-1 /\ Erasable \in 0..WRAP-1 /\ Readable \in 0..WRAP-1
      /\ e >= w => Erasable = e - w
      /\ e < w => Erasable = e - w + WRAP
  BY Indexes DEF Inv
<1>4. Erasable > 0 /\ 1 \in 0..Erasable
  BY <1>1, <1>2, <1>3
<1>5. Erasable' = Erasable - 1 /\ Readable' = Readable /\ Complete' = Complete
  BY <1>1, <1>4, Shorter DEF Inv, RInv
<1>6. Line' = Stretch(buf, w, Erasable - 1, INPUT_BUF)
  BY <1>1, <1>5, LineNext DEF Inv, TypeOK
<1>7. Line = Stretch(buf, w, Erasable, INPUT_BUF) /\ Len(Line) = Erasable
  BY RingsAre DEF Inv
<1>8. Line' = SubSeq(Line, 1, Len(Line) - 1)
  <2> DEFINE n == Erasable
             S == Stored \cup {"nul"}
  <2>1. n \in Nat /\ n > 0 /\ w \in Nat /\ buf \in Cells(INPUT_BUF, S) /\ INPUT_BUF \in Nat \ {0}
    BY <1>2, <1>3, <1>4 DEF Inv, TypeOK, Cells
  <2>2. Line' = Stretch(buf, w, n - 1, INPUT_BUF) /\ Line = Stretch(buf, w, n, INPUT_BUF) /\ Len(Line) = n
    BY <1>6, <1>7
  <2> HIDE DEF n, S
  <2>3. Stretch(buf, w, n - 1, INPUT_BUF) = SubSeq(Stretch(buf, w, n, INPUT_BUF), 1, n - 1)
    BY <2>1, StretchFront
  <2> QED
    BY <2>2, <2>3
<1>9. Line # <<>>
  BY <1>4, <1>7
<1>10. Lines!Erase
  BY <1>5, <1>8, <1>9 DEF Lines!Erase, Line, Complete
<1>11. RInv'
  <2>1. InOrder'
    BY <1>2, <1>3, <1>4, <1>5 DEF RInv, InOrder
  <2>2. OneLine'
    BY <1>1, <1>3, <1>5 DEF RInv, OneLine
  <2> QED
    BY <2>1, <2>2 DEF RInv
<1> QED
  BY <1>10, <1>11 DEF Mapped, Lines!LNext

\* While ^U goes back over the line it meets neither w nor a newline.
LEMMA GoesBack ==
  ASSUME TypeOK, OneLine, NEW i \in 0..Erasable-1
  PROVE  (e - i) % WRAP # w /\ buf[((e - i - 1) % WRAP) % INPUT_BUF] # "nl"
<1>1. WRAP \in Nat \ {0} /\ INPUT_BUF \in Nat \ {0} /\ WRAP % INPUT_BUF = 0
  BY ConstantsHold DEF Constants
<1>2. /\ w \in 0..WRAP-1 /\ e \in 0..WRAP-1 /\ Erasable \in 0..WRAP-1
      /\ e >= w => Erasable = e - w
      /\ e < w => Erasable = e - w + WRAP
  BY Indexes
<1>3. /\ e >= i => (e - i) % WRAP = e - i
      /\ e < i => (e - i) % WRAP = e - i + WRAP
  <2>1. i \in 0..WRAP-1
    BY <1>1, <1>2
  <2> QED
    BY <1>2, <2>1, Apart2
<1>4. (e - i) % WRAP # w
  BY <1>1, <1>2, <1>3
<1> DEFINE x == e - i - 1
           k == Erasable - i
           y == w + k - 1
<1>5. x \in -WRAP..2*WRAP-1 /\ x \in Int /\ k \in 1..Erasable /\ y \in Int
  BY <1>1, <1>2
<1>6. x = y \/ x = y - WRAP
  BY <1>1, <1>2
<1>7. buf[y % INPUT_BUF] # "nl"
  BY <1>5 DEF OneLine
<1> HIDE DEF x, k, y
<1>8. (x % WRAP) % INPUT_BUF = x % INPUT_BUF
  BY <1>1, <1>5, Reduced
<1>9. x % INPUT_BUF = y % INPUT_BUF
  <2>1. (y - WRAP) % INPUT_BUF = y % INPUT_BUF
    BY <1>1, <1>5, SameCell
  <2> QED
    BY <1>6, <2>1
<1>10. buf[(x % WRAP) % INPUT_BUF] # "nl"
  BY <1>7, <1>8, <1>9
<1> QED
  BY <1>4, <1>10 DEF x

\* ^U erases the whole line.
LEMMA MapKillline ==
  ASSUME NEW k \in Key, Inv, Inv', RInv, killline(k), left' = left, got' = got PROVE RInv' /\ Mapped
<1> DEFINE stop == {i \in 0..(e - w) % WRAP :
                      \/ (e - i) % WRAP = w
                      \/ buf[((e - i - 1) % WRAP) % INPUT_BUF] = "nl"}
           back == CHOOSE i \in stop : \A j \in stop : i <= j
<1>1. e' = (e - back) % WRAP /\ buf' = buf /\ r' = r /\ w' = w
  BY DEF killline
<1>2. WRAP \in Nat \ {0} /\ INPUT_BUF \in Nat \ {0}
  BY ConstantsHold DEF Constants
<1>3. w \in 0..WRAP-1 /\ e \in 0..WRAP-1 /\ Erasable \in 0..WRAP-1 /\ Readable \in 0..WRAP-1
  BY Indexes DEF Inv
<1>4. (e - Erasable) % WRAP = w
  BY <1>2, <1>3, BackTo DEF Erasable
<1>5. stop = {Erasable}
  <2>1. Erasable \in stop
    <3>1. (e - w) % WRAP = Erasable /\ Erasable \in 0..Erasable
      BY <1>3 DEF Erasable
    <3> QED
      BY <1>4, <3>1
  <2>2. \A i \in stop : i = Erasable
    <3> TAKE i \in stop
    <3>1. i \in 0..Erasable
      BY DEF Erasable
    <3>2. ~(i \in 0..Erasable-1)
      BY GoesBack DEF Inv, RInv
    <3> QED
      BY <1>2, <1>3, <3>1, <3>2
  <2> HIDE DEF stop
  <2> QED
    BY <2>1, <2>2
<1>6. back = Erasable
  <2> HIDE DEF stop
  <2> QED
    BY <1>3, <1>5
<1> HIDE DEF back
<1>7. e' = w /\ Erasable \in 0..Erasable
  BY <1>1, <1>3, <1>4, <1>6
<1>8. Erasable' = Erasable - Erasable /\ Readable' = Readable /\ Complete' = Complete
  <2> DEFINE n == Erasable
  <2>1. n \in 0..Erasable /\ e' = (e - n) % WRAP /\ TypeOK /\ InOrder
    BY <1>1, <1>6, <1>7 DEF Inv, RInv
  <2> HIDE DEF n
  <2>2. Erasable' = Erasable - n /\ Readable' = Readable /\ Complete' = Complete
    BY <1>1, <2>1, Shorter
  <2> QED
    BY <2>2 DEF n
<1>9. Erasable' = 0
  BY <1>3, <1>8
<1>10. Line' = <<>>
  <2>1. Line' = Stretch(buf, w, 0, INPUT_BUF)
    <3>1. TypeOK /\ e' \in 0..WRAP-1 /\ w' \in 0..WRAP-1
          /\ buf' \in [0..INPUT_BUF-1 -> Stored \cup {"nul"}]
      BY <1>1, <1>3, <1>7 DEF Inv, TypeOK
    <3>2. Line' = Stretch(buf', w', Erasable', INPUT_BUF)
      BY <3>1, LineNext
    <3> QED
      BY <1>1, <1>9, <3>2
  <2> QED
    BY <2>1 DEF Stretch
<1>11. RInv'
  BY <1>2, <1>3, <1>8, <1>9 DEF RInv, InOrder, OneLine
<1>12. CASE Line = <<>>
  BY <1>8, <1>10, <1>11, <1>12 DEF Mapped, Lines!lvars, Line, Complete
<1>13. CASE Line # <<>>
  <2>1. Lines!Erase
    BY <1>8, <1>10, <1>13 DEF Lines!Erase, Line, Complete
  <2> QED
    BY <1>11, <2>1 DEF Mapped, Lines!LNext
<1> QED
  BY <1>12, <1>13

\* The cell at the end of a part of the ring.
LEMMA EndCell ==
  ASSUME NEW u \in 0..WRAP-1, NEW v \in 0..WRAP-1, NEW n, n = (v - u) % WRAP
  PROVE  (u + n) % INPUT_BUF = v % INPUT_BUF
<1>1. WRAP \in Nat \ {0} /\ INPUT_BUF \in Nat \ {0} /\ WRAP % INPUT_BUF = 0 /\ v \in Int
  BY ConstantsHold DEF Constants
<1>2. /\ v >= u => n = v - u
      /\ v < u => n = v - u + WRAP
  BY Apart2
<1>3. (v + WRAP) % INPUT_BUF = v % INPUT_BUF
  BY <1>1, SameCell
<1>4. u + n = v \/ u + n = v + WRAP
  BY <1>1, <1>2
<1> QED
  BY <1>3, <1>4

\* When a character is stored: how the counts change, and that the line is complete
\* when the ring is full.
LEMMA Counted ==
  ASSUME TypeOK, InOrder, Used < INPUT_BUF, e' = (e + 1) % WRAP, r' = r
  PROVE  /\ e' \in 0..WRAP-1
         /\ (e' - w) % WRAP = Erasable + 1
         /\ (e' - r) % WRAP = Readable + Erasable + 1
         /\ e' = (r + INPUT_BUF) % WRAP <=> Readable + Erasable + 1 = INPUT_BUF
<1>1. WRAP \in Nat \ {0} /\ INPUT_BUF \in Nat \ {0} /\ INPUT_BUF < WRAP
  BY ConstantsHold DEF Constants
<1>2. /\ r \in 0..WRAP-1 /\ w \in 0..WRAP-1 /\ e \in 0..WRAP-1
      /\ Readable \in 0..WRAP-1 /\ Erasable \in 0..WRAP-1
      /\ w >= r => Readable = w - r
      /\ w < r => Readable = w - r + WRAP
      /\ e >= w => Erasable = e - w
      /\ e < w => Erasable = e - w + WRAP
  BY Indexes
<1>3. Readable + Erasable < INPUT_BUF
  BY UsedIs
<1> DEFINE v == e'
<1>4. /\ v \in 0..WRAP-1
      /\ e < WRAP - 1 => v = e + 1
      /\ e = WRAP - 1 => v = 0
  BY <1>1, <1>2, NextCount
<1> HIDE DEF v
<1>5. /\ v >= w => (v - w) % WRAP = v - w
      /\ v < w => (v - w) % WRAP = v - w + WRAP
  BY <1>2, <1>4, Apart2
<1>6. /\ v >= r => (v - r) % WRAP = v - r
      /\ v < r => (v - r) % WRAP = v - r + WRAP
  BY <1>2, <1>4, Apart2
<1>7. (v - w) % WRAP = Erasable + 1
  BY <1>1, <1>2, <1>3, <1>4, <1>5
<1>8. (v - r) % WRAP = Readable + Erasable + 1
  BY <1>1, <1>2, <1>3, <1>4, <1>6
<1> DEFINE x == r + INPUT_BUF
           y == x % WRAP
<1>9. /\ x < WRAP => y = x
      /\ x >= WRAP => y = x - WRAP
  <2>1. x \in Nat /\ (x >= WRAP => x \in WRAP..2*WRAP-1) /\ (x < WRAP => x \in 0..WRAP-1)
    BY <1>1, <1>2
  <2> HIDE DEF x
  <2>2. x >= WRAP => x % WRAP = x - WRAP
    BY <1>1, <2>1, Wraps
  <2>3. x < WRAP => x % WRAP = x
    BY <1>1, <2>1, Small
  <2> QED
    BY <2>2, <2>3
<1> HIDE DEF y
<1>10. v = y <=> Readable + Erasable + 1 = INPUT_BUF
  BY <1>1, <1>2, <1>3, <1>4, <1>9
<1> QED
  BY <1>4, <1>7, <1>8, <1>10 DEF v, y

\* Append at the end of two sequences.
LEMMA AppendLast ==
  ASSUME NEW S, NEW s \in Seq(S), NEW t \in Seq(S), NEW c \in S
  PROVE  Append(Join(s, t), c) = Join(s, Append(t, c))
<1>1. s \o t \in Seq(S) /\ <<c>> \in Seq(S)
  BY ConcatProperties
<1>2. Append(s \o t, c) = (s \o t) \o <<c>> /\ Append(t, c) = t \o <<c>>
  BY <1>1, AppendIsConcat
<1> QED
  BY <1>1, <1>2, ConcatAssociative DEF Join

\* The ring holds what is complete and then the line.
LEMMA CompleteThenLine ==
  ASSUME TypeOK
  PROVE  Stretch(buf, r, Readable + Erasable, INPUT_BUF) = Complete \o Line
<1>1. INPUT_BUF \in Nat \ {0}
  BY ConstantsHold DEF Constants
<1>2. WRAP \in Nat \ {0} /\ Turns(WRAP, INPUT_BUF)
  BY ConstantsHold DEF Constants, Turns
<1> DEFINE m == Readable
           n == Erasable
           S == Stored \cup {"nul"}
           i == r + m
           q == m + n
<1>3. r \in Nat /\ m \in Nat /\ n \in Nat /\ i = r + m /\ q = m + n
  BY Indexes
<1>4. buf \in Cells(INPUT_BUF, S)
  BY DEF TypeOK, Cells
<1>5. w \in Nat /\ i \in Nat /\ (i = w \/ i = w + WRAP)
  BY <1>2, Indexes
<1>6. Line = Stretch(buf, w, n, INPUT_BUF) /\ Complete = Stretch(buf, r, m, INPUT_BUF)
  BY RingsAre
<1> HIDE DEF m, n, S, i, q
<1>7. Stretch(buf, r, q, INPUT_BUF) = Join(Stretch(buf, r, m, INPUT_BUF), Stretch(buf, i, n, INPUT_BUF))
  BY <1>1, <1>3, <1>4, StretchConcat
<1>8. Stretch(buf, i, n, INPUT_BUF) = Stretch(buf, w, n, INPUT_BUF)
  <2>1. CASE i = w + WRAP
    BY <1>1, <1>2, <1>3, <1>5, <2>1, StretchReduced
  <2>2. CASE i = w
    BY <2>2
  <2> QED
    BY <1>5, <2>1, <2>2
<1>9. Stretch(buf, r, q, INPUT_BUF) = Join(Complete, Line)
  BY <1>6, <1>7, <1>8
<1> QED
  BY <1>9 DEF m, n, q, Join

\* A cell that is written at e is behind what the ring holds.
LEMMA Behind ==
  ASSUME TypeOK, InOrder, Used < INPUT_BUF, NEW c \in Stored, buf' = [buf EXCEPT ![e % INPUT_BUF] = c]
  PROVE  /\ Stretch(buf', r, Readable + Erasable + 1, INPUT_BUF) = Append(Complete \o Line, c)
         /\ Stretch(buf', w, Erasable + 1, INPUT_BUF) = Append(Line, c)
         /\ Stretch(buf', r, Readable, INPUT_BUF) = Complete
<1>1. INPUT_BUF \in Nat \ {0} /\ WRAP \in Nat \ {0} /\ INPUT_BUF < WRAP
  BY ConstantsHold DEF Constants
<1> DEFINE m == Readable
           n == Erasable
           S == Stored \cup {"nul"}
           q == m + n
           j == e % INPUT_BUF
<1>2. /\ r \in 0..WRAP-1 /\ w \in 0..WRAP-1 /\ e \in 0..WRAP-1
      /\ m \in Nat /\ n \in Nat /\ q \in Nat /\ q < INPUT_BUF /\ n < INPUT_BUF /\ m <= q
  BY <1>1, Indexes, UsedIs
<1>3. buf \in Cells(INPUT_BUF, S) /\ c \in S
  BY DEF TypeOK, Cells
<1>4. (w + n) % INPUT_BUF = j
  BY <1>2, EndCell DEF Erasable
<1>5. (r + q) % INPUT_BUF = j
  <2>1. q = (e - r) % WRAP
    BY UsedIs DEF Used
  <2> HIDE DEF q, j
  <2>2. (r + q) % INPUT_BUF = e % INPUT_BUF
    BY <1>2, <2>1, EndCell
  <2> QED
    BY <2>2 DEF j
<1>6. buf' = WithCell(buf, j, c)
  BY DEF WithCell
<1>7. Stretch(buf, r, q, INPUT_BUF) = Complete \o Line
  BY CompleteThenLine
<1>8. Line = Stretch(buf, w, n, INPUT_BUF) /\ Complete = Stretch(buf, r, m, INPUT_BUF)
  BY RingsAre
<1>9. r \in Nat /\ w \in Nat /\ INPUT_BUF \in Nat \ {0} /\ n < INPUT_BUF /\ q < INPUT_BUF /\ m <= q
      /\ m \in Nat /\ n \in Nat /\ q \in Nat /\ buf \in Cells(INPUT_BUF, S) /\ c \in S
  BY <1>1, <1>2, <1>3
<1> HIDE DEF m, n, S, q, j
<1>10. Stretch(WithCell(buf, (r + q) % INPUT_BUF, c), r, q + 1, INPUT_BUF)
         = Append(Stretch(buf, r, q, INPUT_BUF), c)
  BY <1>9, StretchAppend
<1>11. Stretch(WithCell(buf, (w + n) % INPUT_BUF, c), w, n + 1, INPUT_BUF)
         = Append(Stretch(buf, w, n, INPUT_BUF), c)
  BY <1>9, StretchAppend
<1>12. Stretch(WithCell(buf, (r + q) % INPUT_BUF, c), r, m, INPUT_BUF) = Stretch(buf, r, m, INPUT_BUF)
  <2>1. Beyond(q, m, INPUT_BUF)
    BY <1>9 DEF Beyond
  <2> QED
    BY <1>9, <2>1, StretchKept
<1>13. /\ Stretch(buf', r, q + 1, INPUT_BUF) = Append(Complete \o Line, c)
       /\ Stretch(buf', w, n + 1, INPUT_BUF) = Append(Line, c)
       /\ Stretch(buf', r, m, INPUT_BUF) = Complete
  BY <1>4, <1>5, <1>6, <1>7, <1>8, <1>10, <1>11, <1>12
<1> QED
  BY <1>13 DEF m, n, q

\* A character that is typed: it completes the line, or makes it longer.
LEMMA MapStore ==
  ASSUME NEW k \in Key, Inv, Inv', RInv, store(k), left' = left, got' = got PROVE RInv' /\ Mapped
<1> DEFINE c == IF k = "cr" THEN "nl" ELSE k
<1>1. /\ c \in Stored /\ Used < INPUT_BUF /\ buf' = [buf EXCEPT ![e % INPUT_BUF] = c]
      /\ e' = (e + 1) % WRAP /\ r' = r
      /\ \/ (c \in {"nl", "^D"} \/ e' = (r + INPUT_BUF) % WRAP) /\ w' = e'
         \/ c \notin {"nl", "^D"} /\ e' # (r + INPUT_BUF) % WRAP /\ w' = w
  BY DEF store
<1> HIDE DEF c
<1>2. TypeOK /\ InOrder /\ OneLine /\ TypeOK'
  BY DEF Inv, RInv
<1>3. /\ e' \in 0..WRAP-1
      /\ (e' - w) % WRAP = Erasable + 1
      /\ (e' - r) % WRAP = Readable + Erasable + 1
      /\ e' = (r + INPUT_BUF) % WRAP <=> Readable + Erasable + 1 = INPUT_BUF
  BY <1>1, <1>2, Counted
<1>4. /\ Stretch(buf', r, Readable + Erasable + 1, INPUT_BUF) = Append(Complete \o Line, c)
      /\ Stretch(buf', w, Erasable + 1, INPUT_BUF) = Append(Line, c)
      /\ Stretch(buf', r, Readable, INPUT_BUF) = Complete
  BY <1>1, <1>2, Behind
<1>5. /\ Line \in Seq(Stored \cup {"nul"}) /\ Len(Line) = Erasable
      /\ Complete \in Seq(Stored \cup {"nul"}) /\ Len(Complete) = Readable
  BY <1>2, RingsAre
<1>6. /\ INPUT_BUF \in Nat /\ Readable \in Nat /\ Erasable \in Nat
      /\ Readable + Erasable < INPUT_BUF
  BY <1>1, <1>2, Indexes, UsedIs, ConstantsHold DEF Constants
<1>7. /\ r' \in 0..WRAP-1 /\ w' \in 0..WRAP-1 /\ buf' \in [0..INPUT_BUF-1 -> Stored \cup {"nul"}]
  BY <1>2 DEF TypeOK
<1>8. /\ Line' = Stretch(buf', w', Erasable', INPUT_BUF)
      /\ Complete' = Stretch(buf', r, Readable', INPUT_BUF)
  BY <1>1, <1>2, <1>3, <1>7, LineNext, CompleteNext
<1>9. CASE (c \in {"nl", "^D"} \/ e' = (r + INPUT_BUF) % WRAP) /\ w' = e'
  <2>1. Readable' = Readable + Erasable + 1
    BY <1>1, <1>3, <1>9 DEF Readable
  <2>2. Erasable' = 0
    <3> DEFINE v == e'
    <3>1. v \in 0..WRAP-1 /\ Erasable' = (v - v) % WRAP
      BY <1>3, <1>9 DEF Erasable
    <3> HIDE DEF v
    <3>2. (v - v) % WRAP = v - v
      BY <3>1, Apart2
    <3>3. v - v = 0
      BY <3>1
    <3> QED
      BY <3>1, <3>2, <3>3
  <2>3. Line' = <<>>
    BY <1>8, <2>2 DEF Stretch
  <2>4. Complete' = Complete \o Append(Line, c)
    <3> DEFINE S == Stored \cup {"nul"}
               s == Complete
               t == Line
    <3>1. c \in S /\ s \in Seq(S) /\ t \in Seq(S)
      BY <1>1, <1>5
    <3>2. Complete' = Append(s \o t, c)
      BY <1>4, <1>8, <2>1
    <3> HIDE DEF S, s, t
    <3>3. Append(Join(s, t), c) = Join(s, Append(t, c))
      BY <3>1, AppendLast
    <3> QED
      BY <3>2, <3>3 DEF s, t, Join
  <2>5. /\ Len(Complete) + Len(Line) < INPUT_BUF
        /\ c \in {"nl", "^D"} \/ Len(Complete) + Len(Line) = INPUT_BUF - 1
    BY <1>3, <1>5, <1>6, <1>9
  <2>6. Lines!Type(c)
    BY <2>3, <2>4, <2>5 DEF Lines!Type, Line, Complete
  <2>7. RInv'
    BY <1>6, <2>1, <2>2 DEF RInv, InOrder, OneLine
  <2> QED
    BY <1>1, <2>6, <2>7 DEF Mapped, Lines!LNext, Stored
<1>10. CASE c \notin {"nl", "^D"} /\ e' # (r + INPUT_BUF) % WRAP /\ w' = w
  <2>1. Readable' = Readable /\ Erasable' = Erasable + 1
    BY <1>1, <1>3, <1>10 DEF Readable, Erasable
  <2>2. Line' = Append(Line, c) /\ Complete' = Complete
    BY <1>4, <1>8, <1>10, <2>1
  <2>3. /\ Len(Complete) + Len(Line) < INPUT_BUF
        /\ Len(Complete) + Len(Line) < INPUT_BUF - 1
    BY <1>3, <1>5, <1>6, <1>10
  <2>4. Lines!Type(c)
    BY <1>10, <2>2, <2>3 DEF Lines!Type, Line, Complete
  <2>5. InOrder'
    BY <1>5, <1>6, <2>1, <2>3 DEF InOrder
  <2>6. OneLine'
    <3>1. SUFFICES ASSUME NEW i \in 1..(Erasable + 1)
                   PROVE  buf'[(w + i - 1) % INPUT_BUF] # "nl"
      BY <1>10, <2>1 DEF OneLine
    <3>2. buf'[(w + i - 1) % INPUT_BUF] = Append(Line, c)[i]
      <4>1. Stretch(buf', w, Erasable + 1, INPUT_BUF)[i] = buf'[(w + i - 1) % INPUT_BUF]
        BY <3>1, Zenon DEF Stretch
      <4> QED
        BY <1>4, <4>1, Zenon
    <3>3. CASE i \in 1..Erasable
      <4>1. Append(Line, c)[i] = Line[i]
        BY <1>5, <1>6, <3>3
      <4>2. Line[i] = buf[(w + i - 1) % INPUT_BUF]
        <5>1. Line = Stretch(buf, w, Erasable, INPUT_BUF)
          BY <1>2, RingsAre
        <5>2. Stretch(buf, w, Erasable, INPUT_BUF)[i] = buf[(w + i - 1) % INPUT_BUF]
          BY <3>3, Zenon DEF Stretch
        <5> QED
          BY <5>1, <5>2, Zenon
      <4>3. buf[(w + i - 1) % INPUT_BUF] # "nl"
        BY <1>2, <3>3, Zenon DEF OneLine
      <4> QED
        BY <3>2, <4>1, <4>2, <4>3, Zenon
    <3>4. CASE i = Erasable + 1
      <4>1. Append(Line, c)[i] = c
        BY <1>5, <1>6, <3>4
      <4> QED
        BY <1>10, <3>2, <4>1, Zenon
    <3> QED
      BY <1>6, <3>3, <3>4
  <2> QED
    BY <1>1, <2>4, <2>5, <2>6 DEF Mapped, Lines!LNext, Stored, RInv
<1> QED
  BY <1>1, <1>9, <1>10

\* A key is pressed.
LEMMA MapConsoleintr == ASSUME NEW k \in Key, Inv, Inv', RInv, consoleintr(k) PROVE RInv' /\ Mapped
<1>1. left' = left /\ got' = got /\ (store(k) \/ backspace(k) \/ killline(k) \/ ignored(k))
  BY DEF consoleintr
<1>2. CASE ignored(k)
  <2>1. buf' = buf /\ r' = r /\ w' = w /\ e' = e
    BY <1>2 DEF ignored, input
  <2> QED
    BY <1>1, <2>1, MapStutter DEF Mapped, Lines!lvars, Line, Complete
<1> QED
  BY <1>1, <1>2, MapStore, MapBackspace, MapKillline

\* Every step of the console is a step of LineInput or leaves its variables alone.
LEMMA StepMapped == ASSUME Inv, Inv', RInv, [Next]_vars PROVE RInv' /\ Mapped
<1>1. CASE \E k \in Key : consoleintr(k)
  BY <1>1, MapConsoleintr
<1>2. CASE \E p \in Reader : read(p) \/ consoleread(p) \/ kill(p)
  BY <1>2, MapRead, MapQuiet, MapEmpty, MapTake DEF consoleread
<1>3. CASE UNCHANGED vars
  <2>1. buf' = buf /\ r' = r /\ w' = w /\ e' = e /\ left' = left /\ got' = got
    BY <1>3 DEF vars, input
  <2> QED
    BY <2>1, MapStutter DEF Mapped, Lines!lvars, Line, Complete
<1> QED
  BY <1>1, <1>2, <1>3 DEF Next

\* The console begins as LineInput does.
LEMMA InitMapped == ASSUME Init PROVE RInv /\ Lines!LInit
<1>1. (0 - 0) % WRAP = 0
  <2>1. 0 \in 0..WRAP-1
    BY ConstantsHold DEF Constants
  <2> DEFINE u == 0
  <2>2. u \in 0..WRAP-1 /\ u - u = 0
    BY <2>1
  <2> HIDE DEF u
  <2>3. (u - u) % WRAP = u - u
    BY <2>2, Apart2
  <2> QED
    BY <2>2, <2>3 DEF u
<1>2. r = 0 /\ w = 0 /\ e = 0
  BY DEF Init
<1>3. Readable = 0 /\ Erasable = 0 /\ Ring(w, e) = <<>> /\ Ring(r, w) = <<>>
  BY <1>1, <1>2 DEF Readable, Erasable, Ring
<1>4. RInv
  BY <1>3, ConstantsHold DEF RInv, InOrder, OneLine, Constants
<1> QED
  BY <1>3, <1>4 DEF Init, Lines!LInit

\* The ring of INPUT_BUF cells with its three wrapping indexes, edited by the keyboard
\* interrupt and read by any number of processes, is LineInput's line editor, for any
\* size of the ring and any range of the indexes that is a multiple of it.
THEOREM ConsoleRefines == Spec => ConsoleIsLineInput
<1>1. Init => Inv /\ RInv /\ Lines!LInit
  BY InitMapped, InitInv
<1>2. Inv /\ [Next]_vars => Inv'
  BY StepInv
<1>3. Inv /\ Inv' /\ RInv /\ [Next]_vars => RInv' /\ [Lines!LNext]_(Lines!lvars)
  BY StepMapped DEF Mapped
<1> QED
  BY <1>1, <1>2, <1>3, PTL DEF Spec, ConsoleIsLineInput, Lines!LSpec
=============================================================================
