----------------------------- MODULE RingProofs -----------------------------
(***************************************************************************)
(* Lemmas about rings: a buffer of P cells and counters that wrap around   *)
(* at a multiple W of P.  Pipe and Console have one each.                  *)
(***************************************************************************)
EXTENDS Integers, Sequences, SequenceTheorems, TLAPS

\* A buffer of P cells that hold members of S.
Cells(P, S) == [0..P-1 -> S]

\* The buffer d after its cell j was set to c.
WithCell(d, j, c) == [d EXCEPT ![j] = c]

\* The n cells of d from counter i on, in order.
Stretch(d, i, n, P) == [k \in 1..n |-> d[(i + k - 1) % P]]

\* A stretch of n cells does not reach the m-th cell after its start.
Beyond(m, n, P) == m \in Nat /\ n <= m /\ m < P

Join(s, t) == s \o t

\* The counters wrap around at W, after a whole number of turns of a ring of P cells.
Turns(W, P) == W \in Nat \ {0} /\ W % P = 0

-----------------------------------------------------------------------------
(* Remainders                                                              *)

\* Quotient and remainder.
LEMMA Division ==
  ASSUME NEW a \in Int, NEW b \in Nat \ {0}
  PROVE  a \div b \in Int /\ a % b \in 0..b-1 /\ a = b * (a \div b) + (a % b)
  OBVIOUS

\* A multiple of b that is less than b away from 0 is 0.
LEMMA Zero ==
  ASSUME NEW b \in Nat \ {0}, NEW t \in Int, -b < b * t, b * t < b
  PROVE  t = 0
<1>1. ASSUME t >= 1 PROVE FALSE
  <2>1. b * t >= b
    BY <1>1
  <2> QED BY <2>1
<1>2. ASSUME t <= -1 PROVE FALSE
  <2>1. b * t <= -b
    BY <1>2
  <2> QED BY <2>1
<1> QED BY <1>1, <1>2

\* b goes into b.
LEMMA Whole ==
  ASSUME NEW b \in Nat \ {0}
  PROVE  b % b = 0
<1> DEFINE q == b \div b
           m == b % b
<1>1. q \in Int /\ m \in 0..b-1 /\ b = b * q + m
  BY Division
<1> HIDE DEF q, m
<1>2. b * (q - 1) = b * q - b /\ b * q \in Int
  BY <1>1
<1>3. q - 1 = 0
  BY <1>1, <1>2, Zero
<1> QED
  BY <1>1, <1>3 DEF m

\* Numbers that are a multiple of b apart have the same remainder.
LEMMA Congruent ==
  ASSUME NEW y \in Int, NEW W \in Nat, NEW b \in Nat \ {0}, W % b = 0
  PROVE  (y + W) % b = y % b
<1> DEFINE x == y + W
<1>6. x \in Int /\ x = y + W
  OBVIOUS
<1> HIDE DEF x
<1> DEFINE q == x \div b
           r == y \div b
           k == W \div b
           m == x % b
           n == y % b
           t == q - r - k
<1>1. q \in Int /\ r \in Int /\ m \in 0..b-1 /\ n \in 0..b-1 /\ x = b * q + m /\ y = b * r + n
  BY <1>6, Division
<1>0. k \in Int /\ W = b * k /\ x = y + W
  BY <1>6, Division
<1> HIDE DEF q, r, k, m, n
<1>2. t \in Int /\ b * t = b * q - b * r - b * k /\ b * q \in Int /\ b * r \in Int /\ b * k \in Int
  BY <1>0, <1>1
<1> HIDE DEF t
<1>3. b * t = n - m
  BY <1>0, <1>1, <1>2
<1>4. t = 0
  BY <1>1, <1>2, <1>3, Zero
<1>5. m = n
  BY <1>1, <1>3, <1>4
<1> QED BY <1>5 DEF m, n, x

\* Numbers closer together than b have different remainders.
LEMMA Apart ==
  ASSUME NEW x \in Int, NEW y \in Int, NEW b \in Nat \ {0}, x < y, y < x + b
  PROVE  x % b # y % b
<1> DEFINE q == x \div b
           r == y \div b
           t == r - q
<1>1. q \in Int /\ r \in Int /\ x % b \in 0..b-1 /\ y % b \in 0..b-1
      /\ x = b * q + (x % b) /\ y = b * r + (y % b)
  BY Division
<1> HIDE DEF q, r
<1> SUFFICES ASSUME x % b = y % b PROVE FALSE
  OBVIOUS
<1>2. b * t = y - x /\ t \in Int
  BY <1>1
<1>3. t = 0
  <2> HIDE DEF t
  <2> QED BY <1>2, Zero
<1> QED BY <1>2, <1>3
\* The distance of two counters, and the next one.
LEMMA Distance ==
  ASSUME NEW W \in Nat \ {0}, NEW u \in 0..W-1, NEW v \in 0..W-1
  PROVE  /\ v >= u => (v - u) % W = v - u
         /\ v < u => (v - u) % W = v - u + W
<1>1. ASSUME v >= u PROVE (v - u) % W = v - u
  BY <1>1
<1>2. ASSUME v < u PROVE (v - u) % W = v - u + W
  <2>1. (v - u + W) % W = v - u + W
    BY <1>2
  <2>2. (v - u + W) % W = (v - u) % W
    <3>1. W % W = 0
      BY Whole
    <3>2. v - u + W \in Int /\ v - u \in Int /\ W \in Int
      OBVIOUS
    <3> QED
      BY <3>1, <3>2, Congruent
  <2> QED
    BY <2>1, <2>2
<1> QED
  BY <1>1, <1>2

\* A counter one further.
LEMMA NextCount ==
  ASSUME NEW W \in Nat \ {0}, NEW v \in 0..W-1
  PROVE  /\ (v + 1) % W \in 0..W-1
         /\ v < W - 1 => (v + 1) % W = v + 1
         /\ v = W - 1 => (v + 1) % W = 0
<1>1. ASSUME v = W - 1 PROVE (v + 1) % W = 0
  BY <1>1, Whole
<1> QED
  BY <1>1

\* A counter that has passed W.
LEMMA Wraps ==
  ASSUME NEW W \in Nat \ {0}, NEW x \in W..2*W-1
  PROVE  x % W = x - W
<1> DEFINE y == x - W
<1>1. y \in Int /\ y \in 0..W-1 /\ y + W = x /\ W % W = 0 /\ W \in Nat
  BY Whole
<1> HIDE DEF y
<1>2. (y + W) % W = y % W
  BY <1>1, Congruent
<1>3. y % W = y
  BY <1>1
<1> QED
  BY <1>1, <1>2, <1>3 DEF y

\* A counter and the same counter before it wrapped around mean the same cell.
LEMMA SameCell ==
  ASSUME NEW P \in Nat \ {0}, NEW W \in Nat \ {0}, W % P = 0, NEW a \in Int
  PROVE  (a + W) % P = a % P /\ (a - W) % P = a % P
<1>1. (a + W) % P = a % P
  BY Congruent
<1>2. a - W \in Int /\ (a - W) + W = a
  OBVIOUS
<1>3. ((a - W) + W) % P = (a - W) % P
  <2> DEFINE y == a - W
  <2>1. y \in Int
    OBVIOUS
  <2> HIDE DEF y
  <2>2. (y + W) % P = y % P
    BY <2>1, Congruent
  <2> QED
    BY <2>2 DEF y
<1> QED
  BY <1>1, <1>2, <1>3, Zenon

\* So does a number that is reduced to the range of the counters.
LEMMA Reduced ==
  ASSUME NEW P \in Nat \ {0}, NEW W \in Nat \ {0}, W % P = 0, NEW x \in -W..2*W-1
  PROVE  (x % W) % P = x % P
<1>0. x \in Int
  OBVIOUS
<1>1. CASE x \in 0..W-1
  BY <1>1
<1>2. CASE x \in W..2*W-1
  <2>1. x % W = x - W
    BY <1>2, Wraps
  <2>2. (x - W) % P = x % P
    BY <1>0, SameCell
  <2> QED
    BY <2>1, <2>2
<1>3. CASE x \in -W..-1
  <2> DEFINE y == x + W
  <2>1. y \in 0..W-1 /\ W % W = 0 /\ W \in Nat
    BY <1>3, Whole
  <2>2. (x + W) % W = x % W
    BY <1>0, <2>1, Congruent
  <2>3. y % W = y
    BY <2>1
  <2>4. (x + W) % P = x % P
    BY <1>0, SameCell
  <2> QED
    BY <2>2, <2>3, <2>4
<1> QED
  BY <1>1, <1>2, <1>3

-----------------------------------------------------------------------------
(* Stretches                                                               *)

\* A cell that is written behind a stretch that does not fill the ring makes it longer.
LEMMA StretchAppend ==
  ASSUME NEW P \in Nat \ {0}, NEW S, NEW d \in Cells(P, S), NEW i \in Nat, NEW n \in Nat,
         n < P, NEW c \in S
  PROVE  Stretch(WithCell(d, (i + n) % P, c), i, n + 1, P) = Append(Stretch(d, i, n, P), c)
<1> DEFINE j == (i + n) % P
           e == WithCell(d, j, c)
<1>0. j \in 0..P-1 /\ j = (i + n) % P
  <2> DEFINE a == i + n
  <2>1. a \in Int
    OBVIOUS
  <2> HIDE DEF a
  <2>2. a % P \in 0..P-1
    BY <2>1, Division
  <2> QED
    BY <2>2 DEF a
<1> USE DEF Cells, WithCell
<1> HIDE DEF j
<1>1. \A k \in 1..n + 1 : (i + k - 1) % P \in 0..P-1
  BY Division
<1>2. \A k \in 1..n : (i + k - 1) % P # j
  <2> TAKE k \in 1..n
  <2>1. i + k - 1 \in Int /\ i + n \in Int /\ i + k - 1 < i + n /\ i + n < (i + k - 1) + P
    OBVIOUS
  <2> QED
    BY <1>0, <2>1, Apart
<1>3. \A k \in 1..n : e[(i + k - 1) % P] = d[(i + k - 1) % P]
  <2> TAKE k \in 1..n
  <2>1. k \in 1..n + 1
    OBVIOUS
  <2> DEFINE m == (i + k - 1) % P
  <2>2. m \in 0..P-1 /\ m # j
    BY <1>1, <1>2, <2>1
  <2> HIDE DEF m
  <2>3. e[m] = d[m]
    BY <1>0, <2>2
  <2> QED
    BY <2>3 DEF m
<1>4. e[(i + (n + 1) - 1) % P] = c
  <2>1. i + (n + 1) - 1 = i + n
    OBVIOUS
  <2> QED
    BY <1>0, <2>1
<1> HIDE DEF e
<1> DEFINE s == Stretch(d, i, n, P)
           t == Stretch(e, i, n + 1, P)
<1>5. s \in Seq(S) /\ Len(s) = n /\ \A k \in 1..n : s[k] = d[(i + k - 1) % P]
  <2>1. s \in [1..n -> S]
    BY <1>1 DEF Stretch
  <2> QED
    BY <2>1 DEF Stretch
<1>6. DOMAIN t = 1..n + 1 /\ \A k \in 1..n + 1 : t[k] = e[(i + k - 1) % P]
  BY DEF Stretch
<1>7. t = [k \in 1..n + 1 |-> t[k]]
  BY DEF Stretch
<1> HIDE DEF s, t
<1>8. Append(s, c) \in Seq(S) /\ Len(Append(s, c)) = n + 1 /\ Append(s, c)[n + 1] = c
      /\ \A k \in 1..n : Append(s, c)[k] = s[k]
  BY <1>5
<1>9. \A k \in 1..n + 1 : Append(s, c)[k] = t[k]
  <2> TAKE k \in 1..n + 1
  <2>1. CASE k = n + 1
    BY <1>4, <1>6, <1>8, <2>1
  <2>2. CASE k # n + 1
    <3>1. k \in 1..n
      BY <2>2
    <3>2. Append(s, c)[k] = s[k] /\ s[k] = d[(i + k - 1) % P]
      BY <1>5, <1>8, <3>1
    <3>3. t[k] = e[(i + k - 1) % P] /\ e[(i + k - 1) % P] = d[(i + k - 1) % P]
      BY <1>3, <1>6, <3>1
    <3> QED
      BY <3>2, <3>3
  <2> QED
    BY <2>1, <2>2
<1>10. Append(s, c) = t
  <2> DEFINE q == Append(s, c)
  <2>0. q \in Seq(S) /\ Len(q) = n + 1
    BY <1>8
  <2> HIDE DEF q
  <2>1. q = [k \in 1..n + 1 |-> q[k]]
    BY <2>0
  <2> QED
    BY <1>7, <1>9, <2>1, Zenon DEF q
<1> QED
  BY <1>10, Zenon DEF s, t, e, j

\* Without its first cell it is the stretch from the next counter on.
LEMMA StretchTail ==
  ASSUME NEW P \in Nat \ {0}, NEW S, NEW d \in Cells(P, S), NEW i \in Nat, NEW n \in Nat, n > 0
  PROVE  /\ Stretch(d, i, n, P) # <<>>
         /\ Head(Stretch(d, i, n, P)) = d[i % P]
         /\ Tail(Stretch(d, i, n, P)) = Stretch(d, i + 1, n - 1, P)
<1> USE DEF Cells
<1>1. \A k \in 1..n : (i + k - 1) % P \in 0..P-1
  <2> TAKE k \in 1..n
  <2>1. i + k - 1 \in Int
    OBVIOUS
  <2> QED
    BY <2>1, Division
<1> DEFINE s == Stretch(d, i, n, P)
           t == Stretch(d, i + 1, n - 1, P)
<1>2. s \in Seq(S) /\ Len(s) = n /\ \A k \in 1..n : s[k] = d[(i + k - 1) % P]
  <2>1. s \in [1..n -> S]
    BY <1>1 DEF Stretch
  <2> QED
    BY <2>1 DEF Stretch
<1>3. t = [k \in 1..n - 1 |-> d[((i + 1) + k - 1) % P]]
  BY DEF Stretch
<1>4. s[1] = d[i % P]
  <2>1. i + 1 - 1 = i
    OBVIOUS
  <2> QED
    BY <1>2, <2>1
<1>5. \A k \in 1..n - 1 : s[k + 1] = d[((i + 1) + k - 1) % P]
  <2> TAKE k \in 1..n - 1
  <2>1. i + (k + 1) - 1 = (i + 1) + k - 1 /\ k + 1 \in 1..n
    OBVIOUS
  <2> QED
    BY <1>2, <2>1
<1> HIDE DEF s, t
<1>6. s # <<>> /\ Head(s) = s[1] /\ Tail(s) = [k \in 1..n - 1 |-> s[k + 1]]
  <2>1. s \in Seq(S) /\ Len(s) = n
    BY <1>2
  <2> QED
    BY <2>1
<1>7. Tail(s) = t
  BY <1>3, <1>5, <1>6
<1> QED
  BY <1>4, <1>6, <1>7 DEF s, t

\* A counter that reaches its range goes on from 0.
LEMMA StretchWrapped ==
  ASSUME NEW P \in Nat \ {0}, NEW W \in Nat \ {0}, W % P = 0, NEW d, NEW n \in Nat
  PROVE  Stretch(d, W, n, P) = Stretch(d, 0, n, P)
<1>1. \A k \in 1..n : (W + k - 1) % P = (0 + k - 1) % P
  <2> TAKE k \in 1..n
  <2> DEFINE a == k - 1
  <2>1. a \in Int /\ W + k - 1 = a + W /\ 0 + k - 1 = a
    OBVIOUS
  <2> HIDE DEF a
  <2>2. (a + W) % P = a % P
    BY <2>1, SameCell, Zenon
  <2> QED
    BY <2>1, <2>2, Zenon
<1> QED
  BY <1>1 DEF Stretch

\* A stretch is a sequence.
LEMMA StretchSeq ==
  ASSUME NEW P \in Nat \ {0}, NEW S, NEW d \in Cells(P, S), NEW i \in Nat, NEW n \in Nat
  PROVE  Stretch(d, i, n, P) \in Seq(S) /\ Len(Stretch(d, i, n, P)) = n
<1>1. \A k \in 1..n : (i + k - 1) % P \in 0..P-1
  <2> TAKE k \in 1..n
  <2>1. i + k - 1 \in Int
    OBVIOUS
  <2> QED
    BY <2>1, Division
<1> DEFINE s == Stretch(d, i, n, P)
<1>2. s \in [1..n -> S]
  BY <1>1 DEF Stretch, Cells
<1> HIDE DEF s
<1>4. s \in Seq(S) /\ Len(s) = n
  BY <1>2
<1> QED
  BY <1>4 DEF s

\* What lies before the cell that is written stays.
LEMMA StretchKept ==
  ASSUME NEW P \in Nat \ {0}, NEW S, NEW d \in Cells(P, S), NEW i \in Nat, NEW n \in Nat,
         NEW m, Beyond(m, n, P), NEW c \in S
  PROVE  Stretch(WithCell(d, (i + m) % P, c), i, n, P) = Stretch(d, i, n, P)
<1>0. m \in Nat /\ n <= m /\ m < P
  BY DEF Beyond
<1>2. \A k \in 1..n : (i + k - 1) % P \in 0..P-1
  <2> TAKE k \in 1..n
  <2>1. i + k - 1 \in Int
    OBVIOUS
  <2> QED
    BY <2>1, Division
<1> DEFINE j == (i + m) % P
<1>1. \A k \in 1..n : (i + k - 1) % P # j
  <2> TAKE k \in 1..n
  <2>1. i + k - 1 \in Int /\ i + m \in Int /\ i + k - 1 < i + m /\ i + m < (i + k - 1) + P
    BY <1>0
  <2> QED
    BY <2>1, Apart
<1> HIDE DEF j
<1>3. \A k \in 1..n : WithCell(d, j, c)[(i + k - 1) % P] = d[(i + k - 1) % P]
  <2> TAKE k \in 1..n
  <2> DEFINE x == (i + k - 1) % P
  <2>1. x # j /\ x \in 0..P-1
    BY <1>1, <1>2
  <2> HIDE DEF x
  <2>2. WithCell(d, j, c)[x] = d[x]
    BY <2>1 DEF WithCell, Cells
  <2> QED
    BY <2>2 DEF x
<1>4. Stretch(WithCell(d, j, c), i, n, P) = Stretch(d, i, n, P)
  BY <1>3 DEF Stretch
<1> QED
  BY <1>4, Zenon DEF j

\* A stretch and the one that begins where it ends.
LEMMA StretchConcat ==
  ASSUME NEW P \in Nat \ {0}, NEW S, NEW d \in Cells(P, S), NEW i \in Nat, NEW m \in Nat, NEW n \in Nat,
         NEW j, j = i + m, NEW q, q = m + n
  PROVE  Stretch(d, i, q, P) = Join(Stretch(d, i, m, P), Stretch(d, j, n, P))
<1> DEFINE s == Stretch(d, i, m, P)
           t == Stretch(d, i + m, n, P)
           u == Stretch(d, i, m + n, P)
<1>0. i + m \in Nat
  OBVIOUS
<1>1. s \in Seq(S) /\ Len(s) = m
  BY StretchSeq
<1>2. t \in Seq(S) /\ Len(t) = n
  BY <1>0, StretchSeq
<1>3. u = [k \in 1..m + n |-> d[(i + k - 1) % P]]
  BY DEF Stretch
<1>7. \A k \in 1..m : s[k] = d[(i + k - 1) % P]
  BY DEF Stretch
<1>8. \A k \in 1..n : t[k] = d[(i + m + k - 1) % P]
  BY DEF Stretch
<1> HIDE DEF s, t, u
<1>4. s \o t = [k \in 1..m + n |-> IF k <= m THEN s[k] ELSE t[k - m]]
  <2> DEFINE v == s \o t
  <2>1. /\ v \in Seq(S) /\ Len(v) = Len(s) + Len(t)
        /\ \A k \in 1..Len(s) + Len(t) : v[k] = IF k <= Len(s) THEN s[k] ELSE t[k - Len(s)]
    BY <1>1, <1>2, ConcatProperties
  <2> HIDE DEF v
  <2>2. Len(v) = m + n /\ \A k \in 1..m + n : v[k] = IF k <= m THEN s[k] ELSE t[k - m]
    BY <1>1, <1>2, <2>1
  <2>3. v = [k \in 1..m + n |-> v[k]]
    BY <2>1, <2>2
  <2>4. v = [k \in 1..m + n |-> IF k <= m THEN s[k] ELSE t[k - m]]
    BY <2>2, <2>3, Zenon
  <2> QED
    BY <2>4 DEF v
<1>5. \A k \in 1..m + n : (IF k <= m THEN s[k] ELSE t[k - m]) = d[(i + k - 1) % P]
  <2> TAKE k \in 1..m + n
  <2>1. CASE k <= m
    <3>1. k \in 1..m
      BY <2>1
    <3> QED
      BY <1>7, <2>1, <3>1
  <2>2. CASE ~(k <= m)
    <3>1. k - m \in 1..n /\ i + m + (k - m) - 1 = i + k - 1
      BY <2>2
    <3> QED
      BY <1>8, <2>2, <3>1
  <2> QED
    BY <2>1, <2>2
<1>6. s \o t = u
  BY <1>3, <1>4, <1>5
<1> QED
  BY <1>6, Zenon DEF s, t, u, Join

\* Without its last cell.
LEMMA StretchFront ==
  ASSUME NEW P \in Nat \ {0}, NEW S, NEW d \in Cells(P, S), NEW i \in Nat, NEW n \in Nat, n > 0
  PROVE  Stretch(d, i, n - 1, P) = SubSeq(Stretch(d, i, n, P), 1, n - 1)
<1> DEFINE s == Stretch(d, i, n, P)
           t == Stretch(d, i, n - 1, P)
<1>1. s \in Seq(S) /\ Len(s) = n
  BY StretchSeq
<1>5. \A k \in 1..n : s[k] = d[(i + k - 1) % P]
  BY DEF Stretch
<1>2. t = [k \in 1..n - 1 |-> d[(i + k - 1) % P]]
  BY DEF Stretch
<1> HIDE DEF s, t
<1>3. SubSeq(s, 1, n - 1) = [k \in 1..n - 1 |-> s[k]]
  BY <1>1
<1>6. \A k \in 1..n - 1 : s[k] = d[(i + k - 1) % P]
  BY <1>5
<1>4. SubSeq(s, 1, n - 1) = t
  BY <1>2, <1>3, <1>6, Zenon
<1> QED
  BY <1>4 DEF s, t

\* A counter and the same counter before it wrapped around.
LEMMA StretchReduced ==
  ASSUME NEW P \in Nat \ {0}, NEW W, Turns(W, P), NEW d, NEW i \in Nat, NEW j \in Nat,
         j = i + W, NEW n \in Nat
  PROVE  Stretch(d, j, n, P) = Stretch(d, i, n, P)
<1>0. W \in Nat \ {0} /\ W % P = 0
  BY DEF Turns
<1>1. \A k \in 1..n : (j + k - 1) % P = (i + k - 1) % P
  <2> TAKE k \in 1..n
  <2> DEFINE a == i + k - 1
  <2>1. a \in Int /\ j + k - 1 = a + W
    BY <1>0
  <2> HIDE DEF a
  <2>2. (a + W) % P = a % P
    BY <1>0, <2>1, SameCell, Zenon
  <2> QED
    BY <2>1, <2>2, Zenon DEF a
<1> QED
  BY <1>1 DEF Stretch
=============================================================================
