------------------------ MODULE PartitionSplit_proofs ------------------------
(* Proofs about PartitionSplit, for every width of the integers, every cap *)
(* on the partitions and every table.                                      *)
EXTENDS PartitionSplit, FiniteSetTheorems, WellFoundedInduction, TLAPS

(* Unsigned numbers wrap at most once in what the code adds and subtracts. *)
LEMMA WrapFacts ==
  ASSUME NEW M \in Nat \ {0}, NEW x \in Int, 0 - M <= x, x < 2 * M
  PROVE  x % M = IF x < 0 THEN x + M ELSE IF x < M THEN x ELSE x - M
<1>1. ASSUME x < 0 PROVE x % M = x + M
  BY <1>1
<1>2. ASSUME 0 <= x, x < M PROVE x % M = x
  BY <1>2
<1>3. ASSUME M <= x PROVE x % M = x - M
  BY <1>3
<1> QED BY <1>1, <1>2, <1>3

(* The span of an extent is its length, however wide it is.                *)
LEMMA SpanFacts ==
  ASSUME NEW lo \in Ints, NEW hi \in Ints, lo <= hi
  PROVE  Span(lo, hi) = hi - lo /\ hi - lo \in 0..(Modulus - 1)
<1>1. Half \in Nat /\ Half > 0 /\ Modulus \in Nat \ {0} /\ Modulus = 2 * Half
  BY PartitionAssumption DEF Modulus
<1>2. /\ lo \in Int /\ hi \in Int /\ 0 - Half <= lo /\ lo < Half /\ 0 - Half <= hi /\ hi < Half
  BY <1>1 DEF Ints
<1>3. ASSUME NEW x \in Int, 0 - Modulus <= x, x < 2 * Modulus
      PROVE  Unsigned(x) = IF x < 0 THEN x + Modulus ELSE IF x < Modulus THEN x ELSE x - Modulus
  BY <1>1, <1>3, WrapFacts DEF Unsigned
<1>4. Unsigned(lo) = IF lo < 0 THEN lo + Modulus ELSE lo
  BY <1>1, <1>2, <1>3
<1>5. Unsigned(hi) = IF hi < 0 THEN hi + Modulus ELSE hi
  BY <1>1, <1>2, <1>3
<1> DEFINE d == Unsigned(hi) - Unsigned(lo)
<1>6. d \in Int /\ (d = hi - lo \/ d = hi - lo - Modulus)
  BY <1>1, <1>2, <1>4, <1>5
<1>7. hi - lo \in 0..(Modulus - 1)
  BY <1>1, <1>2
<1> HIDE DEF d
<1>8. Unsigned(d) = hi - lo
  BY <1>1, <1>2, <1>3, <1>6, <1>7
<1> QED BY <1>7, <1>8 DEF Span, d

(* Where boundary k of n lies over a span, without the wrapping.           *)
Offset(span, n, k) == (span \div n) * k + ((span % n) * k) \div n

(* The offsets stay within the span, ...                                   *)
LEMMA OffsetFacts ==
  ASSUME NEW span \in Nat, NEW n \in Nat \ {0}, NEW k \in 0..n
  PROVE  /\ Offset(span, n, k) \in 0..span
         /\ (span \div n) * k \in 0..span /\ ((span % n) * k) \div n \in Nat
<1> DEFINE q == span \div n
           r == span % n
<1>1. q \in Nat /\ r \in Nat /\ r < n /\ span = n * q + r
  OBVIOUS
<1> HIDE DEF q, r
<1>2. k \in Nat /\ k <= n /\ q * k \in Nat /\ q * k <= n * q /\ r * k \in Nat /\ r * k <= r * n
  <2>1. k \in Nat /\ n \in Nat /\ k <= n
    OBVIOUS
  <2>2. q * k <= q * n /\ r * k <= r * n
    BY <1>1, <2>1
  <2> QED BY <1>1, <2>1, <2>2
<1> DEFINE rk == r * k
<1>3. rk \in Nat /\ rk <= r * n
  BY <1>2
<1> HIDE DEF rk
<1>4. rk \div n \in Nat /\ rk \div n <= r
  BY <1>1, <1>3
<1>5. q * k + (rk \div n) \in 0..span /\ q * k \in 0..span
  <2> DEFINE a == q * k  b == rk \div n  c == n * q
  <2>1. a \in Nat /\ b \in Nat /\ c \in Nat /\ a <= c /\ b <= r
    BY <1>1, <1>2, <1>4
  <2>2. span = c + r
    BY <1>1
  <2> HIDE DEF a, b, c
  <2>3. a + b \in 0..span /\ a \in 0..span
    BY <1>1, <2>1, <2>2
  <2> QED BY <2>3 DEF a, b
<1> QED BY <1>4, <1>5 DEF Offset, q, r, rk

(* ... and increase, if there are no more slices than the span is long.    *)
LEMMA OffsetsIncrease ==
  ASSUME NEW span \in Nat, NEW n \in Nat \ {0}, n <= span,
         NEW i \in 0..n, NEW j \in 0..n, i < j
  PROVE  Offset(span, n, i) < Offset(span, n, j)
<1> DEFINE q == span \div n
           r == span % n
<1>1. q \in Nat /\ q >= 1 /\ r \in Nat /\ i \in Nat /\ j \in Nat
  OBVIOUS
<1> HIDE DEF q, r
<1>2. q * i + q <= q * j /\ q * i \in Nat /\ q * j \in Nat
  BY <1>1
<1>3. r * i <= r * j /\ r * i \in Nat /\ r * j \in Nat
  BY <1>1
<1> DEFINE ri == r * i  rj == r * j
<1>4. ri \in Nat /\ rj \in Nat /\ ri <= rj
  BY <1>3
<1> HIDE DEF ri, rj
<1>5. ri \div n <= rj \div n /\ ri \div n \in Nat /\ rj \div n \in Nat
  BY <1>4
<1>6. q * i + (ri \div n) < q * j + (rj \div n)
  BY <1>1, <1>2, <1>5
<1> QED BY <1>6 DEF Offset, q, r, ri, rj

(* A boundary is computed without loss: the remainder term is at most the  *)
(* square of the last slice's number, the rest at most the span.           *)
LEMMA BoundaryFacts ==
  ASSUME NEW lo \in Ints, NEW hi \in Ints, lo <= hi, NEW n \in 1..PartMax, NEW k \in 0..(n - 1)
  PROVE  SplitBoundary(lo, hi, n, k) = lo + Offset(hi - lo, n, k)
<1>1. Half \in Nat /\ Half > 0 /\ Modulus \in Nat \ {0} /\ Modulus = 2 * Half /\ PartMax \in Nat
      /\ (PartMax - 1) * (PartMax - 1) < Modulus
  BY PartitionAssumption DEF Modulus
<1>2. /\ lo \in Int /\ hi \in Int /\ 0 - Half <= lo /\ lo < Half /\ 0 - Half <= hi /\ hi < Half
  BY <1>1 DEF Ints
<1> DEFINE span == hi - lo
<1>3. Span(lo, hi) = span /\ span \in 0..(Modulus - 1)
  BY SpanFacts
<1>4. n \in Nat \ {0} /\ k \in 0..n /\ span \in Nat
  BY <1>1, <1>3
<1>5. ASSUME NEW x \in Int, 0 - Modulus <= x, x < 2 * Modulus
      PROVE  Unsigned(x) = IF x < 0 THEN x + Modulus ELSE IF x < Modulus THEN x ELSE x - Modulus
  BY <1>1, <1>5, WrapFacts DEF Unsigned
<1> HIDE DEF span
<1> DEFINE a == (span \div n) * k
           c == (span % n) * k
           b == c \div n
<1>6. a \in 0..span /\ b \in Nat /\ a + b \in 0..span
  BY <1>4, OffsetFacts DEF Offset
<1>7. c \in 0..(Modulus - 1)
  <2> DEFINE r == span % n
  <2>1. r \in Nat /\ r <= PartMax - 1 /\ k \in Nat /\ k <= PartMax - 1 /\ PartMax - 1 \in Nat
    BY <1>1, <1>4
  <2> HIDE DEF r
  <2>2. r * k <= (PartMax - 1) * (PartMax - 1) /\ r * k \in Nat
    <3> DEFINE p == PartMax - 1
    <3>1. p \in Nat /\ r <= p /\ k <= p
      BY <2>1
    <3> HIDE DEF p
    <3>2. r * k <= p * k /\ p * k <= p * p /\ r * k \in Nat /\ p * k \in Nat /\ p * p \in Nat
      BY <2>1, <3>1
    <3>3. r * k <= p * p
      BY <3>2
    <3> QED BY <3>2, <3>3 DEF p
  <2> QED BY <1>1, <2>1, <2>2 DEF r
<1> HIDE DEF a, c
<1>8. Unsigned(a) = a /\ Unsigned(c) = c
  BY <1>1, <1>3, <1>5, <1>6, <1>7
<1> HIDE DEF b
<1>9. Unsigned(a + b) = a + b
  BY <1>1, <1>3, <1>5, <1>6
<1>10. Unsigned(lo) = IF lo < 0 THEN lo + Modulus ELSE lo
  BY <1>1, <1>2, <1>5
<1> DEFINE u == Unsigned(Unsigned(lo) + (a + b))
<1>11. lo + (a + b) \in Int /\ lo <= lo + (a + b) /\ lo + (a + b) <= hi
  BY <1>2, <1>3, <1>6 DEF span
<1>12. u = IF lo + (a + b) < 0 THEN lo + (a + b) + Modulus ELSE lo + (a + b)
  <2> DEFINE x == lo + (a + b)
             y == Unsigned(lo) + (a + b)
  <2>1. x \in Int /\ 0 - Half <= x /\ x < Half /\ lo <= x
    BY <1>1, <1>2, <1>11
  <2>2. y = IF lo < 0 THEN x + Modulus ELSE x
    BY <1>1, <1>2, <1>3, <1>6, <1>10
  <2> HIDE DEF x, y
  <2>3. Unsigned(y) = IF x < 0 THEN x + Modulus ELSE x
    BY <1>1, <1>2, <1>5, <2>1, <2>2
  <2> QED BY <2>3 DEF x, y
<1>13. Signed(u) = lo + (a + b)
  BY <1>1, <1>2, <1>11, <1>12 DEF Signed
<1>14. SplitBoundary(lo, hi, n, k) = Signed(u)
  BY <1>3, <1>8, <1>9 DEF SplitBoundary, a, b, c
<1> QED BY <1>13, <1>14 DEF Offset, a, b, c, span

(* A quotient is an integer.                                               *)
LEMMA QuotientType == ASSUME NEW x \in Int, NEW n \in Nat \ {0} PROVE x \div n \in Int
OBVIOUS

(* A split is over an extent of the type, and not over a key that may be   *)
(* NULL.                                                                   *)
LEMMA ChooseFacts ==
  ASSUME NEW t \in Tables, ChooseSplit(t).kind # "none"
  PROVE  /\ ChooseSplit(t).lo \in Ints /\ ChooseSplit(t).hi \in Ints
         /\ ChooseSplit(t).lo <= ChooseSplit(t).hi /\ ChooseSplit(t).auto \in Int
         /\ ~MayBeNull(t)
<1>1. t \in Table
  BY PartitionAssumption
<1>2. /\ Half \in Nat /\ Half > 0 /\ AutoBlocks \in Nat \ {0} /\ AutoRows \in Nat \ {0}
      /\ HashMax \in Ints /\ HashMax \in Nat /\ AutoMax \in Int /\ Modulus \in Nat
  BY PartitionAssumption DEF Modulus
<1>3. 0 \in Ints /\ Ints \subseteq Int
  BY <1>2 DEF Ints
<1>4. t.blocks \in Ints /\ t.rows \in Ints
  BY <1>1 DEF Table
<1>5. Estimate(t) \in Int
  <2>1. t.rows \in Int
    BY <1>3, <1>4
  <2>2. t.rows \div AutoRows \in Int
    BY <1>2, <2>1, QuotientType
  <2> QED BY <2>2 DEF Estimate
<1>6. CASE t.postgres /\ t.blocks > 0
  <2>1. ChooseSplit(t) = Split("ctid", 0, t.blocks, t.blocks \div AutoBlocks)
    BY <1>6 DEF ChooseSplit
  <2>2. t.blocks \in Int
    BY <1>3, <1>4
  <2>3. t.blocks \div AutoBlocks \in Int
    BY <1>2, <2>2, QuotientType
  <2> QED BY <1>3, <1>4, <1>6, <2>1, <2>2, <2>3 DEF Split, MayBeNull
<1>7. CASE ~(t.postgres /\ t.blocks > 0)
  <2>1. Splittable(t) /\ ~(t.postgres /\ t.index \in {"unknown", "hashMany"})
    BY <1>7 DEF ChooseSplit, NoSplit, Split
  <2>2. ~MayBeNull(t)
    BY <2>1 DEF Splittable, MayBeNull
  <2>3. CASE t.postgres /\ t.index = "hash"
    <3>1. ChooseSplit(t) = Split("hash", 0, HashMax, Estimate(t))
      BY <1>7, <2>1, <2>3 DEF ChooseSplit
    <3> QED BY <1>2, <1>3, <1>5, <2>2, <3>1 DEF Split
  <2>4. CASE ~(t.postgres /\ t.index = "hash")
    <3> DEFINE lo == Lowest(t.extent)  hi == Highest(t.extent)
    <3>1. t.extent # {}
      BY <1>7, <2>1, <2>4 DEF ChooseSplit, NoSplit, Split
    <3>2. ChooseSplit(t) = Split("range", lo, hi, KeyAuto(t, lo, hi))
      BY <1>7, <2>1, <2>4, <3>1 DEF ChooseSplit
    <3>3. PICK a \in Ints, b \in Ints : t.extent = {a, b}
      BY <1>1, <3>1 DEF Table
    <3>4. lo \in Ints /\ hi \in Ints /\ lo <= hi
      <4>1. a \in Int /\ b \in Int
        BY <1>3
      <4>2. \E x \in t.extent : \A y \in t.extent : x <= y
        BY <3>3, <4>1
      <4>3. lo \in t.extent /\ \A y \in t.extent : lo <= y
        BY <4>2 DEF Lowest
      <4>4. \E x \in t.extent : \A y \in t.extent : x >= y
        BY <3>3, <4>1
      <4>5. hi \in t.extent
        BY <4>4 DEF Highest
      <4> QED BY <3>3, <4>3, <4>5
    <3> HIDE DEF lo, hi
    <3>5. KeyAuto(t, lo, hi) \in Int
      <4>1. Span(lo, hi) \in Int
        BY <1>2, <1>3, <3>4, SpanFacts
      <4> QED BY <1>2, <1>5, <4>1 DEF KeyAuto, Smaller
    <3> QED BY <2>2, <3>2, <3>4, <3>5 DEF Split
  <2> QED BY <2>3, <2>4
<1> QED BY <1>6, <1>7

(* No more partitions than the cap, nor, if there are several, than the    *)
(* extent is long.                                                         *)
LEMMA CountFacts ==
  ASSUME NEW req \in Nat, NEW split, split.lo \in Ints, split.hi \in Ints, split.lo <= split.hi,
         split.auto \in Int
  PROVE  LET n == ResolvePartitionCount(req, split)
         IN  n \in 1..PartMax /\ (n > 1 => n <= split.hi - split.lo)
<1>1. Span(split.lo, split.hi) = split.hi - split.lo /\ split.hi - split.lo \in Nat
  <2>1. Modulus \in Nat
    BY PartitionAssumption DEF Modulus
  <2> QED BY <2>1, SpanFacts
<1>2. PartMax \in Nat \ {0} /\ AutoMax \in Int
  BY PartitionAssumption
<1> DEFINE span == split.hi - split.lo
           auto == IF split.auto < 0 THEN 1 ELSE Smaller(split.auto, AutoMax)
           want == AtLeast1(Smaller(IF req = 0 THEN auto ELSE req, PartMax))
<1>3. auto \in Int
  BY <1>2 DEF Smaller
<1> HIDE DEF auto
<1>4. want \in 1..PartMax
  BY <1>2, <1>3 DEF AtLeast1, Smaller
<1> HIDE DEF want
<1>5. ResolvePartitionCount(req, split) = AtLeast1(Smaller(want, span))
  BY <1>1 DEF ResolvePartitionCount, want, auto
<1> HIDE DEF span
<1>6. span \in Nat
  BY <1>1 DEF span
<1>7. LET n == AtLeast1(Smaller(want, span)) IN n \in 1..PartMax /\ (n > 1 => n <= span)
  BY <1>2, <1>4, <1>6 DEF AtLeast1, Smaller
<1> QED BY <1>5, <1>7 DEF span

(* Of the numbers 1..n that satisfy a condition there is a smallest one.   *)
LEMMA Smallest ==
  ASSUME NEW T \in SUBSET Nat, T # {}
  PROVE  \E x \in T : \A y \in T : x <= y
<1>1. PICK x \in T : \A y \in T : ~(<<y, x>> \in OpToRel(<, Nat))
  BY WFMin, NatLessThanWellFounded
<1>2. \A y \in T : x <= y
  <2> SUFFICES ASSUME NEW y \in T PROVE x <= y
    OBVIOUS
  <2>1. x \in Nat /\ y \in Nat
    OBVIOUS
  <2>2. y < x => <<y, x>> \in OpToRel(<, Nat)
    BY <2>1, Zenon DEF OpToRel
  <2>3. ~(y < x)
    BY <1>1, <2>2, Zenon
  <2> QED BY <2>1, <2>3
<1> QED BY <1>2

(* The slices of a split: each has a value of the extent, and any value is *)
(* in exactly one of them.                                                 *)
Cover(split, n) ==
  /\ \A k \in 0..(n - 1) : Slice(split, n, k) \in [lo : Bounds, hi : Bounds]
  /\ \A k \in 0..(n - 1) : \E v \in split.lo..split.hi : Selects(Slice(split, n, k), {v})
  /\ \A v \in Ints : \E k \in 0..(n - 1) : \A j \in 0..(n - 1) :
       Selects(Slice(split, n, j), {v}) <=> j = k

(* So are those of a split into several slices, if there are no more of    *)
(* them than the extent is long.                                           *)
LEMMA SliceFacts ==
  ASSUME NEW split, split.lo \in Ints, split.hi \in Ints, split.lo <= split.hi,
         NEW n \in 1..PartMax, n > 1, n <= split.hi - split.lo
  PROVE  Cover(split, n)
<1> DEFINE span == split.hi - split.lo
           B(k) == split.lo + Offset(span, n, k)
           N == 0..(n - 1)
<1>1. Half \in Nat /\ Ints = (0 - Half)..(Half - 1) /\ PartMax \in Nat
  BY PartitionAssumption DEF Ints
<1>2. n \in Nat \ {0} /\ span \in Nat /\ n <= span /\ split.lo \in Int /\ split.hi \in Int
  BY <1>1
<1>3. \A k \in N : SplitBoundary(split.lo, split.hi, n, k) = B(k)
  BY BoundaryFacts
<1>4. \A k \in N : B(k) \in split.lo..split.hi
  <2> SUFFICES ASSUME NEW k \in N PROVE B(k) \in split.lo..split.hi
    OBVIOUS
  <2> HIDE DEF span
  <2>1. k \in 0..n
    BY <1>2
  <2>2. Offset(span, n, k) \in 0..span
    BY <1>2, <2>1, OffsetFacts
  <2> QED BY <1>2, <2>2 DEF span
<1>5. \A i, j \in N : i < j => B(i) < B(j)
  <2> SUFFICES ASSUME NEW i \in N, NEW j \in N, i < j PROVE B(i) < B(j)
    OBVIOUS
  <2>1. i \in 0..n /\ j \in 0..n
    BY <1>2
  <2> DEFINE x == Offset(span, n, i)  y == Offset(span, n, j)
  <2> HIDE DEF span
  <2>2. x < y /\ x \in 0..span /\ y \in 0..span
    BY <1>2, <2>1, OffsetFacts, OffsetsIncrease
  <2> HIDE DEF x, y
  <2>3. split.lo + x < split.lo + y
    BY <1>2, <2>2
  <2> QED BY <2>3 DEF x, y
<1>6. \A k \in N : k # n - 1 => k + 1 \in N
  BY <1>2
<1>7. \A k \in N : Slice(split, n, k) = [lo |-> IF k = 0 THEN {} ELSE {B(k)},
                                         hi |-> IF k = n - 1 THEN {} ELSE {B(k + 1)}]
  BY <1>3, <1>6 DEF Slice
<1>8. \A k \in N : \A v : Selects(Slice(split, n, k), {v})
                            <=> (k = 0 \/ v >= B(k)) /\ (k = n - 1 \/ v < B(k + 1))
  <2> HIDE DEF B, N
  <2> QED BY <1>7 DEF Selects
<1>9. \A k \in N : B(k) \in Ints
  BY <1>1, <1>4
<1> HIDE DEF B, span
<1>10. \A k \in N : Slice(split, n, k) \in [lo : Bounds, hi : Bounds]
  <2> SUFFICES ASSUME NEW k \in N PROVE Slice(split, n, k) \in [lo : Bounds, hi : Bounds]
    OBVIOUS
  <2>1. B(k) \in Ints /\ (k # n - 1 => B(k + 1) \in Ints)
    BY <1>6, <1>9
  <2> QED BY <1>7, <2>1 DEF Bounds
<1>11. \A k \in N : \E v \in split.lo..split.hi : Selects(Slice(split, n, k), {v})
  <2> SUFFICES ASSUME NEW k \in N PROVE Selects(Slice(split, n, k), {B(k)})
    BY <1>4
  <2>1. B(k) >= B(k) /\ (k = n - 1 \/ B(k) < B(k + 1))
    BY <1>2, <1>4, <1>5, <1>6
  <2> QED BY <1>8, <2>1
<1>12. ASSUME NEW v \in Ints
       PROVE  \E k \in N : \A j \in N : Selects(Slice(split, n, j), {v}) <=> j = k
  <2> DEFINE T == {k \in 1..(n - 1) : v < B(k)}
  <2>1. v \in Int /\ \A k \in N : B(k) \in Int
    BY <1>1, <1>9
  <2>2. CASE T = {}
    <3>1. \A k \in N : k # 0 => v >= B(k)
      <4> SUFFICES ASSUME NEW k \in N, k # 0 PROVE v >= B(k)
        OBVIOUS
      <4>1. k \in 1..(n - 1)
        BY <1>2
      <4>2. ~(v < B(k))
        BY <2>2, <4>1
      <4> QED BY <2>1, <4>2
    <3>2. n - 1 \in N
      BY <1>2
    <3>3. \A j \in N : Selects(Slice(split, n, j), {v}) <=> j = n - 1
      <4> SUFFICES ASSUME NEW j \in N PROVE Selects(Slice(split, n, j), {v}) <=> j = n - 1
        OBVIOUS
      <4>1. CASE j = n - 1
        BY <1>8, <3>1, <4>1
      <4>2. CASE j # n - 1
        <5>1. j + 1 \in N /\ j + 1 # 0
          BY <1>2, <1>6, <4>2
        <5>2. ~(v < B(j + 1))
          BY <2>1, <3>1, <5>1
        <5> QED BY <1>8, <4>2, <5>2
      <4> QED BY <4>1, <4>2
    <3> QED BY <3>2, <3>3
  <2>3. CASE T # {}
    <3>1. PICK m \in T : \A y \in T : m <= y
      <4>1. T \in SUBSET Nat
        OBVIOUS
      <4> HIDE DEF T
      <4> QED BY <2>3, <4>1, Smallest
    <3>2. m \in N /\ m \in Nat /\ m >= 1 /\ m - 1 \in N /\ (m - 1) + 1 = m /\ m - 1 # n - 1 /\ v < B(m)
      BY <1>2, <3>1
    <3>3. \A k \in N : k # 0 /\ k < m => v >= B(k)
      <4> SUFFICES ASSUME NEW k \in N, k # 0, k < m PROVE v >= B(k)
        OBVIOUS
      <4>1. k \in 1..(n - 1) /\ ~(m <= k)
        BY <1>2, <3>2
      <4>2. ~(v < B(k))
        BY <3>1, <4>1
      <4> QED BY <2>1, <4>2
    <3>4. \A k \in N : k >= m => v < B(k)
      <4> SUFFICES ASSUME NEW k \in N, k >= m PROVE v < B(k)
        OBVIOUS
      <4>1. k = m \/ B(m) < B(k)
        BY <1>5, <3>2
      <4> QED BY <2>1, <3>2, <4>1
    <3>5. \A j \in N : Selects(Slice(split, n, j), {v}) <=> j = m - 1
      <4> SUFFICES ASSUME NEW j \in N PROVE Selects(Slice(split, n, j), {v}) <=> j = m - 1
        OBVIOUS
      <4>1. CASE j = m - 1
        <5>1. j = 0 \/ v >= B(j)
          BY <3>2, <3>3, <4>1
        <5> QED BY <1>8, <3>2, <4>1, <5>1
      <4>2. CASE j >= m
        <5>1. j # 0 /\ v < B(j)
          BY <3>2, <3>4, <4>2
        <5>2. ~(v >= B(j))
          BY <2>1, <5>1
        <5> QED BY <1>8, <3>2, <4>2, <5>1, <5>2
      <4>3. CASE j < m - 1
        <5>1. j # n - 1 /\ j + 1 \in N /\ j + 1 # 0 /\ j + 1 < m
          BY <1>2, <3>2, <4>3
        <5>2. ~(v < B(j + 1))
          BY <2>1, <3>3, <5>1
        <5> QED BY <1>8, <4>3, <5>1, <5>2
      <4>4. j \in Int /\ m \in Int
        BY <3>2
      <4> QED BY <4>1, <4>2, <4>3, <4>4
    <3> QED BY <3>2, <3>5
  <2> QED BY <2>2, <2>3
<1> QED BY <1>10, <1>11, <1>12 DEF Cover

-----------------------------------------------------------------------------
(* A plan for the table at hand.                                           *)

(* Before there is a plan nothing has been read.                           *)
LEMMA SplitInit == Init => SplitInv
<1> SUFFICES ASSUME Init PROVE SplitInv
  OBVIOUS
<1>1. DOMAIN slices = {} /\ slices = <<>> /\ unread = {} /\ hits = 0 /\ pc = "plan"
  BY DEF Init
<1>2. Cardinality(DOMAIN slices) <= PartMax
  BY <1>1, FS_EmptySet, PartitionAssumption
<1>3. value \in Bounds /\ (value = {} => MayBeNull(table)) /\ table \in Tables /\ requested \in Requests
  BY DEF Init, Bounds
<1>4. TypeOK
  BY <1>1, <1>2, <1>3 DEF TypeOK
<1> QED BY <1>1, <1>3, <1>4
    DEF SplitInv, OneSliceHasRow, HitsTellRead, EverySliceHasWork

(* The plan has one slice for the row, and work in every slice.            *)
LEMMA PlanStep ==
  ASSUME SplitInv, NEW simple \in BOOLEAN, ExecutePartitions(simple)
  PROVE  SplitInv'
<1> DEFINE split == ChooseSplit(table)
           n     == ResolvePartitionCount(requested, split)
           whole == requested = 1 \/ ~simple \/ split.kind = "none" \/ n <= 1
<1>1. /\ table \in Tables /\ requested \in Requests /\ value \in Bounds /\ hits \in Nat
      /\ value = {} => MayBeNull(table)
  BY DEF SplitInv, TypeOK
<1>2. /\ slices' = IF whole THEN [k \in {0} |-> Whole] ELSE [k \in 0..(n - 1) |-> Slice(split, n, k)]
      /\ unread' = DOMAIN slices' /\ pc' = "read"
      /\ table' = table /\ requested' = requested /\ value' = value /\ hits' = hits /\ pc = "plan"
  BY DEF ExecutePartitions
<1>3. hits = 0
  <2>1. DOMAIN slices = {}
    BY <1>2 DEF SplitInv
  <2> QED BY <2>1 DEF SplitInv, HitsTellRead
<1>4. /\ requested \in Nat /\ PartMax \in Nat \ {0}
  BY <1>1, PartitionAssumption
<1>5. HitsTellRead'
  BY <1>2, <1>3 DEF HitsTellRead
<1>6. CASE whole
  <2>1. slices' = [k \in {0} |-> Whole] /\ DOMAIN slices' = {0}
    BY <1>2, <1>6
  <2>2. Cardinality(DOMAIN slices') = 1
    BY <2>1, FS_Singleton
  <2>3. \A k \in DOMAIN slices' : slices'[k] = Whole
    BY <2>1
  <2>4. Whole \in [lo : Bounds, hi : Bounds] /\ Selects(Whole, value)
    BY DEF Whole, Bounds, Selects
  <2>5. TypeOK'
    <3>1. /\ Cardinality(DOMAIN slices') <= PartMax
          /\ \A k \in DOMAIN slices' : slices'[k] \in [lo : Bounds, hi : Bounds]
          /\ unread' \subseteq DOMAIN slices'
      BY <1>2, <1>4, <2>2, <2>3, <2>4
    <3> HIDE DEF split, n, whole
    <3> QED BY <1>1, <1>2, <3>1 DEF TypeOK
  <2>6. OneSliceHasRow'
    <3>1. 0 \in DOMAIN slices' /\ \A j \in DOMAIN slices' : Selects(slices'[j], value) <=> j = 0
      BY <2>1, <2>3, <2>4
    <3> QED BY <1>2, <3>1 DEF OneSliceHasRow, Selects
  <2>7. EverySliceHasWork'
    BY <2>2 DEF EverySliceHasWork
  <2> QED BY <1>1, <1>2, <1>5, <2>5, <2>6, <2>7 DEF SplitInv, MayBeNull
<1>7. CASE ~whole
  <2>1. split.kind # "none" /\ ~(n <= 1)
    BY <1>7
  <2>2. /\ split.lo \in Ints /\ split.hi \in Ints /\ split.lo <= split.hi /\ split.auto \in Int
        /\ ~MayBeNull(table)
    BY <1>1, <2>1, ChooseFacts
  <2>3. PICK v \in Ints : value = {v}
    BY <1>1, <2>2 DEF Bounds
  <2>4. slices' = [k \in 0..(n - 1) |-> Slice(split, n, k)]
    BY <1>2, <1>7
  <2> HIDE DEF whole
  <2>5. n \in 1..PartMax /\ (n > 1 => n <= split.hi - split.lo)
    <3> HIDE DEF split
    <3> QED BY <1>4, <2>2, CountFacts
  <2>6. n \in Nat /\ n > 1 /\ n <= split.hi - split.lo /\ n <= PartMax
    BY <1>4, <2>1, <2>5
  <2> DEFINE N == 0..(n - 1)
  <2> HIDE DEF n
  <2>7. /\ \A k \in N : Slice(split, n, k) \in [lo : Bounds, hi : Bounds]
        /\ \A k \in N : \E x \in split.lo..split.hi : Selects(Slice(split, n, k), {x})
        /\ \E k \in N : \A j \in N : Selects(Slice(split, n, j), {v}) <=> j = k
    <3> HIDE DEF split
    <3>1. Cover(split, n)
      BY <2>2, <2>5, <2>6, SliceFacts
    <3> QED BY <2>3, <3>1, Zenon DEF Cover
  <2>8. DOMAIN slices' = N /\ \A k \in N : slices'[k] = Slice(split, n, k)
    BY <2>4
  <2>9. Cardinality(N) = n
    BY <2>6, FS_Interval
  <2> HIDE DEF N
  <2>10. TypeOK'
    BY <1>1, <1>2, <1>4, <2>6, <2>7, <2>8, <2>9 DEF TypeOK
  <2>11. OneSliceHasRow'
    <3>1. PICK k \in N : \A j \in N : Selects(Slice(split, n, j), {v}) <=> j = k
      BY <2>7
    <3>2. \A j \in DOMAIN slices' : Selects(slices'[j], value') <=> j = k
      BY <1>2, <2>3, <2>8, <3>1
    <3> QED BY <2>8, <3>1, <3>2 DEF OneSliceHasRow, Selects
  <2>12. EverySliceHasWork'
    <3>1. ChooseSplit(table)' = split
      BY <1>2
    <3> HIDE DEF split
    <3>2. \A k \in DOMAIN slices' : \E x \in split.lo..split.hi : Selects(slices'[k], {x})
      BY <2>7, <2>8
    <3> QED BY <3>1, <3>2 DEF EverySliceHasWork, Selects
  <2> QED BY <1>1, <1>2, <1>5, <2>10, <2>11, <2>12 DEF SplitInv, MayBeNull
<1> QED BY <1>6, <1>7

(* Reading a slice counts the row if it is the one that has it.            *)
LEMMA ReadStep ==
  ASSUME SplitInv, NEW k \in unread, ReadPartition(k)
  PROVE  SplitInv'
<1>1. /\ pc = "read" /\ table' = table /\ requested' = requested /\ value' = value
      /\ slices' = slices /\ pc' = pc /\ unread' = unread \ {k}
      /\ hits' = IF Selects(slices[k], value) THEN hits + 1 ELSE hits
  BY DEF ReadPartition
<1>2. k \in DOMAIN slices /\ unread \subseteq DOMAIN slices /\ hits \in Nat
  BY DEF SplitInv, TypeOK
<1>3. PICK m \in DOMAIN slices : \A j \in DOMAIN slices : Selects(slices[j], value) <=> j = m
  BY <1>1 DEF SplitInv, OneSliceHasRow
<1>4. hits = IF m \in unread THEN 0 ELSE 1
  BY <1>2, <1>3 DEF SplitInv, HitsTellRead
<1>5. hits' = IF m \in unread' THEN 0 ELSE 1
  BY <1>1, <1>2, <1>3, <1>4
<1>6. HitsTellRead'
  <2>1. (\E j \in DOMAIN slices' \ unread' : Selects(slices'[j], value')) <=> m \notin unread'
    BY <1>1, <1>3
  <2> QED BY <1>5, <2>1 DEF HitsTellRead, Selects
<1>7. TypeOK'
  BY <1>1, <1>2 DEF SplitInv, TypeOK
<1>8. OneSliceHasRow' /\ EverySliceHasWork'
  BY <1>1 DEF SplitInv, OneSliceHasRow, EverySliceHasWork, Selects
<1> QED BY <1>1, <1>6, <1>7, <1>8 DEF SplitInv, MayBeNull

(* For every table, width, cap and number asked for: the plan is a cover   *)
(* of the rows by disjoint slices, and stays one while it is read.         *)
THEOREM SplitAlways == Spec => []SplitInv
<1>1. SplitInv /\ [Next]_vars => SplitInv'
  <2> SUFFICES ASSUME SplitInv, [Next]_vars PROVE SplitInv'
    OBVIOUS
  <2>1. CASE \E simple \in ParseSimpleSelect : ExecutePartitions(simple)
    BY <2>1, PlanStep DEF ParseSimpleSelect
  <2>2. CASE ExecuteFails
    BY <2>2 DEF ExecuteFails, SplitInv, TypeOK, OneSliceHasRow, HitsTellRead, EverySliceHasWork,
                MayBeNull
  <2>3. CASE \E k \in unread : ReadPartition(k)
    BY <2>3, ReadStep
  <2>4. CASE Finished \/ UNCHANGED vars
    <3>1. UNCHANGED vars
      BY <2>4 DEF Finished
    <3> QED BY <3>1 DEF vars, SplitInv, TypeOK, OneSliceHasRow, HitsTellRead, EverySliceHasWork,
                        MayBeNull
  <2> QED BY <2>1, <2>2, <2>3, <2>4 DEF Next
<1> QED BY <1>1, SplitInit, PTL DEF Spec

(* Reading every slice returns each row exactly once, whatever its key,    *)
(* and no slice is without work.                                           *)
THEOREM RowIsReadOnceAlways == Spec => []RowIsReadOnce
<1>1. SplitInv => RowIsReadOnce
  <2> SUFFICES ASSUME SplitInv PROVE RowIsReadOnce
    OBVIOUS
  <2>1. hits <= 1
    BY DEF SplitInv, HitsTellRead
  <2>2. ASSUME pc = "read", unread = {} PROVE hits = 1
    BY <2>2 DEF SplitInv, HitsTellRead, OneSliceHasRow
  <2> QED BY <2>1, <2>2 DEF SplitInv, RowIsReadOnce
<1> QED BY <1>1, SplitAlways, PTL
=============================================================================
