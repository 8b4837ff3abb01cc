------------------------- MODULE PendingScanProofs -------------------------
(***************************************************************************)
(* The scan for the next claimable range is correct for every batch: on    *)
(* every finite set of non-empty occupied ranges FindFirstGap computes     *)
(* ReferenceGap.                                                           *)
(***************************************************************************)
EXTENDS PendingScan, TLAPS, FiniteSetTheorems, FunctionTheorems, WellFoundedInduction

(* Induction, for the set of the naturals that have a property. *)
LEMMA NatSetInduction ==
  ASSUME NEW S, 0 \in S, \A n \in Nat : n \in S => n + 1 \in S
  PROVE  Nat \subseteq S
<1> SUFFICES ASSUME Nat \ S # {} PROVE FALSE
  OBVIOUS
<1> DEFINE R == OpToRel(<, Nat)
<1>1. \E x \in Nat \ S : \A y \in Nat \ S : ~(<<y, x>> \in R)
  BY NatLessThanWellFounded, WFMin
<1>2. PICK x \in Nat \ S : \A y \in Nat \ S : ~(<<y, x>> \in R)
  BY <1>1
<1>3. \A y \in Nat : y < x => <<y, x>> \in R
  BY DEF OpToRel
<1> HIDE DEF R
<1>4. x # 0 /\ x - 1 \in Nat /\ x - 1 < x
  OBVIOUS
<1>5. x - 1 \in S
  BY <1>2, <1>3, <1>4
<1> QED BY <1>4, <1>5

(* A non-empty set of naturals has a least element, ... *)
LEMMA LeastExists ==
  ASSUME NEW S \in SUBSET Nat, S # {}
  PROVE  \E x \in S : \A y \in S : x <= y
<1> DEFINE R == OpToRel(<, Nat)
<1>1. PICK x \in S : \A y \in S : ~(<<y, x>> \in R)
  BY NatLessThanWellFounded, WFMin
<1>2. \A y \in Nat : y < x => <<y, x>> \in R
  BY DEF OpToRel
<1> HIDE DEF R
<1>3. ASSUME NEW y \in S PROVE x <= y
  <2>1. ~(y < x)
    BY <1>1, <1>2
  <2> QED BY <2>1
<1> QED BY <1>3

(* ... which Min returns. *)
LEMMA MinLeast ==
  ASSUME NEW S \in SUBSET Nat, S # {}
  PROVE  Min(S) \in S /\ \A y \in S : Min(S) <= y
BY LeastExists DEF Min

(* A non-empty set of naturals up to n has a greatest element. *)
LEMMA MaxGreatest ==
  ASSUME NEW n \in Nat, NEW S \in SUBSET (0..n), S # {}
  PROVE  Max(S) \in S /\ \A y \in S : Max(S) >= y
<1> DEFINE D == {n - x : x \in S}
<1>1. D \in SUBSET Nat
  OBVIOUS
<1>5. D # {}
  <2>1. PICK x \in S : TRUE
    OBVIOUS
  <2>2. n - x \in D
    OBVIOUS
  <2> QED BY <2>2
<1>2. PICK d \in D : \A y \in D : d <= y
  BY <1>1, <1>5, LeastExists
<1>3. PICK x \in S : d = n - x
  OBVIOUS
<1>4. ASSUME NEW y \in S PROVE x >= y
  <2>1. n - y \in D
    OBVIOUS
  <2>2. n - x <= n - y
    BY <1>2, <1>3, <2>1
  <2> QED BY <2>2
<1> QED BY <1>3, <1>4 DEF Max
----------------------------------------------------------------------------
(* The loop over a sequence *)

(* The loop, as an operator of its own. *)
ScanAll(base, seq) == FoldLeft(ScanStep, base, seq)

(* What the fold over seq unfolds to: f has the result for every set of    *)
(* positions.                                                              *)
Unfolds(f, base, seq, n) ==
  f = [s \in SUBSET (1..n) |->
         IF s = {} THEN base ELSE ScanStep(f[s \ {Max(s)}], seq[Max(s)])]

(* Such an f exists, for every length. *)
LEMMA UnfoldExists ==
  ASSUME NEW base, NEW seq
  PROVE  \A n \in Nat : \E f : Unfolds(f, base, seq, n)
<1> DEFINE S == {n \in Nat : \E f : Unfolds(f, base, seq, n)}
<1>1. 0 \in S
  <2> DEFINE f == [s \in SUBSET (1..0) |-> base]
  <2>1. \A s \in SUBSET (1..0) : s = {}
    OBVIOUS
  <2>2. Unfolds(f, base, seq, 0)
    BY <2>1 DEF Unfolds
  <2> QED BY <2>2
<1>2. ASSUME NEW n \in Nat, n \in S
      PROVE  n + 1 \in S
  <2>1. PICK f : Unfolds(f, base, seq, n)
    BY <1>2
  <2> DEFINE top(s) == IF n + 1 \in s THEN ScanStep(f[s \ {n + 1}], seq[n + 1]) ELSE f[s]
             g == [s \in SUBSET (1..(n + 1)) |-> top(s)]
             h == [s \in SUBSET (1..(n + 1)) |->
                     IF s = {} THEN base ELSE ScanStep(g[s \ {Max(s)}], seq[Max(s)])]
  <2>2. ASSUME NEW s \in SUBSET (1..(n + 1)), s # {}
        PROVE  Max(s) \in s /\ \A y \in s : Max(s) >= y
    BY <2>2, MaxGreatest, s \in SUBSET (0..(n + 1)), n + 1 \in Nat
  <2>3. ASSUME NEW s \in SUBSET (1..(n + 1))
        PROVE  g[s] = h[s]
    <3>1. CASE s = {}
      BY <3>1, <2>1 DEF Unfolds
    <3>2. CASE s # {} /\ n + 1 \in s
      <4>1. Max(s) = n + 1
        <5>1. /\ Max(s) \in s /\ \A y \in s : Max(s) >= y
          BY <3>2, <2>2
        <5>2. Max(s) \in 1..(n + 1) /\ Max(s) >= n + 1
          BY <5>1, <3>2
        <5> QED BY <5>2
      <4>2. s \ {n + 1} \in SUBSET (1..n)
        OBVIOUS
      <4>3. g[s \ {n + 1}] = f[s \ {n + 1}]
        BY <4>2
      <4> QED BY <3>2, <4>1, <4>3
    <3>3. CASE s # {} /\ n + 1 \notin s
      <4>1. s \in SUBSET (1..n)
        BY <3>3
      <4>2. f[s] = ScanStep(f[s \ {Max(s)}], seq[Max(s)])
        BY <2>1, <3>3, <4>1 DEF Unfolds
      <4>3. g[s \ {Max(s)}] = f[s \ {Max(s)}]
        <5>1. s \ {Max(s)} \in SUBSET (1..(n + 1)) /\ n + 1 \notin s \ {Max(s)}
          BY <3>3
        <5> QED BY <5>1
      <4> QED BY <3>3, <4>2, <4>3
    <3> QED BY <3>1, <3>2, <3>3
  <2>4. g = h
    <3> HIDE DEF top
    <3> QED BY <2>3
  <2>5. Unfolds(g, base, seq, n + 1)
    BY <2>4 DEF Unfolds
  <2> QED BY <2>5
<1>3. Nat \subseteq S
  BY <1>1, <1>2, NatSetInduction
<1> QED BY <1>3

(* The fold runs the loop body once per element, from the first to the     *)
(* last: h has the accumulator after every iteration.                      *)
LEMMA FoldRunsLoop ==
  ASSUME NEW base, NEW n \in Nat, NEW seq, DOMAIN seq = 1..n
  PROVE  \E h : /\ h[0] = base
                /\ \A k \in 1..n : h[k] = ScanStep(h[k - 1], seq[k])
                /\ ScanAll(base, seq) = h[n]
<1> DEFINE f == CHOOSE f : Unfolds(f, base, seq, n)
           h == [k \in 0..n |-> f[1..k]]
<1>1. Unfolds(f, base, seq, n)
  BY UnfoldExists
<1>2. ScanAll(base, seq) = f[1..n]
  BY DEF ScanAll, FoldLeft, MapThenFoldSet, Unfolds
<1> HIDE DEF f
<1>3. h[0] = base
  BY <1>1 DEF Unfolds
<1>4. ASSUME NEW k \in 1..n
      PROVE  h[k] = ScanStep(h[k - 1], seq[k])
  <2>1. 1..k \in SUBSET (1..n)
    OBVIOUS
  <2>2. 1..k \in SUBSET (0..n)
    OBVIOUS
  <2>3. k \in 1..k
    OBVIOUS
  <2>4. Max(1..k) \in 1..k /\ \A y \in 1..k : Max(1..k) >= y
    BY <2>2, <2>3, MaxGreatest
  <2>5. Max(1..k) = k
    BY <2>3, <2>4
  <2>6. (1..k) \ {k} = 1..(k - 1)
    OBVIOUS
  <2>7. f[1..k] = ScanStep(f[1..(k - 1)], seq[k])
    BY <1>1, <2>1, <2>3, <2>5, <2>6 DEF Unfolds
  <2>8. h[k] = f[1..k] /\ h[k - 1] = f[1..(k - 1)]
    OBVIOUS
  <2> QED BY <2>7, <2>8
<1>5. h[n] = f[1..n]
  OBVIOUS
<1> HIDE DEF h
<1> QED BY <1>2, <1>3, <1>4, <1>5
----------------------------------------------------------------------------
(* Sorting *)

RowRange == [start : Nat, end : Nat]

InOrderOf(s, S) ==
  /\ s \in [1..Cardinality(S) -> S]
  /\ IsInjective(s)
  /\ \A i, j \in DOMAIN s : i < j => s[i].start <= s[j].start

(* Every finite set of ranges can be sorted: its first range, then the     *)
(* others in order.                                                        *)
LEMMA SortExists ==
  ASSUME NEW X \in SUBSET RowRange, IsFiniteSet(X)
  PROVE  \E s : InOrderOf(s, X)
<1> DEFINE OfSize(n) == {S \in SUBSET RowRange : IsFiniteSet(S) /\ Cardinality(S) = n}
           N == {n \in Nat : \A S \in OfSize(n) : \E s : InOrderOf(s, S)}
<1>1. 0 \in N
  <2> SUFFICES ASSUME NEW S \in OfSize(0)
               PROVE  \E s : InOrderOf(s, S)
    OBVIOUS
  <2> DEFINE s == [i \in 1..0 |-> {}]
  <2>1. InOrderOf(s, S)
    BY DEF InOrderOf, IsInjective
  <2> QED BY <2>1
<1>2. ASSUME NEW n \in Nat, n \in N
      PROVE  n + 1 \in N
  <2> SUFFICES ASSUME NEW S \in OfSize(n + 1)
               PROVE  \E s : InOrderOf(s, S)
    OBVIOUS
  <2>1. S # {}
    BY FS_EmptySet
  <2> DEFINE starts == {r.start : r \in S}
  <2>2. starts \in SUBSET Nat
    BY DEF RowRange
  <2>3. starts # {}
    <3>1. PICK r \in S : TRUE
      BY <2>1
    <3>2. r.start \in starts
      OBVIOUS
    <3> QED BY <3>2
  <2>4. PICK m \in starts : \A y \in starts : m <= y
    BY <2>2, <2>3, LeastExists
  <2>5. PICK r \in S : r.start = m
    OBVIOUS
  <2>6. \A x \in S : r.start <= x.start
    BY <2>4, <2>5
  <2>7. S \ {r} \in OfSize(n)
    <3>1. IsFiniteSet(S) /\ Cardinality(S) = n + 1 /\ S \in SUBSET RowRange
      OBVIOUS
    <3>2. /\ IsFiniteSet(S \ {r})
          /\ Cardinality(S \ {r}) = IF r \in S THEN Cardinality(S) - 1 ELSE Cardinality(S)
      BY <3>1, FS_RemoveElement, Zenon
    <3> QED BY <3>1, <3>2
  <2>8. PICK s : InOrderOf(s, S \ {r})
    BY <2>7, <1>2
  <2>9. s \in [1..n -> S \ {r}]
    BY <2>7, <2>8 DEF InOrderOf
  <2> DEFINE t == [i \in 1..(n + 1) |-> IF i = 1 THEN r ELSE s[i - 1]]
  <2>10. \A i \in 2..(n + 1) : i - 1 \in 1..n /\ t[i] = s[i - 1] /\ t[i] \in S \ {r}
    BY <2>9
  <2>11. t[1] = r /\ DOMAIN t = 1..(n + 1)
    OBVIOUS
  <2>12. DOMAIN s = 1..n
    BY <2>9
  <2> HIDE DEF t
  <2>13. \A i \in 1..(n + 1) : i = 1 \/ i \in 2..(n + 1)
    OBVIOUS
  <2>14. IsInjective(t)
    <3> SUFFICES ASSUME NEW i \in 1..(n + 1), NEW j \in 1..(n + 1), t[i] = t[j]
                 PROVE  i = j
      BY <2>11 DEF IsInjective
    <3>1. CASE i = 1 \/ j = 1
      BY <3>1, <2>10, <2>11, <2>13
    <3>2. CASE i \in 2..(n + 1) /\ j \in 2..(n + 1)
      <4>1. s[i - 1] = s[j - 1] /\ i - 1 \in 1..n /\ j - 1 \in 1..n
        BY <3>2, <2>10
      <4>2. i - 1 = j - 1
        BY <4>1, <2>8, <2>12 DEF InOrderOf, IsInjective
      <4> QED BY <4>2
    <3> QED BY <3>1, <3>2, <2>13
  <2>15. ASSUME NEW i \in 1..(n + 1), NEW j \in 1..(n + 1), i < j
         PROVE  t[i].start <= t[j].start
    <3>1. j \in 2..(n + 1)
      BY <2>15
    <3>2. CASE i = 1
      BY <3>1, <3>2, <2>6, <2>10, <2>11
    <3>3. CASE i \in 2..(n + 1)
      <4>1. i - 1 < j - 1 /\ i - 1 \in 1..n /\ j - 1 \in 1..n
        BY <3>1, <3>3, <2>15
      <4>2. s[i - 1].start <= s[j - 1].start
        BY <4>1, <2>8, <2>12 DEF InOrderOf
      <4> QED BY <4>2, <3>1, <3>3, <2>10
    <3> QED BY <3>2, <3>3, <2>13
  <2>16. t \in [1..Cardinality(S) -> S]
    <3>1. Cardinality(S) = n + 1
      OBVIOUS
    <3>2. \A i \in 1..(n + 1) : t[i] \in S
      BY <2>10, <2>11, <2>13
    <3> QED BY <3>1, <3>2, <2>11 DEF t
  <2> QED BY <2>11, <2>14, <2>15, <2>16 DEF InOrderOf
<1>3. Nat \subseteq N
  BY <1>1, <1>2, NatSetInduction
<1>4. Cardinality(X) \in Nat
  BY FS_CardinalityType
<1>5. X \in OfSize(Cardinality(X))
  OBVIOUS
<1> QED BY <1>3, <1>4, <1>5

(* What the scan iterates over: all the occupied ranges, in order. *)
LEMMA SortedRanges ==
  ASSUME NEW X \in SUBSET RowRange, IsFiniteSet(X)
  PROVE  /\ InOrderOf(SortByStart(X), X)
         /\ \A r \in X : \E i \in 1..Cardinality(X) : SortByStart(X)[i] = r
<1> DEFINE s == SortByStart(X)
           n == Cardinality(X)
<1>1. InOrderOf(s, X)
  BY SortExists DEF SortByStart, InOrderOf
<1>2. n \in Nat
  BY FS_CardinalityType
<1>3. s \in [1..n -> X] /\ \A a, b \in 1..n : s[a] = s[b] => a = b
  BY <1>1 DEF InOrderOf, IsInjective
<1> HIDE DEF s, n
<1>4. Cardinality(1..n) = n
  BY <1>2, FS_Interval
<1>5. s \in Injection(1..n, X)
  BY <1>3, Fun_IsInj
<1>6. s \in Surjection(1..n, X)
  BY <1>4, <1>5, FS_Injection DEF n
<1>7. \A r \in X : \E i \in 1..n : s[i] = r
  BY <1>6, Fun_SurjectionProperties DEF Surjection
<1> QED BY <1>1, <1>7 DEF s, n
----------------------------------------------------------------------------
(* The loop *)

(* Max, as the loop uses it. *)
LEMMA LargerOfTwo ==
  ASSUME NEW a \in Nat, NEW b \in Nat
  PROVE  /\ Max({a, b}) \in Nat
         /\ Max({a, b}) = IF a < b THEN b ELSE a
<1> DEFINE m == IF a < b THEN b ELSE a
<1>1. m \in {a, b} /\ \A y \in {a, b} : m >= y
  OBVIOUS
<1>2. \A x \in {a, b} : (\A y \in {a, b} : x >= y) => x = m
  OBVIOUS
<1>3. Max({a, b}) = m
  BY <1>1, <1>2 DEF Max
<1> QED BY <1>3

Accumulator == [found : BOOLEAN, cursor : Nat, gapEnd : Nat]

(* One iteration, without the record updates. *)
LEMMA StepEffect ==
  ASSUME NEW acc \in Accumulator, NEW r \in RowRange
  PROVE  /\ ScanStep(acc, r) \in Accumulator
         /\ acc.found => ScanStep(acc, r) = acc
         /\ ~acc.found /\ acc.cursor < r.start =>
              /\ ScanStep(acc, r).found
              /\ ScanStep(acc, r).cursor = acc.cursor
              /\ ScanStep(acc, r).gapEnd = r.start
         /\ ~acc.found /\ ~(acc.cursor < r.start) =>
              /\ ~ScanStep(acc, r).found
              /\ ScanStep(acc, r).cursor = IF acc.cursor < r.end THEN r.end ELSE acc.cursor
              /\ ScanStep(acc, r).gapEnd = acc.gapEnd
<1>1. acc.cursor \in Nat /\ r.end \in Nat
  BY DEF Accumulator, RowRange
<1>2. /\ Max({acc.cursor, r.end}) \in Nat
      /\ Max({acc.cursor, r.end}) = IF acc.cursor < r.end THEN r.end ELSE acc.cursor
  BY <1>1, LargerOfTwo
<1> QED BY <1>2 DEF ScanStep, Accumulator, RowRange

(* The rows below the cursor are occupied.  As long as no gap is found,    *)
(* the ranges seen so far end at or before the cursor; the gap, once       *)
(* found, is free, and ends where an occupied range starts.                *)
LoopInv(acc, occupied, totalRows, seen) ==
  /\ acc \in Accumulator
  /\ acc.cursor <= totalRows /\ acc.gapEnd <= totalRows
  /\ \A row \in Nat : row < acc.cursor => Covered(occupied, row)
  /\ ~acc.found => acc.gapEnd = totalRows /\ \A r \in seen : r.end <= acc.cursor
  /\ acc.found => /\ acc.cursor < acc.gapEnd
                  /\ Covered(occupied, acc.gapEnd)
                  /\ \A row \in Nat : acc.cursor <= row /\ row < acc.gapEnd
                                       => ~Covered(occupied, row)

(* One iteration keeps the loop invariant, when the range is the lowest of *)
(* those not seen yet.                                                     *)
LEMMA LoopStep ==
  ASSUME NEW occupied \in SUBSET RowRange, NEW totalRows \in Nat,
         \A x \in occupied : x.start < x.end /\ x.end <= totalRows,
         NEW seen \in SUBSET occupied, NEW r \in occupied,
         \A x \in occupied : x \in seen \/ r.start <= x.start,
         NEW acc, LoopInv(acc, occupied, totalRows, seen)
  PROVE  LoopInv(ScanStep(acc, r), occupied, totalRows, seen \cup {r})
<1> DEFINE new == ScanStep(acc, r)
<1>1. /\ acc \in Accumulator /\ acc.cursor \in Nat /\ acc.gapEnd \in Nat
      /\ r \in RowRange /\ r.start \in Nat /\ r.end \in Nat
      /\ r.start < r.end /\ r.end <= totalRows
  BY DEF LoopInv, Accumulator, RowRange
<1>2. new \in Accumulator
  BY <1>1, StepEffect
<1>3. CASE acc.found
  <2>1. new = acc
    BY <1>1, <1>3, StepEffect
  <2> QED BY <2>1, <1>3 DEF LoopInv
<1>4. CASE ~acc.found /\ acc.cursor < r.start
  <2>1. new.found /\ new.cursor = acc.cursor /\ new.gapEnd = r.start
    BY <1>1, <1>4, StepEffect
  <2> HIDE DEF new
  <2>2. Covered(occupied, r.start)
    BY <1>1 DEF Covered
  <2>3. ASSUME NEW row \in Nat, acc.cursor <= row, row < r.start
        PROVE  ~Covered(occupied, row)
    <3> SUFFICES ASSUME NEW x \in occupied, x.start <= row, row < x.end
                 PROVE  FALSE
      BY DEF Covered
    <3>1. x.start \in Nat /\ x.end \in Nat
      BY DEF RowRange
    <3>2. CASE x \in seen
      BY <3>1, <3>2, <2>3, <1>1, <1>4 DEF LoopInv
    <3>3. CASE r.start <= x.start
      BY <3>1, <3>3, <2>3, <1>1
    <3> QED BY <3>2, <3>3
  <2>4. r.start <= totalRows
    BY <1>1
  <2> QED BY <1>2, <1>4, <2>1, <2>2, <2>3, <2>4 DEF LoopInv, new
<1>5. CASE ~acc.found /\ ~(acc.cursor < r.start)
  <2>1. /\ ~new.found /\ new.gapEnd = acc.gapEnd
        /\ new.cursor = IF acc.cursor < r.end THEN r.end ELSE acc.cursor
    BY <1>1, <1>5, StepEffect
  <2> HIDE DEF new
  <2>2. acc.cursor <= new.cursor /\ r.end <= new.cursor /\ new.cursor <= totalRows
    BY <2>1, <1>1 DEF LoopInv
  <2>3. ASSUME NEW row \in Nat, row < new.cursor
        PROVE  Covered(occupied, row)
    <3>1. CASE row < acc.cursor
      BY <3>1 DEF LoopInv
    <3>2. CASE ~(row < acc.cursor)
      <4>1. r.start <= row /\ row < r.end
        BY <3>2, <2>1, <2>3, <1>1, <1>5
      <4> QED BY <4>1 DEF Covered
    <3> QED BY <3>1, <3>2
  <2>4. new.cursor \in Nat
    BY <2>1, <1>1
  <2>5. ASSUME NEW x \in seen \cup {r}
        PROVE  x.end <= new.cursor
    <3>1. CASE x \in seen
      <4>1. x.end \in Nat /\ x.end <= acc.cursor
        BY <3>1, <1>5 DEF LoopInv, RowRange
      <4> QED BY <4>1, <2>2, <2>4, <1>1
    <3> QED BY <3>1, <2>2
  <2>6. new.gapEnd = totalRows
    BY <2>1, <1>5 DEF LoopInv
  <2> QED BY <1>2, <2>1, <2>2, <2>3, <2>5, <2>6 DEF LoopInv, new
<1> QED BY <1>3, <1>4, <1>5
----------------------------------------------------------------------------
(* The scan *)

(* The iterations of the scan. *)
LEMMA ScanRuns ==
  ASSUME NEW occupied \in SUBSET RowRange, IsFiniteSet(occupied), NEW base
  PROVE  \E h : /\ h[0] = base
                /\ \A k \in 1..Cardinality(occupied) :
                     h[k] = ScanStep(h[k - 1], SortByStart(occupied)[k])
                /\ ScanAll(base, SortByStart(occupied)) = h[Cardinality(occupied)]
<1> DEFINE s == SortByStart(occupied)
           n == Cardinality(occupied)
<1>1. n \in Nat
  BY FS_CardinalityType
<1>2. DOMAIN s = 1..n
  BY SortedRanges DEF InOrderOf
<1> HIDE DEF s, n
<1>3. \E h : /\ h[0] = base
             /\ \A k \in 1..n : h[k] = ScanStep(h[k - 1], s[k])
             /\ ScanAll(base, s) = h[n]
  BY <1>1, <1>2, FoldRunsLoop
<1> QED BY <1>3 DEF s, n

(* The scan of any finite set of ranges returns a range. *)
LEMMA GapType ==
  ASSUME NEW occupied \in SUBSET RowRange, IsFiniteSet(occupied), NEW totalRows \in Nat
  PROVE  FindFirstGap(occupied, totalRows) \in RowRange
<1> DEFINE s == SortByStart(occupied)
           n == Cardinality(occupied)
           base == ScanStart(totalRows)
<1>1. n \in Nat
  BY FS_CardinalityType
<1>2. s \in [1..n -> occupied]
  BY SortedRanges DEF InOrderOf
<1> HIDE DEF s, n, base
<1>3. PICK h : /\ h[0] = base
               /\ \A k \in 1..n : h[k] = ScanStep(h[k - 1], s[k])
               /\ ScanAll(base, s) = h[n]
  BY ScanRuns DEF s, n, base
<1> DEFINE K == {k \in Nat : k <= n => h[k] \in Accumulator}
<1>4. 0 \in K
  <2>1. base \in Accumulator
    BY DEF ScanStart, Accumulator, base
  <2> QED BY <2>1, <1>3
<1>5. ASSUME NEW k \in Nat, k \in K
      PROVE  k + 1 \in K
  <2> SUFFICES ASSUME k + 1 <= n
               PROVE  h[k + 1] \in Accumulator
    OBVIOUS
  <2>1. k + 1 \in 1..n /\ (k + 1) - 1 = k /\ k <= n
    BY <1>1
  <2>2. h[k] \in Accumulator
    BY <2>1, <1>5
  <2>3. s[k + 1] \in RowRange
    BY <2>1, <1>2
  <2>4. h[k + 1] = ScanStep(h[k], s[k + 1])
    BY <2>1, <1>3
  <2> QED BY <2>2, <2>3, <2>4, StepEffect
<1>6. Nat \subseteq K
  BY <1>4, <1>5, NatSetInduction
<1>7. h[n] \in Accumulator
  BY <1>1, <1>6
<1>8. FindFirstGap(occupied, totalRows) =
        IF h[n].cursor < h[n].gapEnd
        THEN [start |-> h[n].cursor, end |-> h[n].gapEnd] ELSE NoRange
  BY <1>3 DEF FindFirstGap, ScanAll, s, base
<1> QED BY <1>7, <1>8 DEF Accumulator, RowRange, NoRange

(* After the last iteration the loop invariant holds for all ranges. *)
LEMMA LoopResult ==
  ASSUME NEW occupied \in SUBSET RowRange, IsFiniteSet(occupied), NEW totalRows \in Nat,
         \A x \in occupied : x.start < x.end /\ x.end <= totalRows
  PROVE  LoopInv(ScanAll(ScanStart(totalRows), SortByStart(occupied)),
                 occupied, totalRows, occupied)
<1> DEFINE s == SortByStart(occupied)
           n == Cardinality(occupied)
           base == ScanStart(totalRows)
<1>1. n \in Nat
  BY FS_CardinalityType
<1>2. /\ s \in [1..n -> occupied]
      /\ \A i, j \in 1..n : i < j => s[i].start <= s[j].start
      /\ \A r \in occupied : \E i \in 1..n : s[i] = r
  BY SortedRanges DEF InOrderOf
<1> HIDE DEF s, n, base
<1>3. PICK h : /\ h[0] = base
               /\ \A k \in 1..n : h[k] = ScanStep(h[k - 1], s[k])
               /\ ScanAll(base, s) = h[n]
  BY ScanRuns DEF s, n, base
<1> DEFINE seen(k) == {s[i] : i \in 1..k}
           K == {k \in Nat : k <= n => LoopInv(h[k], occupied, totalRows, seen(k))}
<1>4. 0 \in K
  <2>1. /\ base \in Accumulator
        /\ base.found = FALSE /\ base.cursor = 0 /\ base.gapEnd = totalRows
    BY DEF ScanStart, Accumulator, base
  <2>2. seen(0) = {}
    OBVIOUS
  <2>3. LoopInv(base, occupied, totalRows, {})
    BY <2>1 DEF LoopInv
  <2> QED BY <2>2, <2>3, <1>3
<1>5. ASSUME NEW k \in Nat, k \in K
      PROVE  k + 1 \in K
  <2> SUFFICES ASSUME k + 1 <= n
               PROVE  LoopInv(h[k + 1], occupied, totalRows, seen(k + 1))
    OBVIOUS
  <2>1. k + 1 \in 1..n /\ (k + 1) - 1 = k /\ k <= n
    BY <1>1
  <2>2. LoopInv(h[k], occupied, totalRows, seen(k))
    BY <2>1, <1>5
  <2>3. s[k + 1] \in occupied
    BY <2>1, <1>2
  <2>4. h[k + 1] = ScanStep(h[k], s[k + 1])
    BY <2>1, <1>3
  <2>5. seen(k) \in SUBSET occupied
    BY <2>1, <1>1, <1>2
  <2>6. seen(k + 1) = seen(k) \cup {s[k + 1]}
    <3>1. 1..(k + 1) = (1..k) \cup {k + 1}
      OBVIOUS
    <3> QED BY <3>1
  <2>7. ASSUME NEW x \in occupied
        PROVE  x \in seen(k) \/ s[k + 1].start <= x.start
    <3>1. PICK i \in 1..n : s[i] = x
      BY <1>2
    <3>2. CASE i \in 1..k
      BY <3>1, <3>2
    <3>3. CASE i = k + 1
      BY <3>1, <3>3 DEF RowRange
    <3>4. CASE k + 1 < i
      BY <3>1, <3>4, <2>1, <1>2
    <3> QED BY <3>2, <3>3, <3>4, <1>1
  <2> HIDE DEF seen
  <2>8. LoopInv(ScanStep(h[k], s[k + 1]), occupied, totalRows, seen(k) \cup {s[k + 1]})
    BY <2>2, <2>3, <2>5, <2>7, LoopStep
  <2> QED BY <2>4, <2>6, <2>8
<1>6. Nat \subseteq K
  BY <1>4, <1>5, NatSetInduction
<1>7. LoopInv(h[n], occupied, totalRows, seen(n))
  <2>1. n \in K /\ n <= n
    BY <1>1, <1>6
  <2> QED BY <2>1
<1>8. seen(n) = occupied
  BY <1>2
<1> QED BY <1>3, <1>7, <1>8 DEF s, base

(* The gap of the loop invariant is the one the reference returns. *)
LEMMA GapIsReference ==
  ASSUME NEW occupied, NEW totalRows \in Nat, NEW first \in Nat, NEW last \in Nat,
         first < last, last <= totalRows,
         last = totalRows \/ Covered(occupied, last),
         \A row \in Nat : row < first => Covered(occupied, row),
         \A row \in Nat : first <= row /\ row < last => ~Covered(occupied, row)
  PROVE  ReferenceGap(occupied, totalRows) = [start |-> first, end |-> last]
<1> DEFINE free == FreeRows(occupied, totalRows)
           stops == {row \in (first + 1)..totalRows : row \notin free}
<1>1. free \in SUBSET Nat /\ first \in free
  BY DEF FreeRows
<1>2. \A row \in free : first <= row
  BY DEF FreeRows
<1>3. Min(free) \in free /\ \A y \in free : Min(free) <= y
  BY <1>1, MinLeast
<1>4. Min(free) = first
  BY <1>1, <1>2, <1>3
<1>5. last \in stops
  BY DEF FreeRows
<1>6. ASSUME NEW row \in stops
      PROVE  last <= row
  BY DEF FreeRows
<1>7. stops \in SUBSET Nat
  OBVIOUS
<1>8. Min(stops) \in stops /\ \A y \in stops : Min(stops) <= y
  BY <1>5, <1>7, MinLeast
<1>9. Min(stops) = last
  BY <1>5, <1>6, <1>7, <1>8
<1> QED BY <1>1, <1>4, <1>9 DEF ReferenceGap

(* For every batch and every set of non-empty occupied ranges within it,   *)
(* disjoint or not, the cursor loop of find_first_pending_claim returns    *)
(* the first free row with the whole run of free rows that starts there,   *)
(* or nothing exactly when every row is occupied.                          *)
THEOREM ScanIsReference ==
  ASSUME NEW occupied \in SUBSET RowRange, IsFiniteSet(occupied), NEW totalRows \in Nat,
         \A x \in occupied : x.start < x.end /\ x.end <= totalRows
  PROVE  FindFirstGap(occupied, totalRows) = ReferenceGap(occupied, totalRows)
<1> DEFINE final == ScanAll(ScanStart(totalRows), SortByStart(occupied))
<1>1. LoopInv(final, occupied, totalRows, occupied)
  BY LoopResult
<1>2. FindFirstGap(occupied, totalRows) =
        IF final.cursor < final.gapEnd
        THEN [start |-> final.cursor, end |-> final.gapEnd] ELSE NoRange
  BY DEF FindFirstGap, ScanAll
<1> HIDE DEF final
<1>3. final.cursor \in Nat /\ final.gapEnd \in Nat /\ final.found \in BOOLEAN
  BY <1>1 DEF LoopInv, Accumulator
<1>4. CASE final.found
  <2>1. ReferenceGap(occupied, totalRows) = [start |-> final.cursor, end |-> final.gapEnd]
    BY <1>1, <1>3, <1>4, GapIsReference DEF LoopInv
  <2> QED BY <2>1, <1>1, <1>2, <1>4 DEF LoopInv
<1>5. CASE ~final.found /\ final.cursor < final.gapEnd
  <2>1. final.gapEnd = totalRows /\ \A r \in occupied : r.end <= final.cursor
    BY <1>1, <1>5 DEF LoopInv
  <2>2. ASSUME NEW row \in Nat, final.cursor <= row
        PROVE  ~Covered(occupied, row)
    <3> SUFFICES ASSUME NEW r \in occupied, row < r.end
                 PROVE  FALSE
      BY DEF Covered
    <3>1. r.end \in Nat /\ r.end <= final.cursor
      BY <2>1 DEF RowRange
    <3> QED BY <3>1, <2>2, <1>3
  <2>3. \A row \in Nat : row < final.cursor => Covered(occupied, row)
    BY <1>1 DEF LoopInv
  <2>4. ReferenceGap(occupied, totalRows) = [start |-> final.cursor, end |-> final.gapEnd]
    BY <1>3, <1>5, <2>1, <2>2, <2>3, GapIsReference
  <2> QED BY <2>4, <1>2, <1>5
<1>6. CASE ~final.found /\ ~(final.cursor < final.gapEnd)
  <2>1. final.cursor = totalRows
    BY <1>1, <1>3, <1>6 DEF LoopInv
  <2>2. FreeRows(occupied, totalRows) = {}
    BY <1>1, <2>1 DEF LoopInv, FreeRows
  <2>3. ReferenceGap(occupied, totalRows) = NoRange
    BY <2>2 DEF ReferenceGap
  <2> QED BY <2>3, <1>2, <1>6
<1> QED BY <1>3, <1>4, <1>5, <1>6
=============================================================================
