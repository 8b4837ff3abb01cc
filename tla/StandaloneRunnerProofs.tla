----------------------- MODULE StandaloneRunnerProofs -----------------------
(***************************************************************************)
(* Proofs about the standalone runner and its dead letter queue, for every *)
(* source, every cut of its arrivals, every fault and every cancellation:  *)
(* the order of finishing, the order of rows, what is accounted for, what  *)
(* a crash may lose and what is stored once.  Then the file sink a batch   *)
(* may go to, which shares no state with the runner: what its file holds.  *)
(***************************************************************************)
EXTENDS StandaloneRunner, FileSink, PendingScanProofs, SequenceTheorems

Batch == Seq(Nat)

(* Concatenation of batches. *)
LEMMA BatchAssociative ==
  ASSUME NEW s \in Batch, NEW t \in Batch, NEW u \in Batch
  PROVE  (s \o t) \o u = s \o (t \o u)
BY ConcatAssociative, SMTT(40) DEF Batch

LEMMA BatchConcat ==
  ASSUME NEW s \in Batch, NEW t \in Batch
  PROVE  /\ s \o t \in Batch
         /\ Len(s \o t) = Len(s) + Len(t)
         /\ \A k \in 1 .. Len(s) : (s \o t)[k] = s[k]
         /\ \A k \in 1 .. Len(t) : (s \o t)[Len(s) + k] = t[k]
         /\ <<>> \in Batch /\ s \o <<>> = s /\ <<>> \o s = s
<1>1. <<>> \in Batch /\ s \o <<>> = s /\ <<>> \o s = s
  BY ConcatEmptySeq DEF Batch
<1>2. /\ s \o t \in Batch
      /\ Len(s \o t) = Len(s) + Len(t)
      /\ \A k \in 1 .. Len(s) : (s \o t)[k] = s[k]
      /\ \A k \in 1 .. Len(t) : (s \o t)[Len(s) + k] = t[k]
  BY DEF Batch
<1> QED BY <1>1, <1>2

----------------------------------------------------------------------------
(* Flattening *)

(* h has the concatenation of every prefix of seqs. *)
ConcatPrefixes(h, seqs) ==
  /\ h \in [0 .. Len(seqs) -> Batch]
  /\ h[0] = <<>>
  /\ \A k \in 1 .. Len(seqs) : h[k] = h[k - 1] \o seqs[k]

(* What FlattenSeq unfolds to, up to position n. *)
Concats(f, seqs, n) ==
  f = [i \in 1 .. n |-> IF i = 1 THEN seqs[i] ELSE f[i - 1] \o seqs[i]]

LEMMA ConcatsExist ==
  ASSUME NEW seqs
  PROVE  \A n \in Nat : \E f : Concats(f, seqs, n)
<1> DEFINE S == {n \in Nat : \E f : Concats(f, seqs, n)}
<1>1. 0 \in S
  <2> DEFINE f == [i \in 1 .. 0 |-> 0]
  <2>1. Concats(f, seqs, 0)
    BY DEF Concats
  <2> QED BY <2>1
<1>2. ASSUME NEW n \in Nat, n \in S
      PROVE  n + 1 \in S
  <2>1. PICK f : Concats(f, seqs, n)
    BY <1>2
  <2> DEFINE last == IF n = 0 THEN seqs[1] ELSE f[n] \o seqs[n + 1]
             g == [i \in 1 .. n + 1 |-> IF i = n + 1 THEN last ELSE f[i]]
             r == [i \in 1 .. n + 1 |-> IF i = 1 THEN seqs[i] ELSE g[i - 1] \o seqs[i]]
  <2>2. ASSUME NEW i \in 1 .. n + 1
        PROVE  g[i] = r[i]
    <3>1. CASE i = n + 1
      BY <3>1
    <3>2. CASE i # n + 1
      <4>1. i \in 1 .. n /\ (i # 1 => i - 1 \in 1 .. n)
        BY <3>2
      <4>2. f[i] = IF i = 1 THEN seqs[i] ELSE f[i - 1] \o seqs[i]
        BY <2>1, <4>1 DEF Concats
      <4> QED BY <3>2, <4>1, <4>2
    <3> QED BY <3>1, <3>2
  <2>3. g = r
    <3> HIDE DEF last
    <3> QED BY <2>2
  <2>4. Concats(g, seqs, n + 1)
    BY <2>3 DEF Concats
  <2> QED BY <2>4
<1>3. Nat \subseteq S
  BY <1>1, <1>2, NatSetInduction
<1> QED BY <1>3

(* Concatenation from the first batch to the last. *)
LEMMA FlattenRuns ==
  ASSUME NEW seqs \in Seq(Batch)
  PROVE  \E h : ConcatPrefixes(h, seqs) /\ FlattenSeq(seqs) = h[Len(seqs)]
<1> DEFINE n == Len(seqs)
           f == CHOOSE f : Concats(f, seqs, n)
           h == [k \in 0 .. n |-> IF k = 0 THEN <<>> ELSE f[k]]
<1>1. n \in Nat /\ \A k \in 1 .. n : seqs[k] \in Batch
  OBVIOUS
<1>2. Concats(f, seqs, n)
  BY <1>1, ConcatsExist
<1>3. n # 0 => FlattenSeq(seqs) = f[n]
  BY DEF FlattenSeq, Concats
<1>4. n = 0 => FlattenSeq(seqs) = <<>>
  BY DEF FlattenSeq
<1> HIDE DEF f
<1>5. \A k \in 1 .. n : f[k] = IF k = 1 THEN seqs[k] ELSE f[k - 1] \o seqs[k]
  BY <1>2 DEF Concats
<1> DEFINE S == {k \in Nat : k \in 1 .. n => f[k] \in Batch}
<1>6. Nat \subseteq S
  <2>1. 0 \in S
    OBVIOUS
  <2>2. ASSUME NEW k \in Nat, k \in S
        PROVE  k + 1 \in S
    <3> SUFFICES ASSUME k + 1 \in 1 .. n
                 PROVE  f[k + 1] \in Batch
      OBVIOUS
    <3>1. CASE k = 0
      BY <1>1, <1>5, <3>1
    <3>2. CASE k # 0
      <4>1. f[k] \in Batch /\ seqs[k + 1] \in Batch
        BY <1>1, <2>2, <3>2
      <4>2. f[k + 1] = f[k] \o seqs[k + 1]
        <5>1. (k + 1) - 1 = k /\ k + 1 # 1
          BY <3>2
        <5> QED BY <1>5, <5>1
      <4> QED BY <4>1, <4>2, BatchConcat
    <3> QED BY <3>1, <3>2
  <2> HIDE DEF S
  <2> QED BY <2>1, <2>2, NatSetInduction
<1>7. \A k \in 1 .. n : f[k] \in Batch
  BY <1>6
<1>8. <<>> \in Batch
  BY DEF Batch
<1>9. h \in [0 .. n -> Batch]
  BY <1>7, <1>8
<1>10. h[0] = <<>> /\ \A k \in 1 .. n : h[k] = f[k]
  OBVIOUS
<1>11. ASSUME NEW k \in 1 .. n
       PROVE  h[k] = h[k - 1] \o seqs[k]
  <2>1. CASE k = 1
    <3>1. <<>> \o seqs[1] = seqs[1]
      BY <1>1, <2>1, BatchConcat
    <3>2. h[1] = seqs[1] /\ h[0] = <<>>
      BY <1>5, <1>10, <2>1
    <3> QED BY <2>1, <3>1, <3>2
  <2>2. CASE k # 1
    <3>1. k - 1 \in 1 .. n
      BY <1>1, <2>2
    <3> HIDE DEF h
    <3> QED BY <1>5, <1>10, <2>2, <3>1
  <2> QED BY <2>1, <2>2
<1>12. FlattenSeq(seqs) = h[n]
  BY <1>1, <1>3, <1>4
<1> HIDE DEF h
<1>13. ConcatPrefixes(h, seqs)
  BY <1>9, <1>10, <1>11 DEF ConcatPrefixes
<1> QED BY <1>12, <1>13

(* Whatever has the prefixes has the same ones. *)
LEMMA PrefixesUnique ==
  ASSUME NEW seqs \in Seq(Batch), NEW g, ConcatPrefixes(g, seqs)
  PROVE  FlattenSeq(seqs) = g[Len(seqs)]
<1>1. PICK h : ConcatPrefixes(h, seqs) /\ FlattenSeq(seqs) = h[Len(seqs)]
  BY FlattenRuns
<1> DEFINE S == {k \in Nat : k \in 0 .. Len(seqs) => g[k] = h[k]}
<1>2. 0 \in S
  BY <1>1 DEF ConcatPrefixes
<1>3. ASSUME NEW k \in Nat, k \in S
      PROVE  k + 1 \in S
  <2> SUFFICES ASSUME k + 1 \in 0 .. Len(seqs)
               PROVE  g[k + 1] = h[k + 1]
    OBVIOUS
  <2>1. k \in 0 .. Len(seqs) /\ k + 1 \in 1 .. Len(seqs) /\ (k + 1) - 1 = k
    OBVIOUS
  <2>2. g[k + 1] = g[k] \o seqs[k + 1] /\ h[k + 1] = h[k] \o seqs[k + 1]
    BY <1>1, <2>1 DEF ConcatPrefixes
  <2> QED BY <1>3, <2>1, <2>2
<1> HIDE DEF S
<1>4. Nat \subseteq S
  BY <1>2, <1>3, NatSetInduction
<1>5. Len(seqs) \in 0 .. Len(seqs) /\ Len(seqs) \in Nat
  OBVIOUS
<1> QED BY <1>1, <1>4, <1>5 DEF S

(* The concatenation of the first batches is a prefix of the whole.        *)
LEMMA FlattenPrefix ==
  ASSUME NEW seqs \in Seq(Batch), NEW h, ConcatPrefixes(h, seqs), NEW n \in 0 .. Len(seqs)
  PROVE  FlattenSeq(SubSeq(seqs, 1, n)) = h[n]
<1> DEFINE first == SubSeq(seqs, 1, n)
           g == [k \in 0 .. n |-> h[k]]
<1>1. first \in Seq(Batch) /\ Len(first) = n /\ \A k \in 1 .. n : first[k] = seqs[k]
  OBVIOUS
<1>2. ConcatPrefixes(g, first)
  <2>1. \A k \in 0 .. n : k \in 0 .. Len(seqs) /\ g[k] = h[k]
    OBVIOUS
  <2>2. g \in [0 .. n -> Batch]
    BY <2>1 DEF ConcatPrefixes
  <2>3. ASSUME NEW k \in 1 .. n PROVE g[k] = g[k - 1] \o first[k]
    <3>1. k \in 1 .. Len(seqs) /\ k - 1 \in 0 .. n /\ k \in 0 .. n
      OBVIOUS
    <3>2. h[k] = h[k - 1] \o seqs[k]
      BY <3>1 DEF ConcatPrefixes
    <3> QED BY <1>1, <2>1, <3>1, <3>2
  <2>4. g[0] = <<>>
    BY DEF ConcatPrefixes
  <2> HIDE DEF first, g
  <2> QED BY <1>1, <2>2, <2>3, <2>4 DEF ConcatPrefixes
<1> HIDE DEF first
<1>3. FlattenSeq(first) = g[n]
  BY <1>1, <1>2, PrefixesUnique
<1> QED BY <1>3 DEF first

(* A batch staged last comes last, ... *)
LEMMA FlattenAppend ==
  ASSUME NEW seqs \in Seq(Batch), NEW x \in Batch
  PROVE  /\ FlattenSeq(Append(seqs, x)) = FlattenSeq(seqs) \o x
         /\ FlattenSeq(seqs) \in Batch
<1> DEFINE more == Append(seqs, x)
           n == Len(seqs)
<1>1. /\ more \in Seq(Batch) /\ Len(more) = n + 1 /\ more[n + 1] = x
      /\ SubSeq(more, 1, n) = seqs /\ n \in Nat
  OBVIOUS
<1>2. PICK h : ConcatPrefixes(h, more) /\ FlattenSeq(more) = h[Len(more)]
  BY <1>1, FlattenRuns
<1>3. FlattenSeq(seqs) = h[n]
  <2>1. n \in 0 .. Len(more)
    BY <1>1
  <2> HIDE DEF more, n
  <2> QED BY <1>1, <1>2, <2>1, FlattenPrefix
<1>4. h[n + 1] = h[n] \o x /\ h[n] \in Batch
  <2>1. n \in 0 .. n + 1 /\ n + 1 \in 1 .. n + 1 /\ (n + 1) - 1 = n
    BY <1>1
  <2> HIDE DEF more, n
  <2> QED BY <1>1, <1>2, <2>1 DEF ConcatPrefixes
<1> QED BY <1>1, <1>2, <1>3, <1>4

(* ... and the batch offered first came first. *)
LEMMA FlattenTail ==
  ASSUME NEW seqs \in Seq(Batch), seqs # <<>>
  PROVE  FlattenSeq(seqs) = Head(seqs) \o FlattenSeq(Tail(seqs))
<1> DEFINE rest == Tail(seqs)
           first == Head(seqs)
           n == Len(rest)
<1>1. /\ rest \in Seq(Batch) /\ first \in Batch /\ n \in Nat /\ Len(seqs) = n + 1
      /\ first = seqs[1] /\ \A k \in 1 .. n : rest[k] = seqs[k + 1] /\ rest[k] \in Batch
  OBVIOUS
<1> HIDE DEF rest, first
<1>2. PICK h : ConcatPrefixes(h, rest) /\ FlattenSeq(rest) = h[n]
  BY <1>1, FlattenRuns
<1> DEFINE g == [k \in 0 .. n + 1 |-> IF k = 0 THEN <<>> ELSE first \o h[k - 1]]
<1>3. \A k \in 0 .. n : h[k] \in Batch
  BY <1>2 DEF ConcatPrefixes
<1>4. /\ \A k \in 0 .. n : g[k + 1] = first \o h[k]
      /\ g[0] = <<>>
  <2>1. \A k \in 0 .. n : k + 1 \in 0 .. n + 1 /\ k + 1 # 0 /\ (k + 1) - 1 = k
    BY <1>1
  <2>2. 0 \in 0 .. n + 1
    BY <1>1
  <2> QED BY <2>1, <2>2
<1>5. g \in [0 .. n + 1 -> Batch]
  <2>1. \A k \in 1 .. n + 1 : first \o h[k - 1] \in Batch
    <3> SUFFICES ASSUME NEW k \in 1 .. n + 1 PROVE first \o h[k - 1] \in Batch
      OBVIOUS
    <3>1. h[k - 1] \in Batch
      BY <1>1, <1>3
    <3> QED BY <1>1, <3>1, BatchConcat
  <2>2. <<>> \in Batch
    BY DEF Batch
  <2> QED BY <1>1, <2>1, <2>2
<1> HIDE DEF g
<1>6. ASSUME NEW k \in 1 .. n + 1
      PROVE  g[k] = g[k - 1] \o seqs[k]
  <2>1. CASE k = 1
    <3>1. g[1] = first \o <<>> /\ g[0] = <<>>
      <4>1. 0 \in 0 .. n /\ 0 + 1 = 1 /\ h[0] = <<>>
        BY <1>1, <1>2 DEF ConcatPrefixes
      <4> QED BY <1>4, <4>1
    <3>2. first \o <<>> = first /\ <<>> \o first = first
      BY <1>1, BatchConcat
    <3>3. k - 1 = 0 /\ seqs[k] = first
      BY <1>1, <2>1
    <3> QED BY <2>1, <3>1, <3>2, <3>3
  <2>2. CASE k # 1
    <3> DEFINE j == k - 1
    <3>1. j \in 1 .. n /\ j - 1 \in 0 .. n /\ j \in 0 .. n /\ j + 1 = k /\ (j - 1) + 1 = j
      BY <1>1, <2>2
    <3>2. h[j] = h[j - 1] \o rest[j] /\ rest[j] = seqs[k]
      BY <1>1, <1>2, <3>1 DEF ConcatPrefixes
    <3>3. g[k] = first \o h[j] /\ g[j] = first \o h[j - 1]
      BY <1>4, <3>1
    <3>4. h[j - 1] \in Batch /\ rest[j] \in Batch
      BY <1>1, <1>3, <3>1
    <3> HIDE DEF j
    <3>5. first \o (h[j - 1] \o rest[j]) = (first \o h[j - 1]) \o rest[j]
      BY <1>1, <3>4, BatchAssociative
    <3> QED BY <3>2, <3>3, <3>5 DEF j
  <2> QED BY <2>1, <2>2
<1>7. ConcatPrefixes(g, seqs)
  BY <1>1, <1>4, <1>5, <1>6 DEF ConcatPrefixes
<1>8. FlattenSeq(seqs) = g[n + 1]
  BY <1>1, <1>7, PrefixesUnique
<1>9. g[n + 1] = first \o h[n]
  BY <1>1, <1>4, n \in 0 .. n
<1> QED BY <1>2, <1>8, <1>9 DEF rest, first

----------------------------------------------------------------------------
(* Rows in source order *)

(* The rows of the first p arrivals. *)
Before(p) == Len(FlattenSeq(SubSeq(Arrivals, 1, p)))

(* A longer prefix goes on where a shorter one ends. *)
LEMMA PrefixesGrow ==
  ASSUME NEW seqs \in Seq(Batch), NEW h, ConcatPrefixes(h, seqs),
         NEW p \in 0 .. Len(seqs), NEW q \in 0 .. Len(seqs), p <= q
  PROVE  /\ Len(h[p]) <= Len(h[q])
         /\ \A k \in 1 .. Len(h[p]) : h[q][k] = h[p][k]
<1> DEFINE Grows(r) == /\ Len(h[p]) <= Len(h[r])
                       /\ \A k \in 1 .. Len(h[p]) : h[r][k] = h[p][k]
           S == {r \in Nat : r \in p .. Len(seqs) => Grows(r)}
<1>0. /\ Len(seqs) \in Nat
      /\ \A r \in 0 .. Len(seqs) : h[r] \in Batch /\ Len(h[r]) \in Nat
      /\ \A r \in 1 .. Len(seqs) : seqs[r] \in Batch /\ Len(seqs[r]) \in Nat
  BY SMTT(40) DEF ConcatPrefixes, Batch
<1>1. ASSUME NEW r \in Nat, r \in p .. Len(seqs), Grows(r), r + 1 <= Len(seqs)
      PROVE  Grows(r + 1)
  <2>1. r \in 0 .. Len(seqs) /\ r + 1 \in 1 .. Len(seqs) /\ (r + 1) - 1 = r
    BY <1>0, <1>1
  <2> DEFINE shorter == h[r]
             added == seqs[r + 1]
             longer == h[r + 1]
  <2>2. longer = shorter \o added
    BY <2>1 DEF ConcatPrefixes
  <2>3. /\ shorter \in Batch /\ added \in Batch /\ Len(shorter) \in Nat /\ Len(added) \in Nat
        /\ Len(h[p]) \in Nat
    BY <1>0, <2>1
  <2>4. Len(h[p]) <= Len(shorter) /\ \A k \in 1 .. Len(h[p]) : shorter[k] = h[p][k]
    BY <1>1
  <2> HIDE DEF shorter, added, longer
  <2>5. /\ Len(longer) = Len(shorter) + Len(added)
        /\ \A k \in 1 .. Len(shorter) : longer[k] = shorter[k]
    BY <2>2, <2>3, BatchConcat
  <2>6. Len(h[p]) <= Len(longer) /\ \A k \in 1 .. Len(h[p]) : longer[k] = h[p][k]
    BY <2>3, <2>4, <2>5
  <2> QED BY <2>6 DEF longer
<1>2. ASSUME NEW r \in Nat, r \in S
      PROVE  r + 1 \in S
  <2> SUFFICES ASSUME r + 1 \in p .. Len(seqs)
               PROVE  Grows(r + 1)
    OBVIOUS
  <2>1. CASE r + 1 = p
    BY <1>0, <2>1
  <2>2. CASE r + 1 # p
    <3>1. r \in p .. Len(seqs)
      BY <1>0, <2>2
    <3> QED BY <1>0, <1>1, <1>2, <3>1
  <2> QED BY <2>1, <2>2
<1>3. 0 \in S
  BY <1>0
<1> HIDE DEF S
<1>4. Nat \subseteq S
  BY <1>2, <1>3, NatSetInduction
<1>5. q \in Nat /\ q \in p .. Len(seqs)
  BY <1>0
<1>6. Grows(q)
  BY <1>4, <1>5 DEF S
<1> QED BY <1>6

(* Rows are numbered in source order: the next arrival holds the rows      *)
(* after the ones already taken.                                           *)
LEMMA ArrivalRows ==
  ASSUME NEW p \in 0 .. Len(Arrivals)
  PROVE  /\ Before(p) \in Nat /\ Before(p) <= Len(AllRows) /\ Len(AllRows) \in Nat
         /\ Before(0) = 0
         /\ p < Len(Arrivals) =>
              /\ Arrivals[p + 1] \in Batch
              /\ Before(p + 1) = Before(p) + Len(Arrivals[p + 1])
              /\ \A k \in 1 .. Len(Arrivals[p + 1]) : Arrivals[p + 1][k] = Before(p) + k
<1> DEFINE n == Len(Arrivals)
<1>1. Arrivals \in Seq(Batch) /\ n \in Nat
  BY RunAssumption DEF Batch
<1>2. PICK h : ConcatPrefixes(h, Arrivals) /\ FlattenSeq(Arrivals) = h[n]
  BY <1>1, FlattenRuns
<1>3. \A q \in 0 .. n : Before(q) = Len(h[q]) /\ h[q] \in Batch /\ Len(h[q]) \in Nat
  <2>1. \A q \in 0 .. n : Before(q) = Len(h[q])
    BY <1>1, <1>2, FlattenPrefix DEF Before
  <2> QED BY <1>2, <2>1, SMTT(40) DEF ConcatPrefixes, Batch
<1>4. AllRows = h[n] /\ \A k \in 1 .. Len(h[n]) : h[n][k] = k
  BY <1>2, RunAssumption DEF AllRows
<1>5. p \in 0 .. n /\ n \in 0 .. n /\ p <= n /\ 0 \in 0 .. n
  BY <1>1
<1>6. Len(h[p]) <= Len(h[n])
  BY <1>1, <1>2, <1>5, PrefixesGrow
<1>7. Before(0) = 0
  BY <1>2, <1>3, <1>5 DEF ConcatPrefixes
<1>8. ASSUME p < n
      PROVE  /\ Arrivals[p + 1] \in Batch
             /\ Before(p + 1) = Before(p) + Len(Arrivals[p + 1])
             /\ \A k \in 1 .. Len(Arrivals[p + 1]) : Arrivals[p + 1][k] = Before(p) + k
  <2> DEFINE next == Arrivals[p + 1]
  <2>1. p + 1 \in 1 .. n /\ p + 1 \in 0 .. n /\ (p + 1) - 1 = p /\ p + 1 <= n
    BY <1>1, <1>8
  <2>2. next \in Batch /\ Len(next) \in Nat
    BY <1>1, <2>1 DEF Batch
  <2>3. h[p + 1] = h[p] \o next /\ h[p] \in Batch
    BY <1>2, <1>3, <1>5, <2>1 DEF ConcatPrefixes
  <2> HIDE DEF next
  <2>4. /\ Len(h[p + 1]) = Len(h[p]) + Len(next)
        /\ \A k \in 1 .. Len(next) : h[p + 1][Len(h[p]) + k] = next[k]
    BY <2>2, <2>3, BatchConcat
  <2>5. \A k \in 1 .. Len(h[p + 1]) : h[n][k] = h[p + 1][k]
    BY <1>1, <1>2, <1>5, <2>1, PrefixesGrow
  <2>6. Len(h[p + 1]) <= Len(h[n])
    BY <1>1, <1>2, <1>5, <2>1, PrefixesGrow
  <2>7. ASSUME NEW k \in 1 .. Len(next)
        PROVE  next[k] = Len(h[p]) + k
    <3> DEFINE j == Len(h[p]) + k
    <3>1. Len(h[p]) \in Nat /\ Len(h[p + 1]) \in Nat /\ Len(h[n]) \in Nat
      BY <1>3, <1>5, <2>1
    <3>2. j \in 1 .. Len(h[p + 1]) /\ j \in 1 .. Len(h[n])
      BY <2>2, <2>4, <2>6, <3>1, SMTT(40)
    <3>3. h[n][j] = j /\ h[n][j] = h[p + 1][j]
      BY <1>4, <2>5, <3>2
    <3> QED BY <2>4, <3>3
  <2>8. Before(p + 1) = Len(h[p + 1]) /\ Before(p) = Len(h[p])
    BY <1>3, <1>5, <2>1
  <2> QED BY <2>2, <2>4, <2>7, <2>8 DEF next
<1> QED BY <1>3, <1>4, <1>5, <1>6, <1>7, <1>8

(* What was taken from the source, as the properties say it. *)
LEMMA TakenIs ==
  ASSUME pulled \in 0 .. Len(Arrivals)
  PROVE  Taken = 1 .. Before(pulled) /\ Cardinality(Taken) = Before(pulled)
<1>1. Taken = 1 .. Before(pulled)
  BY DEF Taken, Before
<1>2. Before(pulled) \in Nat
  BY ArrivalRows
<1>3. Cardinality(1 .. Before(pulled)) = Before(pulled)
  BY <1>2, FS_Interval
<1> QED BY <1>1, <1>3

----------------------------------------------------------------------------
(* Order *)

Increasing(line) == \A j, k \in DOMAIN line : j < k => line[j] < line[k]

Precedes(S, T) == \A x \in S, y \in T : x < y

LEMMA ToSetConcat ==
  ASSUME NEW s \in Batch, NEW t \in Batch
  PROVE  ToSet(s \o t) = ToSet(s) \cup ToSet(t)
<1>1. /\ Len(s) \in Nat /\ Len(t) \in Nat
      /\ DOMAIN s = 1 .. Len(s) /\ DOMAIN t = 1 .. Len(t)
      /\ DOMAIN (s \o t) = 1 .. Len(s) + Len(t)
  BY DEF Batch
<1>2. /\ \A k \in 1 .. Len(s) : (s \o t)[k] = s[k]
      /\ \A k \in 1 .. Len(t) : (s \o t)[Len(s) + k] = t[k]
  BY BatchConcat
<1>3. ASSUME NEW x \in ToSet(s \o t)
      PROVE  x \in ToSet(s) \cup ToSet(t)
  <2>1. PICK k \in 1 .. Len(s) + Len(t) : x = (s \o t)[k]
    BY <1>1 DEF ToSet
  <2>2. CASE k <= Len(s)
    <3>1. k \in 1 .. Len(s)
      BY <1>1, <2>2
    <3> QED BY <1>1, <1>2, <2>1, <3>1 DEF ToSet
  <2>3. CASE ~(k <= Len(s))
    <3>1. k - Len(s) \in 1 .. Len(t) /\ Len(s) + (k - Len(s)) = k
      BY <1>1, <2>3
    <3>2. x = t[k - Len(s)]
      BY <1>2, <2>1, <3>1
    <3> QED BY <1>1, <3>1, <3>2 DEF ToSet
  <2> QED BY <2>2, <2>3
<1>4. ASSUME NEW x \in ToSet(s) PROVE x \in ToSet(s \o t)
  <2>1. PICK k \in 1 .. Len(s) : x = s[k]
    BY <1>1 DEF ToSet
  <2>2. k \in DOMAIN (s \o t) /\ x = (s \o t)[k]
    BY <1>1, <1>2, <2>1
  <2> QED BY <2>2 DEF ToSet
<1>5. ASSUME NEW x \in ToSet(t) PROVE x \in ToSet(s \o t)
  <2>1. PICK k \in 1 .. Len(t) : x = t[k]
    BY <1>1 DEF ToSet
  <2>2. Len(s) + k \in DOMAIN (s \o t) /\ x = (s \o t)[Len(s) + k]
    BY <1>1, <1>2, <2>1
  <2> QED BY <2>2 DEF ToSet
<1> QED BY <1>3, <1>4, <1>5

(* A line of two parts is in order when both parts are and the first comes *)
(* before the second.                                                      *)
LEMMA IncreasingConcat ==
  ASSUME NEW s \in Batch, NEW t \in Batch
  PROVE  Increasing(s \o t) <=>
           Increasing(s) /\ Increasing(t) /\ Precedes(ToSet(s), ToSet(t))
<1>1. /\ Len(s) \in Nat /\ Len(t) \in Nat
      /\ DOMAIN s = 1 .. Len(s) /\ DOMAIN t = 1 .. Len(t)
      /\ DOMAIN (s \o t) = 1 .. Len(s) + Len(t)
  BY DEF Batch
<1>2. /\ \A k \in 1 .. Len(s) : (s \o t)[k] = s[k]
      /\ \A k \in 1 .. Len(t) : (s \o t)[Len(s) + k] = t[k]
  BY BatchConcat
<1>3. ASSUME Increasing(s \o t)
      PROVE  Increasing(s) /\ Increasing(t) /\ Precedes(ToSet(s), ToSet(t))
  <2>1. Increasing(s)
    <3> SUFFICES ASSUME NEW j \in 1 .. Len(s), NEW k \in 1 .. Len(s), j < k PROVE s[j] < s[k]
      BY <1>1 DEF Increasing
    <3>1. j \in DOMAIN (s \o t) /\ k \in DOMAIN (s \o t)
      BY <1>1
    <3> QED BY <1>2, <1>3, <3>1 DEF Increasing
  <2>2. Increasing(t)
    <3> SUFFICES ASSUME NEW j \in 1 .. Len(t), NEW k \in 1 .. Len(t), j < k PROVE t[j] < t[k]
      BY <1>1 DEF Increasing
    <3>1. Len(s) + j \in DOMAIN (s \o t) /\ Len(s) + k \in DOMAIN (s \o t) /\ Len(s) + j < Len(s) + k
      BY <1>1
    <3>2. (s \o t)[Len(s) + j] < (s \o t)[Len(s) + k]
      BY <1>3, <3>1 DEF Increasing
    <3> QED BY <1>2, <3>2
  <2>3. Precedes(ToSet(s), ToSet(t))
    <3> SUFFICES ASSUME NEW j \in 1 .. Len(s), NEW k \in 1 .. Len(t) PROVE s[j] < t[k]
      BY <1>1 DEF Precedes, ToSet
    <3>1. j \in DOMAIN (s \o t) /\ Len(s) + k \in DOMAIN (s \o t) /\ j < Len(s) + k
      BY <1>1
    <3>2. (s \o t)[j] < (s \o t)[Len(s) + k]
      BY <1>3, <3>1 DEF Increasing
    <3> QED BY <1>2, <3>2
  <2> QED BY <2>1, <2>2, <2>3
<1>4. ASSUME Increasing(s), Increasing(t), Precedes(ToSet(s), ToSet(t))
      PROVE  Increasing(s \o t)
  <2> SUFFICES ASSUME NEW j \in 1 .. Len(s) + Len(t), NEW k \in 1 .. Len(s) + Len(t), j < k
               PROVE  (s \o t)[j] < (s \o t)[k]
    BY <1>1 DEF Increasing
  <2>1. CASE k <= Len(s)
    <3>1. j \in 1 .. Len(s) /\ k \in 1 .. Len(s)
      BY <1>1, <2>1
    <3> QED BY <1>1, <1>2, <1>4, <3>1 DEF Increasing
  <2>2. CASE j <= Len(s) /\ ~(k <= Len(s))
    <3>1. j \in 1 .. Len(s) /\ k - Len(s) \in 1 .. Len(t) /\ Len(s) + (k - Len(s)) = k
      BY <1>1, <2>2
    <3>2. s[j] \in ToSet(s) /\ t[k - Len(s)] \in ToSet(t)
      BY <1>1, <3>1 DEF ToSet
    <3>3. (s \o t)[j] = s[j] /\ (s \o t)[k] = t[k - Len(s)]
      BY <1>2, <3>1
    <3> QED BY <1>4, <3>2, <3>3 DEF Precedes
  <2>3. CASE ~(j <= Len(s))
    <3> DEFINE i == j - Len(s)
               l == k - Len(s)
    <3>1. i \in 1 .. Len(t) /\ l \in 1 .. Len(t) /\ Len(s) + i = j /\ Len(s) + l = k /\ i < l
      BY <1>1, <2>3
    <3> HIDE DEF i, l
    <3>2. (s \o t)[j] = t[i] /\ (s \o t)[k] = t[l] /\ t[i] < t[l]
      BY <1>1, <1>2, <1>4, <3>1 DEF Increasing
    <3> QED BY <3>2
  <2> QED BY <1>1, <2>1, <2>2, <2>3
<1> QED BY <1>3, <1>4

----------------------------------------------------------------------------
(* The end of a run *)

Ending == {"finishSources", "finishDlq", "done"}

(* Where nothing is staged: the writes of a pass empty it, and only a      *)
(* drain or a processor stages again.                                      *)
Unstaged == Ending \cup {"head", "atHead", "atTail", "close", "pace"}

FinishInv ==
  /\ pc \in Unstaged => staged = <<>>
  /\ sinkFinishes = IF pc \in Ending THEN 1 ELSE 0
  /\ pc \in {"finishDlq", "done"} => sourceFinished

(* Every step keeps it; the ways into the end are close_pass, which comes  *)
(* after the writes, and the flush, which writes first.                    *)
LEMMA FinishKept ==
  ASSUME FinishInv, [Next]_vars
  PROVE  FinishInv'
<1> USE DEF FinishInv, Ending, Unstaged
<1>1. CASE HeadOfPass
  BY <1>1 DEF HeadOfPass, sinkVars, endVars
<1>2. CASE SkipReplay \/ BeginReplay \/ EndDrain \/ ReplayLetter \/ FinishReplaySource \/ EndReplay
  BY <1>2 DEF SkipReplay, BeginReplay, EndDrain, ReplayLetter, FinishReplaySource, EndReplay,
              ReplayStep, AtReplayPoint, PastReplay, endVars
<1>3. CASE CreditSpent \/ PullNothing \/ PullCancelled
  BY <1>3 DEF CreditSpent, PullNothing, PullCancelled, DrainStep, AfterDrain, endVars
<1>4. CASE PullFails
  BY <1>4 DEF PullFails, AfterDrain, sinkVars, endVars
<1>5. CASE AdmitCarry \/ Pull
  BY <1>5 DEF AdmitCarry, Pull, Admit, DrainStep, endVars
<1>6. CASE RunOk \/ RunFails \/ RunCancelled
  BY <1>6 DEF RunOk, RunFails, RunCancelled, RunStep, endVars
<1>7. CASE WriteOk \/ WriteRefused
  BY <1>7 DEF WriteOk, WriteRefused, Offer, endVars
<1>8. CASE WritesDone
  BY <1>8 DEF WritesDone, sinkVars, endVars
<1>9. CASE ClosePass \/ PaceCancelled \/ Pace \/ FinishSinks \/ FinishAllSources \/ FinishDlq
  BY <1>9 DEF ClosePass, PaceCancelled, Pace, FinishSinks, FinishAllSources, FinishDlq,
              EndStep, sinkVars, endVars
<1>10. CASE Cancel \/ RequestReplay \/ TimePasses \/ UNCHANGED vars
  BY <1>10 DEF Cancel, RequestReplay, TimePasses, vars, sinkVars, endVars
<1> QED BY <1>1, <1>2, <1>3, <1>4, <1>5, <1>6, <1>7, <1>8, <1>9, <1>10 DEF Next, Runner

(* However run_standalone leaves its loop, by the end of its input, by a   *)
(* cancellation in a pass, between two passes or in a replay, it finishes  *)
(* the sinks exactly once, with nothing staged, before the sources.        *)
THEOREM SinksFinishFirst == Spec => []FinishOrder
<1>1. Init => FinishInv
  BY DEF Init, FinishInv, Ending, Unstaged
<1>2. FinishInv /\ [Next]_vars => FinishInv'
  BY FinishKept
<1>3. FinishInv => FinishOrder
  BY DEF FinishInv, FinishOrder, Ending, Unstaged
<1> QED BY <1>1, <1>2, <1>3, PTL DEF Spec

----------------------------------------------------------------------------
(* The order of rows *)

RunType ==
  /\ config \in Configs
  /\ pulled \in 0 .. Len(Arrivals)
  /\ carry \in Batch /\ dataset \in Batch /\ staged \in Seq(Batch)
  /\ remaining \in Nat /\ offered \in Nat
  /\ ~config.processor => dataset = <<>>

(* Three stations one after the other. *)
InLine(f, d, c) ==
  /\ Increasing(f) /\ Increasing(d) /\ Increasing(c)
  /\ Precedes(ToSet(f), ToSet(d)) /\ Precedes(ToSet(f), ToSet(c)) /\ Precedes(ToSet(d), ToSet(c))

(* Rows a station may hold: offered to the sink later, taken already. *)
Waits(s, o, p) == ToSet(s) \subseteq (o + 1) .. Before(p)

(* What is staged comes before the processor's rows and those before the   *)
(* carry, and all of it was taken from the source and not offered yet.     *)
OrderInv ==
  /\ RunType
  /\ InLine(FlattenSeq(staged), dataset, carry)
  /\ Waits(FlattenSeq(staged), offered, pulled)
  /\ Waits(dataset, offered, pulled) /\ Waits(carry, offered, pulled)
  /\ offered <= Before(pulled)

LEMMA NoRows ==
  /\ <<>> \in Batch /\ ToSet(<<>>) = {} /\ Increasing(<<>>)
  /\ <<>> \in Seq(Batch) /\ FlattenSeq(<<>>) = <<>>
BY DEF Batch, ToSet, Increasing, FlattenSeq

(* An arrival cut in two is nothing but its two parts. *)
LEMMA CutAndCarry ==
  ASSUME NEW batch \in Batch, NEW n \in Nat, Len(batch) > n
  PROVE  /\ SubSeq(batch, 1, n) \in Batch /\ SubSeq(batch, n + 1, Len(batch)) \in Batch
         /\ batch = SubSeq(batch, 1, n) \o SubSeq(batch, n + 1, Len(batch))
<1>1. SubSeq(batch, 1, n) \in Batch /\ SubSeq(batch, n + 1, Len(batch)) \in Batch
  BY DEF Batch
<1>2. SubSeq(batch, 1, n) \o SubSeq(batch, n + 1, Len(batch)) = SubSeq(batch, 1, Len(batch))
  <2>1. Len(batch) \in Nat
    BY DEF Batch
  <2>2. 1 \in 1 .. Len(batch) + 1 /\ n \in 1 - 1 .. Len(batch) /\ Len(batch) \in n .. Len(batch)
    BY <2>1
  <2> QED BY <2>2, ConcatAdjacentSubSeq DEF Batch
<1>3. SubSeq(batch, 1, Len(batch)) = batch
  BY SubSeqFull DEF Batch
<1> QED BY <1>1, <1>2, <1>3

(* Taking a chunk from the front of the last station to any station before *)
(* it, or dropping it, keeps the line.                                     *)
LEMMA ChunkMoves ==
  ASSUME NEW f \in Batch, NEW d \in Batch, NEW chunk \in Batch, NEW tail \in Batch,
         NEW o \in Nat, NEW p, InLine(f, d, chunk \o tail),
         Waits(f, o, p), Waits(d, o, p), Waits(chunk \o tail, o, p)
  PROVE  /\ InLine(f, d, tail) /\ Waits(tail, o, p)
         /\ d \o chunk \in Batch /\ InLine(f, d \o chunk, tail) /\ Waits(d \o chunk, o, p)
         /\ f \o chunk \in Batch /\ Waits(f \o chunk, o, p)
         /\ d = <<>> => InLine(f \o chunk, d, tail)
<1>1. /\ ToSet(chunk \o tail) = ToSet(chunk) \cup ToSet(tail)
      /\ ToSet(d \o chunk) = ToSet(d) \cup ToSet(chunk)
      /\ ToSet(f \o chunk) = ToSet(f) \cup ToSet(chunk)
  BY ToSetConcat
<1>2. Increasing(chunk) /\ Increasing(tail) /\ Precedes(ToSet(chunk), ToSet(tail))
  BY IncreasingConcat DEF InLine
<1>3. /\ d \o chunk \in Batch /\ f \o chunk \in Batch
      /\ Increasing(d \o chunk) <=>
           Increasing(d) /\ Increasing(chunk) /\ Precedes(ToSet(d), ToSet(chunk))
      /\ Increasing(f \o chunk) <=>
           Increasing(f) /\ Increasing(chunk) /\ Precedes(ToSet(f), ToSet(chunk))
  BY BatchConcat, IncreasingConcat
<1>4. Precedes(ToSet(d), ToSet(chunk)) /\ Precedes(ToSet(f), ToSet(chunk))
  BY <1>1 DEF InLine, Precedes
<1>5. InLine(f, d, tail) /\ Waits(tail, o, p)
  BY <1>1, <1>2 DEF InLine, Precedes, Waits
<1>6. InLine(f, d \o chunk, tail) /\ Waits(d \o chunk, o, p)
  BY <1>1, <1>2, <1>3, <1>4 DEF InLine, Precedes, Waits
<1>7. Waits(f \o chunk, o, p)
  BY <1>1 DEF Waits
<1>8. d = <<>> => InLine(f \o chunk, d, tail)
  BY <1>1, <1>2, <1>3, <1>4, NoRows DEF InLine, Precedes
<1> QED BY <1>3, <1>5, <1>6, <1>7, <1>8

(* Admitting a batch that stands last in the line, from the carry or from  *)
(* the source.                                                             *)
LEMMA AdmitKeeps ==
  ASSUME RunType, NEW batch \in Batch, NEW p \in 0 .. Len(Arrivals),
         InLine(FlattenSeq(staged), dataset, batch),
         Waits(FlattenSeq(staged), offered, p), Waits(dataset, offered, p),
         Waits(batch, offered, p), offered <= Before(p),
         pulled' = p, offered' = offered, config' = config, Admit(batch)
  PROVE  OrderInv'
<1> DEFINE f == FlattenSeq(staged)
           cut == ~config.whole /\ Len(batch) > remaining
           chunk == IF cut THEN Chunk(batch) ELSE batch
           tail == IF cut THEN SubSeq(batch, remaining + 1, Len(batch)) ELSE <<>>
<1>1. chunk \in Batch /\ tail \in Batch /\ batch = chunk \o tail
  <2>1. CASE cut
    <3>1. Len(batch) > remaining /\ remaining \in Nat
      BY <2>1 DEF RunType
    <3> QED BY <2>1, <3>1, CutAndCarry DEF Chunk
  <2>2. CASE ~cut
    BY <2>2, BatchConcat, NoRows
  <2> QED BY <2>1, <2>2
<1>2. /\ carry' = tail
      /\ remaining' = IF Len(chunk) > remaining THEN 0 ELSE remaining - Len(chunk)
      /\ \/ /\ config.processor /\ dataset' = dataset \o chunk /\ staged' = staged
         \/ /\ config.processor /\ dataset' = dataset /\ staged' = staged
         \/ /\ ~config.processor /\ dataset' = dataset /\ staged' = Append(staged, chunk)
  BY DEF Admit
<1> HIDE DEF cut, chunk, tail
<1>3. /\ f \in Batch /\ FlattenSeq(Append(staged, chunk)) = f \o chunk
      /\ Append(staged, chunk) \in Seq(Batch)
  BY <1>1, FlattenAppend DEF RunType
<1>4. remaining' \in Nat
  <2>1. Len(chunk) \in Nat /\ remaining \in Nat
    BY <1>1 DEF RunType, Batch
  <2> QED BY <1>2, <2>1
<1> HIDE DEF f
<1>5. /\ InLine(f, dataset, tail) /\ Waits(tail, offered, p)
      /\ dataset \o chunk \in Batch /\ InLine(f, dataset \o chunk, tail)
      /\ Waits(dataset \o chunk, offered, p)
      /\ f \o chunk \in Batch /\ Waits(f \o chunk, offered, p)
      /\ dataset = <<>> => InLine(f \o chunk, dataset, tail)
  BY <1>1, <1>3, ChunkMoves DEF RunType, f
<1>6. Waits(f, offered, p) /\ Waits(dataset, offered, p)
  BY DEF f
<1>7. /\ staged' \in Seq(Batch) /\ dataset' \in Batch /\ carry' \in Batch
      /\ ~config.processor => dataset' = <<>>
  BY <1>1, <1>2, <1>3, <1>5 DEF RunType
<1>8. /\ InLine(FlattenSeq(staged'), dataset', carry')
      /\ Waits(FlattenSeq(staged'), offered, p) /\ Waits(dataset', offered, p)
      /\ Waits(carry', offered, p)
  <2>1. CASE config.processor /\ dataset' = dataset \o chunk /\ staged' = staged
    BY <1>2, <1>5, <1>6, <2>1 DEF f
  <2>2. CASE config.processor /\ dataset' = dataset /\ staged' = staged
    BY <1>2, <1>5, <1>6, <2>2 DEF f
  <2>3. CASE ~config.processor /\ dataset' = dataset /\ staged' = Append(staged, chunk)
    <3>1. dataset = <<>> /\ FlattenSeq(staged') = f \o chunk
      BY <1>3, <2>3 DEF RunType
    <3> QED BY <1>2, <1>5, <1>6, <2>3, <3>1
  <2> QED BY <1>2, <2>1, <2>2, <2>3
<1> QED BY <1>4, <1>7, <1>8 DEF OrderInv, RunType, Waits, Before

(* The batch write_staged offers next holds the rows that follow the last  *)
(* one offered.                                                            *)
LEMMA OfferedRows ==
  ASSUME OrderInv, staged # <<>>, offered' = Last(<<offered>> \o Head(staged))
  PROVE  /\ Head(staged) \in Batch /\ Tail(staged) \in Seq(Batch)
         /\ FlattenSeq(Tail(staged)) \in Batch
         /\ offered' \in Nat /\ offered <= offered' /\ offered' <= Before(pulled)
         /\ ToSet(Head(staged)) \subseteq (offered + 1) .. offered'
         /\ InLine(FlattenSeq(Tail(staged)), dataset, carry)
         /\ Waits(FlattenSeq(Tail(staged)), offered', pulled)
         /\ Waits(dataset, offered', pulled) /\ Waits(carry, offered', pulled)
<1> DEFINE h == Head(staged)
           g == FlattenSeq(Tail(staged))
           line == <<offered>> \o h
           B == Before(pulled)
<1>1. h \in Batch /\ Tail(staged) \in Seq(Batch) /\ FlattenSeq(staged) = h \o g
  BY FlattenTail DEF OrderInv, RunType
<1>2. g \in Batch
  BY <1>1, NoRows, FlattenAppend
<1>3. offered \in Nat /\ B \in Nat /\ dataset \in Batch /\ carry \in Batch /\ Len(h) \in Nat
  BY <1>1, ArrivalRows DEF OrderInv, RunType, Batch
<1>4. <<offered>> \in Batch /\ Len(<<offered>>) = 1 /\ <<offered>>[1] = offered
  BY <1>3 DEF Batch
<1>5. /\ Len(line) = 1 + Len(h)
      /\ line[1] = offered
      /\ \A k \in 1 .. Len(h) : line[1 + k] = h[k]
  BY <1>1, <1>4, BatchConcat
<1>6. /\ ToSet(h \o g) = ToSet(h) \cup ToSet(g)
      /\ Increasing(h) /\ Increasing(g) /\ Precedes(ToSet(h), ToSet(g))
  BY <1>1, <1>2, ToSetConcat, IncreasingConcat DEF OrderInv, InLine
<1>7. /\ Precedes(ToSet(h), ToSet(dataset)) /\ Precedes(ToSet(h), ToSet(carry))
      /\ InLine(g, dataset, carry)
      /\ ToSet(h) \subseteq (offered + 1) .. B /\ ToSet(g) \subseteq (offered + 1) .. B
      /\ ToSet(dataset) \subseteq (offered + 1) .. B /\ ToSet(carry) \subseteq (offered + 1) .. B
  BY <1>1, <1>6 DEF OrderInv, InLine, Precedes, Waits
<1>8. DOMAIN h = 1 .. Len(h) /\ \A k \in 1 .. Len(h) : h[k] \in Nat
  BY <1>1 DEF Batch
<1>9. offered' = line[1 + Len(h)]
  BY <1>5 DEF Last
<1> HIDE DEF h, g, line, B
<1>10. /\ offered' \in Nat /\ offered <= offered' /\ offered' <= B
       /\ ToSet(h) \subseteq (offered + 1) .. offered'
       /\ Precedes({offered'}, ToSet(g) \cup ToSet(dataset) \cup ToSet(carry))
  <2>1. CASE Len(h) = 0
    <3>1. offered' = offered /\ ToSet(h) = {}
      BY <1>3, <1>5, <1>8, <1>9, <2>1 DEF ToSet
    <3>2. \A y \in (offered + 1) .. B : offered < y
      BY <1>3
    <3>3. offered <= B
      BY DEF OrderInv, B
    <3> QED BY <1>3, <1>7, <3>1, <3>2, <3>3 DEF Precedes
  <2>2. CASE Len(h) # 0
    <3>1. Len(h) \in 1 .. Len(h) /\ offered' = h[Len(h)] /\ h[Len(h)] \in ToSet(h)
      BY <1>3, <1>5, <1>8, <1>9, <2>2 DEF ToSet
    <3>2. \A k \in 1 .. Len(h) : h[k] <= h[Len(h)]
      <4> SUFFICES ASSUME NEW k \in 1 .. Len(h) PROVE h[k] <= h[Len(h)]
        OBVIOUS
      <4>1. CASE k = Len(h)
        BY <1>8, <4>1
      <4>2. CASE k # Len(h)
        <5>1. k < Len(h)
          BY <1>3, <4>2
        <5>2. h[k] < h[Len(h)]
          BY <1>6, <1>8, <3>1, <5>1 DEF Increasing
        <5> QED BY <1>8, <3>1, <5>2
      <4> QED BY <4>1, <4>2
    <3>3. \A x \in ToSet(h) : x <= offered'
      BY <1>8, <3>1, <3>2 DEF ToSet
    <3>4. offered' \in (offered + 1) .. B
      BY <1>7, <3>1
    <3>5. ToSet(h) \subseteq (offered + 1) .. offered'
      BY <1>3, <1>7, <3>3, <3>4
    <3> QED BY <1>3, <1>6, <1>7, <3>1, <3>4, <3>5 DEF Precedes
  <2> QED BY <2>1, <2>2
<1>11. ASSUME NEW T, T \subseteq (offered + 1) .. B, Precedes({offered'}, T)
       PROVE  T \subseteq (offered' + 1) .. B
  BY <1>3, <1>10, <1>11 DEF Precedes
<1>12. /\ ToSet(g) \subseteq (offered' + 1) .. B
       /\ ToSet(dataset) \subseteq (offered' + 1) .. B
       /\ ToSet(carry) \subseteq (offered' + 1) .. B
  BY <1>7, <1>10, <1>11 DEF Precedes
<1> QED BY <1>1, <1>2, <1>7, <1>10, <1>12 DEF h, g, B, Waits

(* Every step keeps the line.  The ones that move rows are an admission,   *)
(* the processor's run and an offer.                                       *)
LEMMA OrderKept ==
  ASSUME OrderInv, [Next]_vars
  PROVE  OrderInv'
<1> USE DEF OrderInv
<1>1. ASSUME UNCHANGED <<config, pulled, carry, dataset, staged, offered>>, remaining' \in Nat
      PROVE  OrderInv'
  BY <1>1 DEF RunType, Waits, Before
<1>2. CASE HeadOfPass
  <2>1. Len(AllRows) \in Nat
    BY ArrivalRows DEF RunType
  <2>2. remaining' \in Nat
    BY <1>2, <2>1, RunAssumption DEF HeadOfPass, Credit, RunType
  <2> QED BY <1>1, <1>2, <2>2 DEF HeadOfPass, sinkVars
<1>3. CASE SkipReplay \/ BeginReplay \/ EndDrain \/ ReplayLetter \/ FinishReplaySource \/ EndReplay
  <2>1. ReplayStep
    BY <1>3 DEF SkipReplay, BeginReplay, EndDrain, ReplayLetter, FinishReplaySource, EndReplay
  <2> QED BY <1>1, <2>1 DEF ReplayStep, passVars, RunType
<1>4. CASE CreditSpent \/ PullNothing \/ PullCancelled \/ PullFails
  <2>1. UNCHANGED <<config, pulled, carry, dataset, staged, offered, remaining>>
    BY <1>4 DEF CreditSpent, PullNothing, PullCancelled, PullFails, DrainStep, passVars, sinkVars
  <2> QED BY <1>1, <2>1 DEF RunType
<1>5. CASE AdmitCarry
  <2>1. Admit(carry) /\ pulled' = pulled /\ offered' = offered /\ config' = config
    BY <1>5 DEF AdmitCarry, DrainStep
  <2> HIDE DEF OrderInv
  <2> QED BY <2>1, AdmitKeeps DEF OrderInv, RunType
<1>6. CASE Pull
  <2> DEFINE batch == Arrivals[pulled + 1]
             B == Before(pulled)
             f == FlattenSeq(staged)
  <2>1. /\ Admit(batch) /\ pulled' = pulled + 1 /\ offered' = offered /\ config' = config
        /\ carry = <<>> /\ pulled < Len(Arrivals)
    BY <1>6 DEF Pull, DrainStep, PullReady
  <2>2. /\ B \in Nat /\ batch \in Batch /\ Before(pulled + 1) = B + Len(batch)
        /\ \A k \in 1 .. Len(batch) : batch[k] = B + k
    BY <2>1, ArrivalRows DEF RunType
  <2>3. Len(batch) \in Nat /\ DOMAIN batch = 1 .. Len(batch)
    BY <2>2 DEF Batch
  <2>4. f \in Batch /\ dataset \in Batch /\ offered \in Nat /\ offered <= B
    BY NoRows, FlattenAppend DEF RunType
  <2>5. /\ ToSet(f) \subseteq (offered + 1) .. B /\ ToSet(dataset) \subseteq (offered + 1) .. B
        /\ Increasing(f) /\ Increasing(dataset) /\ Precedes(ToSet(f), ToSet(dataset))
    BY DEF Waits, InLine
  <2> HIDE DEF f, B, batch
  <2>6. Increasing(batch) /\ ToSet(batch) \subseteq (B + 1) .. (B + Len(batch))
    BY <2>2, <2>3 DEF Increasing, ToSet
  <2>7. \A x \in (offered + 1) .. B : \A y \in (B + 1) .. (B + Len(batch)) : x < y
    BY <2>2, <2>3, <2>4
  <2>8. Precedes(ToSet(f), ToSet(batch)) /\ Precedes(ToSet(dataset), ToSet(batch))
    BY <2>5, <2>6, <2>7 DEF Precedes
  <2>9. /\ (offered + 1) .. B \subseteq (offered + 1) .. (B + Len(batch))
        /\ (B + 1) .. (B + Len(batch)) \subseteq (offered + 1) .. (B + Len(batch))
        /\ offered <= B + Len(batch)
    BY <2>2, <2>3, <2>4
  <2>10. InLine(f, dataset, batch)
    BY <2>5, <2>6, <2>8 DEF InLine
  <2>11. /\ Waits(f, offered, pulled + 1) /\ Waits(dataset, offered, pulled + 1)
         /\ Waits(batch, offered, pulled + 1) /\ offered <= Before(pulled + 1)
    BY <2>2, <2>5, <2>6, <2>9 DEF Waits
  <2>12. pulled + 1 \in 0 .. Len(Arrivals) /\ RunType
    <3>1. Len(Arrivals) \in Nat
      BY RunAssumption
    <3> QED BY <2>1, <3>1 DEF RunType
  <2> HIDE DEF OrderInv
  <2> QED BY <2>1, <2>2, <2>10, <2>11, <2>12, AdmitKeeps DEF f
<1>7. CASE RunOk \/ RunFails \/ RunCancelled
  <2> DEFINE f == FlattenSeq(staged)
  <2>1. /\ UNCHANGED <<config, pulled, carry, remaining, offered>>
        /\ \/ dataset' = <<>> /\ staged' = staged
           \/ dataset' = <<>> /\ staged' = Append(staged, dataset)
           \/ dataset' = dataset /\ staged' = staged
    BY <1>7 DEF RunOk, RunFails, RunCancelled, RunStep
  <2>2. /\ f \in Batch /\ dataset \in Batch /\ carry \in Batch
        /\ FlattenSeq(Append(staged, dataset)) = f \o dataset
        /\ Append(staged, dataset) \in Seq(Batch)
    BY FlattenAppend DEF RunType
  <2> HIDE DEF f
  <2>3. /\ ToSet(f \o dataset) = ToSet(f) \cup ToSet(dataset)
        /\ Increasing(f \o dataset)
    BY <2>2, ToSetConcat, IncreasingConcat DEF InLine, f
  <2>4. CASE dataset' = <<>> /\ staged' = staged
    <3>1. InLine(f, <<>>, carry) /\ Waits(<<>>, offered, pulled)
      BY NoRows DEF InLine, Precedes, Waits, f
    <3> QED BY <2>1, <2>4, <3>1, NoRows DEF RunType, Waits, Before, f
  <2>5. CASE dataset' = <<>> /\ staged' = Append(staged, dataset)
    <3>1. InLine(f \o dataset, <<>>, carry) /\ Waits(<<>>, offered, pulled)
      BY <2>3, NoRows DEF InLine, Precedes, Waits, f
    <3>2. Waits(f \o dataset, offered, pulled)
      BY <2>3 DEF Waits, f
    <3> QED BY <2>1, <2>2, <2>5, <3>1, <3>2, NoRows DEF RunType, Waits, Before
  <2>6. CASE dataset' = dataset /\ staged' = staged
    BY <1>1, <2>1, <2>6 DEF RunType
  <2> QED BY <2>1, <2>4, <2>5, <2>6
<1>8. CASE WriteOk \/ WriteRefused
  <2>1. Offer
    BY <1>8 DEF WriteOk, WriteRefused
  <2>2. /\ staged # <<>> /\ staged' = Tail(staged)
        /\ offered' = Last(<<offered>> \o Head(staged))
        /\ UNCHANGED <<config, pulled, carry, dataset, remaining>>
    BY <2>1 DEF Offer, passVars
  <2> QED BY <2>2, OfferedRows DEF RunType, Waits, Before
<1>9. CASE WritesDone \/ ClosePass \/ PaceCancelled \/ Pace \/ FinishSinks \/ FinishAllSources \/ FinishDlq
  <2>1. UNCHANGED <<config, pulled, carry, dataset, staged, offered, remaining>>
    BY <1>9 DEF WritesDone, ClosePass, PaceCancelled, Pace, FinishSinks, FinishAllSources,
                FinishDlq, EndStep, passVars, sinkVars
  <2> QED BY <1>1, <2>1 DEF RunType
<1>10. CASE Cancel \/ RequestReplay \/ TimePasses \/ UNCHANGED vars
  <2>1. UNCHANGED <<config, pulled, carry, dataset, staged, offered, remaining>>
    BY <1>10 DEF Cancel, RequestReplay, TimePasses, vars, passVars, sinkVars
  <2> QED BY <1>1, <2>1 DEF RunType
<1> HIDE DEF OrderInv
<1> QED BY <1>2, <1>3, <1>4, <1>5, <1>6, <1>7, <1>8, <1>9, <1>10 DEF Next, Runner

(* The rest of the source comes after everything taken from it. *)
LEMMA RestOfSource ==
  ASSUME RunType
  PROVE  LET B == Before(pulled)
             rest == SubSeq(AllRows, B + 1, Len(AllRows))
         IN rest \in Batch /\ Increasing(rest) /\ \A y \in ToSet(rest) : y > B
<1> DEFINE B == Before(pulled)
           n == Len(AllRows)
           rest == SubSeq(AllRows, B + 1, n)
<1>1. B \in Nat /\ n \in Nat /\ B <= n
  BY ArrivalRows DEF RunType
<1>2. AllRows = [k \in 1 .. n |-> k]
  BY RunAssumption
<1>3. AllRows \in Batch
  BY <1>1, <1>2 DEF Batch
<1>4. rest \in Batch /\ Len(rest) = n - B /\ \A k \in 1 .. (n - B) : rest[k] = AllRows[B + k]
  <2>1. /\ B + 1 \in 1 .. n + 1 /\ n \in (B + 1) - 1 .. n
        /\ AllRows \in Seq(Nat) /\ Len(AllRows) = n
    BY <1>1, <1>3 DEF Batch
  <2>2. n - (B + 1) + 1 = n - B /\ \A k \in 1 .. (n - B) : (B + 1) + k - 1 = B + k
    BY <1>1
  <2> HIDE DEF n, B
  <2>3. rest \in Seq(Nat)
    BY <1>1, <2>1
  <2>4. Len(rest) = n - B
    BY <1>1, <2>1, <2>2
  <2>5. \A k \in 1 .. (n - B) : rest[k] = AllRows[B + k]
    BY <1>1, <2>1, <2>2
  <2> QED BY <2>3, <2>4, <2>5 DEF Batch
<1>5. DOMAIN rest = 1 .. (n - B)
  BY <1>4 DEF Batch
<1> HIDE DEF rest, B, n
<1>6. \A k \in 1 .. (n - B) : rest[k] = B + k
  <2> SUFFICES ASSUME NEW k \in 1 .. (n - B) PROVE rest[k] = B + k
    OBVIOUS
  <2>1. B + k \in 1 .. n
    BY <1>1
  <2> QED BY <1>2, <1>4, <2>1
<1>7. Increasing(rest) /\ \A y \in ToSet(rest) : y > B
  BY <1>1, <1>5, <1>6 DEF Increasing, ToSet
<1> QED BY <1>4, <1>7 DEF rest, B, n

LEMMA OrderInit ==
  ASSUME Init
  PROVE  OrderInv
<1>1. pulled \in 0 .. Len(Arrivals) /\ Before(pulled) = 0
  <2>1. Len(Arrivals) \in Nat
    BY RunAssumption
  <2>2. 0 \in 0 .. Len(Arrivals)
    BY <2>1
  <2> QED BY <2>2, ArrivalRows DEF Init
<1> QED BY <1>1, NoRows DEF Init, OrderInv, RunType, InLine, Precedes, Waits

(* Slicing arrivals by the credit, carrying a tail, running a processor    *)
(* and replaying letters between passes never lets a row overtake another  *)
(* on its way to the sink.                                                 *)
THEOREM RowsStayInOrder == Spec => []InOrder
<1>1. Init => OrderInv
  BY OrderInit
<1>2. OrderInv /\ [Next]_vars => OrderInv'
  BY OrderKept
<1>3. OrderInv => InOrder
  <2> SUFFICES ASSUME OrderInv PROVE InOrder
    OBVIOUS
  <2> DEFINE B == Before(pulled)
             f == FlattenSeq(staged)
             rest == SubSeq(AllRows, B + 1, Len(AllRows))
  <2>1. Cardinality(Taken) = B
    BY TakenIs DEF OrderInv, RunType
  <2>2. rest \in Batch /\ Increasing(rest) /\ \A y \in ToSet(rest) : y > B
    BY RestOfSource DEF OrderInv
  <2>3. f \in Batch /\ dataset \in Batch /\ carry \in Batch /\ offered \in Nat /\ B \in Nat
    BY NoRows, FlattenAppend, ArrivalRows DEF OrderInv, RunType
  <2>4. /\ ToSet(f) \subseteq (offered + 1) .. B /\ ToSet(dataset) \subseteq (offered + 1) .. B
        /\ ToSet(carry) \subseteq (offered + 1) .. B /\ offered <= B /\ InLine(f, dataset, carry)
    BY DEF OrderInv, Waits
  <2> DEFINE first == <<offered>>
  <2>5. first \in Batch /\ ToSet(first) = {offered} /\ Increasing(first)
    BY <2>3 DEF Batch, ToSet, Increasing
  <2>6. ToSet(rest) \subseteq Nat
    BY <2>2 DEF Batch, ToSet
  <2> HIDE DEF B, f, rest, first
  <2>7. \A S \in SUBSET ((offered + 1) .. B) : Precedes({offered}, S) /\ Precedes(S, ToSet(rest))
    BY <2>2, <2>3, <2>4, <2>6 DEF Precedes
  <2>8. Precedes({offered}, ToSet(rest))
    BY <2>2, <2>3, <2>4, <2>6 DEF Precedes
  <2> DEFINE s == first \o f
             t == s \o dataset
             u == t \o carry
  <2>9. s \in Batch /\ ToSet(s) = {offered} \cup ToSet(f) /\ Increasing(s)
    <3>1. Precedes(ToSet(first), ToSet(f))
      BY <2>4, <2>5, <2>7
    <3> QED BY <2>3, <2>4, <2>5, <3>1, BatchConcat, ToSetConcat, IncreasingConcat DEF InLine
  <2> HIDE DEF s
  <2>10. t \in Batch /\ ToSet(t) = ToSet(s) \cup ToSet(dataset) /\ Increasing(t)
    <3>1. Precedes(ToSet(s), ToSet(dataset))
      BY <2>4, <2>7, <2>9 DEF Precedes, InLine
    <3> QED BY <2>3, <2>4, <2>9, <3>1, BatchConcat, ToSetConcat, IncreasingConcat DEF InLine
  <2> HIDE DEF t
  <2>11. u \in Batch /\ ToSet(u) = ToSet(t) \cup ToSet(carry) /\ Increasing(u)
    <3>1. Precedes(ToSet(t), ToSet(carry))
      BY <2>4, <2>7, <2>9, <2>10 DEF Precedes, InLine
    <3> QED BY <2>3, <2>4, <2>10, <3>1, BatchConcat, ToSetConcat, IncreasingConcat DEF InLine
  <2> HIDE DEF u
  <2>12. Increasing(u \o rest)
    <3>1. Precedes(ToSet(u), ToSet(rest))
      BY <2>4, <2>7, <2>8, <2>9, <2>10, <2>11 DEF Precedes
    <3> QED BY <2>2, <2>11, <3>1, IncreasingConcat
  <2> QED BY <2>1, <2>12 DEF InOrder, Increasing, rest, u, t, s, first, f
<1> QED BY <1>1, <1>2, <1>3, PTL DEF Spec

----------------------------------------------------------------------------
(* Rows of a sequence of batches *)

LEMMA RowsOf ==
  ASSUME NEW s \in Seq(Batch)
  PROVE  /\ \A x : x \in Rows(s) <=> \E k \in 1 .. Len(s) : x \in ToSet(s[k])
         /\ \A k \in 1 .. Len(s) : ToSet(s[k]) \subseteq Rows(s)
<1>1. DOMAIN s = 1 .. Len(s)
  OBVIOUS
<1> QED BY <1>1 DEF Rows

LEMMA RowsOfParts ==
  ASSUME NEW s \in Seq(Batch), NEW n \in 0 .. Len(s)
  PROVE  /\ SubSeq(s, 1, n) \in Seq(Batch) /\ SubSeq(s, n + 1, Len(s)) \in Seq(Batch)
         /\ Len(SubSeq(s, 1, n)) = n /\ Len(SubSeq(s, n + 1, Len(s))) = Len(s) - n
         /\ \A k \in 1 .. n : SubSeq(s, 1, n)[k] = s[k]
         /\ \A k \in 1 .. (Len(s) - n) : SubSeq(s, n + 1, Len(s))[k] = s[n + k]
         /\ Rows(s) = Rows(SubSeq(s, 1, n)) \cup Rows(SubSeq(s, n + 1, Len(s)))
<1> DEFINE first == SubSeq(s, 1, n)
           rest == SubSeq(s, n + 1, Len(s))
           l == Len(s)
<1>1. l \in Nat /\ n \in Nat /\ n <= l
  OBVIOUS
<1>2. first \in Seq(Batch) /\ rest \in Seq(Batch)
  OBVIOUS
<1>3. Len(first) = n /\ \A k \in 1 .. n : first[k] = s[k]
  OBVIOUS
<1>4. Len(rest) = l - n
  OBVIOUS
<1>5. \A k \in 1 .. (l - n) : rest[k] = s[n + k]
  OBVIOUS
<1> HIDE DEF first, rest, l
<1>6. \A x : x \in Rows(s) <=> \E k \in 1 .. l : x \in ToSet(s[k])
  BY RowsOf DEF l
<1>7. /\ \A x : x \in Rows(first) <=> \E k \in 1 .. n : x \in ToSet(s[k])
      /\ \A x : x \in Rows(rest) <=> \E k \in 1 .. (l - n) : x \in ToSet(s[n + k])
  <2>1. /\ \A x : x \in Rows(first) <=> \E k \in 1 .. Len(first) : x \in ToSet(first[k])
        /\ \A x : x \in Rows(rest) <=> \E k \in 1 .. Len(rest) : x \in ToSet(rest[k])
    BY <1>2, RowsOf
  <2>2. \A x : x \in Rows(first) <=> \E k \in 1 .. n : x \in ToSet(s[k])
    BY <1>3, <2>1
  <2>3. \A x : x \in Rows(rest) <=> \E k \in 1 .. (l - n) : x \in ToSet(s[n + k])
    BY <1>4, <1>5, <2>1
  <2> QED BY <2>2, <2>3
<1>8. ASSUME NEW x \in Rows(s)
      PROVE  x \in Rows(first) \cup Rows(rest)
  <2>1. PICK k \in 1 .. l : x \in ToSet(s[k])
    BY <1>6
  <2>2. CASE k <= n
    BY <1>1, <1>7, <2>1, <2>2
  <2>3. CASE ~(k <= n)
    <3>1. k - n \in 1 .. (l - n) /\ n + (k - n) = k
      BY <1>1, <2>3
    <3> QED BY <1>7, <2>1, <3>1
  <2> QED BY <2>2, <2>3
<1>9. ASSUME NEW x \in Rows(first) \cup Rows(rest)
      PROVE  x \in Rows(s)
  <2>1. (\A k \in 1 .. n : k \in 1 .. l) /\ \A k \in 1 .. (l - n) : n + k \in 1 .. l
    BY <1>1
  <2> QED BY <1>6, <1>7, <2>1
<1> QED BY <1>2, <1>3, <1>4, <1>5, <1>8, <1>9 DEF first, rest, l

LEMMA RowsOfSum ==
  ASSUME NEW s \in Seq(Batch), NEW t \in Seq(Batch)
  PROVE  /\ s \o t \in Seq(Batch) /\ Len(s \o t) = Len(s) + Len(t)
         /\ \A k \in 1 .. Len(s) : (s \o t)[k] = s[k]
         /\ \A k \in 1 .. Len(t) : (s \o t)[Len(s) + k] = t[k]
         /\ Rows(s \o t) = Rows(s) \cup Rows(t)
<1> DEFINE u == s \o t
           m == Len(s)
           n == Len(t)
<1>1. /\ u \in Seq(Batch) /\ Len(u) = m + n /\ m \in Nat /\ n \in Nat
      /\ \A k \in 1 .. m : u[k] = s[k]
      /\ \A k \in 1 .. n : u[m + k] = t[k]
  OBVIOUS
<1> HIDE DEF u, m, n
<1>2. /\ \A x : x \in Rows(u) <=> \E k \in 1 .. m + n : x \in ToSet(u[k])
      /\ \A x : x \in Rows(s) <=> \E k \in 1 .. m : x \in ToSet(s[k])
      /\ \A x : x \in Rows(t) <=> \E k \in 1 .. n : x \in ToSet(t[k])
  BY <1>1, RowsOf DEF m, n
<1>3. ASSUME NEW x \in Rows(u)
      PROVE  x \in Rows(s) \cup Rows(t)
  <2>1. PICK k \in 1 .. m + n : x \in ToSet(u[k])
    BY <1>2
  <2>2. CASE k <= m
    BY <1>1, <1>2, <2>1, <2>2
  <2>3. CASE ~(k <= m)
    <3>1. k - m \in 1 .. n /\ m + (k - m) = k
      BY <1>1, <2>3
    <3>2. u[k] = t[k - m]
      BY <1>1, <3>1
    <3> QED BY <1>2, <2>1, <3>1, <3>2
  <2> QED BY <2>2, <2>3
<1>4. ASSUME NEW x \in Rows(s) \cup Rows(t)
      PROVE  x \in Rows(u)
  <2>1. (\A k \in 1 .. m : k \in 1 .. m + n) /\ \A k \in 1 .. n : m + k \in 1 .. m + n
    BY <1>1
  <2> QED BY <1>1, <1>2, <2>1
<1> QED BY <1>1, <1>3, <1>4 DEF u, m, n

LEMMA RowsOfAppend ==
  ASSUME NEW s \in Seq(Batch), NEW x \in Batch
  PROVE  /\ Append(s, x) \in Seq(Batch) /\ Len(Append(s, x)) = Len(s) + 1
         /\ \A k \in 1 .. Len(s) : Append(s, x)[k] = s[k]
         /\ Append(s, x)[Len(s) + 1] = x
         /\ Rows(Append(s, x)) = Rows(s) \cup ToSet(x)
<1> DEFINE u == Append(s, x)
           m == Len(s)
<1>1. /\ u \in Seq(Batch) /\ Len(u) = m + 1 /\ m \in Nat
      /\ \A k \in 1 .. m : u[k] = s[k]
      /\ u[m + 1] = x
  OBVIOUS
<1> HIDE DEF u, m
<1>2. /\ \A y : y \in Rows(u) <=> \E k \in 1 .. m + 1 : y \in ToSet(u[k])
      /\ \A y : y \in Rows(s) <=> \E k \in 1 .. m : y \in ToSet(s[k])
  BY <1>1, RowsOf DEF m
<1>3. \A k : k \in 1 .. m + 1 <=> k \in 1 .. m \/ k = m + 1
  BY <1>1
<1>4. Rows(u) = Rows(s) \cup ToSet(x)
  BY <1>1, <1>2, <1>3
<1> QED BY <1>1, <1>4 DEF u, m

LEMMA RowsOfTail ==
  ASSUME NEW s \in Seq(Batch), s # <<>>
  PROVE  Head(s) \in Batch /\ Tail(s) \in Seq(Batch) /\ Rows(s) = ToSet(Head(s)) \cup Rows(Tail(s))
<1> DEFINE h == Head(s)
           t == Tail(s)
           n == Len(t)
<1>1. /\ h \in Batch /\ t \in Seq(Batch) /\ n \in Nat /\ Len(s) = n + 1
      /\ h = s[1] /\ \A k \in 1 .. n : t[k] = s[k + 1]
  OBVIOUS
<1> HIDE DEF h, t, n
<1>2. /\ \A y : y \in Rows(s) <=> \E k \in 1 .. n + 1 : y \in ToSet(s[k])
      /\ \A y : y \in Rows(t) <=> \E k \in 1 .. n : y \in ToSet(t[k])
  BY <1>1, RowsOf DEF n
<1>3. /\ \A k \in 1 .. n + 1 : k = 1 \/ (k - 1 \in 1 .. n /\ (k - 1) + 1 = k)
      /\ \A k \in 1 .. n : k + 1 \in 1 .. n + 1
      /\ 1 \in 1 .. n + 1
  BY <1>1
<1>4. ASSUME NEW y \in Rows(s) PROVE y \in ToSet(h) \cup Rows(t)
  <2>1. PICK k \in 1 .. n + 1 : y \in ToSet(s[k])
    BY <1>2
  <2>2. CASE k = 1
    BY <1>1, <2>1, <2>2
  <2>3. CASE k # 1
    <3>1. t[k - 1] = s[k] /\ k - 1 \in 1 .. n
      BY <1>1, <1>3, <2>3
    <3> QED BY <1>2, <2>1, <3>1
  <2> QED BY <2>2, <2>3
<1>5. ASSUME NEW y \in ToSet(h) \cup Rows(t) PROVE y \in Rows(s)
  BY <1>1, <1>2, <1>3
<1> QED BY <1>1, <1>4, <1>5 DEF h, t

----------------------------------------------------------------------------
(* What a step of the run does to the dead letter store *)

Replays == [trigger : Triggers, fetched : Nat, consumed : Nat, retained : Seq(Batch),
            window : Nat, refused : BOOLEAN, error : BOOLEAN]

(* A replay is under way only at a replay point, so no batch is recorded   *)
(* meanwhile; it hands over no more than the store holds.                  *)
StoreInv ==
  /\ entries \in Seq(Batch) /\ replay \in Replays
  /\ request \in Requests \cup {"none"}
  /\ phase \in {"idle", "fetch", "finish", "rewrite"}
  /\ phase # "idle" => AtReplayPoint
  /\ phase = "fetch" => /\ replay.consumed <= replay.fetched /\ replay.fetched <= Len(entries)
                        /\ replay.window <= Len(replay.retained)
  /\ phase = "finish" => replay.consumed <= Len(entries)

StoreAlone == UNCHANGED <<entries, phase, replay, lost, purged, recorded, unfinished>>

(* record *)
Recorded ==
  /\ phase = "idle" /\ phase' = "idle" /\ UNCHANGED <<replay, purged, unfinished>>
  /\ staged # <<>> /\ offered' = Last(<<offered>> \o Head(staged))
  /\ \/ /\ entries' = Append(entries, Head(staged))
        /\ recorded' = recorded \cup ToSet(Head(staged)) /\ lost' = lost
     \/ /\ lost' = lost \cup ToSet(Head(staged)) /\ UNCHANGED <<entries, recorded>>

(* The reading half opens the store, or cannot. *)
Begun ==
  /\ phase = "idle" /\ phase' \in {"fetch", "rewrite"}
  /\ UNCHANGED <<entries, lost, purged, recorded, unfinished>>
  /\ replay' \in Replays /\ replay'.fetched = 0 /\ replay'.consumed = 0
  /\ replay'.retained = <<>> /\ replay'.window = 0

(* A drain reads on, or ends: cut by a shutdown, or for another reason. *)
Drained ==
  /\ phase = "fetch" /\ UNCHANGED <<entries, lost, recorded, unfinished>>
  /\ replay' \in Replays

Took ==
  /\ Drained /\ phase' = "fetch"
  /\ replay.fetched < Len(entries) /\ replay'.fetched = replay.fetched + 1
  /\ replay'.consumed = replay.fetched /\ replay'.window = Len(replay.retained)
  /\ \/ replay'.retained = Append(replay.retained, NextLetter)
     \/ replay'.retained = replay.retained /\ ToSet(NextLetter) \subseteq written' \cup purged'

CutShort ==
  /\ Drained /\ phase' = "finish"
  /\ replay'.consumed = replay.consumed
  /\ replay'.retained = SubSeq(replay.retained, 1, replay.window)

ReadThrough ==
  /\ Drained /\ phase' = "finish"
  /\ replay'.consumed = replay.fetched /\ replay'.retained = replay.retained

(* finish, and the write-back. *)
Deleted ==
  /\ phase = "finish" /\ phase' = "rewrite" /\ UNCHANGED <<replay, lost, purged, recorded>>
  /\ \/ entries' = SubSeq(entries, replay.consumed + 1, Len(entries)) /\ unfinished' = unfinished
     \/ entries' = entries /\ unfinished' = TRUE

WrittenBack ==
  /\ phase = "rewrite" /\ phase' = "idle" /\ replay' = NoReplay
  /\ UNCHANGED <<purged, recorded, unfinished>>
  /\ \E kept \in 0 .. Len(replay.retained) :
       /\ entries' = entries \o SubSeq(replay.retained, 1, kept)
       /\ lost' = lost \cup Rows(SubSeq(replay.retained, kept + 1, Len(replay.retained)))

StoreMove ==
  \/ StoreAlone \/ Recorded \/ Begun \/ Took \/ CutShort \/ ReadThrough \/ Deleted \/ WrittenBack

LEMMA TriggersReplay ==
  ASSUME request \in Requests \cup {"none"}, NEW c, TriggerNow(c) # "none"
  PROVE  TriggerNow(c) \in Triggers
BY DEF TriggerNow, Requests, Triggers

(* A fetch moves the counters and leaves what is kept alone. *)
LEMMA FetchMoves ==
  ASSUME StoreInv, phase = "fetch", replay.fetched < Len(entries)
  PROVE  LET more == [Fetched EXCEPT !.retained = Append(@, NextLetter)]
         IN /\ NextLetter \in Batch
            /\ Fetched \in Replays /\ Fetched.fetched = replay.fetched + 1
            /\ Fetched.consumed = replay.fetched /\ Fetched.window = Len(replay.retained)
            /\ Fetched.retained = replay.retained
            /\ more \in Replays /\ more.fetched = replay.fetched + 1
            /\ more.consumed = replay.fetched /\ more.window = Len(replay.retained)
            /\ more.retained = Append(replay.retained, NextLetter)
            /\ [more EXCEPT !.refused = TRUE] \in Replays
            /\ [Fetched EXCEPT !.error = TRUE] \in Replays
<1>1. replay \in Replays /\ entries \in Seq(Batch)
  BY DEF StoreInv
<1>2. /\ replay.fetched \in Nat /\ replay.retained \in Seq(Batch) /\ Len(replay.retained) \in Nat
      /\ replay.fetched + 1 \in 1 .. Len(entries)
  BY <1>1 DEF Replays
<1>3. NextLetter \in Batch
  BY <1>1, <1>2 DEF NextLetter
<1>4. Append(replay.retained, NextLetter) \in Seq(Batch)
  BY <1>2, <1>3
<1>5. /\ Fetched \in Replays /\ Fetched.fetched = replay.fetched + 1
      /\ Fetched.consumed = replay.fetched /\ Fetched.window = Len(replay.retained)
      /\ Fetched.retained = replay.retained
  <2> DEFINE f == replay.fetched
             n == Len(replay.retained)
  <2>1. Fetched = [replay EXCEPT !.fetched = f + 1, !.consumed = f, !.window = n]
    BY DEF Fetched
  <2>2. f \in Nat /\ n \in Nat /\ f + 1 \in Nat
    BY <1>2
  <2> HIDE DEF f, n
  <2>3. Fetched \in Replays
    BY <1>1, <2>1, <2>2 DEF Replays
  <2>4. /\ Fetched.fetched = f + 1 /\ Fetched.consumed = f /\ Fetched.window = n
        /\ Fetched.retained = replay.retained
    BY <1>1, <2>1 DEF Replays
  <2> QED BY <2>3, <2>4 DEF f, n
<1> HIDE DEF Fetched
<1> QED BY <1>3, <1>4, <1>5 DEF Replays

(* Every step of the run is one of these moves. *)
LEMMA StoreMoves ==
  ASSUME StoreInv, [Next]_vars
  PROVE  /\ StoreMove
         /\ written \subseteq written' /\ purged \subseteq purged'
         /\ request' \in Requests \cup {"none"}
         /\ phase' # "idle" => AtReplayPoint'
<1> DEFINE Rest == /\ written \subseteq written' /\ purged \subseteq purged'
                   /\ request' \in Requests \cup {"none"}
                   /\ phase' # "idle" => AtReplayPoint'
<1>1. ASSUME UNCHANGED dlqVars, written' = written, phase = "idle" \/ pc' = pc
      PROVE  StoreMove /\ Rest
  BY <1>1 DEF dlqVars, StoreMove, StoreAlone, StoreInv, AtReplayPoint
<1>2. pc \notin {"atHead", "atTail"} => phase = "idle"
  BY DEF StoreInv, AtReplayPoint
<1>3. CASE HeadOfPass \/ WritesDone
  BY <1>1, <1>2, <1>3 DEF HeadOfPass, WritesDone, sinkVars
<1>4. CASE CreditSpent \/ PullNothing \/ PullCancelled \/ AdmitCarry \/ Pull
  BY <1>1, <1>2, <1>4 DEF CreditSpent, PullNothing, PullCancelled, AdmitCarry, Pull, DrainStep
<1>5. CASE RunOk \/ RunFails \/ RunCancelled
  BY <1>1, <1>2, <1>5 DEF RunOk, RunFails, RunCancelled, RunStep
<1>6. CASE ClosePass \/ PaceCancelled \/ Pace \/ FinishSinks \/ FinishAllSources \/ FinishDlq
  BY <1>1, <1>2, <1>6 DEF ClosePass, PaceCancelled, Pace, FinishSinks, FinishAllSources,
                          FinishDlq, EndStep, sinkVars
<1>7. CASE Cancel \/ UNCHANGED vars
  BY <1>1, <1>7 DEF Cancel, vars, sinkVars
<1>8. CASE PullFails \/ WriteOk \/ RequestReplay \/ TimePasses
  <2>1. /\ StoreAlone /\ written \subseteq written' /\ (phase = "idle" \/ pc' = pc)
        /\ request' \in Requests \cup {"none"}
    <3>1. CASE PullFails
      BY <1>2, <3>1 DEF PullFails, StoreAlone, StoreInv, sinkVars
    <3>2. CASE WriteOk
      BY <1>2, <3>2 DEF WriteOk, Offer, StoreAlone, StoreInv
    <3>3. CASE RequestReplay
      BY <3>3 DEF RequestReplay, Ask, StoreAlone, StoreInv, sinkVars
    <3>4. CASE TimePasses
      BY <3>4 DEF TimePasses, ScheduleDue, StoreAlone, StoreInv, sinkVars
    <3> QED BY <1>8, <3>1, <3>2, <3>3, <3>4
  <2> QED BY <2>1 DEF StoreMove, StoreAlone, StoreInv, AtReplayPoint
<1>9. CASE WriteRefused
  <2>1. /\ phase = "idle" /\ staged # <<>> /\ offered' = Last(<<offered>> \o Head(staged))
        /\ written' = written
    BY <1>2, <1>9 DEF WriteRefused, Offer
  <2>2. CASE config.dlq = "none"
    BY <1>9, <2>1, <2>2 DEF WriteRefused, StoreMove, StoreAlone, StoreInv
  <2>3. CASE config.dlq # "none"
    <3>1. Record(Head(staged))
      BY <1>9, <2>3 DEF WriteRefused
    <3>2. Recorded /\ request' = request /\ purged' = purged /\ phase' = "idle"
      BY <2>1, <3>1 DEF Record, RecordStored, RecordLost, Recorded
    <3> QED BY <2>1, <3>2 DEF StoreMove, StoreInv
  <2> QED BY <2>2, <2>3
<1>10. CASE SkipReplay
  BY <1>10 DEF SkipReplay, NoReplayNow, StoreMove, StoreAlone, StoreInv
<1>11. CASE BeginReplay
  <2>1. /\ phase = "idle" /\ TriggerNow(cancel) # "none" /\ request' = "none" /\ pc' = pc
        /\ AtReplayPoint /\ phase' \in {"fetch", "rewrite"} /\ written' = written
        /\ UNCHANGED <<entries, lost, purged, recorded, unfinished>>
        /\ \/ replay' = [NoReplay EXCEPT !.trigger = TriggerNow(cancel)]
           \/ replay' = [NoReplay EXCEPT !.trigger = TriggerNow(cancel), !.error = TRUE]
    BY <1>11 DEF BeginReplay, ReplayStep, StartReplay
  <2>2. TriggerNow(cancel) \in Triggers
    BY <2>1, TriggersReplay DEF StoreInv
  <2> DEFINE trigger == TriggerNow(cancel)
  <2> HIDE DEF trigger
  <2>3. NoReplay \in Replays
    BY NoRows DEF NoReplay, Replays, Triggers
  <2>4. /\ replay' \in Replays /\ replay'.fetched = 0 /\ replay'.consumed = 0
        /\ replay'.retained = <<>> /\ replay'.window = 0
    <3>1. \/ replay' = [NoReplay EXCEPT !.trigger = trigger]
          \/ replay' = [NoReplay EXCEPT !.trigger = trigger, !.error = TRUE]
      BY <2>1 DEF trigger
    <3>2. trigger \in Triggers
      BY <2>2 DEF trigger
    <3>3. replay' \in Replays
      BY <2>3, <3>1, <3>2 DEF Replays
    <3> QED BY <3>1, <3>3 DEF NoReplay
  <2> QED BY <2>1, <2>4 DEF StoreMove, Begun, AtReplayPoint
<1>12. CASE EndDrain
  <2>1. /\ AtReplayPoint /\ pc' = pc /\ Draining /\ written' = written /\ purged' = purged
        /\ phase = "fetch" /\ phase' = "finish"
        /\ \/ replay' = [replay EXCEPT !.error = TRUE, !.retained = SubSeq(@, 1, replay.window)]
           \/ replay' = [replay EXCEPT !.error = TRUE, !.consumed = replay.fetched]
           \/ replay' = [replay EXCEPT !.consumed = replay.fetched]
    BY <1>12 DEF EndDrain, ReplayStep, DrainCancelled, DrainFails, DrainEnds
  <2> DEFINE short == SubSeq(replay.retained, 1, replay.window)
             f == replay.fetched
  <2>2. replay \in Replays /\ f \in Nat /\ replay.retained \in Seq(Batch)
        /\ replay.window \in 0 .. Len(replay.retained)
    BY <2>1 DEF StoreInv, Replays
  <2>3. short \in Seq(Batch)
    BY <2>2, RowsOfParts
  <2>4. \/ replay' = [replay EXCEPT !.error = TRUE, !.retained = short]
        \/ replay' = [replay EXCEPT !.error = TRUE, !.consumed = f]
        \/ replay' = [replay EXCEPT !.consumed = f]
    BY <2>1
  <2> HIDE DEF short, f
  <2>5. /\ replay' \in Replays
        /\ \/ replay'.consumed = replay.consumed /\ replay'.retained = short
           \/ replay'.consumed = f /\ replay'.retained = replay.retained
    <3>1. CASE replay' = [replay EXCEPT !.error = TRUE, !.retained = short]
      BY <2>2, <2>3, <3>1 DEF Replays
    <3>2. CASE replay' = [replay EXCEPT !.error = TRUE, !.consumed = f]
      BY <2>2, <2>3, <3>2 DEF Replays
    <3>3. CASE replay' = [replay EXCEPT !.consumed = f]
      BY <2>2, <2>3, <3>3 DEF Replays
    <3> QED BY <2>4, <3>1, <3>2, <3>3
  <2>6. CutShort \/ ReadThrough
    BY <2>1, <2>5 DEF CutShort, ReadThrough, Drained, Draining, short, f
  <2> QED BY <2>1, <2>6 DEF StoreMove, Draining, StoreInv, AtReplayPoint
<1>13. CASE ReplayLetter
  <2> DEFINE more == [Fetched EXCEPT !.retained = Append(@, NextLetter)]
             gone == ToSet(NextLetter) \subseteq written' \cup purged'
  <2>1. /\ AtReplayPoint /\ pc' = pc /\ Draining /\ phase = "fetch" /\ replay.fetched < Len(entries)
    BY <1>13 DEF ReplayLetter, ReplayStep, LetterPurged, LetterKept, LetterUnreadable,
                 LetterDelivered, LetterRefused, OfferLetter, Fetch
  <2>2. written \subseteq written' /\ purged \subseteq purged'
    BY <1>13 DEF ReplayLetter, LetterPurged, LetterKept, LetterUnreadable, LetterDelivered,
                 LetterRefused
  <2>3. \/ phase' = "fetch" /\ replay' = Fetched /\ gone
        \/ phase' = "fetch" /\ replay' = more
        \/ phase' = "fetch" /\ replay' = [more EXCEPT !.refused = TRUE]
        \/ phase' = "finish" /\ replay' = [Fetched EXCEPT !.error = TRUE]
    <3> HIDE DEF Fetched, NextLetter
    <3>1. CASE LetterPurged
      BY <3>1 DEF LetterPurged, Fetch
    <3>2. CASE LetterKept \/ LetterUnreadable
      BY <2>1, <3>2 DEF LetterKept, LetterUnreadable, Fetch
    <3>3. CASE LetterDelivered /\ written' = written \cup ToSet(NextLetter)
      BY <3>3 DEF LetterDelivered, OfferLetter, Fetch
    <3>4. CASE LetterRefused
      <4>1. /\ phase' = "fetch"
            /\ replay' = [Fetched EXCEPT !.retained = Append(@, NextLetter), !.refused = TRUE]
        BY <3>4 DEF LetterRefused, OfferLetter, Fetch
      <4> QED BY <4>1
    <3> QED BY <1>13, <3>1, <3>2, <3>3, <3>4 DEF ReplayLetter
  <2>4. /\ NextLetter \in Batch
        /\ Fetched \in Replays /\ Fetched.fetched = replay.fetched + 1
        /\ Fetched.consumed = replay.fetched /\ Fetched.window = Len(replay.retained)
        /\ Fetched.retained = replay.retained
        /\ more \in Replays /\ more.fetched = replay.fetched + 1
        /\ more.consumed = replay.fetched /\ more.window = Len(replay.retained)
        /\ more.retained = Append(replay.retained, NextLetter)
        /\ [more EXCEPT !.refused = TRUE] \in Replays
        /\ [Fetched EXCEPT !.error = TRUE] \in Replays
    BY <2>1, FetchMoves
  <2> HIDE DEF more, gone, Fetched, NextLetter
  <2>5. Took \/ ReadThrough
    <3>1. Drained \/ replay' \notin Replays
      BY <2>1 DEF Drained, Draining
    <3>2. CASE phase' = "fetch" /\ replay' = Fetched /\ gone
      BY <2>1, <2>4, <3>1, <3>2 DEF Took, gone
    <3>3. CASE phase' = "fetch" /\ replay' = more
      BY <2>1, <2>4, <3>1, <3>3 DEF Took
    <3>4. CASE phase' = "fetch" /\ replay' = [more EXCEPT !.refused = TRUE]
      <4>1. /\ replay'.fetched = more.fetched /\ replay'.consumed = more.consumed
            /\ replay'.window = more.window /\ replay'.retained = more.retained
        BY <2>4, <3>4 DEF Replays
      <4> QED BY <2>1, <2>4, <3>1, <3>4, <4>1 DEF Took
    <3>5. CASE phase' = "finish" /\ replay' = [Fetched EXCEPT !.error = TRUE]
      <4>1. replay'.consumed = Fetched.consumed /\ replay'.retained = Fetched.retained
        BY <2>4, <3>5 DEF Replays
      <4> QED BY <2>4, <3>1, <3>5, <4>1 DEF ReadThrough
    <3> QED BY <2>3, <3>2, <3>3, <3>4, <3>5
  <2> QED BY <2>1, <2>2, <2>5 DEF StoreMove, Draining, StoreInv, AtReplayPoint
<1>14. CASE FinishReplaySource
  <2>1. Deleted /\ AtReplayPoint /\ pc' = pc /\ UNCHANGED <<written, purged, request>>
    BY <1>14 DEF FinishReplaySource, ReplayStep, FinishReading, Deleted
  <2> QED BY <2>1 DEF StoreMove, StoreInv, AtReplayPoint
<1>15. CASE EndReplay
  <2>1. WrittenBack /\ phase' = "idle" /\ UNCHANGED <<written, purged, request>>
    BY <1>15 DEF EndReplay, Rewrite, WrittenBack
  <2> QED BY <2>1 DEF StoreMove, StoreInv
<1> QED BY <1>3, <1>4, <1>5, <1>6, <1>7, <1>8, <1>9, <1>10, <1>11, <1>12, <1>13, <1>14, <1>15
        DEF Next, Runner

LEMMA StoreKept ==
  ASSUME StoreInv, RunType, [Next]_vars
  PROVE  StoreInv'
<1>1. /\ StoreMove /\ request' \in Requests \cup {"none"} /\ (phase' # "idle" => AtReplayPoint')
  BY StoreMoves
<1>2. /\ entries \in Seq(Batch) /\ replay \in Replays /\ Len(entries) \in Nat
      /\ replay.fetched \in Nat /\ replay.consumed \in Nat /\ replay.retained \in Seq(Batch)
      /\ replay.window \in Nat /\ Len(replay.retained) \in Nat
  BY DEF StoreInv, Replays
<1>3. CASE StoreAlone
  BY <1>1, <1>3 DEF StoreAlone, StoreInv
<1>4. CASE Recorded
  <2>1. Head(staged) \in Batch
    BY <1>4, RowsOfTail DEF Recorded, RunType
  <2>2. Append(entries, Head(staged)) \in Seq(Batch)
    BY <1>2, <2>1
  <2>3. entries' \in Seq(Batch) /\ replay' = replay /\ phase' = "idle"
    BY <1>2, <1>4, <2>2 DEF Recorded
  <2> QED BY <1>1, <1>2, <2>3 DEF StoreInv
<1>5. CASE Begun
  <2>1. Len(replay'.retained) = 0 /\ Len(entries') >= 0
    BY <1>2, <1>5 DEF Begun
  <2> QED BY <1>1, <1>2, <1>5, <2>1 DEF Begun, StoreInv
<1>6. CASE Took
  <2>1. /\ phase' = "fetch" /\ entries' = entries /\ replay' \in Replays
        /\ replay.fetched < Len(entries) /\ replay'.fetched = replay.fetched + 1
        /\ replay'.consumed = replay.fetched /\ replay'.window = Len(replay.retained)
    BY <1>6 DEF Took, Drained
  <2>2. Len(replay'.retained) >= Len(replay.retained)
    <3>1. NextLetter \in Batch
      BY <1>6, FetchMoves DEF Took, Drained
    <3>2. Len(Append(replay.retained, NextLetter)) = Len(replay.retained) + 1
      BY <1>2, <3>1, RowsOfAppend
    <3>3. \/ replay'.retained = Append(replay.retained, NextLetter)
          \/ replay'.retained = replay.retained
      BY <1>6 DEF Took
    <3> QED BY <1>2, <3>2, <3>3
  <2> QED BY <1>1, <1>2, <2>1, <2>2 DEF StoreInv
<1>7. CASE CutShort \/ ReadThrough
  BY <1>1, <1>2, <1>7 DEF CutShort, ReadThrough, Drained, StoreInv
<1>8. CASE Deleted
  <2>1. phase = "finish" /\ phase' = "rewrite" /\ replay' = replay
    BY <1>8 DEF Deleted
  <2>2. replay.consumed \in 0 .. Len(entries)
    BY <1>2, <2>1 DEF StoreInv
  <2>3. SubSeq(entries, replay.consumed + 1, Len(entries)) \in Seq(Batch)
    BY <1>2, <2>2, RowsOfParts
  <2>4. entries' \in Seq(Batch)
    BY <1>2, <1>8, <2>3 DEF Deleted
  <2> QED BY <1>1, <1>2, <2>1, <2>4 DEF StoreInv
<1>9. CASE WrittenBack
  <2>1. PICK kept \in 0 .. Len(replay.retained) :
               entries' = entries \o SubSeq(replay.retained, 1, kept)
    BY <1>9 DEF WrittenBack
  <2>2. SubSeq(replay.retained, 1, kept) \in Seq(Batch)
    BY <1>2, RowsOfParts
  <2>3. entries' \in Seq(Batch)
    BY <1>2, <2>1, <2>2, RowsOfSum
  <2>4. NoReplay \in Replays
    BY NoRows DEF NoReplay, Replays, Triggers
  <2> QED BY <1>1, <1>9, <2>3, <2>4 DEF WrittenBack, StoreInv
<1> QED BY <1>1, <1>3, <1>4, <1>5, <1>6, <1>7, <1>8, <1>9 DEF StoreMove

----------------------------------------------------------------------------
(* What a crash may lose *)

(* A batch whose rows all reached an end, or are kept for the write-back. *)
Safe(batch, keeping) == ToSet(batch) \subseteq written \cup purged \cup lost \cup keeping

(* Every recorded row is at rest.  What a replay has consumed it delivered *)
(* or discarded, or it keeps it; what the last fetch handed over is        *)
(* consumed only by the next one, and so is what it added to the kept.     *)
LettersInv ==
  /\ recorded \subseteq written \cup purged \cup lost \cup Rows(entries)
                        \cup (IF phase = "rewrite" THEN Rows(replay.retained) ELSE {})
  /\ phase = "fetch" =>
       /\ \A k \in 1 .. replay.consumed :
            Safe(entries[k], Rows(SubSeq(replay.retained, 1, replay.window)))
       /\ \A k \in 1 .. replay.fetched : Safe(entries[k], Rows(replay.retained))
  /\ phase = "finish" =>
       \A k \in 1 .. replay.consumed : Safe(entries[k], Rows(replay.retained))

LEMMA LettersKept ==
  ASSUME StoreInv, RunType, LettersInv, [Next]_vars
  PROVE  LettersInv'
<1> DEFINE Done == written \cup purged \cup lost
<1>1. StoreMove /\ written \subseteq written' /\ purged \subseteq purged'
  BY StoreMoves
<1>2. /\ entries \in Seq(Batch) /\ Len(entries) \in Nat
      /\ replay.fetched \in Nat /\ replay.consumed \in Nat /\ replay.retained \in Seq(Batch)
      /\ replay.window \in Nat /\ Len(replay.retained) \in Nat
  BY DEF StoreInv, Replays
<1>3. CASE StoreAlone
  BY <1>1, <1>3 DEF StoreAlone, LettersInv, Safe
<1>4. CASE Recorded
  <2>1. Head(staged) \in Batch
    BY <1>4, RowsOfTail DEF Recorded, RunType
  <2>2. Rows(Append(entries, Head(staged))) = Rows(entries) \cup ToSet(Head(staged))
    BY <1>2, <2>1, RowsOfAppend
  <2>3. phase = "idle" /\ phase' = "idle"
    BY <1>4 DEF Recorded
  <2>4. recorded' \subseteq written' \cup purged' \cup lost' \cup Rows(entries')
    BY <1>1, <1>4, <2>2, <2>3 DEF Recorded, LettersInv
  <2> QED BY <2>3, <2>4 DEF LettersInv
<1>5. CASE Begun
  <2>1. 1 .. 0 = {}
    OBVIOUS
  <2> QED BY <1>1, <1>5, <2>1 DEF Begun, LettersInv
<1>6. CASE Took
  <2> DEFINE f == replay.fetched
             r == replay.retained
  <2>1. /\ phase = "fetch" /\ phase' = "fetch" /\ UNCHANGED <<entries, lost, recorded>>
        /\ f < Len(entries) /\ replay'.fetched = f + 1
        /\ replay'.consumed = f /\ replay'.window = Len(r)
        /\ \/ replay'.retained = Append(r, NextLetter)
           \/ replay'.retained = r /\ ToSet(NextLetter) \subseteq written' \cup purged'
    BY <1>6 DEF Took, Drained
  <2>2. NextLetter \in Batch
    BY <1>6, FetchMoves DEF Took, Drained
  <2>3. /\ Append(r, NextLetter) \in Seq(Batch) /\ Len(Append(r, NextLetter)) = Len(r) + 1
        /\ Rows(Append(r, NextLetter)) = Rows(r) \cup ToSet(NextLetter)
        /\ SubSeq(Append(r, NextLetter), 1, Len(r)) = r /\ SubSeq(r, 1, Len(r)) = r
    BY <1>2, <2>2, RowsOfAppend
  <2>4. /\ SubSeq(replay'.retained, 1, Len(r)) = r /\ Rows(r) \subseteq Rows(replay'.retained)
        /\ ToSet(NextLetter) \subseteq written' \cup purged' \cup Rows(replay'.retained)
    BY <2>1, <2>3
  <2>5. \A k \in 1 .. f : ToSet(entries[k]) \subseteq Done \cup Rows(r)
    BY <2>1 DEF LettersInv, Safe
  <2>6. \A k \in 1 .. f + 1 : k \in 1 .. f \/ k = f + 1
    BY <1>2
  <2>7. NextLetter = entries[f + 1]
    BY DEF NextLetter
  <2> HIDE DEF f, r, NextLetter
  <2>8. /\ \A k \in 1 .. f : ToSet(entries[k]) \subseteq written' \cup purged' \cup lost \cup Rows(r)
        /\ \A k \in 1 .. f + 1 :
             ToSet(entries[k]) \subseteq written' \cup purged' \cup lost \cup Rows(replay'.retained)
    BY <1>1, <2>4, <2>5, <2>6, <2>7
  <2>9. recorded \subseteq written' \cup purged' \cup lost \cup Rows(entries)
    BY <1>1, <2>1 DEF LettersInv
  <2> QED BY <2>1, <2>4, <2>8, <2>9 DEF LettersInv, Safe
<1>7. CASE CutShort \/ ReadThrough
  BY <1>1, <1>7 DEF CutShort, ReadThrough, Drained, LettersInv, Safe
<1>8. CASE Deleted
  <2> DEFINE c == replay.consumed
             first == SubSeq(entries, 1, c)
             rest == SubSeq(entries, c + 1, Len(entries))
  <2>1. /\ phase = "finish" /\ phase' = "rewrite" /\ UNCHANGED <<replay, lost, purged, recorded>>
        /\ entries' = rest \/ entries' = entries
    BY <1>8 DEF Deleted
  <2>2. c \in 0 .. Len(entries)
    BY <1>2, <2>1 DEF StoreInv
  <2>3. /\ first \in Seq(Batch) /\ Len(first) = c /\ \A k \in 1 .. c : first[k] = entries[k]
        /\ Rows(entries) = Rows(first) \cup Rows(rest)
    BY <1>2, <2>2, RowsOfParts
  <2>4. \A k \in 1 .. c : ToSet(entries[k]) \subseteq Done \cup Rows(replay.retained)
    BY <2>1 DEF LettersInv, Safe
  <2> HIDE DEF c, first, rest
  <2>5. Rows(first) \subseteq Done \cup Rows(replay.retained)
    BY <2>3, <2>4, RowsOf
  <2>6. recorded \subseteq Done \cup Rows(entries)
    BY <2>1 DEF LettersInv
  <2>7. recorded \subseteq Done \cup Rows(entries') \cup Rows(replay.retained)
    BY <2>1, <2>3, <2>5, <2>6
  <2>8. recorded' \subseteq written' \cup purged' \cup lost' \cup Rows(entries') \cup Rows(replay'.retained)
    BY <1>1, <2>1, <2>7
  <2> QED BY <2>1, <2>8 DEF LettersInv
<1>9. CASE WrittenBack
  <2> DEFINE r == replay.retained
  <2>1. PICK kept \in 0 .. Len(r) :
               /\ entries' = entries \o SubSeq(r, 1, kept)
               /\ lost' = lost \cup Rows(SubSeq(r, kept + 1, Len(r)))
    BY <1>9 DEF WrittenBack
  <2>2. /\ SubSeq(r, 1, kept) \in Seq(Batch)
        /\ Rows(r) = Rows(SubSeq(r, 1, kept)) \cup Rows(SubSeq(r, kept + 1, Len(r)))
    BY <1>2, RowsOfParts
  <2>3. Rows(entries') = Rows(entries) \cup Rows(SubSeq(r, 1, kept))
    BY <1>2, <2>1, <2>2, RowsOfSum
  <2>4. phase = "rewrite" /\ phase' = "idle" /\ UNCHANGED <<purged, recorded>>
    BY <1>9 DEF WrittenBack
  <2>5. recorded \subseteq Done \cup Rows(entries) \cup Rows(r)
    BY <2>4 DEF LettersInv
  <2> HIDE DEF r
  <2>6. recorded' \subseteq written' \cup purged' \cup lost' \cup Rows(entries')
    BY <1>1, <2>1, <2>2, <2>3, <2>4, <2>5
  <2> QED BY <2>4, <2>6 DEF LettersInv
<1> QED BY <1>1, <1>3, <1>4, <1>5, <1>6, <1>7, <1>8, <1>9 DEF StoreMove

LEMMA StoreInit ==
  ASSUME Init
  PROVE  StoreInv /\ LettersInv
<1>1. /\ entries = <<>> /\ request = "none" /\ phase = "idle" /\ replay = NoReplay /\ recorded = {}
  BY DEF Init, DlqInit
<1>2. NoReplay \in Replays
  BY NoRows DEF NoReplay, Replays, Triggers
<1> QED BY <1>1, <1>2, NoRows DEF StoreInv, LettersInv

(* A crash of the process at any point outside the write-back that ends a  *)
(* replay leaves every row recorded so far on disk, unless a sink accepted *)
(* it, an operator discarded it or it was counted lost.                    *)
THEOREM CrashKeepsLetters == Spec => []CrashLosesNothing
<1> DEFINE Inv == OrderInv /\ StoreInv /\ LettersInv
<1>1. Init => Inv
  BY OrderInit, StoreInit
<1>2. Inv /\ [Next]_vars => Inv'
  BY OrderKept, StoreKept, LettersKept DEF OrderInv
<1>3. Inv => CrashLosesNothing
  BY DEF LettersInv, CrashLosesNothing
<1> QED BY <1>1, <1>2, <1>3, PTL DEF Spec

----------------------------------------------------------------------------
(* What becomes of a row *)

(* What the runner holds, and what has left its hands for good. *)
HandedOn == dropped \cup written \cup lost \cup recorded
TakenInv == Taken \subseteq Held \cup HandedOn

LEMMA HandedOnGrows ==
  ASSUME StoreInv, [Next]_vars
  PROVE  /\ lost \subseteq lost' /\ recorded \subseteq recorded' /\ written \subseteq written'
<1>1. StoreMove /\ written \subseteq written'
  BY StoreMoves
<1>2. lost \subseteq lost' /\ recorded \subseteq recorded'
  BY <1>1 DEF StoreMove, StoreAlone, Recorded, Begun, Took, CutShort, ReadThrough, Drained,
              Deleted, WrittenBack
<1> QED BY <1>1, <1>2

(* Admitting a batch puts its rows into the runner's hands, or counts them. *)
LEMMA AdmitHolds ==
  ASSUME RunType, NEW batch \in Batch, Admit(batch)
  PROVE  /\ ToSet(batch) \subseteq Held' \cup dropped'
         /\ ToSet(dataset) \cup Rows(staged) \subseteq Held' /\ dropped \subseteq dropped'
<1> DEFINE cut == ~config.whole /\ Len(batch) > remaining
           chunk == IF cut THEN Chunk(batch) ELSE batch
           tail == IF cut THEN SubSeq(batch, remaining + 1, Len(batch)) ELSE <<>>
<1>1. chunk \in Batch /\ tail \in Batch /\ batch = chunk \o tail
  <2>1. CASE cut
    <3>1. Len(batch) > remaining /\ remaining \in Nat
      BY <2>1 DEF RunType
    <3> QED BY <2>1, <3>1, CutAndCarry DEF Chunk
  <2>2. CASE ~cut
    BY <2>2, BatchConcat, NoRows
  <2> QED BY <2>1, <2>2
<1>2. /\ carry' = tail
      /\ \/ dataset' = dataset \o chunk /\ staged' = staged /\ dropped' = dropped
         \/ dataset' = dataset /\ staged' = staged /\ dropped' = dropped \cup ToSet(chunk)
         \/ dataset' = dataset /\ staged' = Append(staged, chunk) /\ dropped' = dropped
  BY DEF Admit
<1> HIDE DEF cut, chunk, tail
<1>3. /\ ToSet(batch) = ToSet(chunk) \cup ToSet(tail)
      /\ ToSet(dataset \o chunk) = ToSet(dataset) \cup ToSet(chunk)
      /\ Rows(Append(staged, chunk)) = Rows(staged) \cup ToSet(chunk)
  BY <1>1, ToSetConcat, RowsOfAppend DEF RunType
<1> QED BY <1>2, <1>3 DEF Held

LEMMA TakenKept ==
  ASSUME OrderInv, StoreInv, TakenInv, [Next]_vars
  PROVE  TakenInv'
<1> USE DEF TakenInv, HandedOn
<1>0. /\ RunType /\ lost \subseteq lost' /\ recorded \subseteq recorded' /\ written \subseteq written'
  BY HandedOnGrows DEF OrderInv
<1>1. ASSUME UNCHANGED <<pulled, carry, dataset, staged, dropped>>
      PROVE  TakenInv'
  BY <1>0, <1>1 DEF Taken, Held
<1>2. CASE HeadOfPass
  BY <1>1, <1>2 DEF HeadOfPass, sinkVars
<1>3. CASE SkipReplay \/ BeginReplay \/ EndDrain \/ ReplayLetter \/ FinishReplaySource \/ EndReplay
  <2>1. ReplayStep
    BY <1>3 DEF SkipReplay, BeginReplay, EndDrain, ReplayLetter, FinishReplaySource, EndReplay
  <2> QED BY <1>1, <2>1 DEF ReplayStep, passVars
<1>4. CASE CreditSpent \/ PullNothing \/ PullCancelled \/ PullFails
  BY <1>1, <1>4 DEF CreditSpent, PullNothing, PullCancelled, PullFails, passVars, sinkVars
<1>5. CASE AdmitCarry
  <2>1. Admit(carry) /\ pulled' = pulled
    BY <1>5 DEF AdmitCarry
  <2>2. /\ ToSet(carry) \subseteq Held' \cup dropped'
        /\ ToSet(dataset) \cup Rows(staged) \subseteq Held' /\ dropped \subseteq dropped'
    BY <1>0, <2>1, AdmitHolds DEF RunType
  <2>3. Taken' = Taken
    BY <2>1 DEF Taken
  <2>4. Held \subseteq Held' \cup dropped'
    BY <2>2 DEF Held
  <2> QED BY <1>0, <2>2, <2>3, <2>4
<1>6. CASE Pull
  <2> DEFINE batch == Arrivals[pulled + 1]
             B == Before(pulled)
  <2>1. Admit(batch) /\ pulled' = pulled + 1 /\ carry = <<>> /\ pulled < Len(Arrivals)
    BY <1>6 DEF Pull, PullReady
  <2>2. /\ B \in Nat /\ batch \in Batch /\ Before(pulled + 1) = B + Len(batch)
        /\ \A k \in 1 .. Len(batch) : batch[k] = B + k
    BY <1>0, <2>1, ArrivalRows DEF RunType
  <2>3. Taken = 1 .. B /\ Taken' = 1 .. (B + Len(batch))
    BY <2>1, <2>2 DEF Taken, Before
  <2>4. /\ ToSet(batch) \subseteq Held' \cup dropped'
        /\ ToSet(dataset) \cup Rows(staged) \subseteq Held' /\ dropped \subseteq dropped'
    <3> HIDE DEF batch
    <3> QED BY <1>0, <2>1, <2>2, AdmitHolds
  <2>5. ToSet(carry) = {}
    BY <2>1, NoRows
  <2>6. Len(batch) \in Nat /\ DOMAIN batch = 1 .. Len(batch)
    BY <2>2 DEF Batch
  <2> HIDE DEF batch, B
  <2>7. ASSUME NEW x \in 1 .. (B + Len(batch)), x \notin 1 .. B
        PROVE  x \in ToSet(batch)
    <3>1. x - B \in 1 .. Len(batch) /\ B + (x - B) = x
      BY <2>2, <2>6, <2>7
    <3>2. batch[x - B] = x
      BY <2>2, <3>1
    <3> QED BY <2>6, <3>1, <3>2 DEF ToSet
  <2>8. Held \subseteq Held'
    BY <2>4, <2>5 DEF Held
  <2> QED BY <1>0, <2>3, <2>4, <2>7, <2>8
<1>7. CASE RunOk \/ RunFails \/ RunCancelled
  <2>1. Rows(Append(staged, dataset)) = Rows(staged) \cup ToSet(dataset)
    BY <1>0, RowsOfAppend DEF RunType
  <2>2. /\ pulled' = pulled /\ carry' = carry
        /\ \/ staged' = staged /\ dataset = <<>> /\ dropped' = dropped
           \/ staged' = Append(staged, dataset) /\ dropped' = dropped
           \/ staged' = staged /\ dropped' = dropped \cup ToSet(dataset)
           \/ staged' = staged /\ dataset' = dataset /\ dropped' = dropped
    BY <1>7 DEF RunOk, RunFails, RunCancelled, RunStep
  <2>3. Taken' = Taken /\ dropped \subseteq dropped' /\ Held \subseteq Held' \cup dropped'
    BY <2>1, <2>2, NoRows DEF Held, Taken
  <2> QED BY <1>0, <2>3
<1>8. CASE WriteOk \/ WriteRefused
  <2>1. /\ staged # <<>> /\ staged' = Tail(staged) /\ UNCHANGED <<pulled, carry, dataset>>
        /\ dropped \subseteq dropped'
        /\ ToSet(Head(staged)) \subseteq written' \cup dropped' \cup lost' \cup recorded'
    BY <1>8 DEF WriteOk, WriteRefused, Offer, passVars, Record, RecordStored, RecordLost
  <2>2. Rows(staged) = ToSet(Head(staged)) \cup Rows(Tail(staged))
    BY <1>0, <2>1, RowsOfTail DEF RunType
  <2>3. Taken' = Taken /\ Held \subseteq Held' \cup ToSet(Head(staged))
    BY <2>1, <2>2 DEF Held, Taken
  <2> QED BY <1>0, <2>1, <2>3
<1>9. CASE WritesDone \/ ClosePass \/ PaceCancelled \/ Pace \/ FinishSinks \/ FinishAllSources \/ FinishDlq
  BY <1>1, <1>9 DEF WritesDone, ClosePass, PaceCancelled, Pace, FinishSinks, FinishAllSources,
                    FinishDlq, EndStep, passVars, sinkVars
<1>10. CASE Cancel \/ RequestReplay \/ TimePasses \/ UNCHANGED vars
  BY <1>1, <1>10 DEF Cancel, RequestReplay, TimePasses, vars, passVars, sinkVars
<1> QED BY <1>2, <1>3, <1>4, <1>5, <1>6, <1>7, <1>8, <1>9, <1>10 DEF Next, Runner

(* No row the source handed over vanishes on its way through a pass, a     *)
(* processor, the sink, the dead letter store and any number of replays.   *)
THEOREM NoRowVanishes == Spec => []RowsAccounted
<1> DEFINE Inv == OrderInv /\ StoreInv /\ LettersInv /\ TakenInv
<1>1. Init => Inv
  <2> SUFFICES ASSUME Init PROVE TakenInv
    BY OrderInit, StoreInit
  <2>1. pulled \in 0 .. Len(Arrivals) /\ pulled = 0
    BY OrderInit DEF OrderInv, RunType, Init
  <2>2. Taken = 1 .. 0
    BY <2>1, TakenIs, ArrivalRows
  <2>3. 1 .. 0 = {}
    OBVIOUS
  <2> QED BY <2>2, <2>3 DEF TakenInv
<1>2. Inv /\ [Next]_vars => Inv'
  BY OrderKept, StoreKept, LettersKept, TakenKept DEF OrderInv
<1>3. Inv => RowsAccounted
  BY DEF LettersInv, TakenInv, HandedOn, RowsAccounted, Settled
<1> QED BY <1>1, <1>2, <1>3, PTL DEF Spec

----------------------------------------------------------------------------
(* A letter is stored once *)

NoneShared(b, c) == \A x \in ToSet(b) : x \notin ToSet(c)

Distinct(s) == \A j, k \in 1 .. Len(s) : j # k => NoneShared(s[j], s[k])

(* The first m batches of s share no row with those of t after the n-th. *)
Apart(s, m, t, n) == \A j \in 1 .. m, k \in (n + 1) .. Len(t) : NoneShared(s[j], t[k])

(* Until a deletion fails, no row is in two stored letters, nor in a kept  *)
(* letter and one that will still be in the store when it is written back. *)
OnceInv ==
  ~unfinished =>
    /\ Distinct(entries) /\ Distinct(replay.retained)
    /\ Rows(entries) \subseteq 1 .. offered /\ Rows(replay.retained) \subseteq 1 .. offered
    /\ phase = "fetch" =>
         /\ Apart(replay.retained, replay.window, entries, replay.consumed)
         /\ Apart(replay.retained, Len(replay.retained), entries, replay.fetched)
    /\ phase = "finish" =>
         Apart(replay.retained, Len(replay.retained), entries, replay.consumed)
    /\ phase = "rewrite" => Apart(replay.retained, Len(replay.retained), entries, 0)

LEMMA OfferedGrows ==
  ASSUME OrderInv, [Next]_vars
  PROVE  offered \in Nat /\ offered' \in Nat /\ 1 .. offered \subseteq 1 .. offered'
<1>1. offered \in Nat
  BY DEF OrderInv, RunType
<1>2. offered' = offered \/ Offer
  <2>1. CASE HeadOfPass \/ WritesDone
    BY <2>1 DEF HeadOfPass, WritesDone, sinkVars
  <2>2. CASE SkipReplay \/ BeginReplay \/ EndDrain \/ ReplayLetter \/ FinishReplaySource \/ EndReplay
    BY <2>2 DEF SkipReplay, BeginReplay, EndDrain, ReplayLetter, FinishReplaySource, EndReplay,
                ReplayStep
  <2>3. CASE CreditSpent \/ PullNothing \/ PullCancelled \/ PullFails \/ AdmitCarry \/ Pull
    BY <2>3 DEF CreditSpent, PullNothing, PullCancelled, PullFails, AdmitCarry, Pull, DrainStep,
                sinkVars
  <2>4. CASE RunOk \/ RunFails \/ RunCancelled
    BY <2>4 DEF RunOk, RunFails, RunCancelled, RunStep
  <2>5. CASE WriteOk \/ WriteRefused
    BY <2>5 DEF WriteOk, WriteRefused
  <2>6. CASE ClosePass \/ PaceCancelled \/ Pace \/ FinishSinks \/ FinishAllSources \/ FinishDlq
    BY <2>6 DEF ClosePass, PaceCancelled, Pace, FinishSinks, FinishAllSources, FinishDlq,
                EndStep, sinkVars
  <2>7. CASE Cancel \/ RequestReplay \/ TimePasses \/ UNCHANGED vars
    BY <2>7 DEF Cancel, RequestReplay, TimePasses, vars, sinkVars
  <2> QED BY <2>1, <2>2, <2>3, <2>4, <2>5, <2>6, <2>7 DEF Next, Runner
<1>3. offered' \in Nat /\ offered <= offered'
  BY <1>1, <1>2, OfferedRows DEF Offer
<1> QED BY <1>1, <1>3

(* A letter that shares no row with the kept ones may be kept too. *)
LEMMA DistinctAppend ==
  ASSUME NEW s \in Seq(Batch), NEW x \in Batch, Distinct(s),
         \A k \in 1 .. Len(s) : NoneShared(s[k], x)
  PROVE  Distinct(Append(s, x))
<1> DEFINE u == Append(s, x)
           m == Len(s)
<1>1. /\ Len(u) = m + 1 /\ u[m + 1] = x /\ \A k \in 1 .. m : u[k] = s[k]
  BY RowsOfAppend
<1>2. m \in Nat
  OBVIOUS
<1> HIDE DEF u, m
<1>3. \A k \in 1 .. m + 1 : k \in 1 .. m \/ k = m + 1
  BY <1>2
<1>4. \A j, k \in 1 .. m : j # k => NoneShared(u[j], u[k])
  BY <1>1 DEF Distinct, m
<1>5. \A k \in 1 .. m : NoneShared(u[k], u[m + 1]) /\ NoneShared(u[m + 1], u[k])
  BY <1>1 DEF NoneShared, m
<1> QED BY <1>1, <1>3, <1>4, <1>5 DEF Distinct, u

(* Two lists that share no row may follow each other. *)
LEMMA DistinctSum ==
  ASSUME NEW s \in Seq(Batch), NEW t \in Seq(Batch), Distinct(s), Distinct(t),
         \A j \in 1 .. Len(t), k \in 1 .. Len(s) : NoneShared(t[j], s[k])
  PROVE  Distinct(s \o t)
<1> DEFINE u == s \o t
           m == Len(s)
           n == Len(t)
<1>1. /\ Len(u) = m + n /\ \A k \in 1 .. m : u[k] = s[k]
      /\ \A k \in 1 .. n : u[m + k] = t[k]
  BY RowsOfSum
<1>2. m \in Nat /\ n \in Nat
  OBVIOUS
<1> HIDE DEF u, m, n
<1>3. ASSUME NEW k \in 1 .. m + n
      PROVE  \/ k \in 1 .. m /\ u[k] = s[k]
             \/ k \notin 1 .. m /\ k - m \in 1 .. n /\ u[k] = t[k - m]
  <2>1. CASE k <= m
    BY <1>1, <1>2, <2>1
  <2>2. CASE ~(k <= m)
    <3>1. k \notin 1 .. m /\ k - m \in 1 .. n /\ m + (k - m) = k
      BY <1>2, <2>2
    <3> QED BY <1>1, <3>1
  <2> QED BY <2>1, <2>2
<1>4. ASSUME NEW j \in 1 .. m + n, NEW k \in 1 .. m + n, j # k
      PROVE  NoneShared(u[j], u[k])
  <2>1. CASE j \in 1 .. m /\ k \in 1 .. m
    BY <1>1, <1>4, <2>1 DEF Distinct, m
  <2>2. CASE j \in 1 .. m /\ k \notin 1 .. m
    BY <1>3, <2>2 DEF NoneShared, m, n
  <2>3. CASE j \notin 1 .. m /\ k \in 1 .. m
    BY <1>3, <2>3 DEF NoneShared, m, n
  <2>4. CASE j \notin 1 .. m /\ k \notin 1 .. m
    <3>1. j - m \in 1 .. n /\ k - m \in 1 .. n /\ u[j] = t[j - m] /\ u[k] = t[k - m]
      BY <1>3, <2>4
    <3>2. j - m # k - m
      BY <1>2, <1>4
    <3> QED BY <3>1, <3>2 DEF Distinct, n
  <2> QED BY <2>1, <2>2, <2>3, <2>4
<1> QED BY <1>1, <1>4 DEF Distinct, u

LEMMA DistinctParts ==
  ASSUME NEW s \in Seq(Batch), NEW n \in 0 .. Len(s), Distinct(s)
  PROVE  Distinct(SubSeq(s, 1, n)) /\ Distinct(SubSeq(s, n + 1, Len(s)))
<1> DEFINE first == SubSeq(s, 1, n)
           rest == SubSeq(s, n + 1, Len(s))
           l == Len(s)
<1>1. /\ Len(first) = n /\ Len(rest) = l - n
      /\ \A k \in 1 .. n : first[k] = s[k]
      /\ \A k \in 1 .. (l - n) : rest[k] = s[n + k]
  BY RowsOfParts
<1>2. l \in Nat /\ n \in Nat /\ n <= l
  OBVIOUS
<1>3. \A j, k \in 1 .. l : j # k => NoneShared(s[j], s[k])
  BY DEF Distinct
<1> HIDE DEF first, rest, l
<1>4. \A k \in 1 .. n : k \in 1 .. l
  BY <1>2
<1>5. /\ \A k \in 1 .. (l - n) : n + k \in 1 .. l
      /\ \A j, k \in 1 .. (l - n) : j # k => n + j # n + k
  BY <1>2
<1>6. Distinct(first)
  BY <1>1, <1>3, <1>4 DEF Distinct
<1>7. Distinct(rest)
  BY <1>1, <1>3, <1>5 DEF Distinct
<1> QED BY <1>6, <1>7 DEF first, rest, l

LEMMA OnceKept ==
  ASSUME OrderInv, StoreInv, OnceInv, [Next]_vars
  PROVE  OnceInv'
<1> DEFINE e == entries
           r == replay.retained
           l == Len(entries)
           m == Len(replay.retained)
<1>1. StoreMove
  BY StoreMoves
<1>2. offered \in Nat /\ offered' \in Nat /\ 1 .. offered \subseteq 1 .. offered'
  BY OfferedGrows
<1>3. /\ e \in Seq(Batch) /\ l \in Nat /\ r \in Seq(Batch) /\ m \in Nat
      /\ replay.fetched \in Nat /\ replay.consumed \in Nat /\ replay.window \in Nat
  BY DEF StoreInv, Replays
<1>4. SUFFICES ASSUME ~unfinished'
               PROVE  /\ Distinct(entries') /\ Distinct(replay'.retained)
                      /\ Rows(entries') \subseteq 1 .. offered'
                      /\ Rows(replay'.retained) \subseteq 1 .. offered'
                      /\ phase' = "fetch" =>
                           /\ Apart(replay'.retained, replay'.window, entries', replay'.consumed)
                           /\ Apart(replay'.retained, Len(replay'.retained), entries', replay'.fetched)
                      /\ phase' = "finish" =>
                           Apart(replay'.retained, Len(replay'.retained), entries', replay'.consumed)
                      /\ phase' = "rewrite" =>
                           Apart(replay'.retained, Len(replay'.retained), entries', 0)
  BY DEF OnceInv, Distinct, Apart, NoneShared
<1>5. ~unfinished
  BY <1>1, <1>4 DEF StoreMove, StoreAlone, Recorded, Begun, Took, CutShort, ReadThrough,
                    Drained, Deleted, WrittenBack
<1>6. /\ Distinct(e) /\ Distinct(r) /\ Rows(e) \subseteq 1 .. offered /\ Rows(r) \subseteq 1 .. offered
      /\ phase = "fetch" => Apart(r, replay.window, e, replay.consumed) /\ Apart(r, m, e, replay.fetched)
      /\ phase = "finish" => Apart(r, m, e, replay.consumed)
      /\ phase = "rewrite" => Apart(r, m, e, 0)
  BY <1>5 DEF OnceInv
<1>7. Rows(e) \subseteq 1 .. offered' /\ Rows(r) \subseteq 1 .. offered'
  BY <1>2, <1>6
<1>8. CASE StoreAlone
  BY <1>6, <1>7, <1>8 DEF StoreAlone
<1>9. CASE Recorded
  <2> DEFINE h == Head(staged)
  <2>1. entries' = Append(e, h) \/ entries' = e
    BY <1>9 DEF Recorded
  <2>2. h \in Batch /\ ToSet(h) \subseteq (offered + 1) .. offered'
    BY <1>9, OfferedRows DEF Recorded
  <2> HIDE DEF h, e
  <2>3. ASSUME NEW k \in 1 .. Len(e)
        PROVE  NoneShared(e[k], h)
    <3>1. ToSet(e[k]) \subseteq 1 .. offered
      BY <1>3, <1>6, RowsOf
    <3>2. \A x \in 1 .. offered : x \notin (offered + 1) .. offered'
      BY <1>2
    <3> QED BY <2>2, <3>1, <3>2 DEF NoneShared
  <2>4. Distinct(Append(e, h)) /\ Rows(Append(e, h)) = Rows(e) \cup ToSet(h)
    BY <1>3, <1>6, <2>2, <2>3, DistinctAppend, RowsOfAppend
  <2>5. (offered + 1) .. offered' \subseteq 1 .. offered'
    BY <1>2
  <2>6. Distinct(entries') /\ Rows(entries') \subseteq 1 .. offered'
    BY <1>6, <1>7, <2>1, <2>2, <2>4, <2>5
  <2>7. replay' = replay /\ phase' = "idle"
    BY <1>9 DEF Recorded
  <2> QED BY <1>6, <1>7, <2>6, <2>7
<1>10. CASE Begun
  <2>1. /\ entries' = e /\ replay'.retained = <<>> /\ replay'.window = 0
    BY <1>10 DEF Begun
  <2>2. /\ Len(replay'.retained) = 0 /\ 1 .. 0 = {}
    BY <2>1
  <2>3. Distinct(replay'.retained) /\ Rows(replay'.retained) \subseteq 1 .. offered'
    <3>1. replay'.retained \in Seq(Batch)
      BY <2>1, NoRows
    <3> QED BY <2>2, <3>1, RowsOf DEF Distinct
  <2>4. /\ Apart(replay'.retained, replay'.window, entries', replay'.consumed)
        /\ Apart(replay'.retained, Len(replay'.retained), entries', replay'.fetched)
        /\ Apart(replay'.retained, Len(replay'.retained), entries', 0)
    BY <2>1, <2>2 DEF Apart
  <2> QED BY <1>6, <1>7, <1>10, <2>1, <2>3, <2>4 DEF Begun
<1>11. CASE Took
  <2> DEFINE f == replay.fetched
             x == NextLetter
  <2>1. /\ phase = "fetch" /\ phase' = "fetch" /\ entries' = e /\ f < l
        /\ replay'.fetched = f + 1 /\ replay'.consumed = f /\ replay'.window = m
        /\ replay'.retained = Append(r, x) \/ replay'.retained = r
    BY <1>11 DEF Took, Drained
  <2>2. x \in Batch
    BY <1>11, FetchMoves DEF Took, Drained
  <2>3. x = e[f + 1]
    BY DEF NextLetter
  <2>4. /\ f + 1 \in (f + 1) .. l /\ f + 1 \in 1 .. l
        /\ \A k \in (f + 1) + 1 .. l : k \in (f + 1) .. l /\ k \in 1 .. l /\ k # f + 1
    BY <1>3, <2>1
  <2>5. \A j \in 1 .. m, k \in (f + 1) .. l : NoneShared(r[j], e[k])
    BY <1>6, <2>1 DEF Apart
  <2> HIDE DEF f, x
  <2>6. ASSUME NEW k \in 1 .. m PROVE NoneShared(r[k], x)
    BY <2>3, <2>4, <2>5
  <2>7. /\ Distinct(Append(r, x)) /\ Rows(Append(r, x)) = Rows(r) \cup ToSet(x)
        /\ Len(Append(r, x)) = m + 1 /\ Append(r, x)[m + 1] = x
        /\ \A k \in 1 .. m : Append(r, x)[k] = r[k]
    <3> HIDE DEF r
    <3> QED BY <1>3, <1>6, <2>2, <2>6, DistinctAppend, RowsOfAppend DEF m, r
  <2>8. ToSet(x) \subseteq Rows(e)
    BY <1>3, <2>3, <2>4, RowsOf
  <2>9. \A k \in (f + 1) + 1 .. l : NoneShared(x, e[k])
    BY <1>6, <2>3, <2>4 DEF Distinct
  <2>10. CASE replay'.retained = r
    <3>1. Apart(r, m, e, f) /\ Apart(r, m, e, f + 1)
      BY <2>4, <2>5 DEF Apart
    <3> QED BY <1>6, <1>7, <2>1, <2>10, <3>1
  <2>11. CASE replay'.retained = Append(r, x)
    <3> DEFINE u == Append(r, x)
    <3>1. Distinct(u) /\ Rows(u) \subseteq 1 .. offered' /\ Len(u) = m + 1
      BY <1>7, <2>7, <2>8
    <3>2. Apart(u, m, e, f)
      BY <2>5, <2>7 DEF Apart
    <3>3. \A j \in 1 .. m + 1 : j \in 1 .. m \/ j = m + 1
      BY <1>3
    <3>4. Apart(u, m + 1, e, f + 1)
      <4> SUFFICES ASSUME NEW j \in 1 .. m + 1, NEW k \in (f + 1) + 1 .. l
                   PROVE  NoneShared(u[j], e[k])
        BY DEF Apart
      <4>1. CASE j \in 1 .. m
        BY <2>4, <2>5, <2>7, <4>1
      <4>2. CASE j = m + 1
        BY <2>7, <2>9, <4>2
      <4> QED BY <3>3, <4>1, <4>2
    <3> HIDE DEF u
    <3> QED BY <1>6, <1>7, <2>1, <2>11, <3>1, <3>2, <3>4 DEF u
  <2> QED BY <2>1, <2>10, <2>11
<1>12. CASE CutShort
  <2> DEFINE w == replay.window
             s == SubSeq(r, 1, w)
  <2>1. /\ phase = "fetch" /\ phase' = "finish" /\ entries' = e
        /\ replay'.consumed = replay.consumed /\ replay'.retained = s
    BY <1>12 DEF CutShort, Drained
  <2>2. w \in 0 .. m
    BY <1>3, <2>1 DEF StoreInv
  <2> HIDE DEF w
  <2>3. /\ Distinct(s) /\ Len(s) = w /\ Rows(s) \subseteq Rows(r) /\ \A k \in 1 .. w : s[k] = r[k]
    BY <1>3, <1>6, <2>2, DistinctParts, RowsOfParts
  <2>4. Apart(s, w, e, replay.consumed)
    BY <1>6, <2>1, <2>3 DEF Apart, w
  <2> HIDE DEF s
  <2> QED BY <1>6, <1>7, <2>1, <2>3, <2>4
<1>13. CASE ReadThrough
  BY <1>6, <1>7, <1>13 DEF ReadThrough, Drained
<1>14. CASE Deleted
  <2> DEFINE c == replay.consumed
             rest == SubSeq(e, c + 1, l)
  <2>1. phase = "finish" /\ phase' = "rewrite" /\ replay' = replay /\ entries' = rest
    BY <1>4, <1>14 DEF Deleted
  <2>2. c \in 0 .. l
    BY <1>3, <2>1 DEF StoreInv
  <2>3. /\ Distinct(rest) /\ Rows(rest) \subseteq Rows(e) /\ Len(rest) = l - c
        /\ \A k \in 1 .. (l - c) : rest[k] = e[c + k]
    <3> HIDE DEF c
    <3> QED BY <1>3, <1>6, <2>2, DistinctParts, RowsOfParts
  <2>4. Apart(r, m, rest, 0)
    <3>1. \A j \in 1 .. m, k \in (c + 1) .. l : NoneShared(r[j], e[k])
      BY <1>6, <2>1 DEF Apart
    <3>2. \A k \in (0 + 1) .. (l - c) : k \in 1 .. (l - c) /\ c + k \in (c + 1) .. l
      BY <1>3, <2>2
    <3> HIDE DEF c, rest, l, e, r, m
    <3> QED BY <2>3, <3>1, <3>2 DEF Apart
  <2> HIDE DEF rest
  <2> QED BY <1>6, <1>7, <2>1, <2>3, <2>4
<1>15. CASE WrittenBack
  <2>1. PICK kept \in 0 .. m : entries' = e \o SubSeq(r, 1, kept)
    BY <1>15 DEF WrittenBack
  <2> DEFINE s == SubSeq(r, 1, kept)
  <2>2. phase = "rewrite" /\ phase' = "idle" /\ replay' = NoReplay
    BY <1>15 DEF WrittenBack
  <2>3. /\ s \in Seq(Batch) /\ Distinct(s) /\ Len(s) = kept /\ Rows(s) \subseteq Rows(r)
        /\ \A k \in 1 .. kept : s[k] = r[k]
    BY <1>3, <1>6, DistinctParts, RowsOfParts
  <2>4. \A j \in 1 .. kept, k \in 1 .. l : NoneShared(s[j], e[k])
    <3>1. \A j \in 1 .. m, k \in (0 + 1) .. l : NoneShared(r[j], e[k])
      BY <1>6, <2>2 DEF Apart
    <3>2. (\A j \in 1 .. kept : j \in 1 .. m) /\ 0 + 1 = 1
      BY <1>3
    <3> HIDE DEF s, l, e, r, m
    <3> QED BY <2>3, <3>1, <3>2
  <2> HIDE DEF s
  <2>5. Distinct(e \o s) /\ Rows(e \o s) = Rows(e) \cup Rows(s)
    BY <1>3, <1>6, <2>3, <2>4, DistinctSum, RowsOfSum
  <2>6. Distinct(entries') /\ Rows(entries') \subseteq 1 .. offered'
    BY <1>7, <2>1, <2>3, <2>5 DEF s
  <2>7. replay'.retained = <<>>
    BY <2>2 DEF NoReplay
  <2>8. Distinct(replay'.retained) /\ Rows(replay'.retained) \subseteq 1 .. offered'
    <3>1. replay'.retained \in Seq(Batch) /\ Len(replay'.retained) = 0 /\ 1 .. 0 = {}
      BY <2>7, NoRows
    <3> QED BY <3>1, RowsOf DEF Distinct
  <2> QED BY <2>2, <2>6, <2>8
<1> QED BY <1>1, <1>8, <1>9, <1>10, <1>11, <1>12, <1>13, <1>14, <1>15 DEF StoreMove

(* However a replay ends, read through, cut short by a shutdown or stopped *)
(* by a failed fetch, and wherever the write-back stops, no letter is in   *)
(* the store twice, as long as every deletion went through.                *)
THEOREM LettersStoredOnce == Spec => []StoredOnce
<1> DEFINE Inv == OrderInv /\ StoreInv /\ OnceInv
<1>1. Init => Inv
  <2> SUFFICES ASSUME Init PROVE OnceInv
    BY OrderInit, StoreInit
  <2>1. entries = <<>> /\ phase = "idle" /\ replay.retained = <<>>
    BY DEF Init, DlqInit, NoReplay
  <2>2. Len(entries) = 0 /\ Len(replay.retained) = 0 /\ 1 .. 0 = {}
    BY <2>1
  <2>3. entries \in Seq(Batch) /\ replay.retained \in Seq(Batch)
    BY <2>1, NoRows
  <2>4. Rows(entries) \subseteq 1 .. offered /\ Rows(replay.retained) \subseteq 1 .. offered
    BY <2>2, <2>3, RowsOf
  <2> QED BY <2>1, <2>2, <2>4 DEF OnceInv, Distinct
<1>2. Inv /\ [Next]_vars => Inv'
  BY OrderKept, StoreKept, OnceKept DEF OrderInv
<1>3. Inv => StoredOnce
  <2> SUFFICES ASSUME StoreInv, OnceInv, ~unfinished,
                      NEW j \in DOMAIN entries, NEW k \in DOMAIN entries, j # k
               PROVE  ToSet(entries[j]) \cap ToSet(entries[k]) = {}
    BY DEF StoredOnce
  <2>1. DOMAIN entries = 1 .. Len(entries)
    BY DEF StoreInv
  <2>2. NoneShared(entries[j], entries[k])
    BY <2>1 DEF OnceInv, Distinct
  <2> QED BY <2>2 DEF NoneShared
<1> QED BY <1>1, <1>2, <1>3, PTL DEF Spec

(***************************************************************************)
(* The file sink.                                                          *)
(***************************************************************************)
(* What can be in a file, and what a buffer of the sink holds.             *)
AllPieces == OurPieces \cup {Footer, Intruder}
Buffers == Seq(OurPieces)

(* The types of the sink's variables.                                      *)
FileTypeOK ==
  /\ format \in {"plain", "headed"}
  /\ file \in Seq(AllPieces)
  /\ writer \in [open : BOOLEAN, buffer : Buffers, headed : BOOLEAN, base : Nat]
  /\ counted \in Nat
  /\ pendingCut \in [set : BOOLEAN, len : Nat, counted : Nat, planned : BOOLEAN,
                     reopen : BOOLEAN]
  /\ landed \in Seq(1..MaxBatches)
  /\ callBatch \in 1..(MaxBatches + 1)
  /\ intrusions \in Nat /\ unguarded \in Nat

(* The writer has nothing to flush, and has written its header if a batch  *)
(* has landed under one.                                                   *)
WriterReady ==
  /\ writer.buffer = <<>>
  /\ format = "headed" => (writer.headed <=> landed # <<>>)

(* The header the next batch brings along. *)
Opening == IF format = "headed" /\ landed = <<>> THEN <<Header>> ELSE <<>>

(* The file f starts with what had landed, enc, when it was len long, and  *)
(* has grown by at most own pieces of the sink since.  The pieces of others*)
(* that a cut to len would leave, with those the length of f betrays, are  *)
(* at least as many as are due.                                            *)
Grown(f, own, len, enc, due, cutting) ==
  LET kept == SubSeq(f, 1, len)
  IN  /\ own \in Nat /\ len \in Nat /\ len <= Len(f)
      /\ Ours(kept) = enc
      /\ IsPrefix(enc, Ours(f))
      /\ Len(Ours(f)) - Len(enc) <= own
      /\ Len(f) - len = (Len(Ours(f)) - Len(enc)) + (Len(Theirs(f)) - Len(Theirs(kept)))
      /\ Len(Theirs(kept)) <= Len(Theirs(f))
      /\ Len(Theirs(kept)) +
           (IF cutting = 0 /\ Len(f) > len + own THEN Len(f) - (len + own) ELSE 0) >= due

(* 1 while the file is about to be cut, 0 otherwise.                       *)
CutFlag == IF Cutting THEN 1 ELSE 0

(* Nothing is pending. *)
SettledFile ==
  /\ callAt \in {"idle", "start", "failed", "finished"}
  /\ IsPrefix(Encoded, Ours(file))
  /\ refused # "others" => Ours(file) = Encoded
  /\ Len(Ours(file)) <= Len(Encoded) + 3
  /\ Len(Theirs(file)) >= intrusions - unguarded
  /\ refused = "no" /\ callAt # "finished" => WriterReady

(* The batch pending is being written, and may land. *)
BatchInFlight ==
  /\ callAt \in {"write", "flush", "recover"}
  /\ Len(Ours(file)) + Len(writer.buffer) <= Len(Encoded) + 3
  /\ callAt # "recover" => callBatch <= MaxBatches
  /\ callAt = "write" => WriterReady /\ Ours(file) = Encoded
  /\ callAt = "flush" =>
       /\ Ours(file) \o writer.buffer = (Encoded \o Opening) \o Pieces(callBatch)
       /\ writer.headed

(* The batch pending is to be taken back. *)
BatchGivenUp ==
  /\ callAt \in {"recover", "recoverFirst", "cut", "cutFirst", "failed", "idle"}
  /\ Len(Ours(file)) <= Len(Encoded) + 3
  /\ pendingCut.reopen /\ landed # <<>> => format = "plain"

(* A batch is pending: the file has grown from the length recorded.        *)
PendingFile ==
  /\ refused = "no"
  /\ Grown(file, counted - pendingCut.counted, pendingCut.len, Encoded,
           intrusions - unguarded, CutFlag)
  /\ IF pendingCut.planned THEN BatchGivenUp ELSE BatchInFlight

(* The inductive invariant of the file sink.                               *)
SinkInv ==
  /\ FileTypeOK
  /\ IF pendingCut.set THEN PendingFile ELSE SettledFile

----------------------------------------------------------------------------
(* Appending to a sequence of sequences of any set appends to what they    *)
(* flatten to.                                                             *)
LEMMA FlattenGrows ==
  ASSUME NEW T, NEW seqs \in Seq(Seq(T)), NEW x \in Seq(T)
  PROVE  /\ FlattenSeq(seqs) \in Seq(T)
         /\ FlattenSeq(Append(seqs, x)) = FlattenSeq(seqs) \o x
<1> DEFINE n == Len(seqs)
           more == Append(seqs, x)
           f == CHOOSE f : Concats(f, seqs, n)
           m == Len(more)
           g == CHOOSE g : Concats(g, more, m)
<1>1. n \in Nat /\ \A k \in 1 .. n : seqs[k] \in Seq(T) /\ more[k] = seqs[k]
  OBVIOUS
<1>2. more[n + 1] = x /\ m = n + 1 /\ m \in Nat
  OBVIOUS
<1>3. Concats(f, seqs, n) /\ Concats(g, more, m)
  <2>1. (\E h : Concats(h, seqs, n)) /\ (\E h : Concats(h, more, m))
    <3> HIDE DEF n, m, more
    <3> QED BY <1>1, <1>2, ConcatsExist
  <2> HIDE DEF n, m, more
  <2> QED BY <2>1
<1>4. FlattenSeq(seqs) = IF n = 0 THEN <<>> ELSE f[n]
  BY DEF FlattenSeq, Concats
<1>5. FlattenSeq(more) = g[m]
  <2> HIDE DEF more
  <2> QED BY <1>1, <1>2 DEF FlattenSeq, Concats
<1> HIDE DEF f, g, more, n, m
<1>6. \A k \in 1 .. n : f[k] = IF k = 1 THEN seqs[k] ELSE f[k - 1] \o seqs[k]
  BY <1>3 DEF Concats
<1>7. \A k \in 1 .. n + 1 : g[k] = IF k = 1 THEN more[k] ELSE g[k - 1] \o more[k]
  BY <1>2, <1>3 DEF Concats
<1> DEFINE S == {k \in Nat : k \in 1 .. n => f[k] \in Seq(T) /\ g[k] = f[k]}
<1>8. Nat \subseteq S
  <2>1. 0 \in S
    OBVIOUS
  <2>2. ASSUME NEW k \in Nat, k \in S
        PROVE  k + 1 \in S
    <3> SUFFICES ASSUME k + 1 \in 1 .. n
                 PROVE  f[k + 1] \in Seq(T) /\ g[k + 1] = f[k + 1]
      OBVIOUS
    <3>1. k + 1 \in 1 .. n + 1 /\ seqs[k + 1] \in Seq(T) /\ more[k + 1] = seqs[k + 1]
      BY <1>1
    <3>2. CASE k = 0
      BY <1>6, <1>7, <3>1, <3>2
    <3>3. CASE k # 0
      <4>1. k \in 1 .. n /\ (k + 1) - 1 = k /\ k + 1 # 1
        BY <1>1, <3>3
      <4>2. f[k] \in Seq(T) /\ g[k] = f[k]
        BY <2>2, <4>1
      <4>3. f[k + 1] = f[k] \o seqs[k + 1] /\ g[k + 1] = g[k] \o more[k + 1]
        BY <1>6, <1>7, <3>1, <4>1
      <4>4. f[k] \o seqs[k + 1] \in Seq(T)
        BY <3>1, <4>2
      <4> QED BY <3>1, <4>2, <4>3, <4>4
    <3> QED BY <3>2, <3>3
  <2> HIDE DEF S
  <2> QED BY <2>1, <2>2, NatSetInduction
<1>9. CASE n = 0
  <2>1. g[n + 1] = x
    BY <1>2, <1>7, <1>9
  <2>2. <<>> \o x = x /\ <<>> \in Seq(T)
    BY ConcatEmptySeq
  <2> QED BY <1>4, <1>2, <1>5, <1>9, <2>1, <2>2 DEF more
<1>10. CASE n # 0
  <2>1. n \in 1 .. n /\ n + 1 \in 1 .. n + 1 /\ n + 1 # 1 /\ (n + 1) - 1 = n
    BY <1>1, <1>10
  <2>2. f[n] \in Seq(T) /\ g[n] = f[n]
    BY <1>1, <1>8, <2>1
  <2>3. g[n + 1] = g[n] \o x
    BY <1>2, <1>7, <2>1
  <2> QED BY <1>4, <1>2, <1>5, <1>10, <2>2, <2>3 DEF more
<1> QED BY <1>9, <1>10

(* What Only keeps of a file that grows by a piece. *)
LEMMA OnlyGrows ==
  ASSUME NEW T, NEW S, NEW f \in Seq(T), NEW x \in T
  PROVE  /\ Only(f, S) \in Seq(S)
         /\ Only(Append(f, x), S) = IF x \in S THEN Append(Only(f, S), x) ELSE Only(f, S)
<1> DEFINE one(p) == IF p \in S THEN <<p>> ELSE <<>>
           seqs == [k \in DOMAIN f |-> one(f[k])]
           more == [k \in DOMAIN Append(f, x) |-> one(Append(f, x)[k])]
<1>1. \A p : one(p) \in Seq(S)
  OBVIOUS
<1> HIDE DEF one
<1>2. seqs \in Seq(Seq(S)) /\ Len(seqs) = Len(f)
  BY <1>1
<1>3. more = Append(seqs, one(x))
  <2>1. Len(f) \in Nat /\ DOMAIN f = 1 .. Len(f) /\ DOMAIN Append(f, x) = 1 .. Len(f) + 1
    OBVIOUS
  <2>2. more \in Seq(Seq(S)) /\ Len(more) = Len(f) + 1
    BY <1>1, <2>1
  <2>3. Append(seqs, one(x)) \in Seq(Seq(S)) /\ Len(Append(seqs, one(x))) = Len(f) + 1
    BY <1>1, <1>2
  <2>4. \A k \in 1 .. Len(f) + 1 : more[k] = Append(seqs, one(x))[k]
    BY <1>2, <2>1
  <2> QED BY <2>2, <2>3, <2>4, SeqEqual
<1>4. Only(f, S) = FlattenSeq(seqs) /\ Only(Append(f, x), S) = FlattenSeq(more)
  BY DEF Only, one
<1> HIDE DEF seqs, more
<1>5. Only(f, S) \in Seq(S) /\ Only(Append(f, x), S) = Only(f, S) \o one(x)
  BY <1>1, <1>2, <1>3, <1>4, FlattenGrows
<1>6. CASE x \in S
  <2>1. one(x) = <<x>>
    BY <1>6 DEF one
  <2>2. Only(f, S) \o <<x>> = Append(Only(f, S), x)
    BY <1>5, <1>6, AppendIsConcat
  <2> QED BY <1>5, <1>6, <2>1, <2>2
<1>7. CASE x \notin S
  <2>1. one(x) = <<>>
    BY <1>7 DEF one
  <2>2. Only(f, S) \o <<>> = Only(f, S)
    BY <1>5, ConcatEmptySeq
  <2> QED BY <1>5, <1>7, <2>1, <2>2
<1> QED BY <1>6, <1>7

(* Which pieces are whose.                                                 *)
LEMMA PieceFacts ==
  /\ Header \in OurPieces /\ Intruder \notin OurPieces /\ Footer \notin OurPieces
  /\ Footer # Intruder
  /\ OurPieces \subseteq AllPieces /\ Footer \in AllPieces /\ Intruder \in AllPieces
  /\ <<>> \in Buffers /\ <<Header>> \in Buffers
  /\ \A b \in 1..MaxBatches : Pieces(b) \in Buffers /\ Len(Pieces(b)) = 2
<1>1. \A b \in 1..MaxBatches : <<b, 1>> \in OurPieces /\ <<b, 2>> \in OurPieces
  BY DEF OurPieces
<1>2. Header \in OurPieces /\ Footer # Intruder
  BY DEF OurPieces, Footer, Intruder
<1>3. Intruder \notin OurPieces /\ Footer \notin OurPieces
  BY DEF OurPieces, Footer, Intruder, Header
<1>4. OurPieces \subseteq AllPieces /\ Footer \in AllPieces /\ Intruder \in AllPieces
  BY DEF AllPieces
<1>5. <<>> \in Buffers /\ <<Header>> \in Buffers
  BY <1>2 DEF Buffers
<1>6. ASSUME NEW b \in 1..MaxBatches PROVE Pieces(b) \in Buffers /\ Len(Pieces(b)) = 2
  BY <1>1 DEF Pieces, Buffers
<1> QED BY <1>2, <1>3, <1>4, <1>5, <1>6

(* A prefix of a sequence stays one when the sequence grows.               *)
LEMMA PrefixFacts ==
  ASSUME NEW T, NEW s \in Seq(T), NEW t \in Seq(T), NEW x \in T
  PROVE  /\ IsPrefix(s, s)
         /\ IsPrefix(s, t) => IsPrefix(s, Append(t, x)) /\ Len(s) <= Len(t)
<1>1. IsPrefix(s, s)
  BY DEF IsPrefix
<1>2. ASSUME IsPrefix(s, t) PROVE IsPrefix(s, Append(t, x)) /\ Len(s) <= Len(t)
  <2>1. Len(s) \in Nat /\ Len(t) \in Nat /\ Len(s) <= Len(t)
        /\ Append(t, x) \in Seq(T) /\ Len(Append(t, x)) = Len(t) + 1
    BY <1>2 DEF IsPrefix
  <2>2. SubSeq(Append(t, x), 1, Len(s)) = SubSeq(t, 1, Len(s))
    BY <2>1
  <2> QED BY <1>2, <2>1, <2>2 DEF IsPrefix
<1> QED BY <1>1, <1>2

(* What a piece appended to a file adds for the sink and for others. *)
LEMMA FileGrows ==
  ASSUME NEW f \in Seq(AllPieces), NEW x \in AllPieces
  PROVE  /\ Ours(f) \in Buffers /\ Theirs(f) \in Seq({Intruder})
         /\ Len(Ours(f)) \in Nat /\ Len(Theirs(f)) \in Nat
         /\ Append(f, x) \in Seq(AllPieces)
         /\ x \in OurPieces => /\ Ours(Append(f, x)) = Append(Ours(f), x)
                               /\ Theirs(Append(f, x)) = Theirs(f)
         /\ x \notin OurPieces => Ours(Append(f, x)) = Ours(f)
         /\ x = Intruder => /\ Ours(Append(f, x)) = Ours(f)
                            /\ Len(Theirs(Append(f, x))) = Len(Theirs(f)) + 1
         /\ x = Footer => Theirs(Append(f, x)) = Theirs(f)
<1>1. Ours(f) \in Seq(OurPieces)
      /\ Ours(Append(f, x)) = IF x \in OurPieces THEN Append(Ours(f), x) ELSE Ours(f)
  BY OnlyGrows DEF Ours
<1>2. Theirs(f) \in Seq({Intruder})
      /\ Theirs(Append(f, x)) = IF x \in {Intruder} THEN Append(Theirs(f), x) ELSE Theirs(f)
  BY OnlyGrows DEF Theirs
<1>3. Len(Ours(f)) \in Nat /\ Len(Theirs(f)) \in Nat
  BY <1>1, <1>2
<1>4. Append(f, x) \in Seq(AllPieces)
  OBVIOUS
<1>5. x = Intruder => Len(Append(Theirs(f), x)) = Len(Theirs(f)) + 1
  BY <1>2
<1> QED BY <1>1, <1>2, <1>3, <1>4, <1>5, PieceFacts DEF Buffers

(* The start of a file stays when it grows. *)
LEMMA KeptStays ==
  ASSUME NEW T, NEW f \in Seq(T), NEW x \in T, NEW len \in Nat, len <= Len(f)
  PROVE  /\ SubSeq(Append(f, x), 1, len) = SubSeq(f, 1, len)
         /\ SubSeq(f, 1, len) \in Seq(T) /\ Len(SubSeq(f, 1, len)) = len
         /\ Len(Append(f, x)) = Len(f) + 1 /\ Len(f) \in Nat
         /\ SubSeq(f, 1, Len(f)) = f
         /\ SubSeq(SubSeq(f, 1, len), 1, len) = SubSeq(f, 1, len)
OBVIOUS

(* A piece of the sink. *)
LEMMA GrownByOwn ==
  ASSUME NEW f \in Seq(AllPieces), NEW own, NEW len, NEW enc \in Buffers, NEW due \in Int,
         NEW cutting \in {0, 1}, NEW x \in OurPieces, Grown(f, own, len, enc, due, cutting)
  PROVE  Grown(Append(f, x), own + 1, len, enc, due, cutting)
<1> DEFINE kept == SubSeq(f, 1, len)
           more == Append(f, x)
<1>1. x \in AllPieces
  BY PieceFacts
<1>2. own \in Nat /\ len \in Nat /\ len <= Len(f)
  BY DEF Grown
<1>3. SubSeq(more, 1, len) = kept /\ kept \in Seq(AllPieces) /\ Len(more) = Len(f) + 1
      /\ Len(f) \in Nat
  BY <1>1, <1>2, KeptStays
<1>4. /\ Ours(more) = Append(Ours(f), x) /\ Theirs(more) = Theirs(f)
      /\ Ours(f) \in Buffers /\ Len(Ours(f)) \in Nat /\ Len(Theirs(f)) \in Nat
  BY <1>1, FileGrows
<1>5. Len(Theirs(kept)) \in Nat
  BY <1>1, <1>3, FileGrows
<1>6. Len(Ours(more)) = Len(Ours(f)) + 1 /\ Len(Theirs(more)) = Len(Theirs(f))
  BY <1>4 DEF Buffers
<1>13. Len(Ours(f)) \in Nat /\ Len(Theirs(f)) \in Nat
  BY <1>4
<1>7. IsPrefix(enc, Ours(more)) /\ Len(enc) \in Nat
  BY <1>4, PrefixFacts DEF Grown, Buffers
<1> HIDE DEF kept, more
<1>8. Ours(kept) = enc /\ Len(Ours(f)) - Len(enc) <= own
      /\ Len(f) - len = (Len(Ours(f)) - Len(enc)) + (Len(Theirs(f)) - Len(Theirs(kept)))
      /\ Len(Theirs(kept)) <= Len(Theirs(f))
      /\ Len(Theirs(kept)) +
           (IF cutting = 0 /\ Len(f) > len + own THEN Len(f) - (len + own) ELSE 0) >= due
  BY DEF Grown, kept
<1>9. Len(more) > len + (own + 1) <=> Len(f) > len + own
  BY <1>2, <1>3
<1>10. Len(more) - (len + (own + 1)) = Len(f) - (len + own)
  BY <1>2, <1>3
<1>11. Len(Ours(more)) - Len(enc) <= own + 1
      /\ Len(more) - len = (Len(Ours(more)) - Len(enc)) + (Len(Theirs(more)) - Len(Theirs(kept)))
  BY <1>2, <1>3, <1>5, <1>6, <1>7, <1>8, <1>13, SMTT(40)
<1>12. own + 1 \in Nat /\ len <= Len(more)
  BY <1>2, <1>3
<1>14. Len(Theirs(kept)) <= Len(Theirs(more))
      /\ Len(Theirs(kept)) +
           (IF cutting = 0 /\ Len(more) > len + (own + 1) THEN Len(more) - (len + (own + 1)) ELSE 0)
         >= due
  BY <1>6, <1>8, <1>9, <1>10
<1>15. Grown(more, own + 1, len, enc, due, cutting)
  BY <1>2, <1>3, <1>7, <1>8, <1>11, <1>12, <1>14 DEF Grown
<1> QED BY <1>15 DEF more

(* A piece of another process: due unless the length cannot betray it. *)
LEMMA GrownByOthers ==
  ASSUME NEW f \in Seq(AllPieces), NEW own, NEW len, NEW enc \in Buffers, NEW due \in Int,
         NEW cutting \in {0, 1}, Grown(f, own, len, enc, due, cutting)
  PROVE  Grown(Append(f, Intruder), own, len, enc,
               IF cutting = 1 \/ Len(f) < len + own THEN due ELSE due + 1, cutting)
<1> DEFINE kept == SubSeq(f, 1, len)
           more == Append(f, Intruder)
           next == IF cutting = 1 \/ Len(f) < len + own THEN due ELSE due + 1
<1>1. Intruder \in AllPieces
  BY PieceFacts
<1>2. own \in Nat /\ len \in Nat /\ len <= Len(f)
  BY DEF Grown
<1>3. SubSeq(more, 1, len) = kept /\ kept \in Seq(AllPieces) /\ Len(more) = Len(f) + 1
      /\ Len(f) \in Nat
  BY <1>1, <1>2, KeptStays
<1>4. /\ Ours(more) = Ours(f) /\ Len(Theirs(more)) = Len(Theirs(f)) + 1
      /\ Ours(f) \in Buffers /\ Len(Ours(f)) \in Nat /\ Len(Theirs(f)) \in Nat
  BY <1>1, FileGrows
<1>5. Len(Theirs(kept)) \in Nat
  BY <1>1, <1>3, FileGrows
<1>7. IsPrefix(enc, Ours(more)) /\ Len(enc) \in Nat
  BY <1>4 DEF Grown, Buffers
<1> HIDE DEF kept, more
<1>8. Ours(kept) = enc /\ Len(Ours(f)) - Len(enc) <= own
      /\ Len(f) - len = (Len(Ours(f)) - Len(enc)) + (Len(Theirs(f)) - Len(Theirs(kept)))
      /\ Len(Theirs(kept)) <= Len(Theirs(f))
      /\ Len(Theirs(kept)) +
           (IF cutting = 0 /\ Len(f) > len + own THEN Len(f) - (len + own) ELSE 0) >= due
  BY DEF Grown, kept
<1>9. Len(Theirs(kept)) +
        (IF cutting = 0 /\ Len(more) > len + own THEN Len(more) - (len + own) ELSE 0) >= next
  <2>1. CASE cutting = 1
    BY <1>5, <1>8, <2>1
  <2>2. CASE cutting = 0
    BY <1>2, <1>3, <1>5, <1>8, <2>2
  <2> QED BY <2>1, <2>2
<1>11. Len(Ours(more)) - Len(enc) <= own /\ Len(Theirs(kept)) <= Len(Theirs(more))
      /\ Len(more) - len = (Len(Ours(more)) - Len(enc)) + (Len(Theirs(more)) - Len(Theirs(kept)))
  BY <1>2, <1>3, <1>4, <1>5, <1>7, <1>8, SMTT(40)
<1>12. len <= Len(more)
  BY <1>2, <1>3
<1> HIDE DEF next
<1>13. Grown(more, own, len, enc, next, cutting)
  BY <1>2, <1>3, <1>7, <1>8, <1>9, <1>11, <1>12 DEF Grown
<1> QED BY <1>13 DEF more, next

(* A file that holds what landed has grown by nothing. *)
LEMMA GrownFirst ==
  ASSUME NEW f \in Seq(AllPieces), NEW due \in Int, Len(Theirs(f)) >= due
  PROVE  Grown(f, 0, Len(f), Ours(f), due, 0)
<1>1. Len(f) \in Nat /\ SubSeq(f, 1, Len(f)) = f
  OBVIOUS
<1>2. Len(Ours(f)) \in Nat /\ Len(Theirs(f)) \in Nat /\ Ours(f) \in Seq(OurPieces)
  BY FileGrows, PieceFacts DEF Buffers
<1>3. IsPrefix(Ours(f), Ours(f))
  BY <1>2, PrefixFacts, PieceFacts
<1> DEFINE len == Len(f)
           ours == Len(Ours(f))
           theirs == Len(Theirs(f))
<1>4. ours \in Nat /\ theirs \in Nat /\ theirs >= due /\ len \in Nat
  BY <1>1, <1>2
<1> HIDE DEF len, ours, theirs
<1>5. 0 \in Nat /\ len <= len /\ ours - ours <= 0 /\ len - len = (ours - ours) + (theirs - theirs)
      /\ theirs <= theirs
      /\ theirs + (IF 0 = 0 /\ len > len + 0 THEN len - (len + 0) ELSE 0) >= due
  BY <1>4
<1> QED BY <1>1, <1>3, <1>5 DEF Grown, len, ours, theirs

(* What is known of a file that has grown, at its end, at a measurement    *)
(* and at a cut.                                                           *)
LEMMA GrownFacts ==
  ASSUME NEW f \in Seq(AllPieces), NEW own, NEW len, NEW enc \in Buffers, NEW due \in Int,
         NEW cutting \in {0, 1}, Grown(f, own, len, enc, due, cutting)
  PROVE  /\ IsPrefix(enc, Ours(f)) /\ Len(enc) <= Len(Ours(f))
         /\ Len(Theirs(f)) >= due
         /\ Grown(f, own, len, enc, due, 0)
         /\ Len(f) = len + own => Grown(f, own, len, enc, due, 1)
         /\ cutting = 1 => /\ SubSeq(f, 1, len) \in Seq(AllPieces)
                       /\ Ours(SubSeq(f, 1, len)) = enc
                       /\ Len(Theirs(SubSeq(f, 1, len))) >= due
                       /\ Grown(SubSeq(f, 1, len), own, len, enc, due, 0)
<1> DEFINE kept == SubSeq(f, 1, len)
<1>1. Intruder \in AllPieces
  BY PieceFacts
<1>2. own \in Nat /\ len \in Nat /\ len <= Len(f) /\ IsPrefix(enc, Ours(f))
  BY DEF Grown
<1>3. kept \in Seq(AllPieces) /\ Len(f) \in Nat /\ Len(kept) = len
      /\ SubSeq(kept, 1, len) = kept
  BY <1>1, <1>2, KeptStays
<1>4. Len(Ours(f)) \in Nat /\ Len(Theirs(f)) \in Nat /\ Ours(f) \in Seq(OurPieces)
  BY <1>1, FileGrows DEF Buffers
<1>5. Len(Theirs(kept)) \in Nat
  BY <1>1, <1>3, FileGrows
<1>6. enc \in Seq(OurPieces) /\ Len(enc) \in Nat
  BY DEF Buffers
<1>7. IsPrefix(enc, enc) /\ Len(enc) <= Len(Ours(f))
  BY <1>2, <1>4, <1>6, PrefixFacts, PieceFacts
<1> HIDE DEF kept
<1>8. Ours(kept) = enc /\ Len(Ours(f)) - Len(enc) <= own
      /\ Len(f) - len = (Len(Ours(f)) - Len(enc)) + (Len(Theirs(f)) - Len(Theirs(kept)))
      /\ Len(Theirs(kept)) <= Len(Theirs(f))
      /\ Len(Theirs(kept)) +
           (IF cutting = 0 /\ Len(f) > len + own THEN Len(f) - (len + own) ELSE 0) >= due
  BY DEF Grown, kept
<1>9. Len(Theirs(f)) >= due
  BY <1>2, <1>3, <1>4, <1>5, <1>6, <1>8
<1>10. Grown(f, own, len, enc, due, 0)
  <2>1. Len(Theirs(kept)) +
          (IF 0 = 0 /\ Len(f) > len + own THEN Len(f) - (len + own) ELSE 0) >= due
    BY <1>2, <1>3, <1>5, <1>8
  <2> QED BY <1>2, <1>8, <2>1 DEF Grown, kept
<1>11. ASSUME Len(f) = len + own PROVE Grown(f, own, len, enc, due, 1)
  <2>1. Len(Theirs(kept)) >= due
    BY <1>2, <1>3, <1>5, <1>8, <1>11
  <2> QED BY <1>2, <1>5, <1>8, <2>1 DEF Grown, kept
<1>12. ASSUME cutting = 1
       PROVE  Len(Theirs(kept)) >= due /\ Grown(kept, own, len, enc, due, 0)
  <2>1. Len(Theirs(kept)) >= due
    BY <1>5, <1>8, <1>12
  <2>2. Len(kept) - len = (Len(Ours(kept)) - Len(enc)) + (Len(Theirs(kept)) - Len(Theirs(kept)))
        /\ Len(Ours(kept)) - Len(enc) <= own
        /\ Len(Theirs(kept)) <= Len(Theirs(kept)) /\ len <= Len(kept)
        /\ Len(Theirs(kept)) +
             (IF 0 = 0 /\ Len(kept) > len + own THEN Len(kept) - (len + own) ELSE 0) >= due
    BY <1>2, <1>3, <1>5, <1>6, <1>8, <2>1
  <2>3. IsPrefix(enc, Ours(kept)) /\ Ours(kept) = enc
    BY <1>7, <1>8
  <2> QED BY <1>2, <1>3, <2>1, <2>2, <2>3 DEF Grown
<1> QED BY <1>2, <1>3, <1>7, <1>8, <1>9, <1>10, <1>11, <1>12 DEF kept

----------------------------------------------------------------------------
(* Concatenation of the pieces of the sink. *)
LEMMA JoinedThree ==
  ASSUME NEW s \in Buffers, NEW t \in Buffers, NEW u \in Buffers
  PROVE  (s \o t) \o u = s \o (t \o u)
BY ConcatAssociative DEF Buffers

(* Concatenating buffers.                                                  *)
LEMMA Joined ==
  ASSUME NEW s \in Buffers
  PROVE  /\ Len(s) \in Nat /\ s \o <<>> = s /\ <<>> \o s = s
         /\ \A t \in Buffers : s \o t \in Buffers /\ Len(s \o t) = Len(s) + Len(t)
<1>1. Len(s) \in Nat
  BY DEF Buffers
<1>2. ASSUME NEW t \in Buffers PROVE s \o t \in Buffers /\ Len(s \o t) = Len(s) + Len(t)
  BY DEF Buffers
<1>3. s \o <<>> = s /\ <<>> \o s = s
  BY ConcatEmptySeq DEF Buffers
<1> QED BY <1>1, <1>2, <1>3

(* Encoded grows by a batch, and by the header with the first of them. *)
LEMMA EncodedGrows ==
  ASSUME FileTypeOK
  PROVE  /\ Encoded \in Buffers /\ Opening \in Buffers /\ Len(Opening) <= 1
         /\ (/\ callBatch <= MaxBatches /\ format' = format
             /\ landed' = Append(landed, callBatch))
            => Encoded' = (Encoded \o Opening) \o Pieces(callBatch)
<1> DEFINE seqs == [k \in DOMAIN landed |-> Pieces(landed[k])]
           flat == FlattenSeq(seqs)
           front == IF format = "headed" /\ landed # <<>> THEN <<Header>> ELSE <<>>
<1>1. landed \in Seq(1..MaxBatches) /\ Len(landed) \in Nat /\ DOMAIN landed = 1 .. Len(landed)
  BY DEF FileTypeOK
<1>2. seqs \in Seq(Buffers) /\ Len(seqs) = Len(landed)
  <2>1. \A k \in 1 .. Len(landed) : landed[k] \in 1..MaxBatches
    BY <1>1, ElementOfSeq
  <2>2. \A k \in 1 .. Len(landed) : Pieces(landed[k]) \in Buffers
    BY <2>1, PieceFacts
  <2> QED BY <1>1, <2>2
<1>3. flat \in Buffers
  <2>1. seqs \in Seq(Seq(OurPieces)) /\ <<>> \in Seq(OurPieces)
    BY <1>2 DEF Buffers
  <2> HIDE DEF seqs
  <2> QED BY <2>1, FlattenGrows DEF Buffers
<1>4. Encoded = front \o flat /\ front \in Buffers
  BY PieceFacts DEF Encoded
<1>5. Opening \in Buffers /\ Len(Opening) <= 1
  BY PieceFacts DEF Opening
<1>6. Encoded \in Buffers
  BY <1>3, <1>4, Joined
<1>7. ASSUME callBatch <= MaxBatches, format' = format, landed' = Append(landed, callBatch)
      PROVE  Encoded' = (Encoded \o Opening) \o Pieces(callBatch)
  <2> DEFINE batch == Pieces(callBatch)
             more == [k \in DOMAIN landed' |-> Pieces(landed'[k])]
  <2>1. callBatch \in 1..MaxBatches
    BY <1>7 DEF FileTypeOK
  <2>2. batch \in Buffers
    BY <2>1, PieceFacts
  <2> HIDE DEF batch
  <2>3. more = Append(seqs, batch)
    <3>1. DOMAIN landed' = 1 .. Len(landed) + 1 /\ landed'[Len(landed) + 1] = callBatch
          /\ \A k \in 1 .. Len(landed) : landed'[k] = landed[k]
          /\ landed' \in Seq(1..MaxBatches)
      BY <1>1, <1>7, <2>1
    <3>2. more \in Seq(Buffers) /\ Len(more) = Len(landed) + 1
      <4>1. \A k \in 1 .. Len(landed) + 1 : landed'[k] \in 1..MaxBatches
        <5>1. \A k \in 1 .. Len(landed) + 1 : k = Len(landed) + 1 \/ k \in 1 .. Len(landed)
          BY <1>1
        <5>2. \A k \in 1 .. Len(landed) : landed[k] \in 1..MaxBatches
          BY <1>1, ElementOfSeq
        <5> QED BY <2>1, <3>1, <5>1, <5>2
      <4>2. \A k \in 1 .. Len(landed) + 1 : Pieces(landed'[k]) \in Buffers
        BY <4>1, PieceFacts
      <4> QED BY <1>1, <3>1, <4>2
    <3>3. Append(seqs, batch) \in Seq(Buffers) /\ Len(Append(seqs, batch)) = Len(landed) + 1
      BY <1>1, <1>2, <2>2
    <3>4. ASSUME NEW k \in 1 .. Len(landed) + 1 PROVE more[k] = Append(seqs, batch)[k]
      <4>1. CASE k = Len(landed) + 1
        BY <1>2, <2>2, <3>1, <4>1 DEF batch
      <4>2. CASE k # Len(landed) + 1
        <5>1. k \in 1 .. Len(landed)
          BY <1>1, <4>2
        <5> QED BY <1>1, <1>2, <2>2, <3>1, <5>1
      <4> QED BY <4>1, <4>2
    <3> HIDE DEF seqs, more
    <3> QED BY <3>2, <3>3, <3>4, SeqEqual
  <2>4. FlattenSeq(more) = flat \o batch
    <3>1. seqs \in Seq(Seq(OurPieces)) /\ batch \in Seq(OurPieces)
      BY <1>2, <2>2 DEF Buffers
    <3> HIDE DEF seqs, more
    <3> QED BY <2>3, <3>1, FlattenGrows
  <2>5. landed' # <<>>
    BY <1>1, <1>7, <2>1
  <2>6. Encoded' = (IF format = "headed" THEN <<Header>> ELSE <<>>) \o (flat \o batch)
    BY <1>7, <2>4, <2>5 DEF Encoded
  <2>7. CASE landed = <<>>
    <3>1. flat = <<>> /\ front = <<>> /\ Opening = IF format = "headed" THEN <<Header>> ELSE <<>>
      BY <1>2, <2>7 DEF FlattenSeq, Opening
    <3> HIDE DEF flat, front
    <3>2. Encoded = <<>> /\ flat \o batch = batch
      BY <1>4, <2>2, <3>1, Joined
    <3> QED BY <1>5, <2>2, <2>6, <3>1, <3>2, Joined DEF batch
  <2>8. CASE landed # <<>>
    <3>1. front = (IF format = "headed" THEN <<Header>> ELSE <<>>) /\ Opening = <<>>
      BY <2>8 DEF Opening
    <3> HIDE DEF flat, front
    <3>2. Encoded \o Opening = Encoded
      BY <1>6, <3>1, Joined
    <3>3. Encoded' = front \o (flat \o batch)
      BY <2>6, <3>1
    <3>4. front \o (flat \o batch) = (front \o flat) \o batch
      BY <1>3, <1>4, <2>2, JoinedThree
    <3> QED BY <1>4, <3>2, <3>3, <3>4 DEF batch
  <2> QED BY <2>7, <2>8
<1> QED BY <1>5, <1>6, <1>7

(* Encoded is what it was while no batch lands.                            *)
LEMMA SameEncoded ==
  ASSUME UNCHANGED <<format, landed>>
  PROVE  Encoded' = Encoded /\ Opening' = Opening
BY DEF Encoded, Opening

(* Which batch is pending where a call is. *)
LEMMA WhereCallsAre ==
  ASSUME SinkInv
  PROVE  /\ FileTypeOK
         /\ callAt \in {"write", "flush"} => pendingCut.set /\ ~pendingCut.planned /\ PendingFile
         /\ callAt \in {"start", "finished"} => ~pendingCut.set
         /\ callAt \in {"recoverFirst", "cut", "cutFirst"} =>
              pendingCut.set /\ pendingCut.planned
         /\ callAt = "recover" => pendingCut.set
         /\ callAt \in {"idle", "failed"} /\ pendingCut.set => pendingCut.planned
         /\ pendingCut.set => PendingFile
         /\ ~pendingCut.set => SettledFile
         /\ pendingCut.set /\ pendingCut.planned => BatchGivenUp
         /\ pendingCut.set /\ ~pendingCut.planned => BatchInFlight
BY DEF SinkInv, PendingFile, SettledFile, BatchGivenUp, BatchInFlight

(* The terms of an invariant that a step leaves alone. *)
LEMMA OwnTypes ==
  ASSUME FileTypeOK
  PROVE  /\ Ours(file) \in Buffers /\ Len(Ours(file)) \in Nat /\ Len(Theirs(file)) \in Nat
         /\ Encoded \in Buffers /\ Len(Encoded) \in Nat
         /\ writer.buffer \in Buffers /\ Len(writer.buffer) \in Nat
         /\ intrusions - unguarded \in Int
         /\ pendingCut.len \in Nat /\ pendingCut.counted \in Nat
         /\ CutFlag \in {0, 1} /\ file \in Seq(AllPieces)
<1>1. file \in Seq(AllPieces) /\ writer.buffer \in Buffers /\ intrusions - unguarded \in Int
      /\ pendingCut.len \in Nat /\ pendingCut.counted \in Nat /\ CutFlag \in {0, 1}
  BY DEF FileTypeOK, CutFlag, Cutting
<1>2. Ours(file) \in Buffers /\ Len(Ours(file)) \in Nat /\ Len(Theirs(file)) \in Nat
  BY <1>1, FileGrows, PieceFacts
<1>3. Encoded \in Buffers
  BY EncodedGrows
<1> QED BY <1>1, <1>2, <1>3, Joined

(* Each action keeps the invariant.                                        *)
LEMMA BeginKeeps == ASSUME SinkInv, BeginCall PROVE SinkInv'
<1>1. UNCHANGED <<format, file, writer, counted, pendingCut, landed, refused, callBatch,
                  sinkFaults, intrusions, unguarded>>
      /\ callAt = "idle" /\ callAt' = IF pendingCut.set THEN "recoverFirst" ELSE "start"
  BY DEF BeginCall
<1>2. FileTypeOK'
  BY <1>1, WhereCallsAre DEF FileTypeOK
<1>3. Encoded' = Encoded
  BY <1>1, SameEncoded
<1>4. ASSUME pendingCut.set PROVE PendingFile'
  <2>1. PendingFile /\ BatchGivenUp /\ pendingCut.planned
    BY <1>1, <1>4, WhereCallsAre
  <2>2. CutFlag = 0 /\ CutFlag' = 0
    BY <1>1, <1>4 DEF CutFlag, Cutting
  <2>3. BatchGivenUp'
    BY <1>1, <1>3, <1>4, <2>1 DEF BatchGivenUp
  <2> QED BY <1>1, <1>3, <2>1, <2>2, <2>3 DEF PendingFile
<1>5. ASSUME ~pendingCut.set PROVE SettledFile'
  BY <1>1, <1>3, <1>5, WhereCallsAre DEF SettledFile, WriterReady
<1> QED BY <1>1, <1>2, <1>4, <1>5 DEF SinkInv

LEMMA RefuseKeeps == ASSUME SinkInv, Refuse PROVE SinkInv'
<1>1. UNCHANGED <<format, file, writer, counted, pendingCut, landed, refused, callBatch,
                  sinkFaults, intrusions, unguarded>>
      /\ callAt = "start" /\ callAt' = "failed" /\ refused # "no"
  BY DEF Refuse
<1>2. FileTypeOK' /\ ~pendingCut.set /\ SettledFile
  BY <1>1, WhereCallsAre DEF FileTypeOK
<1>3. Encoded' = Encoded
  BY <1>1, SameEncoded
<1>4. SettledFile'
  BY <1>1, <1>2, <1>3 DEF SettledFile
<1> QED BY <1>1, <1>2, <1>4 DEF SinkInv

LEMMA StartBatchKeeps == ASSUME SinkInv, StartBatch PROVE SinkInv'
<1>1. UNCHANGED <<format, file, writer, counted, landed, refused, callBatch, sinkFaults,
                  intrusions, unguarded>>
      /\ callAt = "start" /\ callAt' = "write" /\ refused = "no" /\ callBatch <= MaxBatches
      /\ pendingCut' = [NoPending EXCEPT !.set = TRUE, !.len = Len(file), !.counted = counted]
  BY DEF StartBatch
<1>2. FileTypeOK /\ SettledFile /\ Ours(file) = Encoded /\ WriterReady
  BY <1>1, WhereCallsAre DEF SettledFile
<1>3. Len(file) \in Nat /\ counted \in Nat
  BY <1>2 DEF FileTypeOK
<1>4. /\ pendingCut'.set /\ ~pendingCut'.planned /\ pendingCut'.len = Len(file)
      /\ pendingCut'.counted = counted
      /\ pendingCut' \in [set : BOOLEAN, len : Nat, counted : Nat, planned : BOOLEAN,
                          reopen : BOOLEAN]
  BY <1>1, <1>3 DEF NoPending
<1>5. FileTypeOK'
  BY <1>1, <1>2, <1>4 DEF FileTypeOK
<1>6. Encoded' = Encoded
  BY <1>1, SameEncoded
<1>7. CutFlag' = 0
  BY <1>1 DEF CutFlag, Cutting
<1>8. Grown(file, 0, Len(file), Encoded, intrusions - unguarded, 0)
  BY <1>2, GrownFirst, OwnTypes DEF SettledFile
<1>9. counted' - pendingCut'.counted = 0
  BY <1>1, <1>3, <1>4
<1>10. BatchInFlight'
  <2>1. Len(Ours(file)) + Len(writer.buffer) <= Len(Encoded) + 3
    <3>1. Len(writer.buffer) = 0
      BY <1>2 DEF WriterReady
    <3> QED BY <1>2, <3>1, OwnTypes
  <2> QED BY <1>1, <1>2, <1>6, <2>1 DEF BatchInFlight, WriterReady
<1>11. PendingFile'
  BY <1>1, <1>4, <1>6, <1>7, <1>8, <1>9, <1>10 DEF PendingFile
<1> QED BY <1>4, <1>5, <1>11 DEF SinkInv

LEMMA EncodeKeeps == ASSUME SinkInv, EncodeBatch PROVE SinkInv'
<1> DEFINE batch == Pieces(callBatch)
<1>1. UNCHANGED <<format, file, counted, pendingCut, landed, refused, callBatch, sinkFaults,
                  intrusions, unguarded>>
      /\ callAt = "write" /\ callAt' = "flush"
  BY DEF EncodeBatch
<1>2. FileTypeOK /\ pendingCut.set /\ ~pendingCut.planned /\ PendingFile /\ BatchInFlight
  BY <1>1, WhereCallsAre
<1>3. WriterReady /\ Ours(file) = Encoded /\ callBatch <= MaxBatches
  BY <1>1, <1>2 DEF BatchInFlight
<1>4. batch \in Buffers /\ Len(batch) = 2
  BY <1>2, <1>3, PieceFacts DEF FileTypeOK
<1>5. Opening \in Buffers /\ Len(Opening) <= 1 /\ Len(Opening) \in Nat /\ Opening \o batch \in Buffers
      /\ Len(Opening \o batch) = Len(Opening) + 2
  <2>1. Opening \in Buffers /\ Len(Opening) <= 1
    BY <1>2, EncodedGrows
  <2> HIDE DEF batch
  <2>2. Len(Opening) \in Nat
    BY <2>1, Joined
  <2>3. Opening \o batch \in Buffers /\ Len(Opening \o batch) = Len(Opening) + Len(batch)
    BY <1>4, <2>1, Joined
  <2> QED BY <1>4, <2>1, <2>2, <2>3
<1>6. (IF format = "headed" /\ ~writer.headed THEN <<Header>> ELSE <<>>) = Opening
  BY <1>3 DEF WriterReady, Opening
<1>7. (writer.buffer \o Opening) \o batch = Opening \o batch
  BY <1>3, <1>5, Joined DEF WriterReady
<1>8. writer' = [writer EXCEPT !.buffer = Opening \o batch, !.headed = TRUE]
  BY <1>6, <1>7 DEF EncodeBatch
<1> HIDE DEF batch
<1>9. writer'.buffer = Opening \o batch /\ writer'.headed
      /\ writer' \in [open : BOOLEAN, buffer : Buffers, headed : BOOLEAN, base : Nat]
  BY <1>2, <1>5, <1>8 DEF FileTypeOK
<1>10. FileTypeOK'
  BY <1>1, <1>2, <1>9 DEF FileTypeOK
<1>11. Encoded' = Encoded /\ Opening' = Opening
  BY <1>1, SameEncoded
<1>12. CutFlag = 0 /\ CutFlag' = 0
  BY <1>1 DEF CutFlag, Cutting
<1>13. BatchInFlight'
  <2>1. Encoded \o (Opening \o batch) = (Encoded \o Opening) \o batch
    <3>1. Encoded \in Buffers
      BY <1>2, OwnTypes
    <3> QED BY <1>4, <1>5, <3>1, JoinedThree
  <2>2. Len(Ours(file)) + Len(Opening \o batch) <= Len(Encoded) + 3
    BY <1>2, <1>3, <1>5, OwnTypes
  <2> QED BY <1>1, <1>3, <1>9, <1>11, <2>1, <2>2 DEF BatchInFlight, batch
<1>14. PendingFile'
  BY <1>1, <1>2, <1>11, <1>12, <1>13 DEF PendingFile
<1> QED BY <1>1, <1>2, <1>10, <1>14 DEF SinkInv

LEMMA FlushKeeps == ASSUME SinkInv, FlushPiece PROVE SinkInv'
<1> DEFINE x == Head(writer.buffer)
           rest == Tail(writer.buffer)
<1>1. UNCHANGED <<format, pendingCut, landed, refused, callAt, callBatch, sinkFaults,
                  intrusions, unguarded>>
      /\ callAt = "flush" /\ writer.buffer # <<>>
      /\ file' = Append(file, x) /\ counted' = counted + 1
      /\ writer' = [writer EXCEPT !.buffer = rest]
  BY DEF FlushPiece
<1>2. FileTypeOK /\ pendingCut.set /\ ~pendingCut.planned /\ PendingFile /\ BatchInFlight
  BY <1>1, WhereCallsAre
<1>3. x \in OurPieces /\ rest \in Buffers /\ Len(rest) = Len(writer.buffer) - 1
      /\ \A s \in Buffers : Append(s, x) \o rest = s \o writer.buffer /\ Len(Append(s, x)) = Len(s) + 1
  <2> DEFINE b == writer.buffer
  <2>1. b \in Seq(OurPieces) /\ b # <<>>
    BY <1>1, <1>2, OwnTypes DEF Buffers
  <2> HIDE DEF b
  <2>2. Head(b) \in OurPieces /\ Tail(b) \in Seq(OurPieces) /\ Len(Tail(b)) = Len(b) - 1
    BY <2>1
  <2>3. ASSUME NEW s \in Seq(OurPieces)
        PROVE  Append(s, Head(b)) \o Tail(b) = s \o b /\ Len(Append(s, Head(b))) = Len(s) + 1
    BY <2>1, <2>2
  <2> QED BY <2>2, <2>3 DEF b, Buffers
<1> HIDE DEF x, rest
<1>4. writer'.buffer = rest /\ writer'.headed = writer.headed
      /\ writer' \in [open : BOOLEAN, buffer : Buffers, headed : BOOLEAN, base : Nat]
  BY <1>1, <1>2, <1>3 DEF FileTypeOK
<1>5. x \in AllPieces
  BY <1>3, PieceFacts
<1>6. file' \in Seq(AllPieces) /\ Ours(file') = Append(Ours(file), x)
  BY <1>1, <1>2, <1>3, <1>5, FileGrows, OwnTypes
<1>7. FileTypeOK'
  BY <1>1, <1>2, <1>4, <1>6 DEF FileTypeOK
<1>8. Encoded' = Encoded /\ Opening' = Opening /\ CutFlag' = CutFlag
  BY <1>1, SameEncoded DEF CutFlag, Cutting
<1>9. Grown(file', (counted - pendingCut.counted) + 1, pendingCut.len, Encoded,
            intrusions - unguarded, CutFlag)
  BY <1>1, <1>2, <1>3, GrownByOwn, OwnTypes DEF PendingFile
<1>10. counted' - pendingCut'.counted = (counted - pendingCut.counted) + 1
  BY <1>1, <1>2, OwnTypes DEF FileTypeOK
<1>11. BatchInFlight'
  <2>1. Len(Ours(file')) + Len(rest) <= Len(Encoded) + 3
    <3>1. Len(Ours(file')) = Len(Ours(file)) + 1
      BY <1>2, <1>3, <1>6, OwnTypes
    <3>2. Len(rest) = Len(writer.buffer) - 1
      BY <1>3
    <3>3. Len(Ours(file)) + Len(writer.buffer) <= Len(Encoded) + 3
      BY <1>2 DEF BatchInFlight
    <3>4. Len(Ours(file)) \in Nat /\ Len(writer.buffer) \in Nat /\ Len(Encoded) \in Nat
      BY <1>2, OwnTypes
    <3> DEFINE a == Len(Ours(file))
               b == Len(writer.buffer)
               e == Len(Encoded)
    <3>5. a \in Nat /\ b \in Nat /\ e \in Nat /\ a + b <= e + 3
      BY <3>3, <3>4
    <3>6. Len(Ours(file')) = a + 1 /\ Len(rest) = b - 1
      BY <3>1, <3>2
    <3> HIDE DEF a, b, e
    <3>7. (a + 1) + (b - 1) <= e + 3
      BY <3>5
    <3> QED BY <3>6, <3>7 DEF e
  <2>2. Ours(file') \o rest = Ours(file) \o writer.buffer
    BY <1>2, <1>3, <1>6, OwnTypes
  <2> QED BY <1>1, <1>2, <1>4, <1>8, <2>1, <2>2 DEF BatchInFlight
<1>12. PendingFile'
  BY <1>1, <1>2, <1>8, <1>9, <1>10, <1>11 DEF PendingFile
<1> QED BY <1>1, <1>2, <1>7, <1>12 DEF SinkInv

LEMMA SyncKeeps == ASSUME SinkInv, SyncFile PROVE SinkInv'
<1>1. UNCHANGED <<format, file, writer, counted, refused, sinkFaults, intrusions, unguarded>>
      /\ callAt = "flush" /\ callAt' = "idle" /\ writer.buffer = <<>>
      /\ pendingCut' = NoPending /\ landed' = Append(landed, callBatch)
      /\ callBatch' = callBatch + 1
  BY DEF SyncFile
<1>2. FileTypeOK /\ pendingCut.set /\ ~pendingCut.planned /\ PendingFile /\ BatchInFlight
  BY <1>1, WhereCallsAre
<1>3. callBatch \in 1..MaxBatches /\ writer.headed
      /\ Ours(file) \o writer.buffer = (Encoded \o Opening) \o Pieces(callBatch)
  BY <1>1, <1>2, SMTT(40) DEF BatchInFlight, FileTypeOK
<1>4. ~pendingCut'.set
      /\ pendingCut' \in [set : BOOLEAN, len : Nat, counted : Nat, planned : BOOLEAN,
                          reopen : BOOLEAN]
  BY <1>1 DEF NoPending
<1>5. landed' \in Seq(1..MaxBatches) /\ landed' # <<>> /\ callBatch' \in 1..(MaxBatches + 1)
  BY <1>1, <1>2, <1>3, FileSinkAssumption, SMTT(40) DEF FileTypeOK
<1>6. FileTypeOK'
  BY <1>1, <1>2, <1>4, <1>5 DEF FileTypeOK
<1>7. Encoded' = Ours(file)
  <2>1. Encoded' = (Encoded \o Opening) \o Pieces(callBatch)
    BY <1>1, <1>2, <1>3, EncodedGrows
  <2>2. Ours(file) \o <<>> = Ours(file)
    BY <1>2, Joined, OwnTypes
  <2> QED BY <1>1, <1>3, <2>1, <2>2
<1>8. Len(Theirs(file)) >= intrusions - unguarded
  <2>1. Grown(file, counted - pendingCut.counted, pendingCut.len, Encoded,
              intrusions - unguarded, CutFlag)
    BY <1>2 DEF PendingFile
  <2>2. file \in Seq(AllPieces) /\ Encoded \in Buffers /\ intrusions - unguarded \in Int
        /\ CutFlag \in {0, 1}
    BY <1>2, OwnTypes
  <2> QED BY <2>1, <2>2, GrownFacts
<1>9. IsPrefix(Ours(file), Ours(file)) /\ Len(Ours(file)) <= Len(Ours(file)) + 3
  BY <1>2, OwnTypes, PrefixFacts, PieceFacts DEF Buffers
<1>10. SettledFile'
  BY <1>1, <1>3, <1>5, <1>7, <1>8, <1>9 DEF SettledFile, WriterReady
<1> QED BY <1>4, <1>6, <1>10 DEF SinkInv

LEMMA EncodeFailKeeps == ASSUME SinkInv, EncodeFails PROVE SinkInv'
<1>1. UNCHANGED <<format, file, writer, counted, pendingCut, landed, refused, callBatch,
                  intrusions, unguarded>>
      /\ callAt \in {"write", "flush"} /\ callAt' = "recover"
  BY DEF EncodeFails
<1>2. FileTypeOK /\ pendingCut.set /\ ~pendingCut.planned /\ PendingFile /\ BatchInFlight
  BY <1>1, WhereCallsAre
<1>3. FileTypeOK'
  BY <1>1, <1>2 DEF FileTypeOK
<1>4. Encoded' = Encoded /\ CutFlag = 0 /\ CutFlag' = 0
  BY <1>1, SameEncoded DEF CutFlag, Cutting
<1>5. BatchInFlight'
  BY <1>1, <1>2, <1>4 DEF BatchInFlight
<1>6. PendingFile'
  BY <1>1, <1>2, <1>4, <1>5 DEF PendingFile
<1> QED BY <1>1, <1>2, <1>3, <1>6 DEF SinkInv

(* The writer flushes the first k pieces of its buffer when it is dropped. *)
FlushedWell(f, own, len, enc, due, cutting, buffer, k) ==
  LET more == f \o SubSeq(buffer, 1, k)
  IN  /\ more \in Seq(AllPieces)
      /\ Grown(more, own + k, len, enc, due, cutting)
      /\ Len(Ours(more)) = Len(Ours(f)) + k

LEMMA Flushes ==
  ASSUME NEW f \in Seq(AllPieces), NEW own, NEW len, NEW enc \in Buffers, NEW due \in Int,
         NEW cutting \in {0, 1}, Grown(f, own, len, enc, due, cutting),
         NEW buffer \in Buffers, NEW k \in 0 .. Len(buffer)
  PROVE  FlushedWell(f, own, len, enc, due, cutting, buffer, k)
<1> DEFINE g(n) == f \o SubSeq(buffer, 1, n)
           Good(n) == /\ g(n) \in Seq(AllPieces)
                      /\ Grown(g(n), own + n, len, enc, due, cutting)
                      /\ Len(Ours(g(n))) = Len(Ours(f)) + n
           S == {n \in Nat : n <= Len(buffer) => Good(n)}
<1>1. buffer \in Seq(OurPieces) /\ Len(buffer) \in Nat /\ own \in Nat
      /\ buffer \in Seq(AllPieces)
  BY PieceFacts DEF Buffers, Grown
<1>2. Len(Ours(f)) \in Nat
  BY FileGrows, PieceFacts
<1>3. 0 \in S
  <2>1. g(0) = f
    <3>1. SubSeq(buffer, 1, 0) = <<>>
      BY <1>1
    <3> QED BY <3>1, ConcatEmptySeq
  <2>2. own + 0 = own /\ Len(Ours(f)) + 0 = Len(Ours(f))
    BY <1>1, <1>2
  <2> HIDE DEF g
  <2> QED BY <2>1, <2>2
<1>4. ASSUME NEW n \in Nat, n \in S
      PROVE  n + 1 \in S
  <2> SUFFICES ASSUME n + 1 <= Len(buffer) PROVE Good(n + 1)
    OBVIOUS
  <2>1. Good(n)
    BY <1>1, <1>4
  <2> DEFINE x == buffer[n + 1]
  <2>2. x \in OurPieces /\ x \in AllPieces
    BY <1>1, PieceFacts
  <2>3. g(n + 1) = Append(g(n), x)
    <3>1. SubSeq(buffer, 1, n + 1) = Append(SubSeq(buffer, 1, n), x)
      BY <1>1
    <3>2. SubSeq(buffer, 1, n) \in Seq(AllPieces)
      BY <1>1
    <3> DEFINE b == SubSeq(buffer, 1, n)
    <3> HIDE DEF b, x
    <3>3. f \o Append(b, x) = Append(f \o b, x)
      BY <2>2, <3>2 DEF b
    <3> QED BY <3>1, <3>3 DEF b
  <2> HIDE DEF g, x
  <2>4. g(n + 1) \in Seq(AllPieces) /\ Ours(g(n + 1)) = Append(Ours(g(n)), x)
        /\ Ours(g(n)) \in Buffers
    BY <2>1, <2>2, <2>3, FileGrows
  <2>5. Len(Ours(g(n + 1))) = Len(Ours(f)) + (n + 1)
    <3>1. Len(Append(Ours(g(n)), x)) = Len(Ours(g(n))) + 1
      BY <2>4 DEF Buffers
    <3> QED BY <1>2, <2>1, <2>4, <3>1
  <2>6. Grown(g(n + 1), (own + n) + 1, len, enc, due, cutting)
    BY <2>1, <2>2, <2>3, GrownByOwn
  <2>7. (own + n) + 1 = own + (n + 1)
    BY <1>1
  <2> QED BY <2>4, <2>5, <2>6, <2>7
<1> HIDE DEF S
<1>5. Nat \subseteq S
  BY <1>3, <1>4, NatSetInduction
<1>6. k \in Nat /\ k <= Len(buffer)
  BY <1>1
<1>7. Good(k)
  BY <1>5, <1>6 DEF S
<1> QED BY <1>7 DEF FlushedWell

LEMMA DropKeeps == ASSUME SinkInv, DropWriter PROVE SinkInv'
<1> DEFINE again == Reopens
<1>1. UNCHANGED <<format, landed, refused, callAt, callBatch, sinkFaults, intrusions, unguarded>>
      /\ callAt \in {"recover", "recoverFirst"} /\ ~pendingCut.planned
      /\ pendingCut' = [pendingCut EXCEPT !.planned = TRUE, !.reopen = again]
      /\ writer' = NoWriter
  BY DEF DropWriter, Recovering
<1>2. PICK k \in 0..Len(writer.buffer) :
        file' = file \o SubSeq(writer.buffer, 1, k) /\ counted' = counted + k
  BY DEF DropWriter
<1>3. FileTypeOK /\ pendingCut.set /\ PendingFile /\ BatchInFlight
  BY <1>1, WhereCallsAre
<1>4. again \in BOOLEAN /\ (again /\ landed # <<>> => format = "plain")
  BY DEF Reopens
<1> HIDE DEF again
<1>5. /\ pendingCut'.set /\ pendingCut'.planned /\ pendingCut'.reopen = again
      /\ pendingCut'.len = pendingCut.len /\ pendingCut'.counted = pendingCut.counted
      /\ pendingCut' \in [set : BOOLEAN, len : Nat, counted : Nat, planned : BOOLEAN,
                          reopen : BOOLEAN]
  BY <1>1, <1>3, <1>4 DEF FileTypeOK
<1>6. writer' \in [open : BOOLEAN, buffer : Buffers, headed : BOOLEAN, base : Nat]
  BY <1>1, PieceFacts DEF NoWriter
<1>7. k \in Nat /\ k <= Len(writer.buffer) /\ counted \in Nat /\ counted' \in Nat
  BY <1>2, <1>3, OwnTypes DEF FileTypeOK
<1>8. Encoded' = Encoded /\ CutFlag' = CutFlag
  BY <1>1, SameEncoded DEF CutFlag, Cutting
<1>9. /\ file' \in Seq(AllPieces)
      /\ Grown(file', (counted - pendingCut.counted) + k, pendingCut.len, Encoded,
               intrusions - unguarded, CutFlag)
      /\ Len(Ours(file')) = Len(Ours(file)) + k
  <2>1. Grown(file, counted - pendingCut.counted, pendingCut.len, Encoded,
              intrusions - unguarded, CutFlag)
    BY <1>3 DEF PendingFile
  <2>2. file \in Seq(AllPieces) /\ Encoded \in Buffers /\ intrusions - unguarded \in Int
        /\ CutFlag \in {0, 1} /\ writer.buffer \in Buffers
    BY <1>3, OwnTypes
  <2> DEFINE own == counted - pendingCut.counted
             len == pendingCut.len
             due == intrusions - unguarded
             b == writer.buffer
             cutting == CutFlag
  <2>3. Grown(file, own, len, Encoded, due, cutting) /\ due \in Int /\ cutting \in {0, 1}
        /\ b \in Buffers /\ k \in 0 .. Len(b)
    BY <1>2, <2>1, <2>2
  <2> HIDE DEF own, len, due, b, cutting
  <2>4. FlushedWell(file, own, len, Encoded, due, cutting, b, k)
    BY <2>2, <2>3, Flushes
  <2> QED BY <1>2, <2>4 DEF own, len, due, b, cutting, FlushedWell
<1>10. FileTypeOK'
  BY <1>1, <1>3, <1>5, <1>6, <1>7, <1>9 DEF FileTypeOK
<1>11. counted' - pendingCut'.counted = (counted - pendingCut.counted) + k
  BY <1>2, <1>3, <1>5, <1>7, OwnTypes
<1>12. Len(Ours(file')) <= Len(Encoded) + 3
  <2> DEFINE a == Len(Ours(file))
             b == Len(writer.buffer)
             e == Len(Encoded)
  <2>1. a \in Nat /\ b \in Nat /\ e \in Nat /\ a + b <= e + 3 /\ k <= b
    BY <1>3, <1>7, OwnTypes DEF BatchInFlight
  <2>2. Len(Ours(file')) = a + k
    BY <1>9
  <2> HIDE DEF a, b, e
  <2>3. a + k <= e + 3
    BY <1>7, <2>1
  <2> QED BY <2>2, <2>3 DEF e
<1>13. BatchGivenUp'
  BY <1>1, <1>4, <1>5, <1>8, <1>12 DEF BatchGivenUp
<1>14. PendingFile'
  BY <1>1, <1>3, <1>5, <1>8, <1>9, <1>11, <1>13 DEF PendingFile
<1> QED BY <1>5, <1>10, <1>14 DEF SinkInv

(* A batch given up in a file that has grown since. *)
LEMMA GivenUp ==
  ASSUME SinkInv, pendingCut.set, pendingCut.planned
  PROVE  LET own == counted - pendingCut.counted
             due == intrusions - unguarded
             kept == SubSeq(file, 1, pendingCut.len)
         IN  /\ FileTypeOK /\ BatchGivenUp /\ refused = "no"
             /\ Grown(file, own, pendingCut.len, Encoded, due, CutFlag)
             /\ Grown(file, own, pendingCut.len, Encoded, due, 0)
             /\ IsPrefix(Encoded, Ours(file)) /\ Len(Theirs(file)) >= due
             /\ Len(file) = pendingCut.len + own =>
                  Grown(file, own, pendingCut.len, Encoded, due, 1)
             /\ Cutting => /\ kept \in Seq(AllPieces) /\ Ours(kept) = Encoded
                           /\ Len(Theirs(kept)) >= due
                           /\ Grown(kept, own, pendingCut.len, Encoded, due, 0)
             /\ IsPrefix(Encoded, Encoded) /\ Len(Encoded) <= Len(Encoded) + 3
<1>1. FileTypeOK /\ PendingFile /\ BatchGivenUp
  BY WhereCallsAre
<1>2. refused = "no" /\ Grown(file, counted - pendingCut.counted, pendingCut.len, Encoded,
                              intrusions - unguarded, CutFlag)
  BY <1>1 DEF PendingFile
<1>3. file \in Seq(AllPieces) /\ Encoded \in Buffers /\ intrusions - unguarded \in Int
      /\ CutFlag \in {0, 1} /\ Len(Encoded) \in Nat
  BY <1>1, OwnTypes
<1>4. IsPrefix(Encoded, Encoded) /\ Len(Encoded) <= Len(Encoded) + 3
  BY <1>3, PrefixFacts, PieceFacts DEF Buffers
<1> DEFINE own == counted - pendingCut.counted
           len == pendingCut.len
           due == intrusions - unguarded
           cutting == CutFlag
           kept == SubSeq(file, 1, len)
<1>5. Grown(file, own, len, Encoded, due, cutting) /\ due \in Int /\ cutting \in {0, 1}
  BY <1>2, <1>3
<1> HIDE DEF own, len, due, cutting
<1>6. /\ IsPrefix(Encoded, Ours(file)) /\ Len(Theirs(file)) >= due
      /\ Grown(file, own, len, Encoded, due, 0)
  <2>1. IsPrefix(Encoded, Ours(file))
    BY <1>5 DEF Grown
  <2>2. Len(Theirs(file)) >= due
    BY <1>3, <1>5, GrownFacts
  <2>3. Grown(file, own, len, Encoded, due, 0)
    BY <1>3, <1>5, GrownFacts
  <2> QED BY <2>1, <2>2, <2>3
<1>7. Len(file) = len + own => Grown(file, own, len, Encoded, due, 1)
  BY <1>3, <1>5, GrownFacts
<1>8. cutting = 1 => /\ kept \in Seq(AllPieces) /\ Ours(kept) = Encoded
                 /\ Len(Theirs(kept)) >= due
                 /\ Grown(kept, own, len, Encoded, due, 0)
  BY <1>3, <1>5, GrownFacts
<1> QED BY <1>1, <1>2, <1>4, <1>6, <1>7, <1>8 DEF own, len, due, cutting, CutFlag

(* NoPending is a pending record, and unset.                               *)
LEMMA NothingPending ==
  /\ ~NoPending.set
  /\ NoPending \in [set : BOOLEAN, len : Nat, counted : Nat, planned : BOOLEAN, reopen : BOOLEAN]
BY DEF NoPending

LEMMA MeasureKeeps == ASSUME SinkInv, MeasureFile PROVE SinkInv'
<1>1. UNCHANGED <<format, file, writer, counted, landed, callBatch, sinkFaults, intrusions,
                  unguarded>>
      /\ callAt \in {"recover", "recoverFirst"} /\ pendingCut.planned
  BY DEF MeasureFile, Recovering
<1>2. pendingCut.set
  BY <1>1, WhereCallsAre
<1>3. Encoded' = Encoded
  BY <1>1, SameEncoded
<1>4. CASE Len(file) = pendingCut.len + (counted - pendingCut.counted)
  <2>1. callAt' \in {"cut", "cutFirst"} /\ UNCHANGED <<pendingCut, refused>>
    BY <1>4 DEF MeasureFile
  <2>2. FileTypeOK'
    BY <1>1, <1>2, <2>1, GivenUp DEF FileTypeOK
  <2>3. CutFlag' = 1
    BY <2>1 DEF CutFlag, Cutting
  <2>4. BatchGivenUp'
    BY <1>1, <1>2, <1>3, <2>1, GivenUp DEF BatchGivenUp
  <2>5. PendingFile'
    BY <1>1, <1>2, <1>3, <1>4, <2>1, <2>3, <2>4, GivenUp DEF PendingFile
  <2> QED BY <1>2, <2>1, <2>2, <2>5 DEF SinkInv
<1>5. CASE Len(file) # pendingCut.len + (counted - pendingCut.counted)
  <2>1. refused' = "others" /\ pendingCut' = NoPending /\ callAt' \in {"start", "failed"}
    BY <1>5 DEF MeasureFile, Settles
  <2>2. FileTypeOK' /\ ~pendingCut'.set
    BY <1>1, <1>2, <2>1, GivenUp, NothingPending DEF FileTypeOK
  <2>3. SettledFile'
    BY <1>1, <1>2, <1>3, <2>1, GivenUp DEF SettledFile, BatchGivenUp
  <2> QED BY <2>2, <2>3 DEF SinkInv
<1> QED BY <1>4, <1>5

LEMMA MeasureFailKeeps == ASSUME SinkInv, MeasureFails PROVE SinkInv'
<1>1. UNCHANGED <<format, file, writer, counted, pendingCut, landed, refused, callBatch,
                  intrusions, unguarded>>
      /\ callAt' = "failed"
  BY DEF MeasureFails
<1>2. FileTypeOK' /\ Encoded' = Encoded /\ CutFlag' = 0
  BY <1>1, SameEncoded, WhereCallsAre DEF FileTypeOK, CutFlag, Cutting
<1>3. CASE callAt = "start"
  <2>1. ~pendingCut.set /\ SettledFile
    BY <1>3, WhereCallsAre
  <2>2. SettledFile'
    BY <1>1, <1>2, <1>3, <2>1 DEF SettledFile, WriterReady
  <2> QED BY <1>1, <1>2, <2>1, <2>2 DEF SinkInv
<1>4. CASE callAt \in {"recover", "recoverFirst"} /\ pendingCut.planned
  <2>1. pendingCut.set
    BY <1>4, WhereCallsAre
  <2>2. BatchGivenUp'
    BY <1>1, <1>2, <1>4, <2>1, GivenUp DEF BatchGivenUp
  <2>3. PendingFile'
    BY <1>1, <1>2, <1>4, <2>1, <2>2, GivenUp DEF PendingFile
  <2> QED BY <1>1, <1>2, <2>1, <2>3 DEF SinkInv
<1> QED BY <1>3, <1>4 DEF MeasureFails, Recovering

LEMMA CutKeeps == ASSUME SinkInv, CutBack PROVE SinkInv'
<1> DEFINE kept == SubSeq(file, 1, pendingCut.len)
<1>1. UNCHANGED <<format, counted, landed, callBatch, sinkFaults, intrusions, unguarded>>
      /\ file' = kept /\ pendingCut' = NoPending /\ callAt \in {"cut", "cutFirst"}
      /\ callAt' \in {"start", "failed"}
  BY DEF CutBack, CutFlag, Cutting
<1>2. pendingCut.set /\ pendingCut.planned /\ Cutting
  BY <1>1, WhereCallsAre DEF CutFlag, Cutting
<1>3. FileTypeOK /\ BatchGivenUp /\ refused = "no" /\ kept \in Seq(AllPieces)
      /\ Ours(kept) = Encoded /\ Len(Theirs(kept)) >= intrusions - unguarded
      /\ IsPrefix(Encoded, Encoded) /\ Len(Encoded) <= Len(Encoded) + 3
  BY <1>2, GivenUp
<1> HIDE DEF kept
<1>4. Encoded' = Encoded
  BY <1>1, SameEncoded
<1>5. CASE pendingCut.reopen
  <2>1. writer' = NewWriter /\ UNCHANGED refused
    BY <1>5 DEF CutBack
  <2>2. counted \in Nat
    BY <1>3 DEF FileTypeOK
  <2>3. writer' \in [open : BOOLEAN, buffer : Buffers, headed : BOOLEAN, base : Nat]
        /\ writer'.buffer = <<>> /\ ~writer'.headed
    BY <2>1, <2>2, PieceFacts DEF NewWriter
  <2>4. FileTypeOK' /\ ~pendingCut'.set
    BY <1>1, <1>3, <2>3, NothingPending DEF FileTypeOK
  <2>5. WriterReady'
    <3>1. landed # <<>> => format = "plain"
      BY <1>3, <1>5 DEF BatchGivenUp
    <3> QED BY <1>1, <2>3, <3>1 DEF WriterReady
  <2>6. SettledFile'
    BY <1>1, <1>3, <1>4, <2>5 DEF SettledFile
  <2> QED BY <2>4, <2>6 DEF SinkInv
<1>6. CASE ~pendingCut.reopen
  <2>1. UNCHANGED writer /\ refused' = "format"
    BY <1>6 DEF CutBack
  <2>2. FileTypeOK' /\ ~pendingCut'.set
    BY <1>1, <1>3, <2>1, NothingPending DEF FileTypeOK
  <2>3. SettledFile'
    BY <1>1, <1>3, <1>4, <2>1 DEF SettledFile
  <2> QED BY <2>2, <2>3 DEF SinkInv
<1> QED BY <1>5, <1>6

LEMMA CutFailKeeps == ASSUME SinkInv, CutFails PROVE SinkInv'
<1> DEFINE kept == SubSeq(file, 1, pendingCut.len)
<1>1. UNCHANGED <<format, writer, counted, pendingCut, landed, refused, callBatch, intrusions,
                  unguarded>>
      /\ file' \in {file, kept} /\ callAt \in {"cut", "cutFirst"} /\ callAt' = "failed"
  BY DEF CutFails, CutFlag, Cutting
<1>2. pendingCut.set /\ pendingCut.planned /\ Cutting
  BY <1>1, WhereCallsAre DEF CutFlag, Cutting
<1>3. /\ FileTypeOK /\ BatchGivenUp /\ refused = "no"
      /\ kept \in Seq(AllPieces) /\ Ours(kept) = Encoded /\ Len(Encoded) <= Len(Encoded) + 3
      /\ Grown(file, counted - pendingCut.counted, pendingCut.len, Encoded,
               intrusions - unguarded, 0)
      /\ Grown(kept, counted - pendingCut.counted, pendingCut.len, Encoded,
               intrusions - unguarded, 0)
  BY <1>2, GivenUp
<1> HIDE DEF kept
<1>4. Encoded' = Encoded /\ CutFlag' = 0
  BY <1>1, SameEncoded DEF CutFlag, Cutting
<1>5. FileTypeOK'
  BY <1>1, <1>3 DEF FileTypeOK
<1>6. Len(Ours(file')) <= Len(Encoded) + 3
  BY <1>1, <1>3 DEF BatchGivenUp
<1>7. BatchGivenUp'
  BY <1>1, <1>3, <1>4, <1>6 DEF BatchGivenUp
<1>8. Grown(file', counted - pendingCut.counted, pendingCut.len, Encoded,
            intrusions - unguarded, 0)
  BY <1>1, <1>3
<1>9. PendingFile'
  BY <1>1, <1>2, <1>3, <1>4, <1>7, <1>8 DEF PendingFile
<1> QED BY <1>1, <1>2, <1>5, <1>9 DEF SinkInv

LEMMA ReturnKeeps == ASSUME SinkInv, ReturnError PROVE SinkInv'
<1>1. UNCHANGED <<format, file, writer, counted, pendingCut, landed, refused, sinkFaults,
                  intrusions, unguarded>>
      /\ callAt = "failed" /\ callAt' = "idle" /\ callBatch' \in 1..(MaxBatches + 1)
  BY DEF ReturnError
<1>2. FileTypeOK' /\ Encoded' = Encoded /\ CutFlag' = 0
  BY <1>1, SameEncoded, WhereCallsAre DEF FileTypeOK, CutFlag, Cutting
<1>3. CASE ~pendingCut.set
  <2>1. SettledFile'
    BY <1>1, <1>2, <1>3, WhereCallsAre DEF SettledFile, WriterReady
  <2> QED BY <1>1, <1>2, <1>3, <2>1 DEF SinkInv
<1>4. CASE pendingCut.set
  <2>1. pendingCut.planned
    BY <1>1, <1>4, WhereCallsAre
  <2>2. BatchGivenUp'
    BY <1>1, <1>2, <1>4, <2>1, GivenUp DEF BatchGivenUp
  <2>3. PendingFile'
    BY <1>1, <1>2, <1>4, <2>1, <2>2, GivenUp DEF PendingFile
  <2> QED BY <1>1, <1>2, <1>4, <2>3 DEF SinkInv
<1> QED BY <1>3, <1>4

LEMMA FinishKeeps == ASSUME SinkInv, FinishFile PROVE SinkInv'
<1>1. UNCHANGED <<format, counted, pendingCut, landed, callBatch, intrusions, unguarded>>
      /\ callAt = "start" /\ refused = "no" /\ writer' = NoWriter
      /\ file' \in {file, Append(file, Footer)}
      /\ \/ callAt' = "finished" /\ UNCHANGED refused
         \/ callAt' = "failed" /\ refused' = "finish"
  BY DEF FinishFile
<1>2. FileTypeOK /\ ~pendingCut.set /\ SettledFile
  BY <1>1, WhereCallsAre
<1>3. file' \in Seq(AllPieces) /\ Ours(file') = Ours(file) /\ Theirs(file') = Theirs(file)
  BY <1>1, <1>2, FileGrows, PieceFacts, OwnTypes
<1>4. writer' \in [open : BOOLEAN, buffer : Buffers, headed : BOOLEAN, base : Nat]
  BY <1>1, PieceFacts DEF NoWriter
<1>5. FileTypeOK' /\ Encoded' = Encoded
  BY <1>1, <1>2, <1>3, <1>4, SameEncoded DEF FileTypeOK
<1>6. SettledFile'
  BY <1>1, <1>2, <1>3, <1>5 DEF SettledFile
<1> QED BY <1>1, <1>2, <1>5, <1>6 DEF SinkInv

LEMMA IntrudeKeeps == ASSUME SinkInv, IntrudeFile PROVE SinkInv'
<1>1. UNCHANGED <<format, writer, counted, pendingCut, landed, refused, callAt, callBatch,
                  sinkFaults>>
      /\ intrusions' = intrusions + 1 /\ file' = Append(file, Intruder)
      /\ unguarded' = IF Unguarded THEN unguarded + 1 ELSE unguarded
  BY DEF IntrudeFile
<1>2. FileTypeOK /\ intrusions \in Nat /\ unguarded \in Nat
  BY WhereCallsAre DEF FileTypeOK
<1>3. /\ file' \in Seq(AllPieces) /\ Ours(file') = Ours(file)
      /\ Len(Theirs(file')) = Len(Theirs(file)) + 1 /\ Len(Theirs(file)) \in Nat
  BY <1>1, <1>2, FileGrows, PieceFacts, OwnTypes
<1>4. FileTypeOK'
  BY <1>1, <1>2, <1>3 DEF FileTypeOK
<1>5. Encoded' = Encoded /\ Opening' = Opening /\ CutFlag' = CutFlag
  BY <1>1, SameEncoded DEF CutFlag, Cutting
<1>6. CASE ~pendingCut.set
  <2>1. SettledFile
    BY <1>6, WhereCallsAre
  <2>2. ~Unguarded
    BY <1>6, <2>1 DEF Unguarded, CutFlag, Cutting, SettledFile
  <2>3. Len(Theirs(file')) >= intrusions' - unguarded'
    BY <1>1, <1>2, <1>3, <2>1, <2>2 DEF SettledFile
  <2>4. SettledFile'
    BY <1>1, <1>3, <1>5, <2>1, <2>3 DEF SettledFile, WriterReady
  <2> QED BY <1>1, <1>4, <1>6, <2>4 DEF SinkInv
<1>7. CASE pendingCut.set
  <2> DEFINE own == counted - pendingCut.counted
             due == intrusions - unguarded
             now == intrusions' - unguarded'
             len == pendingCut.len
  <2>1. PendingFile
    BY <1>7, WhereCallsAre
  <2>2. now = IF CutFlag = 1 \/ Len(file) < len + own THEN due ELSE due + 1
    BY <1>1, <1>2, <1>7 DEF Unguarded, CutFlag
  <2>3. Grown(file, own, len, Encoded, due, CutFlag)
    BY <2>1 DEF PendingFile
  <2>4. file \in Seq(AllPieces) /\ Encoded \in Buffers /\ due \in Int /\ CutFlag \in {0, 1}
    BY <1>2, OwnTypes
  <2> HIDE DEF own, due, now, len
  <2>5. Grown(file', own, len, Encoded, now, CutFlag)
    BY <1>1, <2>2, <2>3, <2>4, GrownByOthers
  <2>6. pendingCut.planned => BatchGivenUp'
    BY <1>1, <1>3, <1>5, <2>1 DEF PendingFile, BatchGivenUp
  <2>7. ~pendingCut.planned => BatchInFlight'
    BY <1>1, <1>3, <1>5, <2>1 DEF PendingFile, BatchInFlight, WriterReady
  <2>8. PendingFile'
    BY <1>1, <1>5, <2>1, <2>5, <2>6, <2>7 DEF PendingFile, own, now, len
  <2> QED BY <1>1, <1>4, <1>7, <2>8 DEF SinkInv
<1> QED BY <1>6, <1>7

(* Together: every step does.                                              *)
LEMMA SinkInvKept == SinkInv /\ [FileNext]_fileVars => SinkInv'
<1> SUFFICES ASSUME SinkInv, [FileNext]_fileVars PROVE SinkInv'
  OBVIOUS
<1>1. CASE UNCHANGED fileVars
  BY <1>1 DEF fileVars, SinkInv, FileTypeOK, PendingFile, SettledFile, BatchGivenUp,
              BatchInFlight, WriterReady, Opening, Encoded, CutFlag, Cutting
<1> QED BY <1>1, BeginKeeps, RefuseKeeps, StartBatchKeeps, EncodeKeeps, FlushKeeps, SyncKeeps,
           EncodeFailKeeps, DropKeeps, MeasureKeeps, MeasureFailKeeps, CutKeeps, CutFailKeeps,
           ReturnKeeps, FinishKeeps, IntrudeKeeps DEF FileNext

(* FileSink's file holds exactly the batches it returned Ok for, once and  *)
(* whole, for every format and every number of batches, of failing writes, *)
(* flushes, syncs, cuts and reopens, and of appends by others: write_batch *)
(* and recover leave nothing half, nothing twice and, unless the file has  *)
(* somebody else's bytes in it, nothing that failed.                       *)
THEOREM BatchesLandOnceOrNot == FileSpec => []LandsOnceOrNot
<1>1. ASSUME FileInit PROVE SinkInv
  <2>1. ~pendingCut.set /\ pendingCut \in [set : BOOLEAN, len : Nat, counted : Nat,
                                           planned : BOOLEAN, reopen : BOOLEAN]
    BY <1>1, NothingPending DEF FileInit
  <2>2. writer \in [open : BOOLEAN, buffer : Buffers, headed : BOOLEAN, base : Nat]
    BY <1>1, PieceFacts DEF FileInit
  <2>3. FileTypeOK
    BY <1>1, <2>1, <2>2, FileSinkAssumption DEF FileInit, FileTypeOK
  <2>4. Ours(file) = <<>> /\ Theirs(file) = <<>> /\ Encoded = <<>>
    BY <1>1 DEF FileInit, Ours, Theirs, Only, Encoded, FlattenSeq
  <2>5. SettledFile
    BY <1>1, <2>4 DEF FileInit, SettledFile, WriterReady, IsPrefix
  <2> QED BY <2>1, <2>3, <2>5 DEF SinkInv
<1>2. SinkInv => LandsOnceOrNot
  BY DEF SinkInv, SettledFile, LandsOnceOrNot
<1> QED BY <1>1, <1>2, SinkInvKept, PTL DEF FileSpec
=============================================================================
