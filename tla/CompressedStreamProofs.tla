----------------------- MODULE CompressedStreamProofs -----------------------
(***************************************************************************)
(* The gzip and the xz stream lose no byte, report the end where it is,    *)
(* leave the file behind the member, and implement the byte stream that    *)
(* FileReader is modelled with: for any files, sizes of reads, and sizes   *)
(* of the input and of the output buffer.                                  *)
(***************************************************************************)
EXTENDS CompressedStream, SequenceTheorems, WellFoundedInduction, TLAPS

-----------------------------------------------------------------------------
(* Induction over the numbers, for the set of those a formula holds of.    *)
LEMMA Induction ==
  ASSUME NEW T, 0 \in T, \A n \in Nat : n \in T => n + 1 \in T
  PROVE  \A n \in Nat : n \in T
<1> DEFINE U == Nat \ T
<1>1. SUFFICES ASSUME U # {}
               PROVE  FALSE
  OBVIOUS
<1>2. PICK k \in U : \A m \in U : ~(<<m, k>> \in OpToRel(<, Nat))
  BY <1>1, NatLessThanWellFounded, WFMin
<1>3. k \in Nat /\ k \notin T /\ \A m \in U : ~(m < k)
  BY <1>2 DEF OpToRel
<1>4. k # 0 /\ k - 1 \in Nat /\ k - 1 < k
  BY <1>3
<1>5. k - 1 \in T
  BY <1>3, <1>4
<1>6. k - 1 + 1 \in T /\ k - 1 + 1 = k
  BY <1>4, <1>5
<1>7. QED
  BY <1>3, <1>6

(* A set of numbers has a first one.                                       *)
LEMMA FirstOne ==
  ASSUME NEW T, T \subseteq Nat, T # {}
  PROVE  \E x \in T : \A y \in T : x <= y
<1>1. PICK x \in T : \A y \in T : ~(<<y, x>> \in OpToRel(<, Nat))
  BY NatLessThanWellFounded, WFMin
<1>2. x \in Nat /\ \A y \in T : ~(y < x)
  BY <1>1 DEF OpToRel
<1>3. \A y \in T : x <= y
  BY <1>2
<1>4. QED
  BY <1>3

LEMMA MinOfTwo ==
  ASSUME NEW a \in Int, NEW b \in Int
  PROVE  Min({a, b}) = IF a <= b THEN a ELSE b
<1> DEFINE m == IF a <= b THEN a ELSE b
<1>1. m \in {a, b} /\ \A y \in {a, b} : m <= y
  OBVIOUS
<1>2. \A x \in {a, b} : (\A y \in {a, b} : x <= y) => x = m
  OBVIOUS
<1>3. QED
  BY <1>1, <1>2 DEF Min

-----------------------------------------------------------------------------
(***************************************************************************)
(* Slices of a sequence: what lies behind its first i elements, up to the  *)
(* j-th.                                                                   *)
(***************************************************************************)
Slice(s, i, j) == SubSeq(s, i + 1, j)

LEMMA SliceProperties ==
  ASSUME NEW S, NEW s \in Seq(S), NEW i \in Nat, NEW j \in Nat, i <= j, j <= Len(s)
  PROVE  /\ Slice(s, i, j) \in Seq(S)
         /\ Len(Slice(s, i, j)) = j - i
         /\ \A k \in 1 .. j - i : Slice(s, i, j)[k] = s[i + k]
<1>1. \A k \in i + 1 .. j : s[k] \in S
  BY LenProperties, ElementOfSeq
<1>2. /\ SubSeq(s, i + 1, j) \in Seq(S)
      /\ Len(SubSeq(s, i + 1, j)) = IF i + 1 <= j THEN j - (i + 1) + 1 ELSE 0
      /\ \A k \in 1 .. j - (i + 1) + 1 : SubSeq(s, i + 1, j)[k] = s[i + 1 + k - 1]
  BY <1>1, SubSeqProperties
<1>3. QED
  BY <1>2 DEF Slice

LEMMA SliceOfSlice ==
  ASSUME NEW S, NEW s \in Seq(S), NEW i \in Nat, NEW j \in Nat, i <= j, j <= Len(s),
         NEW m \in Nat, NEW n \in Nat, m <= n, n <= j - i
  PROVE  Slice(Slice(s, i, j), m, n) = Slice(s, i + m, i + n)
<1> DEFINE t == Slice(s, i, j)
<1>1. Len(s) \in Nat
  BY LenProperties
<1>2. /\ t \in Seq(S) /\ Len(t) = j - i
      /\ \A k \in 1 .. j - i : t[k] = s[i + k]
  BY SliceProperties
<1> DEFINE p == i + m
           q == i + n
<1>3. /\ t \in Seq(S) /\ n <= Len(t)
      /\ p \in Nat /\ q \in Nat /\ p <= q /\ q <= Len(s) /\ q - p = n - m
  BY <1>1, <1>2
<1> HIDE DEF t, p, q
<1>4. /\ Slice(t, m, n) \in Seq(S) /\ Len(Slice(t, m, n)) = n - m
      /\ \A k \in 1 .. n - m : Slice(t, m, n)[k] = t[m + k]
  BY <1>3, SliceProperties
<1>5. /\ Slice(s, p, q) \in Seq(S) /\ Len(Slice(s, p, q)) = q - p
      /\ \A k \in 1 .. q - p : Slice(s, p, q)[k] = s[p + k]
  BY <1>3, SliceProperties
<1>6. ASSUME NEW k \in 1 .. n - m
      PROVE  Slice(t, m, n)[k] = Slice(s, p, q)[k]
  <2>1. m + k \in 1 .. j - i /\ i + (m + k) = p + k
    BY DEF p
  <2>2. t[m + k] = s[p + k]
    BY <1>2, <2>1
  <2>3. QED
    BY <1>3, <1>4, <1>5, <2>2
<1>7. Slice(t, m, n) = Slice(s, p, q)
  BY <1>3, <1>4, <1>5, <1>6, SeqEqual
<1>8. QED
  BY <1>7 DEF t, p, q

LEMMA SliceConcat ==
  ASSUME NEW S, NEW s \in Seq(S), NEW i \in Nat, NEW j \in Nat, NEW k \in Nat,
         i <= j, j <= k, k <= Len(s)
  PROVE  Slice(s, i, j) \o Slice(s, j, k) = Slice(s, i, k)
<1>1. Len(s) \in Nat
  BY LenProperties
<1>2. /\ i + 1 \in 1 .. Len(s) + 1 /\ j \in (i + 1) - 1 .. Len(s) /\ k \in j .. Len(s)
  BY <1>1
<1>3. QED
  BY <1>2, ConcatAdjacentSubSeq DEF Slice

LEMMA SliceEdges ==
  ASSUME NEW S, NEW s \in Seq(S), NEW i \in Nat
  PROVE  /\ Slice(s, 0, Len(s)) = s
         /\ Slice(s, i, i) = <<>>
<1>1. 0 + 1 = 1
  OBVIOUS
<1>2. Slice(s, 0, Len(s)) = s
  BY <1>1, SubSeqFull DEF Slice
<1>3. i + 1 \in Int /\ i \in Int /\ i < i + 1
  OBVIOUS
<1>4. SubSeq(s, i + 1, i) = <<>>
  BY <1>3, SubSeqEmpty
<1>5. QED
  BY <1>2, <1>4 DEF Slice

-----------------------------------------------------------------------------
(***************************************************************************)
(* FlattenSeq is defined by recursion over the length.  Its table exists,  *)
(* and is the same for a sequence with one more behind it.                 *)
(***************************************************************************)
Flattens(g, s, n) == g = [i \in 1 .. n |-> IF i = 1 THEN s[i] ELSE g[i - 1] \o s[i]]

LEMMA FlattensAt ==
  ASSUME NEW g, NEW s, NEW n \in Nat, Flattens(g, s, n), NEW i \in 1 .. n
  PROVE  g[i] = IF i = 1 THEN s[i] ELSE g[i - 1] \o s[i]
<1> DEFINE f == [k \in 1 .. n |-> IF k = 1 THEN s[k] ELSE g[k - 1] \o s[k]]
<1>1. f[i] = IF i = 1 THEN s[i] ELSE g[i - 1] \o s[i]
  OBVIOUS
<1>2. g = f
  BY DEF Flattens
<1> HIDE DEF f
<1>3. QED
  BY <1>1, <1>2

LEMMA FlattensExists ==
  ASSUME NEW s, NEW len \in Nat
  PROVE  \E g : Flattens(g, s, len)
<1> DEFINE T == {n \in Nat : \E g : Flattens(g, s, n)}
<1>1. 0 \in T
  <2>1. Flattens([i \in 1 .. 0 |-> 0], s, 0)
    BY DEF Flattens
  <2>2. QED
    BY <2>1
<1>2. ASSUME NEW n \in Nat, n \in T
      PROVE  n + 1 \in T
  <2>1. PICK g : Flattens(g, s, n)
    BY <1>2
  <2> DEFINE next == IF n + 1 = 1 THEN s[n + 1] ELSE g[n] \o s[n + 1]
             h == [i \in 1 .. n + 1 |-> IF i <= n THEN g[i] ELSE next]
  <2>2. ASSUME NEW i \in 1 .. n + 1
        PROVE  h[i] = IF i = 1 THEN s[i] ELSE h[i - 1] \o s[i]
    <3>1. \A j \in 1 .. n : h[j] = g[j]
      OBVIOUS
    <3>2. h[n + 1] = next
      OBVIOUS
    <3> HIDE DEF h
    <3>3. CASE i <= n
      <4>1. g[i] = IF i = 1 THEN s[i] ELSE g[i - 1] \o s[i]
        BY <2>1, <3>3, FlattensAt
      <4>2. i # 1 => h[i - 1] = g[i - 1]
        BY <3>1, <3>3
      <4>3. QED
        BY <3>1, <3>3, <4>1, <4>2
    <3>4. CASE ~(i <= n)
      <4>1. i = n + 1 /\ i - 1 = n
        BY <3>4
      <4>2. i # 1 => h[n] = g[n]
        BY <3>1, <4>1
      <4>3. QED
        BY <3>2, <4>1, <4>2
    <3>5. QED
      BY <3>3, <3>4
  <2>3. h = [i \in 1 .. n + 1 |-> h[i]]
    OBVIOUS
  <2> HIDE DEF h
  <2>4. Flattens(h, s, n + 1)
    BY <2>2, <2>3 DEF Flattens
  <2>5. QED
    BY <2>4
<1>3. len \in T
  <2> HIDE DEF T
  <2>1. QED
    BY <1>1, <1>2, Induction
<1>4. QED
  BY <1>3

LEMMA FlattenSeqTable ==
  ASSUME NEW s, Len(s) \in Nat, Len(s) # 0
  PROVE  \E g : Flattens(g, s, Len(s)) /\ FlattenSeq(s) = g[Len(s)]
<1> DEFINE g == CHOOSE f : f = [i \in 1 .. Len(s) |->
                                  IF i = 1 THEN s[i] ELSE f[i - 1] \o s[i]]
<1>1. Flattens(g, s, Len(s))
  BY FlattensExists DEF Flattens
<1>2. FlattenSeq(s) = g[Len(s)]
  BY DEF FlattenSeq
<1>3. QED
  BY <1>1, <1>2

LEMMA FlattensSame ==
  ASSUME NEW s, NEW t, NEW g, NEW h, NEW m \in Nat, NEW n \in Nat,
         Flattens(g, s, m), Flattens(h, t, n), m <= n,
         \A i \in 1 .. m : s[i] = t[i]
  PROVE  \A i \in 1 .. m : g[i] = h[i]
<1> DEFINE T == {k \in Nat : k \in 1 .. m => g[k] = h[k]}
<1>1. 0 \in T
  OBVIOUS
<1>2. ASSUME NEW k \in Nat, k \in T
      PROVE  k + 1 \in T
  <2>1. SUFFICES ASSUME k + 1 \in 1 .. m
                 PROVE  g[k + 1] = h[k + 1]
    OBVIOUS
  <2>2. g[k + 1] = IF k + 1 = 1 THEN s[k + 1] ELSE g[k + 1 - 1] \o s[k + 1]
    BY <2>1, FlattensAt
  <2>3. k + 1 \in 1 .. n
    BY <2>1
  <2>4. h[k + 1] = IF k + 1 = 1 THEN t[k + 1] ELSE h[k + 1 - 1] \o t[k + 1]
    BY <2>3, FlattensAt
  <2>5. k + 1 # 1 => g[k + 1 - 1] = h[k + 1 - 1]
    <3>1. k + 1 - 1 = k /\ (k + 1 # 1 => k \in 1 .. m)
      BY <2>1
    <3>2. QED
      BY <1>2, <3>1
  <2>6. s[k + 1] = t[k + 1]
    BY <2>1
  <2>7. QED
    BY <2>2, <2>4, <2>5, <2>6
<1>3. \A k \in Nat : k \in T
  <2> HIDE DEF T
  <2>1. QED
    BY <1>1, <1>2, Induction
<1>4. QED
  BY <1>3

-----------------------------------------------------------------------------
(***************************************************************************)
(* What a slice of a file decodes to is what its units yield, in turn.     *)
(***************************************************************************)
Outs(units) == [i \in DOMAIN units |-> units[i].out]

LEMMA OutsType ==
  ASSUME NEW units \in Seq(Unit)
  PROVE  /\ Outs(units) \in Seq(Seq(Word))
         /\ Len(Outs(units)) = Len(units)
         /\ \A i \in 1 .. Len(units) : Outs(units)[i] = units[i].out
         /\ Decoded(units) = FlattenSeq(Outs(units))
<1> DEFINE n == Len(units)
<1>1. n \in Nat /\ DOMAIN units = 1 .. n /\ \A i \in 1 .. n : units[i] \in Unit
  BY LenProperties, ElementOfSeq
<1>2. Outs(units) \in [1 .. n -> Seq(Word)] /\ \A i \in 1 .. n : Outs(units)[i] = units[i].out
  BY <1>1 DEF Outs, Unit
<1>3. Decoded(units) = FlattenSeq(Outs(units))
  BY DEF Decoded, Outs
<1> HIDE DEF n
<1>4. Outs(units) \in Seq(Seq(Word))
  BY <1>1, <1>2, SeqDef
<1>5. Len(Outs(units)) \in Nat /\ DOMAIN Outs(units) = 1 .. Len(Outs(units))
  BY <1>4, LenProperties
<1>6. 1 .. Len(Outs(units)) = 1 .. n
  BY <1>2, <1>5
<1>7. Len(Outs(units)) = n
  <2> DEFINE m == Len(Outs(units))
  <2>1. m \in Nat /\ \A x \in Nat : x \in 1 .. m <=> x \in 1 .. n
    BY <1>5, <1>6
  <2> HIDE DEF m
  <2>2. m = 0 \/ m \in 1 .. n
    BY <1>1, <2>1
  <2>3. n = 0 \/ n \in 1 .. m
    BY <1>1, <2>1
  <2>4. m = n
    BY <1>1, <2>1, <2>2, <2>3
  <2>5. QED
    BY <2>4 DEF m
<1>8. QED
  BY <1>2, <1>3, <1>4, <1>7 DEF n

LEMMA DecodedEmpty == Decoded(<<>>) = <<>>
<1>1. <<>> \in Seq(Unit) /\ Len(<<>>) = 0
  BY EmptySeq
<1>2. /\ Outs(<<>>) \in Seq(Seq(Word)) /\ Len(Outs(<<>>)) = 0
      /\ Decoded(<<>>) = FlattenSeq(Outs(<<>>))
  BY <1>1, OutsType
<1>3. Outs(<<>>) = <<>>
  BY <1>2, EmptySeq
<1>4. QED
  BY <1>2, <1>3 DEF FlattenSeq

LEMMA DecodedNext ==
  ASSUME NEW s \in Seq(Unit), NEW i \in Nat, NEW k \in Nat, i <= k, k + 1 <= Len(s)
  PROVE  Decoded(Slice(s, i, k + 1)) = Decoded(Slice(s, i, k)) \o s[k + 1].out
<1> DEFINE a == Slice(s, i, k)
           b == Slice(s, i, k + 1)
           n == k - i
<1>1. Len(s) \in Nat /\ n \in Nat /\ k + 1 \in Nat /\ i <= k + 1 /\ k <= Len(s)
      /\ k + 1 - i = n + 1 /\ i + (n + 1) = k + 1
  BY LenProperties
<1>2. /\ a \in Seq(Unit) /\ Len(a) = n
      /\ \A x \in 1 .. n : a[x] = s[i + x]
  <2>1. k <= Len(s)
    BY <1>1
  <2> HIDE DEF a
  <2>2. a \in Seq(Unit) /\ Len(a) = k - i /\ \A x \in 1 .. k - i : a[x] = s[i + x]
    BY <2>1, SliceProperties DEF a
  <2>3. QED
    BY <2>2
<1>3. /\ b \in Seq(Unit) /\ Len(b) = n + 1
      /\ \A x \in 1 .. n + 1 : b[x] = s[i + x]
  <2> DEFINE j == k + 1
  <2>1. j \in Nat /\ i <= j /\ j <= Len(s) /\ j - i = n + 1
    BY <1>1
  <2> HIDE DEF n, j
  <2>2. /\ Slice(s, i, j) \in Seq(Unit) /\ Len(Slice(s, i, j)) = j - i
        /\ \A x \in 1 .. j - i : Slice(s, i, j)[x] = s[i + x]
    BY <2>1, SliceProperties
  <2>3. QED
    BY <2>1, <2>2 DEF j
<1> HIDE DEF a, b
<1>4. /\ Outs(a) \in Seq(Seq(Word)) /\ Len(Outs(a)) = n
      /\ \A x \in 1 .. n : Outs(a)[x] = a[x].out
      /\ Decoded(a) = FlattenSeq(Outs(a))
  BY <1>2, OutsType
<1>5. /\ Outs(b) \in Seq(Seq(Word)) /\ Len(Outs(b)) = n + 1
      /\ \A x \in 1 .. n + 1 : Outs(b)[x] = b[x].out
      /\ Decoded(b) = FlattenSeq(Outs(b))
  BY <1>3, OutsType
<1>6. \A x \in 1 .. n : Outs(a)[x] = Outs(b)[x]
  <2>1. SUFFICES ASSUME NEW x \in 1 .. n
                 PROVE  Outs(a)[x] = Outs(b)[x]
    OBVIOUS
  <2>2. x \in 1 .. n + 1
    BY <1>1
  <2> HIDE DEF n
  <2>3. QED
    <3>1. Outs(a)[x] = a[x].out /\ a[x] = s[i + x]
      BY <1>2, <1>4
    <3>2. Outs(b)[x] = b[x].out /\ b[x] = s[i + x]
      BY <1>3, <1>5, <2>2
    <3>3. QED
      BY <3>1, <3>2
<1>7. Outs(b)[n + 1] = s[k + 1].out /\ s[k + 1].out \in Seq(Word)
  <2>1. n + 1 \in 1 .. n + 1 /\ k + 1 \in 1 .. Len(s)
    BY <1>1
  <2>2. s[k + 1] \in Unit
    BY <2>1, ElementOfSeq
  <2>3. b[n + 1] = s[k + 1]
    BY <1>1, <1>3, <2>1
  <2>4. QED
    BY <1>5, <2>1, <2>2, <2>3 DEF Unit
<1> HIDE DEF n
<1> DEFINE m == n + 1
<1>8. /\ m \in Nat /\ m # 0 /\ m \in 1 .. m /\ Len(Outs(b)) = m /\ Outs(b)[m] = s[k + 1].out
      /\ n # 0 => m # 1 /\ m - 1 = n /\ n <= m /\ n \in 1 .. n
      /\ n = 0 => m = 1
  BY <1>1, <1>5, <1>7
<1> HIDE DEF m
<1>9. PICK g : Flattens(g, Outs(b), m) /\ FlattenSeq(Outs(b)) = g[m]
  <2>1. \E g : Flattens(g, Outs(b), Len(Outs(b)))
                 /\ FlattenSeq(Outs(b)) = g[Len(Outs(b))]
    BY <1>8, FlattenSeqTable
  <2>2. QED
    BY <1>8, <2>1
<1>10. g[m] = IF m = 1 THEN Outs(b)[m] ELSE g[m - 1] \o Outs(b)[m]
  BY <1>8, <1>9, FlattensAt
<1>11. CASE n = 0
  <2>1. Decoded(a) = <<>>
    BY <1>2, <1>11, EmptySeq, DecodedEmpty
  <2>2. Decoded(b) = s[k + 1].out
    BY <1>5, <1>8, <1>9, <1>10, <1>11
  <2>3. QED
    BY <1>7, <2>1, <2>2, ConcatEmptySeq DEF a, b
<1>12. CASE n # 0
  <2>1. PICK h : Flattens(h, Outs(a), n) /\ FlattenSeq(Outs(a)) = h[n]
    <3>1. \E h : Flattens(h, Outs(a), Len(Outs(a)))
                   /\ FlattenSeq(Outs(a)) = h[Len(Outs(a))]
      BY <1>1, <1>4, <1>12, FlattenSeqTable
    <3>2. QED
      BY <1>4, <3>1
  <2>2. \A x \in 1 .. n : h[x] = g[x]
    BY <1>1, <1>6, <1>8, <1>9, <1>12, <2>1, FlattensSame
  <2>3. QED
    BY <1>4, <1>5, <1>8, <1>9, <1>10, <1>12, <2>1, <2>2 DEF a, b
<1>13. QED
  BY <1>11, <1>12

LEMMA DecodedSlice ==
  ASSUME NEW s \in Seq(Unit), NEW i \in Nat, NEW j \in Nat, i <= j, j <= Len(s)
  PROVE  Decoded(Slice(s, i, j)) \in Seq(Word)
<1> DEFINE T == {n \in Nat : i + n <= Len(s) => Decoded(Slice(s, i, i + n)) \in Seq(Word)}
<1>1. 0 \in T
  <2>1. Slice(s, i, i + 0) = <<>>
    BY SliceEdges
  <2>2. QED
    BY <2>1, DecodedEmpty, EmptySeq
<1>2. ASSUME NEW n \in Nat, n \in T
      PROVE  n + 1 \in T
  <2>1. SUFFICES ASSUME i + (n + 1) <= Len(s)
                 PROVE  Decoded(Slice(s, i, i + (n + 1))) \in Seq(Word)
    OBVIOUS
  <2> DEFINE k == i + n
  <2>2. /\ Len(s) \in Nat /\ k \in Nat /\ i <= k /\ k + 1 <= Len(s) /\ k + 1 = i + (n + 1)
        /\ i + n <= Len(s) /\ k + 1 \in 1 .. Len(s)
    BY <2>1, LenProperties
  <2>3. Decoded(Slice(s, i, k)) \in Seq(Word)
    BY <1>2, <2>2
  <2>4. s[k + 1].out \in Seq(Word)
    <3>1. s[k + 1] \in Unit
      BY <2>2, ElementOfSeq
    <3>2. QED
      BY <3>1 DEF Unit
  <2> HIDE DEF k
  <2>5. Decoded(Slice(s, i, k + 1)) = Decoded(Slice(s, i, k)) \o s[k + 1].out
    BY <2>2, DecodedNext
  <2>6. Decoded(Slice(s, i, k + 1)) \in Seq(Word)
    BY <2>3, <2>4, <2>5, ConcatProperties
  <2>7. QED
    BY <2>2, <2>6
<1>3. j - i \in T
  <2> HIDE DEF T
  <2>1. j - i \in Nat
    OBVIOUS
  <2>2. QED
    BY <1>1, <1>2, <2>1, Induction
<1>4. i + (j - i) = j
  OBVIOUS
<1>5. QED
  BY <1>3, <1>4

(* Nothing is decoded from two slices that is not decoded from both.       *)
LEMMA DecodedConcat ==
  ASSUME NEW s \in Seq(Unit), NEW i \in Nat, NEW j \in Nat, NEW k \in Nat,
         i <= j, j <= k, k <= Len(s)
  PROVE  Decoded(Slice(s, i, j)) \o Decoded(Slice(s, j, k)) = Decoded(Slice(s, i, k))
<1> DEFINE D(m, n) == Decoded(Slice(s, m, n))
           T == {n \in Nat : j + n <= Len(s) => D(i, j) \o D(j, j + n) = D(i, j + n)}
<1>0. Len(s) \in Nat /\ j <= Len(s)
  BY LenProperties
<1>1. 0 \in T
  <2>1. Slice(s, j, j) = <<>> /\ j + 0 = j
    BY SliceEdges
  <2>2. D(i, j) \in Seq(Word)
    BY <1>0, DecodedSlice
  <2>3. D(i, j) \o D(j, j) = D(i, j)
    BY <2>1, <2>2, DecodedEmpty, ConcatEmptySeq
  <2>4. QED
    BY <2>1, <2>3
<1>2. ASSUME NEW n \in Nat, n \in T
      PROVE  n + 1 \in T
  <2>1. SUFFICES ASSUME j + (n + 1) <= Len(s)
                 PROVE  D(i, j) \o D(j, j + (n + 1)) = D(i, j + (n + 1))
    OBVIOUS
  <2> DEFINE m == j + n
             out == s[m + 1].out
  <2>2. /\ m \in Nat /\ i <= m /\ j <= m /\ m <= Len(s) /\ m + 1 <= Len(s)
        /\ m + 1 = j + (n + 1) /\ m + 1 \in 1 .. Len(s)
    BY <1>0, <2>1
  <2>3. D(i, j) \o D(j, m) = D(i, m)
    BY <1>2, <2>2
  <2> HIDE DEF m
  <2>4. /\ D(i, j) \in Seq(Word) /\ D(j, m) \in Seq(Word)
    BY <1>0, <2>2, DecodedSlice
  <2>5. out \in Seq(Word)
    <3>1. s[m + 1] \in Unit
      BY <2>2, ElementOfSeq
    <3>2. QED
      BY <3>1 DEF Unit
  <2>6. D(j, m + 1) = D(j, m) \o out /\ D(i, m + 1) = D(i, m) \o out
    BY <2>2, DecodedNext
  <2> HIDE DEF D, out
  <2>7. D(i, j) \o (D(j, m) \o out) = (D(i, j) \o D(j, m)) \o out
    BY <2>4, <2>5, ConcatAssociative
  <2>8. QED
    BY <2>2, <2>3, <2>6, <2>7
<1>3. k - j \in T
  <2> HIDE DEF T
  <2>1. k - j \in Nat
    OBVIOUS
  <2>2. QED
    BY <1>1, <1>2, <2>1, Induction
<1>4. j + (k - j) = k
  OBVIOUS
<1>5. QED
  BY <1>3, <1>4

LEMMA FromStart ==
  ASSUME NEW s, NEW k
  PROVE  SubSeq(s, 1, k) = Slice(s, 0, k)
<1>1. 0 + 1 = 1
  OBVIOUS
<1>2. QED
  BY <1>1 DEF Slice

-----------------------------------------------------------------------------
(***************************************************************************)
(* How many units a decoder takes: it went past no unit that stops it and  *)
(* past nothing there was no room for, and it went as far as it could.     *)
(***************************************************************************)
LEMMA YieldType ==
  ASSUME NEW units \in Seq(Unit), pending \in Seq(Word), NEW k \in 0 .. Len(units)
  PROVE  /\ Decoded(SubSeq(units, 1, k)) \in Seq(Word)
         /\ Yield(units, k) \in Seq(Word)
         /\ Len(Yield(units, k)) \in Nat
<1>1. Len(units) \in Nat /\ k \in Nat /\ 0 <= k /\ k <= Len(units)
  BY LenProperties
<1>2. Decoded(SubSeq(units, 1, k)) \in Seq(Word)
  BY <1>1, FromStart, DecodedSlice
<1>3. Yield(units, k) \in Seq(Word)
  BY <1>2, ConcatProperties DEF Yield
<1>4. QED
  BY <1>2, <1>3, LenProperties

LEMMA TakenProperties ==
  ASSUME NEW units \in Seq(Unit), pending \in Seq(Word), NEW room \in Nat, NEW stops,
         NEW k \in Taken(units, room, stops)
  PROVE  /\ k \in 0 .. Len(units)
         /\ \A j \in 1 .. k - 1 : units[j].kind \notin stops
         /\ \A j \in 0 .. k - 1 : Len(Yield(units, j)) <= room
         /\ \/ k = Len(units)
            \/ Len(Yield(units, k)) >= room
            \/ k > 0 /\ units[k].kind \in stops
<1> DEFINE Stop(j) == \/ Len(Yield(units, j)) > room
                      \/ j = Len(units)
                      \/ j > 0 /\ units[j].kind \in stops
           IsLast(l) == Stop(l) /\ \A j \in 0 .. l - 1 : ~Stop(j)
           last == CHOOSE l \in 0 .. Len(units) : IsLast(l)
<1>1. Len(units) \in Nat /\ \A j \in 0 .. Len(units) : Len(Yield(units, j)) \in Nat
  BY LenProperties, YieldType
<1>2. Taken(units, room, stops) =
        {last} \cup {j \in 0 .. last : Len(Yield(units, j)) = room}
  BY DEF Taken
<1>3. \E l \in 0 .. Len(units) : IsLast(l)
  <2> DEFINE T == {l \in 0 .. Len(units) : Stop(l)}
  <2>1. Len(units) \in T /\ T \subseteq Nat
    BY <1>1
  <2>2. PICK l \in T : \A j \in T : l <= j
    <3> HIDE DEF T
    <3>1. QED
      BY <2>1, FirstOne
  <2> HIDE DEF Stop
  <2>3. l \in 0 .. Len(units) /\ Stop(l)
    OBVIOUS
  <2>4. \A j \in 0 .. l - 1 : ~Stop(j)
    BY <1>1, <2>2, <2>3
  <2>5. QED
    BY <2>3, <2>4
<1>4. last \in 0 .. Len(units) /\ IsLast(last)
  <2> HIDE DEF IsLast
  <2>1. QED
    BY <1>3
<1> HIDE DEF last
<1>5. k \in 0 .. last /\ (k = last \/ Len(Yield(units, k)) = room)
  BY <1>2, <1>4
<1>6. \A j \in 0 .. k - 1 : ~Stop(j)
  <2> HIDE DEF Stop
  <2>1. QED
    BY <1>1, <1>4, <1>5
<1>7. k \in 0 .. Len(units)
  BY <1>1, <1>4, <1>5
<1>8. \A j \in 1 .. k - 1 : units[j].kind \notin stops
  BY <1>6
<1>9. ASSUME NEW j \in 0 .. k - 1
      PROVE  Len(Yield(units, j)) <= room
  <2>1. Len(Yield(units, j)) \in Nat
    BY <1>1, <1>7
  <2>2. ~(Len(Yield(units, j)) > room)
    BY <1>6
  <2>3. QED
    BY <2>1, <2>2
<1>10. \/ k = Len(units)
       \/ Len(Yield(units, k)) >= room
       \/ k > 0 /\ units[k].kind \in stops
  <2>1. Len(Yield(units, k)) \in Nat
    BY <1>1, <1>7
  <2>2. CASE k = last
    BY <1>4, <2>1, <2>2
  <2>3. CASE Len(Yield(units, k)) = room
    BY <2>3
  <2>4. QED
    BY <1>5, <2>2, <2>3
<1>11. QED
  BY <1>7, <1>8, <1>9, <1>10

-----------------------------------------------------------------------------
(***************************************************************************)
(* The first member, and what is decodable of an xz file, both end with    *)
(* the first unit of certain kinds.                                        *)
(***************************************************************************)
StopsAt(units, stops) == {k \in DOMAIN units : units[k].kind \in stops}

Until(units, stops) ==
  IF StopsAt(units, stops) = {} THEN units
  ELSE SubSeq(units, 1, CHOOSE k \in StopsAt(units, stops) :
                          \A j \in StopsAt(units, stops) : k <= j)

LEMMA UntilAt ==
  ASSUME NEW units \in Seq(Unit), NEW stops, NEW k \in 1 .. Len(units),
         units[k].kind \in stops, \A j \in 1 .. k - 1 : units[j].kind \notin stops
  PROVE  Until(units, stops) = Slice(units, 0, k)
<1> DEFINE T == StopsAt(units, stops)
<1>1. Len(units) \in Nat /\ DOMAIN units = 1 .. Len(units)
  BY LenProperties
<1>2. k \in T /\ T \subseteq 1 .. Len(units)
  BY <1>1 DEF StopsAt
<1>3. \A j \in T : k <= j
  BY <1>1 DEF StopsAt
<1>4. \A x \in T : (\A j \in T : x <= j) => x = k
  <2> HIDE DEF T
  <2>1. QED
    BY <1>1, <1>2, <1>3
<1>5. Until(units, stops) = SubSeq(units, 1, k)
  BY <1>2, <1>3, <1>4 DEF Until
<1>6. QED
  BY <1>5, FromStart

LEMMA UntilNone ==
  ASSUME NEW units \in Seq(Unit), NEW stops,
         \A j \in 1 .. Len(units) : units[j].kind \notin stops
  PROVE  Until(units, stops) = units
<1>1. DOMAIN units = 1 .. Len(units)
  BY LenProperties
<1>2. QED
  BY <1>1 DEF Until, StopsAt

LEMMA FirstStop ==
  ASSUME NEW units \in Seq(Unit), NEW stops
  PROVE  \/ \A j \in 1 .. Len(units) : units[j].kind \notin stops
         \/ \E k \in 1 .. Len(units) : /\ units[k].kind \in stops
                                       /\ \A j \in 1 .. k - 1 : units[j].kind \notin stops
<1> DEFINE T == {k \in 1 .. Len(units) : units[k].kind \in stops}
<1>1. Len(units) \in Nat /\ T \subseteq Nat
  BY LenProperties
<1>2. SUFFICES ASSUME T # {}
               PROVE  \E k \in 1 .. Len(units) :
                        /\ units[k].kind \in stops
                        /\ \A j \in 1 .. k - 1 : units[j].kind \notin stops
  OBVIOUS
<1>3. PICK k \in T : \A j \in T : k <= j
  <2> HIDE DEF T
  <2>1. QED
    BY <1>1, <1>2, FirstOne
<1>4. ASSUME NEW j \in 1 .. k - 1, units[j].kind \in stops
      PROVE  FALSE
  <2>1. j \in 1 .. Len(units) /\ ~(k <= j)
    BY <1>1
  <2>2. QED
    BY <1>3, <1>4, <2>1
<1>5. QED
  BY <1>4

(* Behind units that do not stop it, the rest goes as far as the whole.    *)
LEMMA UntilSplit ==
  ASSUME NEW units \in Seq(Unit), NEW stops, NEW c \in 0 .. Len(units),
         \A j \in 1 .. c : units[j].kind \notin stops
  PROVE  Decoded(Slice(units, 0, c)) \o Decoded(Until(Slice(units, c, Len(units)), stops))
           = Decoded(Until(units, stops))
<1>0. PICK len : len = Len(units)
  OBVIOUS
<1> DEFINE rest == Slice(units, c, len)
<1>1. len \in Nat /\ c \in Nat /\ 0 <= c /\ c <= len /\ len <= Len(units)
  BY <1>0, LenProperties
<1>2. /\ rest \in Seq(Unit) /\ Len(rest) = len - c
      /\ \A j \in 1 .. len - c : rest[j] = units[c + j]
  <2> HIDE DEF rest
  <2>1. QED
    BY <1>1, SliceProperties DEF rest
<1> HIDE DEF rest
<1>3. CASE \A j \in 1 .. len : units[j].kind \notin stops
  <2>1. ASSUME NEW j \in 1 .. Len(rest)
        PROVE  rest[j].kind \notin stops
    <3>1. j \in 1 .. len - c /\ c + j \in 1 .. len
      BY <1>1, <1>2
    <3>2. QED
      BY <1>2, <1>3, <3>1
  <2>2. Until(rest, stops) = rest
    BY <1>2, <2>1, UntilNone
  <2>3. Until(units, stops) = units
    BY <1>0, <1>3, UntilNone
  <2>4. Decoded(Slice(units, 0, c)) \o Decoded(Slice(units, c, len))
          = Decoded(Slice(units, 0, len))
    BY <1>1, DecodedConcat
  <2>5. Slice(units, 0, len) = units
    BY <1>0, SliceEdges
  <2>6. QED
    BY <1>0, <2>2, <2>3, <2>4, <2>5 DEF rest
<1>4. CASE \E k \in 1 .. len : /\ units[k].kind \in stops
                               /\ \A j \in 1 .. k - 1 : units[j].kind \notin stops
  <2>1. PICK k \in 1 .. len : /\ units[k].kind \in stops
                              /\ \A j \in 1 .. k - 1 : units[j].kind \notin stops
    BY <1>4
  <2> DEFINE m == k - c
  <2>2. ~(k <= c)
    BY <1>1, <2>1
  <2>3. /\ k \in Nat /\ k <= len /\ c <= k
        /\ m \in Nat /\ m \in 1 .. len - c /\ 0 <= m /\ m <= len - c
        /\ c + 0 = c /\ c + m = k
    BY <1>1, <2>2
  <2> HIDE DEF m
  <2>4. rest[m].kind \in stops
    BY <1>2, <2>1, <2>3
  <2>5. ASSUME NEW j \in 1 .. m - 1
        PROVE  rest[j].kind \notin stops
    <3>1. j \in 1 .. len - c /\ c + j \in 1 .. k - 1
      BY <1>1, <2>3
    <3>2. QED
      BY <1>2, <2>1, <3>1
  <2>6. Until(rest, stops) = Slice(rest, 0, m)
    BY <1>2, <2>3, <2>4, <2>5, UntilAt
  <2>7. Slice(rest, 0, m) = Slice(units, c, k)
    <3>1. Slice(Slice(units, c, len), 0, m) = Slice(units, c + 0, c + m)
      BY <1>1, <2>3, SliceOfSlice
    <3>2. QED
      BY <2>3, <3>1 DEF rest
  <2>8. Until(units, stops) = Slice(units, 0, k)
    BY <1>0, <2>1, UntilAt
  <2>9. Decoded(Slice(units, 0, c)) \o Decoded(Slice(units, c, k))
          = Decoded(Slice(units, 0, k))
    BY <1>1, <2>3, DecodedConcat
  <2>10. QED
    BY <1>0, <2>6, <2>7, <2>8, <2>9 DEF rest
<1>5. QED
  BY <1>0, <1>3, <1>4, FirstStop

-----------------------------------------------------------------------------
(* What either decoder module makes of the common definitions is the same. *)
LEMMA SameDecoded ==
  ASSUME NEW units
  PROVE  /\ GZip!Decoded(units) = Decoded(units)
         /\ LZMA!Decoded(units) = Decoded(units)
BY DEF GZip!Decoded, LZMA!Decoded, Decoded, GZip!FlattenSeq, LZMA!FlattenSeq, FlattenSeq

LEMMA SameYield ==
  ASSUME NEW units, NEW k
  PROVE  GZip!Yield(units, k) = Yield(units, k) /\ LZMA!Yield(units, k) = Yield(units, k)
BY SameDecoded DEF GZip!Yield, LZMA!Yield, Yield

LEMMA SameTaken ==
  ASSUME NEW units, NEW room, NEW stops
  PROVE  /\ GZip!Taken(units, room, stops) = Taken(units, room, stops)
         /\ LZMA!Taken(units, room, stops) = Taken(units, room, stops)
<1>1. GZip!Taken(units, room, stops) = Taken(units, room, stops)
  BY DEF GZip!Taken, GZip!Yield, GZip!Decoded, GZip!FlattenSeq,
         Taken, Yield, Decoded, FlattenSeq
<1>2. LZMA!Taken(units, room, stops) = Taken(units, room, stops)
  BY DEF LZMA!Taken, LZMA!Yield, LZMA!Decoded, LZMA!FlattenSeq,
         Taken, Yield, Decoded, FlattenSeq
<1>3. QED
  BY <1>1, <1>2

LEMMA SameBlock == GZip!Block = Block /\ LZMA!Block = Block
BY DEF GZip!Block, LZMA!Block, Block, GZip!Min, LZMA!Min, Min

LEMMA FirstMemberIs ==
  ASSUME NEW units \in Seq(Unit)
  PROVE  GZip!FirstMember(units) = Until(units, {"end", "bad"})
<1> DEFINE ends == {k \in DOMAIN units : units[k].kind # "part"}
<1>1. ASSUME NEW k \in DOMAIN units
      PROVE  units[k].kind # "part" <=> units[k].kind \in {"end", "bad"}
  <2>1. units[k] \in Unit
    BY LenProperties, ElementOfSeq
  <2>2. units[k].kind \in {"part", "end", "bad"}
    BY <2>1 DEF Unit
  <2>3. QED
    BY <2>2
<1>2. ends = StopsAt(units, {"end", "bad"})
  BY <1>1 DEF StopsAt
<1>3. GZip!FirstMember(units) =
        IF ends = {} THEN units
        ELSE SubSeq(units, 1, CHOOSE k \in ends : \A j \in ends : k <= j)
  BY DEF GZip!FirstMember
<1> HIDE DEF ends
<1>4. QED
  BY <1>2, <1>3 DEF Until

LEMMA DecodableIs ==
  ASSUME NEW units
  PROVE  LZMA!Decodable(units) = Decoded(Until(units, {"bad"}))
<1>1. {k \in DOMAIN units : units[k].kind = "bad"} = StopsAt(units, {"bad"})
  BY DEF StopsAt
<1>2. QED
  BY <1>1, SameDecoded DEF LZMA!Decodable, Until

-----------------------------------------------------------------------------
(***************************************************************************)
(* The inductive invariant.  Consumed is how many units the decoder has    *)
(* taken of the file, Passed is everything that came of them.              *)
(***************************************************************************)
Consumed == pos - Len(input)

Passed == delivered \o got \o area \o output \o pending

(* The buffers hold one stretch of the file, decoded and undecoded.        *)
Buffered ==
  /\ Consumed \in 0 .. Len(file)
  /\ input = SubSeq(file, Consumed + 1, pos)
  /\ Passed = Decoded(SubSeq(file, 1, Consumed))

(* Where in a read() which buffer is in use.                               *)
Reading ==
  /\ pc = "idle" => got = <<>>
  /\ pc # "idle" => Good /\ wanted \in Sizes
  /\ pc \notin {"idle", "copy"} => area = <<>> /\ Len(got) < wanted
  /\ pc \notin {"decode", "decoded"} => output = <<>>

(***************************************************************************)
(* inflate() has stopped at the first unit that is no part of the data;    *)
(* until then there is something to decode, or the file is at its end, or  *)
(* the output buffer full.                                                 *)
(***************************************************************************)
StoppedAt == [Z_STREAM_END |-> "end", Z_DATA_ERROR |-> "bad"]

Exhausted == error_ = "Z_OK" => Consumed = Len(file)

GZipInv ==
  /\ pc # "fill"
  /\ \A k \in 1 .. Consumed - 1 : file[k].kind = "part"
  /\ IF error_ = "Z_OK"
     THEN Consumed > 0 => file[Consumed].kind = "part"
     ELSE Consumed > 0 /\ file[Consumed].kind = StoppedAt[error_]
  /\ error_ = "Z_STREAM_END" => pending = <<>>
  /\ error_ = "Z_STREAM_END" /\ pc \notin {"decode", "decoded"} => input = <<>>
  /\ pc = "decode" /\ input # <<>> => count # 0
  /\ pc = "decoded" /\ output = <<>> => Exhausted
  /\ flags.eof => Exhausted

(***************************************************************************)
(* lzma_code() was never given a bad unit that it took; it knows whether   *)
(* it has just ended a stream; and it is done only when all of the file is *)
(* decoded and undamaged.                                                  *)
(***************************************************************************)
LZMAInv ==
  /\ pc # "decoded"
  /\ output = <<>>
  /\ \A k \in 1 .. Consumed : file[k].kind # "bad"
  /\ atEnd <=> Consumed > 0 /\ file[Consumed].kind = "end"
  /\ inputDone_ => pos = Len(file)
  /\ pc = "decode" /\ input = <<>> => inputDone_
  /\ outputDone_ => /\ pc \in {"idle", "copy"}
                    /\ Consumed = Len(file) /\ pending = <<>> /\ atEnd

DecoderTypes ==
  /\ codec \in {"gz", "xz"}
  /\ error_ \in {"Z_OK", "Z_STREAM_END", "Z_DATA_ERROR"}
  /\ count \in 0 .. InSize
  /\ inputDone_ \in BOOLEAN /\ outputDone_ \in BOOLEAN
  /\ atEnd \in BOOLEAN /\ stalled \in BOOLEAN

Common == DecodedTypeOK /\ Buffered /\ Reading

IInv ==
  /\ DecoderTypes
  /\ Common
  /\ codec = "gz" => GZipInv
  /\ codec = "xz" => LZMAInv

LEMMA TypeIs == DecoderTypes /\ DecodedTypeOK => TypeOK
<1>1. GZip!DecodedTypeOK <=> DecodedTypeOK
  BY DEF GZip!DecodedTypeOK, DecodedTypeOK, GZip!Unit, Unit, GZip!Word, Word
<1>2. LZMA!DecodedTypeOK <=> DecodedTypeOK
  BY DEF LZMA!DecodedTypeOK, DecodedTypeOK, LZMA!Unit, Unit, LZMA!Word, Word
<1>3. QED
  BY <1>1, <1>2 DEF TypeOK, GZip!TypeOK, LZMA!TypeOK, DecoderTypes

LEMMA BufferTypes ==
  ASSUME DecodedTypeOK
  PROVE  /\ file \in Seq(Unit) /\ Len(file) \in Nat
         /\ pos \in Nat /\ pos <= Len(file)
         /\ input \in Seq(Unit) /\ Len(input) \in Nat
         /\ InSize \in Nat \ {0} /\ OutSize \in Nat \ {0}
<1>1. file \in Seq(Unit) /\ input \in Seq(Unit) /\ pos \in 0 .. Len(file)
  BY DecodedAssumption DEF DecodedTypeOK
<1>2. Len(file) \in Nat /\ Len(input) \in Nat
  BY <1>1, LenProperties
<1>3. QED
  BY <1>1, <1>2, DecodedAssumption

(* A read of the ifstream: it is short only at the end of the file.        *)
LEMMA BlockIs ==
  ASSUME DecodedTypeOK
  PROVE  \E e \in Nat : /\ pos <= e /\ e <= Len(file) /\ e - pos <= InSize
                        /\ Block = Slice(file, pos, e)
                        /\ Block \in Seq(Unit) /\ Len(Block) = e - pos
                        /\ Block = <<>> <=> e = pos
                        /\ e - pos < InSize => e = Len(file)
<1>1. /\ file \in Seq(Unit) /\ Len(file) \in Nat /\ pos \in Nat /\ pos <= Len(file)
      /\ InSize \in Nat \ {0}
  BY BufferTypes
<1>2. PICK e : e = Min({pos + InSize, Len(file)})
  OBVIOUS
<1>3. e = IF pos + InSize <= Len(file) THEN pos + InSize ELSE Len(file)
  BY <1>1, <1>2, MinOfTwo
<1>4. /\ e \in Nat /\ pos <= e /\ e <= Len(file) /\ e - pos <= InSize
      /\ e - pos < InSize => e = Len(file)
  BY <1>1, <1>3
<1>5. Block = Slice(file, pos, e)
  BY <1>2 DEF Block, Slice
<1>6. Slice(file, pos, e) \in Seq(Unit) /\ Len(Slice(file, pos, e)) = e - pos
  BY <1>1, <1>4, SliceProperties
<1>7. Slice(file, pos, e) = <<>> <=> e - pos = 0
  BY <1>6, EmptySeq
<1>8. QED
  BY <1>1, <1>4, <1>5, <1>6, <1>7

(* What is yielded fills the room there is; the rest is kept pending.      *)
LEMMA SplitYield ==
  ASSUME NEW y \in Seq(Word), NEW room \in Nat
  PROVE  LET y1 == SubSeq(y, 1, Min({room, Len(y)}))
             y2 == SubSeq(y, room + 1, Len(y))
         IN /\ y1 \in Seq(Word) /\ y2 \in Seq(Word) /\ y1 \o y2 = y
            /\ Len(y1) = IF room <= Len(y) THEN room ELSE Len(y)
            /\ Len(y) <= room => y2 = <<>>
<1>0. PICK len : len = Len(y)
  OBVIOUS
<1>1. len \in Nat
  BY <1>0, LenProperties
<1>2. Min({room, len}) = IF room <= len THEN room ELSE len
  BY <1>1, MinOfTwo
<1>3. CASE room <= len
  <2>1. Slice(y, 0, room) \in Seq(Word) /\ Len(Slice(y, 0, room)) = room
    <3>1. room <= Len(y) /\ 0 \in Nat /\ 0 <= room /\ room - 0 = room
      BY <1>0, <1>3
    <3>2. Slice(y, 0, room) \in Seq(Word) /\ Len(Slice(y, 0, room)) = room - 0
      BY <3>1, SliceProperties
    <3>3. QED
      BY <3>1, <3>2
  <2>2. Slice(y, room, len) \in Seq(Word)
    <3>1. len <= Len(y)
      BY <1>0, <1>1
    <3>2. QED
      BY <1>1, <1>3, <3>1, SliceProperties
  <2>3. Slice(y, 0, room) \o Slice(y, room, len) = y
    <3>1. len <= Len(y) /\ 0 \in Nat /\ 0 <= room
      BY <1>0, <1>1
    <3>2. Slice(y, 0, room) \o Slice(y, room, len) = Slice(y, 0, len)
      BY <1>1, <1>3, <3>1, SliceConcat
    <3>3. QED
      BY <1>0, <3>2, SliceEdges
  <2>4. len <= room => Slice(y, room, len) = <<>>
    <3>1. len <= room => len = room
      BY <1>1, <1>3
    <3>2. QED
      BY <3>1, SliceEdges
  <2>5. /\ SubSeq(y, 1, Min({room, Len(y)})) = Slice(y, 0, room)
        /\ SubSeq(y, room + 1, Len(y)) = Slice(y, room, len)
    BY <1>0, <1>2, <1>3, FromStart DEF Slice
  <2>6. QED
    BY <1>0, <1>3, <2>1, <2>2, <2>3, <2>4, <2>5
<1>4. CASE ~(room <= len)
  <2>1. SubSeq(y, 1, Min({room, Len(y)})) = y
    <3>1. SubSeq(y, 1, Len(y)) = y
      BY SubSeqFull
    <3>2. QED
      BY <1>0, <1>2, <1>4, <3>1
  <2>2. SubSeq(y, room + 1, Len(y)) = <<>>
    <3>1. room + 1 \in Int /\ len \in Int /\ len < room + 1
      BY <1>1, <1>4
    <3>2. SubSeq(y, room + 1, len) = <<>>
      BY <3>1, SubSeqEmpty
    <3>3. QED
      BY <1>0, <3>2
  <2>3. <<>> \in Seq(Word) /\ y \o <<>> = y
    BY EmptySeq, ConcatEmptySeq
  <2>4. QED
    BY <1>0, <1>4, <2>1, <2>2, <2>3
<1>5. QED
  BY <1>3, <1>4

(***************************************************************************)
(* A decoder that is given a slice of the file and takes k units of it     *)
(* leaves a slice, and yields what it had pending and what they decode to. *)
(***************************************************************************)
LEMMA TakingFromFile ==
  ASSUME file \in Seq(Unit), pending \in Seq(Word),
         NEW c \in Nat, NEW e \in Nat, c <= e, e <= Len(file),
         NEW k \in Nat, k <= e - c
  PROVE  LET given == Slice(file, c, e) IN
         /\ SubSeq(given, k + 1, Len(given)) = Slice(file, c + k, e)
         /\ Slice(file, c + k, e) \in Seq(Unit)
         /\ Len(Slice(file, c + k, e)) = e - (c + k)
         /\ k > 0 => given[k] = file[c + k]
         /\ \A j \in 1 .. k : given[j] = file[c + j]
         /\ Yield(given, k) = pending \o Decoded(Slice(file, c, c + k))
         /\ Decoded(Slice(file, c, c + k)) \in Seq(Word)
         /\ Yield(given, k) \in Seq(Word)
         /\ Decoded(Slice(file, 0, c)) \o Decoded(Slice(file, c, c + k))
              = Decoded(Slice(file, 0, c + k))
<1> DEFINE given == Slice(file, c, e)
<1>0. PICK m : m = c + k
  OBVIOUS
<1>1. /\ m \in Nat /\ c <= m /\ m <= e /\ m <= Len(file) /\ c + (e - c) = e
      /\ e - c \in Nat /\ k <= e - c /\ 0 <= k /\ 0 <= c
  <2>1. Len(file) \in Nat
    BY LenProperties
  <2>2. QED
    BY <1>0, <2>1
<1>2. /\ Len(given) = e - c
      /\ \A j \in 1 .. e - c : given[j] = file[c + j]
  BY SliceProperties
<1>3. SubSeq(given, k + 1, Len(given)) = Slice(file, m, e)
  <2>1. PICK n : n = e - c
    OBVIOUS
  <2>2. Slice(Slice(file, c, e), k, n) = Slice(file, c + k, c + n)
    BY <1>1, <2>1, SliceOfSlice
  <2>3. c + n = e
    BY <1>1, <2>1
  <2>4. Slice(Slice(file, c, e), k, n) = Slice(file, m, e)
    BY <1>0, <2>2, <2>3
  <2>5. QED
    BY <1>2, <2>1, <2>4 DEF Slice
<1>4. Slice(file, m, e) \in Seq(Unit) /\ Len(Slice(file, m, e)) = e - m
  BY <1>1, SliceProperties
<1>5. \A j \in 1 .. k : given[j] = file[c + j]
  BY <1>1, <1>2
<1>6. SubSeq(given, 1, k) = Slice(file, c, m)
  <2>1. 0 \in Nat /\ c + 0 = c
    OBVIOUS
  <2>2. Slice(Slice(file, c, e), 0, k) = Slice(file, c + 0, c + k)
    BY <1>1, <2>1, SliceOfSlice
  <2>3. QED
    BY <1>0, <2>1, <2>2, FromStart
<1>7. Decoded(Slice(file, c, m)) \in Seq(Word)
  BY <1>1, DecodedSlice
<1>8. Yield(given, k) = pending \o Decoded(Slice(file, c, m))
  BY <1>6 DEF Yield
<1>9. Yield(given, k) \in Seq(Word)
  BY <1>7, <1>8, ConcatProperties
<1>10. Decoded(Slice(file, 0, c)) \o Decoded(Slice(file, c, m)) = Decoded(Slice(file, 0, m))
  BY <1>1, DecodedConcat
<1> HIDE DEF given
<1>11. k > 0 => given[k] = file[c + k]
  BY <1>5
<1>12. QED
  BY <1>0, <1>3, <1>4, <1>5, <1>7, <1>8, <1>9, <1>10, <1>11 DEF given

LEMMA PassedType ==
  ASSUME DecodedTypeOK
  PROVE  /\ {delivered, got, area, output, pending} \subseteq Seq(Word)
         /\ delivered \o got \in Seq(Word)
         /\ delivered \o got \o area \in Seq(Word)
         /\ delivered \o got \o area \o output \in Seq(Word)
         /\ Len(got) \in Nat /\ Len(area) \in Nat /\ Len(output) \in Nat
         /\ Len(pending) \in Nat
<1>1. {delivered, got, area, output, pending} \subseteq Seq(Word)
  BY DEF DecodedTypeOK
<1>2. delivered \o got \in Seq(Word)
  BY <1>1, ConcatProperties
<1>3. delivered \o got \o area \in Seq(Word)
  BY <1>1, <1>2, ConcatProperties
<1>4. delivered \o got \o area \o output \in Seq(Word)
  BY <1>1, <1>3, ConcatProperties
<1>5. Len(got) \in Nat /\ Len(area) \in Nat /\ Len(output) \in Nat /\ Len(pending) \in Nat
  BY <1>1, LenProperties
<1>6. QED
  BY <1>1, <1>2, <1>3, <1>4, <1>5

LEMMA InitIInv == Init => IInv
<1> SUFFICES ASSUME Init
             PROVE  IInv
  OBVIOUS
<1>1. /\ DecodedInit /\ codec \in {"gz", "xz"} /\ error_ = "Z_OK" /\ count = 0
      /\ inputDone_ = FALSE /\ outputDone_ = FALSE /\ atEnd = FALSE /\ stalled = FALSE
  BY DEF Init, GZip!Init, GZip!DecodedInit, LZMA!Init, DecodedInit
<1>2. /\ <<>> \in Seq(Word) /\ <<>> \in Seq(Unit) /\ Len(<<>>) = 0
      /\ <<>> \o <<>> = <<>>
  BY EmptySeq, ConcatEmptySeq
<1>3. file \in Seq(Unit) /\ Len(file) \in Nat /\ InSize \in Nat /\ OutSize \in Nat
  BY <1>1, DecodedAssumption, LenProperties DEF DecodedInit
<1>4. DecodedTypeOK
  <2>1. Len(<<>>) <= InSize /\ Len(<<>>) <= OutSize /\ Len(<<>>) <= 0
    BY <1>2, <1>3
  <2>2. 0 \in 0 .. Len(file) /\ 0 \in 0 .. Len(<<>>)
    BY <1>2, <1>3
  <2>3. QED
    BY <1>1, <1>2, <2>1, <2>2 DEF DecodedInit, DecodedTypeOK
<1>5. DecoderTypes
  <2>1. count \in 0 .. InSize
    BY <1>1, <1>3
  <2>2. QED
    BY <1>1, <2>1 DEF DecoderTypes
<1>6. Consumed = 0
  <2>1. pos = 0 /\ Len(input) = 0
    BY <1>1, <1>2 DEF DecodedInit
  <2>2. QED
    BY <2>1 DEF Consumed
<1>7. Buffered
  <2>1. SubSeq(file, 1, 0) = <<>>
    BY SubSeqEmpty
  <2>2. Passed = <<>> /\ pos = 0 /\ input = <<>>
    BY <1>1, <1>2 DEF DecodedInit, Passed
  <2>3. 0 + 1 = 1
    OBVIOUS
  <2>4. QED
    <3>1. Consumed \in 0 .. Len(file)
      BY <1>3, <1>6
    <3>2. input = SubSeq(file, Consumed + 1, pos)
      BY <1>6, <2>1, <2>2, <2>3
    <3>3. Passed = Decoded(SubSeq(file, 1, Consumed))
      BY <1>6, <2>1, <2>2, DecodedEmpty
    <3>4. QED
      BY <3>1, <3>2, <3>3 DEF Buffered
<1>8. Reading
  BY <1>1 DEF DecodedInit, Reading
<1>9. GZipInv
  BY <1>1, <1>6 DEF DecodedInit, GZipInv, Exhausted
<1>10. LZMAInv
  BY <1>1, <1>6 DEF DecodedInit, LZMAInv
<1>11. QED
  BY <1>4, <1>5, <1>7, <1>8, <1>9, <1>10 DEF IInv, Common

(* What either decoder does with a slice of the file that begins where it  *)
(* has got to.                                                             *)
LEMMA BufferedSlices ==
  ASSUME DecodedTypeOK, Buffered
  PROVE  /\ Consumed \in Nat /\ Consumed <= pos /\ Consumed <= Len(file)
         /\ Len(input) = pos - Consumed
         /\ input = Slice(file, Consumed, pos)
         /\ Passed = Decoded(Slice(file, 0, Consumed))
         /\ input = <<>> <=> Consumed = pos
<1>1. /\ Len(file) \in Nat /\ pos \in Nat /\ input \in Seq(Unit) /\ Len(input) \in Nat
  BY BufferTypes
<1>2. /\ Consumed \in Nat /\ Consumed <= pos /\ Consumed <= Len(file)
      /\ Len(input) = pos - Consumed
  BY <1>1 DEF Buffered, Consumed
<1>3. input = Slice(file, Consumed, pos)
  BY DEF Buffered, Slice
<1>4. Passed = Decoded(Slice(file, 0, Consumed))
  BY FromStart DEF Buffered
<1>5. input = <<>> <=> Len(input) = 0
  BY <1>1, EmptySeq
<1>6. QED
  BY <1>1, <1>2, <1>3, <1>4, <1>5

(* The other way round, behind a step.                                     *)
LEMMA SlicesBuffered ==
  ASSUME NEW units \in Seq(Unit), NEW c \in Nat, NEW e \in Nat, c <= e, e <= Len(units)
  PROVE  /\ Len(Slice(units, c, e)) = e - c
         /\ c \in 0 .. Len(units)
         /\ Slice(units, c, e) = SubSeq(units, c + 1, e)
         /\ Slice(units, 0, c) = SubSeq(units, 1, c)
<1>1. Len(Slice(units, c, e)) = e - c /\ Len(units) \in Nat
  BY SliceProperties, LenProperties
<1>2. SubSeq(units, 1, c) = Slice(units, 0, c)
  BY FromStart
<1>3. QED
  BY <1>1, <1>2 DEF Slice

-----------------------------------------------------------------------------
(* Steps that leave the decoder alone.                                     *)
LEMMA EndsPassed ==
  ASSUME DecodedTypeOK, NEW n, NEW f, Ends(n, f)
  PROVE  delivered' \o got' = delivered \o got /\ delivered' \in Seq(Word)
<1>1. delivered \o got \in Seq(Word)
  BY PassedType
<1>2. (delivered \o got) \o <<>> = delivered \o got
  BY <1>1, ConcatEmptySeq
<1>3. QED
  BY <1>1, <1>2 DEF Ends

Served ==
  \/ \E n \in Sizes : CallRead(n) \/ CallReadFails(n)
  \/ Copy
  \/ ReadReturns

LEMMA CopyTypes ==
  ASSUME DecodedTypeOK, Copy
  PROVE  /\ got' \in Seq(Word) /\ Len(got') <= wanted
         /\ area' \in Seq(Word) /\ Len(area') <= OutSize
         /\ delivered' \o got' \o area' = delivered \o got \o area
<1> DEFINE m == Min({Len(area), wanted - Len(got)})
           a1 == SubSeq(area, 1, m)
           a2 == SubSeq(area, m + 1, Len(area))
<1>1. /\ {delivered, got, area} \subseteq Seq(Word) /\ delivered \o got \in Seq(Word)
      /\ Len(got) \in Nat /\ Len(area) \in Nat
  BY PassedType
<1>2. wanted \in Nat /\ Len(got) <= wanted /\ Len(area) <= OutSize /\ OutSize \in Nat
  BY DecodedAssumption DEF DecodedTypeOK
<1>3. m = IF Len(area) <= wanted - Len(got) THEN Len(area) ELSE wanted - Len(got)
  BY <1>1, <1>2, MinOfTwo
<1>4. m \in Nat /\ 0 <= m /\ m <= Len(area) /\ Len(got) + m <= wanted
  BY <1>1, <1>2, <1>3
<1>5. got' = got \o a1 /\ area' = a2 /\ delivered' = delivered
  BY DEF Copy
<1> HIDE DEF m
<1>6. a1 = Slice(area, 0, m) /\ a2 = Slice(area, m, Len(area))
  BY FromStart DEF Slice
<1>7. PICK len : len = Len(area)
  OBVIOUS
<1>8. /\ Slice(area, 0, m) \in Seq(Word) /\ Len(Slice(area, 0, m)) = m
      /\ Slice(area, m, len) \in Seq(Word) /\ Len(Slice(area, m, len)) = len - m
      /\ Slice(area, 0, m) \o Slice(area, m, len) = area
  <2>1. len \in Nat /\ len <= Len(area) /\ m <= len /\ 0 \in Nat /\ m - 0 = m
    BY <1>1, <1>4, <1>7
  <2>2. Slice(area, 0, m) \in Seq(Word) /\ Len(Slice(area, 0, m)) = m - 0
    BY <1>1, <1>4, <2>1, SliceProperties
  <2>3. Slice(area, m, len) \in Seq(Word) /\ Len(Slice(area, m, len)) = len - m
    BY <1>1, <1>4, <2>1, SliceProperties
  <2>4. Slice(area, 0, m) \o Slice(area, m, len) = Slice(area, 0, len)
    BY <1>1, <1>4, <2>1, SliceConcat
  <2>5. Slice(area, 0, len) = area
    BY <1>1, <1>7, SliceEdges
  <2>6. QED
    BY <2>1, <2>2, <2>3, <2>4, <2>5
<1> HIDE DEF a1, a2
<1>9. /\ a1 \in Seq(Word) /\ Len(a1) = m /\ a2 \in Seq(Word) /\ Len(a2) = len - m
      /\ a1 \o a2 = area
  BY <1>6, <1>7, <1>8
<1>10. got' \in Seq(Word) /\ Len(got') = Len(got) + m
  BY <1>1, <1>5, <1>9, ConcatProperties
<1>11. delivered \o (got \o a1) \o a2 = delivered \o got \o (a1 \o a2)
  <2>1. /\ delivered \in Seq(Word) /\ got \in Seq(Word) /\ delivered \o got \in Seq(Word)
        /\ a1 \in Seq(Word) /\ a2 \in Seq(Word)
    BY <1>1, <1>9
  <2>2. delivered \o (got \o a1) = delivered \o got \o a1
    BY <2>1, ConcatAssociative
  <2>3. (delivered \o got) \o a1 \o a2 = (delivered \o got) \o (a1 \o a2)
    BY <2>1, ConcatAssociative
  <2>4. QED
    BY <2>2, <2>3
<1>12. QED
  BY <1>1, <1>2, <1>4, <1>5, <1>7, <1>9, <1>10, <1>11

LEMMA ServedStep ==
  ASSUME Common, Served
  PROVE  /\ Common'
         /\ UNCHANGED <<file, pos, input, pending, output, Consumed, Passed>>
         /\ pc \in {"idle", "copy"} /\ pc' \in {"idle", "copy"}
         /\ flags'.eof = flags.eof
<1>1. DecodedTypeOK /\ Buffered /\ Reading
  BY DEF Common
<1>2. UNCHANGED <<file, pos, input, pending, output>>
  BY DEF Served, CallRead, CallReadFails, Copy, ReadReturns
<1>3. Consumed' = Consumed
  BY <1>2 DEF Consumed
<1>4. /\ <<>> \in Seq(Word) /\ Len(<<>>) = 0
  BY EmptySeq
<1>5. ASSUME NEW n \in Sizes, CallRead(n)
      PROVE  DecodedTypeOK' /\ Reading' /\ Passed' = Passed /\ pc = "idle" /\ pc' = "copy"
             /\ flags' = flags
  <2>1. n \in Nat /\ Len(<<>>) <= n
    BY <1>4, DecodedAssumption
  <2>2. DecodedTypeOK'
    BY <1>1, <1>4, <1>5, <2>1 DEF DecodedTypeOK, CallRead
  <2>3. Reading'
    BY <1>1, <1>5 DEF Reading, CallRead, Good
  <2>4. got' = got
    BY <1>1, <1>5 DEF Reading, CallRead
  <2>5. QED
    BY <1>5, <2>2, <2>3, <2>4 DEF CallRead, Passed
<1>6. ASSUME NEW n \in Sizes, CallReadFails(n)
      PROVE  DecodedTypeOK' /\ Reading' /\ Passed' = Passed /\ pc = "idle" /\ pc' = "idle"
             /\ flags'.eof = flags.eof
  <2>1. n \in Nat /\ Len(<<>>) <= n /\ 0 \in 0 .. Len(<<>>)
    BY <1>4, DecodedAssumption
  <2>2. flags' \in [eof : BOOLEAN, fail : BOOLEAN, bad : BOOLEAN] /\ flags'.eof = flags.eof
    BY <1>1, <1>6 DEF DecodedTypeOK, CallReadFails
  <2>3. result'.words = <<>> /\ result'.count = 0
    BY <1>6 DEF CallReadFails
  <2>4. DecodedTypeOK'
    BY <1>1, <1>4, <1>6, <2>1, <2>2, <2>3 DEF DecodedTypeOK, CallReadFails
  <2>5. Reading' /\ got' = got
    BY <1>1, <1>6 DEF Reading, CallReadFails
  <2>6. QED
    BY <1>6, <2>2, <2>4, <2>5 DEF CallReadFails, Passed
<1>7. ASSUME Copy
      PROVE  DecodedTypeOK' /\ Reading' /\ Passed' = Passed /\ pc = "copy" /\ pc' = "copy"
             /\ flags' = flags
  <2>1. /\ got' \in Seq(Word) /\ Len(got') <= wanted
        /\ area' \in Seq(Word) /\ Len(area') <= OutSize
        /\ delivered' \o got' \o area' = delivered \o got \o area
    BY <1>1, <1>7, CopyTypes
  <2>2. DecodedTypeOK'
    BY <1>1, <1>7, <2>1 DEF DecodedTypeOK, Copy
  <2>3. Reading'
    BY <1>1, <1>7 DEF Reading, Copy, Good
  <2>4. QED
    BY <1>2, <1>7, <2>1, <2>2, <2>3 DEF Copy, Passed
<1>8. ASSUME ReadReturns
      PROVE  DecodedTypeOK' /\ Reading' /\ Passed' = Passed /\ pc = "copy" /\ pc' = "idle"
             /\ flags' = flags
  <2>1. delivered' \o got' = delivered \o got /\ delivered' \in Seq(Word)
    BY <1>1, <1>8, EndsPassed DEF ReadReturns
  <2>2. /\ got \in Seq(Word) /\ wanted \in Nat /\ Len(got) = wanted
        /\ wanted \in 0 .. Len(got) /\ Len(<<>>) <= wanted
    BY <1>1, <1>4, <1>8, DecodedAssumption DEF DecodedTypeOK, ReadReturns
  <2>3. result'.words = got /\ result'.count = wanted /\ got' = <<>> /\ pc' = "idle"
        /\ flags' = flags /\ wanted' = wanted
    BY <1>8 DEF ReadReturns, Ends
  <2>4. DecodedTypeOK'
    BY <1>1, <1>4, <1>8, <2>1, <2>2, <2>3 DEF DecodedTypeOK, ReadReturns
  <2>5. Reading'
    BY <1>1, <1>2, <1>8, <2>3 DEF Reading, ReadReturns
  <2>6. area' = area
    BY <1>8 DEF ReadReturns
  <2>7. QED
    BY <1>2, <1>8, <2>1, <2>3, <2>4, <2>5, <2>6 DEF Passed, ReadReturns
<1>9. /\ DecodedTypeOK' /\ Reading' /\ Passed' = Passed
      /\ pc \in {"idle", "copy"} /\ pc' \in {"idle", "copy"} /\ flags'.eof = flags.eof
  BY <1>5, <1>6, <1>7, <1>8 DEF Served
<1>10. Buffered'
  BY <1>1, <1>2, <1>3, <1>9 DEF Buffered
<1>11. QED
  BY <1>2, <1>3, <1>9, <1>10 DEF Common

-----------------------------------------------------------------------------
(***************************************************************************)
(* The gzip stream.                                                        *)
(***************************************************************************)
LEMMA ServedGZip ==
  ASSUME Common, Served, GZipInv, UNCHANGED zlibVars
  PROVE  GZipInv'
<1>1. /\ UNCHANGED <<file, pos, input, pending, output, Consumed>>
      /\ pc \in {"idle", "copy"} /\ pc' \in {"idle", "copy"} /\ flags'.eof = flags.eof
  BY ServedStep
<1>2. UNCHANGED <<error_, count>>
  BY DEF zlibVars
<1>3. Exhausted' = Exhausted
  BY <1>1, <1>2 DEF Exhausted
<1>4. QED
  BY <1>1, <1>2, <1>3 DEF GZipInv

LEMMA UnderflowGZip ==
  ASSUME Common, GZipInv, count \in 0 .. InSize, GZip!Underflow
  PROVE  Common' /\ GZipInv' /\ count' \in 0 .. InSize /\ UNCHANGED error_
<1>1. /\ pc = "copy" /\ area = <<>> /\ Len(got) < wanted
      /\ output' = <<>> /\ count' = Len(input) /\ pc' = "decode"
      /\ UNCHANGED <<file, pos, input, pending, area>>
      /\ UNCHANGED <<wanted, got, flags, delivered, result>> /\ UNCHANGED error_
  BY DEF GZip!Underflow, GZip!NeedsMore, GZip!ioVars
<1>2. DecodedTypeOK /\ Buffered /\ Reading
  BY DEF Common
<1>3. output = <<>>
  BY <1>1, <1>2 DEF Reading
<1>4. DecodedTypeOK'
  BY <1>1, <1>2, <1>3 DEF DecodedTypeOK
<1>5. UNCHANGED <<Consumed, Passed>>
  BY <1>1, <1>3 DEF Consumed, Passed
<1>6. Buffered'
  BY <1>1, <1>2, <1>5 DEF Buffered
<1>7. Reading'
  BY <1>1, <1>2 DEF Reading, Good
<1>8. Len(input) \in 0 .. InSize /\ (input # <<>> => Len(input) # 0)
  BY <1>2, BufferTypes, EmptySeq DEF DecodedTypeOK
<1>9. Exhausted' = Exhausted
  BY <1>1, <1>5 DEF Exhausted
<1>10. GZipInv'
  BY <1>1, <1>5, <1>8, <1>9 DEF GZipInv
<1>11. QED
  BY <1>1, <1>4, <1>6, <1>7, <1>8, <1>10 DEF Common

(* What unzipFromStream() has for inflate(): what is left of the input, or *)
(* the next block of the file.                                             *)
LEMMA FeedIs ==
  ASSUME Common, GZipInv, count \in 0 .. InSize, pc = "decode", GZip!Iterate
  PROVE  \E e \in Nat :
           /\ Consumed <= e /\ e <= Len(file) /\ e - Consumed <= InSize /\ pos' = e
           /\ GZip!FillInputBuffer = Slice(file, Consumed, e)
           /\ GZip!FillInputBuffer = <<>> <=> e = Consumed
           /\ count' \in 0 .. InSize
           /\ e # Consumed => count' # 0
           /\ e = Consumed => input = <<>> /\ count' = 0 /\ e = Len(file)
<1>1. DecodedTypeOK /\ Buffered
  BY DEF Common
<1>2. /\ Consumed \in Nat /\ Consumed <= pos /\ Consumed <= Len(file)
      /\ Len(input) = pos - Consumed
      /\ input = Slice(file, Consumed, pos)
      /\ input = <<>> <=> Consumed = pos
  BY <1>1, BufferedSlices
<1>3. /\ pos \in Nat /\ pos <= Len(file) /\ Len(input) <= InSize /\ InSize \in Nat
      /\ Len(file) \in Nat
  BY <1>1, BufferTypes DEF DecodedTypeOK
<1>4. CASE input = <<>>
  <2>1. PICK e \in Nat : /\ pos <= e /\ e <= Len(file) /\ e - pos <= InSize
                         /\ Block = Slice(file, pos, e)
                         /\ Block \in Seq(Unit) /\ Len(Block) = e - pos
                         /\ Block = <<>> <=> e = pos
                         /\ e - pos < InSize => e = Len(file)
    BY <1>1, BlockIs
  <2>2. GZip!FillInputBuffer = Block
    BY <1>4, SameBlock DEF GZip!FillInputBuffer
  <2>3. pos' = pos + Len(Block) /\ count' = Len(Block)
    BY <1>4, <2>2 DEF GZip!Iterate
  <2>4. Consumed = pos /\ pos' = e /\ count' = e - pos
    BY <1>2, <1>3, <1>4, <2>1, <2>3
  <2>5. InSize # 0
    BY DecodedAssumption
  <2>6. count' \in 0 .. InSize /\ (e # pos => count' # 0)
    BY <1>3, <2>1, <2>4
  <2>7. e = pos => count' = 0 /\ e = Len(file)
    BY <1>3, <2>1, <2>4, <2>5
  <2>8. QED
    BY <1>4, <2>1, <2>2, <2>4, <2>6, <2>7
<1>5. CASE input # <<>>
  <2>1. GZip!FillInputBuffer = input
    BY <1>5 DEF GZip!FillInputBuffer
  <2>2. pos' = pos /\ count' = count
    BY <1>5 DEF GZip!Iterate
  <2>3. count # 0 /\ Consumed # pos
    BY <1>2, <1>5 DEF GZipInv
  <2>4. QED
    BY <1>2, <1>3, <1>5, <2>1, <2>2, <2>3
<1>6. QED
  BY <1>4, <1>5

(***************************************************************************)
(* What inflate() leaves behind: it has got to unit m of the file, decoded *)
(* what lies before, and stopped there only if it had to.                  *)
(***************************************************************************)
StoppedRight(m, error) ==
  /\ \A j \in 1 .. m - 1 : file[j].kind = "part"
  /\ IF error = "Z_OK" THEN m > 0 => file[m].kind = "part"
     ELSE m > 0 /\ file[m].kind = StoppedAt[error]

Inflated(m, e) ==
  /\ Consumed <= m /\ m <= e
  /\ input' = Slice(file, m, e)
  /\ output' \in Seq(Word) /\ Len(output') <= OutSize
  /\ pending' \in Seq(Word)
  /\ delivered \o got \o area \o output' \o pending' = Decoded(Slice(file, 0, m))
  /\ error_' \in {"Z_OK", "Z_STREAM_END", "Z_DATA_ERROR"}
  /\ StoppedRight(m, error_')
  /\ error_' = "Z_STREAM_END" => pending' = <<>>

LEMMA InflateStopped ==
  ASSUME Common, GZipInv, error_ \in {"Z_OK", "Z_STREAM_END", "Z_DATA_ERROR"},
         NEW e \in Nat, Consumed <= e, e <= Len(file),
         input' = Slice(file, Consumed, e), UNCHANGED <<pending, output, error_>>
  PROVE  Inflated(Consumed, e)
<1>1. DecodedTypeOK /\ Buffered
  BY DEF Common
<1>2. Passed = Decoded(Slice(file, 0, Consumed)) /\ Consumed \in Nat
  BY <1>1, BufferedSlices
<1>3. /\ output' \in Seq(Word) /\ Len(output') <= OutSize /\ pending' \in Seq(Word)
  BY <1>1 DEF DecodedTypeOK
<1>4. delivered \o got \o area \o output' \o pending' = Decoded(Slice(file, 0, Consumed))
  BY <1>2 DEF Passed
<1>5. StoppedRight(Consumed, error_') /\ (error_' = "Z_STREAM_END" => pending' = <<>>)
  BY DEF GZipInv, StoppedRight
<1>6. QED
  BY <1>2, <1>3, <1>4, <1>5 DEF Inflated

(* An end yields nothing, so there is room for what came before it.        *)
LEMMA EndYieldsNothing ==
  ASSUME DecodedTypeOK, NEW c \in Nat, NEW m \in Nat, c < m, m <= Len(file),
         file[m].kind = "end"
  PROVE  Decoded(Slice(file, c, m)) = Decoded(Slice(file, c, m - 1))
<1>1. file \in Seq(Unit) /\ file \in Files /\ Len(file) \in Nat
  BY BufferTypes DEF DecodedTypeOK
<1>2. PICK n : n = m - 1
  OBVIOUS
<1>3. n \in Nat /\ c <= n /\ n + 1 <= Len(file) /\ n + 1 = m /\ m \in 1 .. Len(file)
  BY <1>1, <1>2
<1>4. DOMAIN file = 1 .. Len(file)
  BY <1>1, LenProperties
<1>5. file[m].out = <<>>
  BY <1>1, <1>3, <1>4, DecodedAssumption
<1>6. Decoded(Slice(file, c, n + 1)) = Decoded(Slice(file, c, n)) \o file[n + 1].out
  BY <1>1, <1>3, DecodedNext
<1>7. Decoded(Slice(file, c, n)) \in Seq(Word) /\ n <= Len(file)
  BY <1>1, <1>3, DecodedSlice
<1>8. Decoded(Slice(file, c, n)) \o <<>> = Decoded(Slice(file, c, n))
  BY <1>7, ConcatEmptySeq
<1>9. QED
  BY <1>2, <1>3, <1>5, <1>6, <1>8

LEMMA InflateRuns ==
  ASSUME Common, GZipInv, error_ = "Z_OK",
         NEW e \in Nat, Consumed <= e, e <= Len(file),
         NEW given, given = Slice(file, Consumed, e), GZip!Inflate(given)
  PROVE  \E m \in Nat : Inflated(m, e)
<1>1. DecodedTypeOK /\ Buffered
  BY DEF Common
<1>2. PICK c : c = Consumed
  OBVIOUS
<1>3. /\ c \in Nat /\ c <= e /\ Passed = Decoded(Slice(file, 0, c))
      /\ file \in Seq(Unit) /\ Len(file) \in Nat
  BY <1>1, <1>2, BufferedSlices, BufferTypes
<1>4. PICK room : room = OutSize - Len(output)
  OBVIOUS
<1>5. /\ OutSize \in Nat /\ Len(output) \in Nat /\ room \in Nat /\ Len(output) + room = OutSize
      /\ output \in Seq(Word) /\ pending \in Seq(Word)
  BY <1>1, <1>4, BufferTypes, PassedType DEF DecodedTypeOK
<1>6. given \in Seq(Unit) /\ Len(given) = e - c
  BY <1>2, <1>3, SliceProperties
<1>61. \E k \in GZip!Taken(given, OutSize - Len(output), {"end", "bad"}) :
         /\ input' = SubSeq(given, k + 1, Len(given))
         /\ output' = output \o SubSeq(GZip!Yield(given, k), 1,
              GZip!Min({OutSize - Len(output), Len(GZip!Yield(given, k))}))
         /\ pending' = SubSeq(GZip!Yield(given, k), OutSize - Len(output) + 1,
                              Len(GZip!Yield(given, k)))
         /\ error_' = IF k = 0 THEN "Z_OK" ELSE GZip!After(given[k])
  BY DEF GZip!Inflate
<1>62. \A S : GZip!Min(S) = Min(S)
  BY DEF GZip!Min, Min
<1>63. PICK k \in Taken(given, room, {"end", "bad"}) :
         /\ input' = SubSeq(given, k + 1, Len(given))
         /\ output' = output \o SubSeq(Yield(given, k), 1, Min({room, Len(Yield(given, k))}))
         /\ pending' = SubSeq(Yield(given, k), room + 1, Len(Yield(given, k)))
         /\ error_' = IF k = 0 THEN "Z_OK" ELSE GZip!After(given[k])
  BY <1>4, <1>61, <1>62, SameTaken, SameYield
<1>64. PICK yield : yield = Yield(given, k)
  OBVIOUS
<1>65. PICK y1 : y1 = SubSeq(yield, 1, Min({room, Len(yield)}))
  OBVIOUS
<1>66. PICK y2 : y2 = SubSeq(yield, room + 1, Len(yield))
  OBVIOUS
<1>7. /\ input' = SubSeq(given, k + 1, Len(given))
      /\ output' = output \o y1
      /\ pending' = y2
      /\ error_' = IF k = 0 THEN "Z_OK" ELSE GZip!After(given[k])
  BY <1>63, <1>64, <1>65, <1>66
<1>8. /\ k \in 0 .. Len(given)
      /\ \A j \in 1 .. k - 1 : given[j].kind \notin {"end", "bad"}
      /\ \A j \in 0 .. k - 1 : Len(Yield(given, j)) <= room
  BY <1>5, <1>6, TakenProperties
<1>9. PICK m : m = c + k
  OBVIOUS
<1>10. /\ k \in Nat /\ k <= e - c /\ m \in Nat /\ c <= m /\ m <= e /\ m <= Len(file)
       /\ k > 0 <=> c < m
  BY <1>3, <1>6, <1>8, <1>9
<1>101. PICK decoded : decoded = Decoded(Slice(file, c, m))
  OBVIOUS
<1>102. /\ file \in Seq(Unit) /\ pending \in Seq(Word) /\ c <= e /\ e <= Len(file)
        /\ k <= e - c /\ given = Slice(file, c, e)
  BY <1>2, <1>3, <1>5, <1>10
<1>11. /\ SubSeq(given, k + 1, Len(given)) = Slice(file, m, e)
       /\ \A j \in 1 .. k : given[j] = file[c + j]
       /\ k > 0 => given[k] = file[m]
       /\ yield = pending \o decoded
       /\ decoded \in Seq(Word)
       /\ yield \in Seq(Word)
       /\ Decoded(Slice(file, 0, c)) \o decoded = Decoded(Slice(file, 0, m))
  <2>1. c \in Nat /\ e \in Nat /\ k \in Nat
    BY <1>3, <1>10
  <2>2. LET held == Slice(file, c, e) IN
        /\ SubSeq(held, k + 1, Len(held)) = Slice(file, c + k, e)
        /\ k > 0 => held[k] = file[c + k]
        /\ \A j \in 1 .. k : held[j] = file[c + j]
        /\ Yield(held, k) = pending \o Decoded(Slice(file, c, c + k))
        /\ Decoded(Slice(file, c, c + k)) \in Seq(Word)
        /\ Yield(held, k) \in Seq(Word)
        /\ Decoded(Slice(file, 0, c)) \o Decoded(Slice(file, c, c + k))
             = Decoded(Slice(file, 0, c + k))
    BY <1>102, <2>1, TakingFromFile
  <2>3. QED
    BY <1>9, <1>64, <1>101, <1>102, <2>2
<1>12. /\ y1 \in Seq(Word) /\ y2 \in Seq(Word) /\ y1 \o y2 = yield
       /\ Len(y1) = IF room <= Len(yield) THEN room ELSE Len(yield)
       /\ Len(yield) <= room => y2 = <<>>
       /\ Len(yield) \in Nat
  <2>1. room \in Nat /\ yield \in Seq(Word)
    BY <1>5, <1>11
  <2>2. QED
    BY <2>1, <1>65, <1>66, SplitYield, LenProperties
<1>13. output' \in Seq(Word) /\ Len(output') <= OutSize /\ pending' \in Seq(Word)
  <2>0. output \in Seq(Word) /\ y1 \in Seq(Word)
    BY <1>5, <1>12
  <2>1. Len(output \o y1) = Len(output) + Len(y1) /\ output \o y1 \in Seq(Word)
    BY <2>0, ConcatProperties
  <2>2. Len(y1) <= room /\ Len(y1) \in Nat
    BY <1>5, <1>12
  <2>3. QED
    BY <1>5, <1>7, <1>12, <2>1, <2>2
<1>14. delivered \o got \o area \o output' \o pending' = Decoded(Slice(file, 0, m))
  <2>1. PICK p : p = delivered \o got \o area
    OBVIOUS
  <2>2. /\ p \in Seq(Word) /\ p \o output \in Seq(Word) /\ Passed = p \o output \o pending
    BY <1>1, <2>1, PassedType DEF Passed
  <2>3. p \o (output \o y1) = (p \o output) \o y1
    <3>1. p \in Seq(Word) /\ output \in Seq(Word) /\ y1 \in Seq(Word)
      BY <1>5, <1>12, <2>2
    <3>2. QED
      BY <3>1, ConcatAssociative
  <2>4. PICK q : q = p \o output
    OBVIOUS
  <2>5. (q \o y1) \o y2 = q \o (y1 \o y2)
    <3>1. q \in Seq(Word) /\ y1 \in Seq(Word) /\ y2 \in Seq(Word)
      BY <1>12, <2>2, <2>4
    <3>2. QED
      BY <3>1, ConcatAssociative
  <2>6. (q \o pending) \o decoded = q \o (pending \o decoded)
    <3>1. q \in Seq(Word) /\ pending \in Seq(Word) /\ decoded \in Seq(Word)
      BY <1>5, <1>11, <2>2, <2>4
    <3>2. QED
      BY <3>1, ConcatAssociative
  <2>7. p \o output' \o pending' = (q \o pending) \o decoded
    BY <1>7, <1>11, <1>12, <2>3, <2>4, <2>5, <2>6
  <2>8. q \o pending = Passed
    BY <2>2, <2>4
  <2>9. QED
    BY <1>3, <1>11, <2>1, <2>7, <2>8
<1>15. \A j \in 1 .. c : file[j].kind = "part"
  <2>1. \A j \in 1 .. c - 1 : file[j].kind = "part"
    BY <1>2 DEF GZipInv
  <2>2. c > 0 => file[c].kind = "part"
    BY <1>2 DEF GZipInv
  <2>3. QED
    BY <1>3, <2>1, <2>2
<1>16. \A j \in 1 .. m - 1 : file[j].kind = "part"
  <2>1. SUFFICES ASSUME NEW j \in 1 .. m - 1
                 PROVE  file[j].kind = "part"
    OBVIOUS
  <2>2. CASE j <= c
    BY <1>3, <1>15, <2>2
  <2>3. CASE ~(j <= c)
    <3>1. PICK i : i = j - c
      OBVIOUS
    <3>2. i \in 1 .. k - 1 /\ i \in 1 .. k /\ c + i = j /\ j \in 1 .. Len(file)
      BY <1>3, <1>9, <1>10, <2>3, <3>1
    <3>3. file[j].kind \notin {"end", "bad"}
      BY <1>8, <1>11, <3>2
    <3>4. file[j] \in Unit
      BY <1>3, <3>2, ElementOfSeq
    <3>5. QED
      BY <3>3, <3>4 DEF Unit
  <2>4. QED
    BY <2>2, <2>3
<1>17. /\ error_' \in {"Z_OK", "Z_STREAM_END", "Z_DATA_ERROR"}
       /\ IF error_' = "Z_OK" THEN m > 0 => file[m].kind = "part"
          ELSE c < m /\ file[m].kind = StoppedAt[error_']
  <2>1. CASE k = 0
    <3>1. m = c /\ error_' = "Z_OK"
      BY <1>3, <1>7, <1>9, <2>1
    <3>2. m > 0 => m \in 1 .. c
      BY <1>3, <3>1
    <3>3. QED
      BY <1>15, <3>1, <3>2
  <2>2. CASE k # 0
    <3>1. k > 0 /\ c < m /\ m \in 1 .. Len(file)
      BY <1>3, <1>10, <2>2
    <3>2. file[m] \in Unit
      BY <1>3, <3>1, ElementOfSeq
    <3>3. file[m].kind \in {"part", "end", "bad"}
      BY <3>2 DEF Unit
    <3>4. error_' = GZip!After(file[m])
      BY <1>7, <1>11, <2>2, <3>1
    <3>5. QED
      BY <3>1, <3>3, <3>4 DEF GZip!After, StoppedAt
  <2>3. QED
    BY <2>1, <2>2
<1>18. error_' = "Z_STREAM_END" => pending' = <<>>
  <2>1. SUFFICES ASSUME error_' = "Z_STREAM_END"
                 PROVE  Len(yield) <= room
    BY <1>7, <1>12
  <2>2. c < m /\ file[m].kind = "end"
    BY <1>17, <2>1 DEF StoppedAt
  <2>3. PICK i : i = k - 1
    OBVIOUS
  <2>4. i \in 0 .. k - 1 /\ i \in Nat /\ i <= e - c /\ c + i = m - 1
    BY <1>3, <1>9, <1>10, <2>2, <2>3
  <2>5. Decoded(Slice(file, c, m)) = Decoded(Slice(file, c, m - 1))
    <3>1. c \in Nat /\ m \in Nat /\ m <= Len(file)
      BY <1>3, <1>10
    <3>2. QED
      BY <1>1, <3>1, <2>2, EndYieldsNothing
  <2>6. Yield(given, i) = pending \o Decoded(Slice(file, c, c + i))
    <3>1. c \in Nat /\ e \in Nat /\ i \in Nat /\ i <= e - c
      BY <1>3, <2>4
    <3>2. LET held == Slice(file, c, e) IN
          /\ \A j \in 1 .. i : held[j] = file[c + j]
          /\ Yield(held, i) = pending \o Decoded(Slice(file, c, c + i))
          /\ Decoded(Slice(file, c, c + i)) \in Seq(Word)
          /\ Yield(held, i) \in Seq(Word)
      BY <1>102, <3>1, TakingFromFile
    <3>3. QED
      BY <1>102, <3>2
  <2>7. Yield(given, i) = yield
    BY <1>11, <1>101, <2>4, <2>5, <2>6
  <2>8. Len(Yield(given, i)) <= room
    BY <1>8, <2>4
  <2>9. QED
    BY <2>7, <2>8
<1>19. Inflated(m, e)
  <2>1. Consumed <= m /\ m <= e
    BY <1>2, <1>10
  <2>2. input' = Slice(file, m, e)
    BY <1>7, <1>11
  <2>3. error_' # "Z_OK" => m > 0
    BY <1>3, <1>10, <1>17
  <2>4. StoppedRight(m, error_')
    BY <1>16, <1>17, <2>3 DEF StoppedRight
  <2>5. QED
    BY <1>13, <1>14, <1>17, <1>18, <2>1, <2>2, <2>4 DEF Inflated
<1>20. QED
  BY <1>10, <1>19

LEMMA IterateInflates ==
  ASSUME Common, GZipInv, error_ \in {"Z_OK", "Z_STREAM_END", "Z_DATA_ERROR"},
         NEW e \in Nat, Consumed <= e, e <= Len(file),
         GZip!FillInputBuffer = Slice(file, Consumed, e),
         GZip!FillInputBuffer = <<>> => e = Consumed,
         GZip!FillInputBuffer = <<>> => input = <<>>,
         GZip!Iterate
  PROVE  \E m \in Nat : Inflated(m, e)
<1>1. /\ GZip!FillInputBuffer = <<>> => UNCHANGED <<input, pending, output, error_>>
      /\ GZip!FillInputBuffer # <<>> => GZip!Inflate(GZip!FillInputBuffer)
  BY DEF GZip!Iterate
<1>2. Consumed \in Nat /\ file \in Seq(Unit)
  BY BufferedSlices, BufferTypes DEF Common
<1>3. CASE GZip!FillInputBuffer # <<>> /\ error_ = "Z_OK"
  <2>1. GZip!Inflate(GZip!FillInputBuffer)
    BY <1>1, <1>3
  <2>2. QED
    BY <1>3, <2>1, InflateRuns
<1>4. CASE GZip!FillInputBuffer = <<>> \/ error_ # "Z_OK"
  <2>1. input' = Slice(file, Consumed, e) /\ UNCHANGED <<pending, output, error_>>
    <3>1. CASE GZip!FillInputBuffer = <<>>
      BY <1>1, <3>1
    <3>2. CASE GZip!FillInputBuffer # <<>>
      <4>1. GZip!Inflate(GZip!FillInputBuffer)
        BY <1>1, <3>2
      <4>2. /\ input' = GZip!FillInputBuffer
            /\ UNCHANGED <<pending, output, error_>>
        BY <1>4, <3>2, <4>1 DEF GZip!Inflate
      <4>3. QED
        BY <4>2
    <3>3. QED
      BY <3>1, <3>2
  <2>2. Inflated(Consumed, e)
    BY <2>1, InflateStopped
  <2>3. QED
    BY <1>2, <2>2
<1>5. QED
  BY <1>3, <1>4

LEMMA IterateGZip ==
  ASSUME Common, GZipInv, error_ \in {"Z_OK", "Z_STREAM_END", "Z_DATA_ERROR"},
         count \in 0 .. InSize, GZip!Iterate
  PROVE  /\ Common' /\ GZipInv'
         /\ error_' \in {"Z_OK", "Z_STREAM_END", "Z_DATA_ERROR"}
         /\ count' \in 0 .. InSize
<1>1. /\ pc = "decode" /\ pc' = IF GZip!Again THEN "decode" ELSE "decoded"
      /\ UNCHANGED <<file, area, wanted, got, flags, delivered, result>>
  BY DEF GZip!Iterate, GZip!ioVars
<1>2. DecodedTypeOK /\ Buffered /\ Reading /\ file \in Seq(Unit) /\ Len(file) \in Nat
      /\ InSize \in Nat /\ OutSize \in Nat \ {0} /\ Consumed \in Nat
  BY BufferTypes, BufferedSlices DEF Common
<1>3. PICK e \in Nat :
        /\ Consumed <= e /\ e <= Len(file) /\ e - Consumed <= InSize /\ pos' = e
        /\ GZip!FillInputBuffer = Slice(file, Consumed, e)
        /\ GZip!FillInputBuffer = <<>> <=> e = Consumed
        /\ count' \in 0 .. InSize
        /\ e # Consumed => count' # 0
        /\ e = Consumed => input = <<>> /\ count' = 0 /\ e = Len(file)
  BY <1>1, FeedIs
<1>4. PICK m \in Nat : Inflated(m, e)
  BY <1>3, IterateInflates
<1>5. /\ Consumed <= m /\ m <= e
      /\ input' = Slice(file, m, e)
      /\ output' \in Seq(Word) /\ Len(output') <= OutSize
      /\ pending' \in Seq(Word)
      /\ delivered \o got \o area \o output' \o pending' = Decoded(Slice(file, 0, m))
      /\ error_' \in {"Z_OK", "Z_STREAM_END", "Z_DATA_ERROR"}
      /\ StoppedRight(m, error_')
      /\ error_' = "Z_STREAM_END" => pending' = <<>>
  BY <1>4 DEF Inflated
<1>6. /\ input' \in Seq(Unit) /\ Len(input') = e - m
  <2>1. Slice(file, m, e) \in Seq(Unit) /\ Len(Slice(file, m, e)) = e - m
    <3>1. file \in Seq(Unit) /\ m <= e /\ e <= Len(file)
      BY <1>2, <1>3, <1>5
    <3>2. QED
      BY <3>1, SliceProperties
  <2>2. QED
    BY <1>5, <2>1
<1>7. Consumed' = m
  BY <1>3, <1>6 DEF Consumed
<1>8. Buffered'
  <2>1. Passed' = Decoded(Slice(file, 0, m))
    BY <1>1, <1>5 DEF Passed
  <2>2. /\ m \in 0 .. Len(file)
        /\ input' = SubSeq(file, m + 1, e)
        /\ Passed' = Decoded(SubSeq(file, 1, m))
    <3>1. file \in Seq(Unit) /\ m <= e /\ e <= Len(file) /\ input' = Slice(file, m, e)
      BY <1>2, <1>3, <1>5
    <3>2. /\ m \in 0 .. Len(file)
          /\ Slice(file, m, e) = SubSeq(file, m + 1, e)
          /\ Slice(file, 0, m) = SubSeq(file, 1, m)
      BY <3>1, SlicesBuffered
    <3>3. QED
      BY <3>1, <3>2, <2>1
  <2>3. QED
    BY <1>1, <1>3, <1>7, <2>2 DEF Buffered
<1>9. DecodedTypeOK'
  <2>1. Len(input') <= InSize /\ pos' \in 0 .. Len(file)
    BY <1>2, <1>3, <1>5, <1>6
  <2>2. pc' \in {"idle", "copy", "fill", "decode", "decoded"}
    BY <1>1
  <2>3. QED
    BY <1>1, <1>2, <1>5, <1>6, <2>1, <2>2 DEF DecodedTypeOK
<1>10. Reading'
  BY <1>1, <1>2 DEF Reading, Good
<1>11. pc' = "decode" => count' # 0
  BY <1>1 DEF GZip!Again
<1>12. pc' = "decoded" /\ output' = <<>> => Exhausted'
  <2>1. SUFFICES ASSUME pc' = "decoded", output' = <<>>, error_' = "Z_OK"
                 PROVE  m = Len(file)
    BY <1>1, <1>7 DEF Exhausted
  <2>2. Len(output') < OutSize
    BY <1>2, <2>1, EmptySeq
  <2>3. count' = 0
    BY <1>1, <2>1, <2>2 DEF GZip!Again
  <2>4. QED
    BY <1>2, <1>3, <1>5, <2>3
<1>13. ~flags'.eof
  BY <1>1, <1>2 DEF Reading, Good
<1>14. GZipInv'
  <2>1. /\ \A k \in 1 .. m - 1 : file[k].kind = "part"
        /\ IF error_' = "Z_OK" THEN m > 0 => file[m].kind = "part"
           ELSE m > 0 /\ file[m].kind = StoppedAt[error_']
    BY <1>5 DEF StoppedRight
  <2>2. pc' \in {"decode", "decoded"}
    BY <1>1
  <2>3. StoppedAt' = StoppedAt
    BY DEF StoppedAt
  <2>4. QED
    BY <1>1, <1>5, <1>7, <1>11, <1>12, <1>13, <2>1, <2>2, <2>3 DEF GZipInv
<1>15. QED
  BY <1>3, <1>5, <1>8, <1>9, <1>10, <1>14 DEF Common

(* The refill gives back to the file what it has not used of the input,    *)
(* and hands its output to the reader, or reports the end.                 *)
LEMMA UnderflowReturnsGZip ==
  ASSUME Common, GZipInv, error_ \in {"Z_OK", "Z_STREAM_END", "Z_DATA_ERROR"},
         count \in 0 .. InSize, GZip!UnderflowReturns
  PROVE  Common' /\ GZipInv' /\ UNCHANGED <<error_, count>>
<1>1. /\ pc = "decoded" /\ output' = <<>> /\ UNCHANGED <<file, pending, error_, count>>
      /\ IF error_ = "Z_STREAM_END" THEN input' = <<>> /\ pos' = pos - Len(input)
         ELSE UNCHANGED <<input, pos>>
      /\ IF output = <<>> THEN GZip!EofSeen /\ UNCHANGED area
         ELSE /\ area' = output
              /\ pc' = "copy"
              /\ UNCHANGED <<wanted, got, flags, delivered, result>>
  BY DEF GZip!UnderflowReturns, GZip!GiveBack, GZip!ioVars
<1>2. /\ DecodedTypeOK /\ Buffered /\ Reading /\ file \in Seq(Unit) /\ Len(file) \in Nat
      /\ InSize \in Nat /\ OutSize \in Nat \ {0}
      /\ pos \in Nat /\ pos <= Len(file)
  BY BufferTypes DEF Common
<1>3. /\ Consumed \in Nat /\ Consumed <= pos /\ Consumed <= Len(file)
      /\ Len(input) = pos - Consumed /\ input = Slice(file, Consumed, pos)
      /\ Passed = Decoded(Slice(file, 0, Consumed))
  BY <1>2, BufferedSlices
<1>4. area = <<>> /\ Good /\ Len(got) < wanted /\ wanted \in Sizes
  BY <1>1, <1>2 DEF Reading
<1>5. PICK c : c = Consumed
  OBVIOUS
<1>6. PICK e \in Nat : e = pos' /\ c <= e /\ e <= Len(file) /\ input' = Slice(file, c, e)
  <2>1. CASE error_ = "Z_STREAM_END"
    <3>1. input' = <<>> /\ pos' = c
      BY <1>1, <1>2, <1>3, <1>5, <2>1
    <3>2. Slice(file, c, c) = <<>>
      BY <1>2, <1>3, <1>5, SliceEdges
    <3>3. QED
      BY <1>3, <1>5, <3>1, <3>2
  <2>2. CASE error_ # "Z_STREAM_END"
    BY <1>1, <1>2, <1>3, <1>5, <2>2
  <2>3. QED
    BY <2>1, <2>2
<1>7. input' \in Seq(Unit) /\ Len(input') = e - c /\ Len(input') <= InSize
  <2>1. input' \in Seq(Unit) /\ Len(input') = e - c
    <3>1. file \in Seq(Unit) /\ c \in Nat /\ e \in Nat /\ c <= e /\ e <= Len(file)
      BY <1>2, <1>3, <1>5, <1>6
    <3>2. Slice(file, c, e) \in Seq(Unit) /\ Len(Slice(file, c, e)) = e - c
      BY <3>1, SliceProperties
    <3>3. QED
      BY <1>6, <3>2
  <2>2. Len(input) <= InSize /\ Len(<<>>) = 0
    BY <1>2, EmptySeq DEF DecodedTypeOK
  <2>3. Len(input') <= InSize
    BY <1>1, <1>2, <2>2
  <2>4. QED
    BY <2>1, <2>3
<1>8. Consumed' = c
  BY <1>3, <1>5, <1>6, <1>7 DEF Consumed
<1>9. /\ delivered' \o got' \o area' \o output' \o pending' = Passed
      /\ area' \in Seq(Word) /\ Len(area') <= OutSize
      /\ got' \in Seq(Word) /\ Len(got') <= wanted' /\ wanted' = wanted
      /\ delivered' \in Seq(Word) /\ result'.words \in Seq(Word)
      /\ result'.count \in 0 .. Len(result'.words)
      /\ flags' \in [eof : BOOLEAN, fail : BOOLEAN, bad : BOOLEAN]
  <2>1. /\ delivered \in Seq(Word) /\ got \in Seq(Word) /\ output \in Seq(Word)
        /\ pending \in Seq(Word) /\ delivered \o got \in Seq(Word)
        /\ delivered \o got \o output \in Seq(Word)
        /\ Len(got) \in Nat /\ Len(output) <= OutSize /\ Len(got) <= wanted
        /\ result.words \in Seq(Word) /\ result.count \in 0 .. Len(result.words)
        /\ flags \in [eof : BOOLEAN, fail : BOOLEAN, bad : BOOLEAN]
    BY <1>2, PassedType, ConcatProperties DEF DecodedTypeOK
  <2>2. /\ delivered \o got \o <<>> = delivered \o got
        /\ delivered \o got \o output \o <<>> = delivered \o got \o output
        /\ Len(<<>>) = 0 /\ <<>> \in Seq(Word)
    BY <2>1, ConcatEmptySeq, EmptySeq
  <2>3. Passed = delivered \o got \o output \o pending
    BY <1>4, <2>2 DEF Passed
  <2>4. wanted \in Nat
    BY <1>4, DecodedAssumption
  <2>5. CASE output = <<>>
    <3>1. /\ area' = area /\ GZip!EofSeen
      BY <1>1, <2>5
    <3>2. /\ flags' = [flags EXCEPT !.eof = TRUE, !.fail = TRUE]
          /\ delivered' = delivered \o got
          /\ result' = [words |-> got, count |-> Len(got)]
          /\ got' = <<>> /\ wanted' = wanted
      BY <3>1 DEF GZip!EofSeen, GZip!Ends
    <3>3. delivered' \o got' \o area' \o output' \o pending' = delivered \o got \o pending
      <4>1. delivered' \o got' = delivered \o got
        BY <2>2, <3>2
      <4>2. QED
        BY <1>1, <1>4, <2>2, <3>1, <4>1
    <3>4. delivered \o got \o output \o pending = delivered \o got \o pending
      BY <2>2, <2>5
    <3>5. flags' \in [eof : BOOLEAN, fail : BOOLEAN, bad : BOOLEAN]
      BY <2>1, <3>2
    <3>6. /\ result'.words \in Seq(Word) /\ result'.count \in 0 .. Len(result'.words)
      BY <2>1, <3>2
    <3>7. /\ area' \in Seq(Word) /\ Len(area') <= OutSize
          /\ got' \in Seq(Word) /\ Len(got') <= wanted'
      BY <1>2, <1>4, <2>2, <2>4, <3>1, <3>2
    <3>8. delivered' \in Seq(Word) /\ wanted' = wanted
      BY <2>1, <3>2
    <3>9. delivered' \o got' \o area' \o output' \o pending' = Passed
      BY <2>3, <3>3, <3>4
    <3>10. QED
      BY <3>5, <3>6, <3>7, <3>8, <3>9
  <2>6. CASE output # <<>>
    BY <1>1, <2>1, <2>2, <2>3, <2>6
  <2>7. QED
    BY <2>5, <2>6
<1>10. Buffered'
  <2>1. Passed' = Decoded(Slice(file, 0, c))
    BY <1>3, <1>5, <1>9 DEF Passed
  <2>2. /\ c \in 0 .. Len(file)
        /\ input' = SubSeq(file, c + 1, e)
        /\ Passed' = Decoded(SubSeq(file, 1, c))
    <3>1. /\ file \in Seq(Unit) /\ c \in Nat /\ e \in Nat /\ c <= e /\ e <= Len(file)
          /\ input' = Slice(file, c, e)
      BY <1>2, <1>3, <1>5, <1>6
    <3>2. /\ c \in 0 .. Len(file)
          /\ Slice(file, c, e) = SubSeq(file, c + 1, e)
          /\ Slice(file, 0, c) = SubSeq(file, 1, c)
      BY <3>1, SlicesBuffered
    <3>3. QED
      BY <3>1, <3>2, <2>1
  <2>3. QED
    BY <1>1, <1>6, <1>8, <2>2 DEF Buffered
<1>11. pc' \in {"idle", "copy"} /\ (pc' = "idle" => got' = <<>>)
       /\ (pc' # "idle" => output # <<>> /\ UNCHANGED flags)
  BY <1>1 DEF GZip!EofSeen, GZip!Ends
<1>12. DecodedTypeOK'
  <2>1. pos' \in 0 .. Len(file) /\ pending \in Seq(Word) /\ <<>> \in Seq(Word)
        /\ Len(<<>>) <= OutSize /\ wanted \in Sizes \cup {0} /\ file \in Files
    BY <1>2, <1>6, EmptySeq DEF DecodedTypeOK
  <2>2. QED
    BY <1>1, <1>7, <1>9, <1>11, <2>1 DEF DecodedTypeOK
<1>13. Reading'
  BY <1>1, <1>4, <1>9, <1>11 DEF Reading, Good
<1>14. flags'.eof => Exhausted'
  <2>1. SUFFICES ASSUME flags'.eof, error_ = "Z_OK"
                 PROVE  c = Len(file)
    BY <1>1, <1>8 DEF Exhausted
  <2>2. output = <<>>
    BY <1>1, <1>4, <2>1 DEF Good
  <2>3. QED
    BY <1>1, <1>5, <2>1, <2>2 DEF GZipInv, Exhausted
<1>15. GZipInv'
  <2>1. StoppedAt' = StoppedAt
    BY DEF StoppedAt
  <2>2. error_' = "Z_STREAM_END" => input' = <<>>
    BY <1>1
  <2>3. QED
    BY <1>1, <1>5, <1>8, <1>11, <1>14, <2>1, <2>2 DEF GZipInv
<1>16. QED
  BY <1>1, <1>10, <1>12, <1>13, <1>15 DEF Common

-----------------------------------------------------------------------------
(***************************************************************************)
(* The xz stream.                                                          *)
(***************************************************************************)
LEMMA ServedLZMA ==
  ASSUME Common, Served, LZMAInv, UNCHANGED lzmaVars
  PROVE  LZMAInv'
<1>1. /\ UNCHANGED <<file, pos, input, pending, output, Consumed>>
      /\ pc \in {"idle", "copy"} /\ pc' \in {"idle", "copy"}
  BY ServedStep
<1>2. UNCHANGED <<inputDone_, outputDone_, atEnd, stalled>>
  BY DEF lzmaVars
<1>3. QED
  BY <1>1, <1>2 DEF LZMAInv

LEMMA UnderflowLZMA ==
  ASSUME Common, LZMAInv, LZMA!Underflow
  PROVE  Common' /\ LZMAInv' /\ UNCHANGED lzmaVars
<1>1. /\ pc = "copy" /\ area = <<>> /\ Len(got) < wanted /\ ~outputDone_ /\ pc' = "fill"
      /\ UNCHANGED <<file, pos, input, pending, output, area>>
      /\ UNCHANGED <<wanted, got, flags, delivered, result>>
      /\ UNCHANGED <<inputDone_, outputDone_, atEnd, stalled>>
  BY DEF LZMA!Underflow, LZMA!NeedsMore, LZMA!ioVars, LZMA!lzmaVars
<1>2. DecodedTypeOK /\ Buffered /\ Reading
  BY DEF Common
<1>3. DecodedTypeOK'
  BY <1>1, <1>2 DEF DecodedTypeOK
<1>4. UNCHANGED <<Consumed, Passed>>
  BY <1>1 DEF Consumed, Passed
<1>5. Buffered' /\ Reading'
  BY <1>1, <1>2, <1>4 DEF Buffered, Reading, Good
<1>6. LZMAInv'
  BY <1>1, <1>4 DEF LZMAInv
<1>7. QED
  BY <1>1, <1>3, <1>5, <1>6 DEF Common, lzmaVars

(* The end of a read that changes nothing else.                            *)
LEMMA EndsCommon ==
  ASSUME Common, output = <<>>, NEW n \in 0 .. Len(got),
         NEW f \in [eof : BOOLEAN, fail : BOOLEAN, bad : BOOLEAN], Ends(n, f),
         UNCHANGED <<file, pos, input, pending, output, area>>
  PROVE  Common' /\ UNCHANGED Consumed /\ pc' = "idle"
<1>1. /\ pc' = "idle" /\ flags' = f /\ delivered' = delivered \o got
      /\ result' = [words |-> got, count |-> n] /\ got' = <<>> /\ wanted' = wanted
  BY DEF Ends
<1>2. /\ DecodedTypeOK /\ Buffered /\ Reading
      /\ got \in Seq(Word) /\ delivered \in Seq(Word) /\ Len(got) \in Nat
      /\ wanted \in Nat
  BY PassedType, DecodedAssumption DEF Common, DecodedTypeOK
<1>3. delivered' \o got' = delivered \o got /\ delivered' \in Seq(Word)
  BY <1>2, EndsPassed
<1>4. UNCHANGED <<Consumed, Passed>>
  BY <1>3 DEF Consumed, Passed
<1>5. /\ result'.words \in Seq(Word) /\ result'.count \in 0 .. Len(result'.words)
      /\ got' \in Seq(Word) /\ Len(got') <= wanted'
  BY <1>1, <1>2, EmptySeq
<1>6. DecodedTypeOK'
  BY <1>1, <1>2, <1>3, <1>5 DEF DecodedTypeOK
<1>7. Buffered' /\ Reading'
  BY <1>1, <1>2, <1>4 DEF Buffered, Reading
<1>8. QED
  BY <1>1, <1>4, <1>6, <1>7 DEF Common

LEMMA FlagsType ==
  ASSUME DecodedTypeOK
  PROVE  /\ [flags EXCEPT !.eof = TRUE, !.fail = TRUE]
               \in [eof : BOOLEAN, fail : BOOLEAN, bad : BOOLEAN]
         /\ [flags EXCEPT !.bad = TRUE] \in [eof : BOOLEAN, fail : BOOLEAN, bad : BOOLEAN]
         /\ 0 \in 0 .. Len(got) /\ Len(got) \in 0 .. Len(got)
<1>1. Len(got) \in Nat
  BY PassedType
<1>2. flags \in [eof : BOOLEAN, fail : BOOLEAN, bad : BOOLEAN]
  BY DEF DecodedTypeOK
<1>3. 0 \in 0 .. Len(got) /\ Len(got) \in 0 .. Len(got)
  BY <1>1
<1>4. QED
  BY <1>2, <1>3

LEMMA UnderflowAtEndLZMA ==
  ASSUME Common, LZMAInv, LZMA!UnderflowAtEnd
  PROVE  Common' /\ LZMAInv' /\ UNCHANGED lzmaVars
<1>1. /\ outputDone_ /\ Ends(Len(got), [flags EXCEPT !.eof = TRUE, !.fail = TRUE])
      /\ UNCHANGED <<file, pos, input, pending, output, area>>
      /\ UNCHANGED <<inputDone_, outputDone_, atEnd, stalled>>
  BY DEF LZMA!UnderflowAtEnd, LZMA!EofSeen, LZMA!Ends, LZMA!lzmaVars, Ends
<1>2. output = <<>> /\ DecodedTypeOK
  BY DEF LZMAInv, Common
<1>3. Common' /\ UNCHANGED Consumed /\ pc' = "idle"
  BY <1>1, <1>2, FlagsType, EndsCommon
<1>4. LZMAInv'
  BY <1>1, <1>3 DEF LZMAInv
<1>5. QED
  BY <1>1, <1>3, <1>4 DEF lzmaVars

LEMMA DecodeThrowsLZMA ==
  ASSUME Common, LZMAInv, LZMA!DecodeThrows
  PROVE  Common' /\ LZMAInv' /\ UNCHANGED lzmaVars
<1>1. /\ Ends(0, [flags EXCEPT !.bad = TRUE])
      /\ UNCHANGED <<file, pos, input, pending, output, area>>
      /\ UNCHANGED <<inputDone_, outputDone_, atEnd, stalled>>
  BY DEF LZMA!DecodeThrows, LZMA!Thrown, LZMA!Ends, LZMA!lzmaVars, Ends
<1>2. output = <<>> /\ DecodedTypeOK
  BY DEF LZMAInv, Common
<1>3. Common' /\ UNCHANGED Consumed /\ pc' = "idle"
  BY <1>1, <1>2, FlagsType, EndsCommon
<1>4. LZMAInv'
  BY <1>1, <1>3 DEF LZMAInv
<1>5. QED
  BY <1>1, <1>3, <1>4 DEF lzmaVars

LEMMA NoFillLZMA ==
  ASSUME Common, LZMAInv, LZMA!NoFill
  PROVE  Common' /\ LZMAInv' /\ UNCHANGED lzmaVars
<1>1. /\ pc = "fill" /\ pc' = "decode" /\ (input # <<>> \/ inputDone_)
      /\ UNCHANGED <<file, pos, input, pending, output, area>>
      /\ UNCHANGED <<wanted, got, flags, delivered, result>>
      /\ UNCHANGED <<inputDone_, outputDone_, atEnd, stalled>>
  BY DEF LZMA!NoFill, LZMA!ioVars, LZMA!lzmaVars
<1>2. DecodedTypeOK /\ Buffered /\ Reading
  BY DEF Common
<1>3. DecodedTypeOK'
  BY <1>1, <1>2 DEF DecodedTypeOK
<1>4. UNCHANGED <<Consumed, Passed>>
  BY <1>1 DEF Consumed, Passed
<1>5. Buffered' /\ Reading'
  BY <1>1, <1>2, <1>4 DEF Buffered, Reading, Good
<1>6. LZMAInv'
  BY <1>1, <1>4 DEF LZMAInv
<1>7. QED
  BY <1>1, <1>3, <1>5, <1>6 DEF Common, lzmaVars

LEMMA FillLZMA ==
  ASSUME Common, LZMAInv, LZMA!Fill
  PROVE  Common' /\ LZMAInv' /\ inputDone_' \in BOOLEAN
         /\ UNCHANGED <<outputDone_, atEnd, stalled>>
<1>1. /\ pc = "fill" /\ pc' = "decode" /\ input = <<>>
      /\ input' = Block /\ pos' = pos + Len(Block)
      /\ inputDone_' = (Len(Block) < InSize)
      /\ UNCHANGED <<file, pending, output, area>>
      /\ UNCHANGED <<wanted, got, flags, delivered, result>>
      /\ UNCHANGED <<outputDone_, atEnd, stalled>>
  BY SameBlock DEF LZMA!Fill, LZMA!ShortBlock, LZMA!ioVars
<1>2. /\ DecodedTypeOK /\ Buffered /\ Reading /\ file \in Seq(Unit) /\ Len(file) \in Nat
      /\ InSize \in Nat \ {0} /\ pos \in Nat /\ Consumed = pos
  BY <1>1, BufferTypes, BufferedSlices DEF Common
<1>3. PICK e \in Nat : /\ pos <= e /\ e <= Len(file) /\ e - pos <= InSize
                       /\ Block = Slice(file, pos, e)
                       /\ Block \in Seq(Unit) /\ Len(Block) = e - pos
                       /\ Block = <<>> <=> e = pos
                       /\ e - pos < InSize => e = Len(file)
  BY <1>2, BlockIs
<1>4. pos' = e /\ input' \in Seq(Unit) /\ Len(input') = e - pos
      /\ inputDone_' = (e - pos < InSize)
  BY <1>1, <1>2, <1>3
<1>5. Consumed' = Consumed
  BY <1>2, <1>3, <1>4 DEF Consumed
<1>6. Passed' = Passed
  BY <1>1 DEF Passed
<1>7. input' = SubSeq(file, pos + 1, pos')
  BY <1>1, <1>3, <1>4 DEF Slice
<1>8. Buffered'
  BY <1>1, <1>2, <1>5, <1>6, <1>7 DEF Buffered
<1>9. DecodedTypeOK'
  <2>1. pos' \in 0 .. Len(file) /\ Len(input') <= InSize
    BY <1>2, <1>3, <1>4
  <2>2. QED
    BY <1>1, <1>2, <1>4, <2>1 DEF DecodedTypeOK
<1>10. Reading'
  BY <1>1, <1>2 DEF Reading, Good
<1>11. (inputDone_' => pos' = Len(file')) /\ (input' = <<>> => inputDone_')
  <2>1. inputDone_' <=> e - pos < InSize
    BY <1>4
  <2>2. inputDone_' => pos' = Len(file')
    BY <1>1, <1>3, <1>4, <2>1
  <2>3. input' = <<>> => e - pos < InSize
    <3>1. SUFFICES ASSUME input' = <<>>
                   PROVE  e - pos < InSize
      OBVIOUS
    <3>2. e = pos
      BY <1>1, <1>3, <3>1
    <3>3. QED
      BY <1>2, <3>2
  <2>4. QED
    BY <2>1, <2>2, <2>3
<1>12. LZMAInv'
  BY <1>1, <1>5, <1>11 DEF LZMAInv
<1>13. QED
  BY <1>1, <1>4, <1>8, <1>9, <1>10, <1>12 DEF Common

(* What lzma_code() leaves behind when it took k units.                    *)
LEMMA CodeTakes ==
  ASSUME Common, LZMAInv, pc = "decode", NEW k \in Taken(input, OutSize, {"bad"}),
         LZMA!Code(k)
  PROVE  \E m \in Nat :
           /\ Consumed <= m /\ m <= pos /\ m - Consumed = k
           /\ input' = Slice(file, m, pos)
           /\ k > 0 => input[k] = file[m]
           /\ \A j \in Consumed + 1 .. m - 1 : file[j].kind # "bad"
           /\ area' \in Seq(Word) /\ Len(area') <= OutSize
           /\ pending' \in Seq(Word)
           /\ Len(Yield(input, k)) <= OutSize => pending' = <<>>
           /\ delivered \o got \o area' \o pending' = Decoded(Slice(file, 0, m))
<1>1. /\ DecodedTypeOK /\ Buffered /\ Reading /\ area = <<>> /\ output = <<>>
  BY DEF Common, LZMAInv, Reading
<1>2. PICK c : c = Consumed
  OBVIOUS
<1>3. PICK e : e = pos
  OBVIOUS
<1>4. /\ c \in Nat /\ e \in Nat /\ c <= e /\ e <= Len(file)
      /\ Passed = Decoded(Slice(file, 0, c))
      /\ file \in Seq(Unit) /\ Len(file) \in Nat
      /\ input \in Seq(Unit) /\ Len(input) = e - c /\ input = Slice(file, c, e)
      /\ OutSize \in Nat /\ pending \in Seq(Word)
  BY <1>1, <1>2, <1>3, BufferedSlices, BufferTypes, PassedType
<1>5. PICK yield : yield = Yield(input, k)
  OBVIOUS
<1>6. PICK y1 : y1 = SubSeq(yield, 1, Min({OutSize, Len(yield)}))
  OBVIOUS
<1>7. PICK y2 : y2 = SubSeq(yield, OutSize + 1, Len(yield))
  OBVIOUS
<1>8. input' = SubSeq(input, k + 1, Len(input)) /\ area' = y1 /\ pending' = y2
  <2>1. \A S : LZMA!Min(S) = Min(S)
    BY DEF LZMA!Min, Min
  <2>2. /\ area' = SubSeq(LZMA!Yield(input, k), 1,
                          LZMA!Min({OutSize, Len(LZMA!Yield(input, k))}))
        /\ pending' = SubSeq(LZMA!Yield(input, k), OutSize + 1, Len(LZMA!Yield(input, k)))
        /\ input' = SubSeq(input, k + 1, Len(input))
    BY DEF LZMA!Code
  <2>3. QED
    BY <1>5, <1>6, <1>7, <2>1, <2>2, SameYield
<1>9. /\ k \in 0 .. Len(input)
      /\ \A j \in 1 .. k - 1 : input[j].kind \notin {"bad"}
  BY <1>4, TakenProperties
<1>10. PICK m : m = c + k
  OBVIOUS
<1>11. /\ k \in Nat /\ k <= e - c /\ m \in Nat /\ c <= m /\ m <= e /\ m <= Len(file)
       /\ m - c = k
  BY <1>4, <1>9, <1>10
<1>12. PICK decoded : decoded = Decoded(Slice(file, c, m))
  OBVIOUS
<1>13. LET held == Slice(file, c, e) IN
       /\ SubSeq(held, k + 1, Len(held)) = Slice(file, c + k, e)
       /\ k > 0 => held[k] = file[c + k]
       /\ \A j \in 1 .. k : held[j] = file[c + j]
       /\ Yield(held, k) = pending \o Decoded(Slice(file, c, c + k))
       /\ Decoded(Slice(file, c, c + k)) \in Seq(Word)
       /\ Yield(held, k) \in Seq(Word)
       /\ Decoded(Slice(file, 0, c)) \o Decoded(Slice(file, c, c + k))
            = Decoded(Slice(file, 0, c + k))
  <2>1. /\ file \in Seq(Unit) /\ pending \in Seq(Word) /\ c \in Nat /\ e \in Nat
        /\ c <= e /\ e <= Len(file) /\ k \in Nat /\ k <= e - c
    BY <1>4, <1>11
  <2>2. QED
    BY <2>1, TakingFromFile
<1>14. /\ SubSeq(input, k + 1, Len(input)) = Slice(file, m, e)
       /\ k > 0 => input[k] = file[m]
       /\ \A j \in 1 .. k : input[j] = file[c + j]
       /\ yield = pending \o decoded /\ decoded \in Seq(Word) /\ yield \in Seq(Word)
       /\ Decoded(Slice(file, 0, c)) \o decoded = Decoded(Slice(file, 0, m))
  BY <1>4, <1>5, <1>10, <1>12, <1>13
<1>15. /\ y1 \in Seq(Word) /\ y2 \in Seq(Word) /\ y1 \o y2 = yield
       /\ Len(y1) = IF OutSize <= Len(yield) THEN OutSize ELSE Len(yield)
       /\ Len(yield) <= OutSize => y2 = <<>>
       /\ Len(yield) \in Nat
  <2>1. OutSize \in Nat /\ yield \in Seq(Word)
    BY <1>4, <1>14
  <2>2. QED
    BY <2>1, <1>6, <1>7, SplitYield, LenProperties
<1>16. delivered \o got \o area' \o pending' = Decoded(Slice(file, 0, m))
  <2>1. PICK p : p = delivered \o got
    OBVIOUS
  <2>2. p \in Seq(Word) /\ p \o <<>> = p
    BY <1>1, <2>1, PassedType, ConcatEmptySeq
  <2>3. Passed = p \o pending
    BY <1>1, <2>1, <2>2 DEF Passed
  <2>4. (p \o y1) \o y2 = p \o (y1 \o y2)
    <3>1. p \in Seq(Word) /\ y1 \in Seq(Word) /\ y2 \in Seq(Word)
      BY <1>15, <2>2
    <3>2. QED
      BY <3>1, ConcatAssociative
  <2>5. (p \o pending) \o decoded = p \o (pending \o decoded)
    <3>1. p \in Seq(Word) /\ pending \in Seq(Word) /\ decoded \in Seq(Word)
      BY <1>4, <1>14, <2>2
    <3>2. QED
      BY <3>1, ConcatAssociative
  <2>6. QED
    BY <1>4, <1>8, <1>14, <1>15, <2>1, <2>3, <2>4, <2>5
<1>17. \A j \in c + 1 .. m - 1 : file[j].kind # "bad"
  <2>1. SUFFICES ASSUME NEW j \in c + 1 .. m - 1
                 PROVE  file[j].kind # "bad"
    OBVIOUS
  <2>2. PICK i : i = j - c
    OBVIOUS
  <2>3. i \in 1 .. k - 1 /\ i \in 1 .. k /\ c + i = j
    BY <1>4, <1>10, <1>11, <2>2
  <2>4. QED
    BY <1>9, <1>14, <2>3
<1>18. Len(area') <= OutSize
  BY <1>4, <1>8, <1>15
<1>19. QED
  BY <1>2, <1>3, <1>5, <1>8, <1>11, <1>14, <1>15, <1>16, <1>17, <1>18

LEMMA DecodeLZMA ==
  ASSUME Common, LZMAInv, DecoderTypes, LZMA!Decode
  PROVE  /\ Common' /\ LZMAInv'
         /\ inputDone_' \in BOOLEAN /\ outputDone_' \in BOOLEAN
         /\ atEnd' \in BOOLEAN /\ stalled' \in BOOLEAN
<1>1. PICK k \in Taken(input, OutSize, {"bad"}) :
        /\ ~LZMA!Fails(k)
        /\ LZMA!Code(k)
        /\ outputDone_' = LZMA!NowDone(k)
        /\ IF area' # <<>> THEN pc' = "copy" /\ UNCHANGED <<wanted, got, flags, delivered, result>>
           ELSE IF outputDone_'
                THEN Ends(Len(got), [flags EXCEPT !.eof = TRUE, !.fail = TRUE])
           ELSE pc' = "fill" /\ UNCHANGED <<wanted, got, flags, delivered, result>>
  BY SameTaken DEF LZMA!Decode, LZMA!ioVars, LZMA!EofSeen, LZMA!Ends, Ends
<1>2. pc = "decode" /\ UNCHANGED <<file, pos, output, inputDone_>>
  BY DEF LZMA!Decode
<1>3. PICK m \in Nat :
        /\ Consumed <= m /\ m <= pos /\ m - Consumed = k
        /\ input' = Slice(file, m, pos)
        /\ k > 0 => input[k] = file[m]
        /\ \A j \in Consumed + 1 .. m - 1 : file[j].kind # "bad"
        /\ area' \in Seq(Word) /\ Len(area') <= OutSize
        /\ pending' \in Seq(Word)
        /\ Len(Yield(input, k)) <= OutSize => pending' = <<>>
        /\ delivered \o got \o area' \o pending' = Decoded(Slice(file, 0, m))
  BY <1>1, <1>2, CodeTakes
<1>4. /\ DecodedTypeOK /\ Buffered /\ Reading /\ output = <<>> /\ area = <<>>
      /\ Good /\ wanted \in Sizes /\ wanted \in Nat /\ Len(got) < wanted
      /\ file \in Seq(Unit) /\ Len(file) \in Nat /\ pos \in Nat /\ pos <= Len(file)
      /\ Len(input) = pos - Consumed /\ Consumed \in Nat /\ Len(input) <= InSize
      /\ InSize \in Nat
  BY <1>2, BufferTypes, BufferedSlices, DecodedAssumption
     DEF Common, LZMAInv, Reading, DecodedTypeOK
<1>5. PICK c : c = Consumed
  OBVIOUS
<1>6. c \in Nat /\ c <= m /\ m - c = k /\ k \in Nat /\ m <= Len(file)
  BY <1>3, <1>4, <1>5
<1>7. /\ input' \in Seq(Unit) /\ Len(input') = pos - m
      /\ input' = SubSeq(file, m + 1, pos)
      /\ m \in 0 .. Len(file)
      /\ Slice(file, 0, m) = SubSeq(file, 1, m)
  <2>1. file \in Seq(Unit) /\ m <= pos /\ pos <= Len(file) /\ pos \in Nat
    BY <1>3, <1>4
  <2>2. Slice(file, m, pos) \in Seq(Unit)
    BY <2>1, SliceProperties
  <2>3. /\ Len(Slice(file, m, pos)) = pos - m
        /\ m \in 0 .. Len(file)
        /\ Slice(file, m, pos) = SubSeq(file, m + 1, pos)
        /\ Slice(file, 0, m) = SubSeq(file, 1, m)
    BY <2>1, SlicesBuffered
  <2>4. QED
    BY <1>3, <2>2, <2>3
<1>8. Consumed' = m
  BY <1>2, <1>3, <1>4, <1>7 DEF Consumed
<1>9. /\ pc' \in {"idle", "copy", "fill"}
      /\ pc' = "copy" => area' # <<>> /\ UNCHANGED <<wanted, got, flags, delivered, result>>
      /\ pc' = "fill" => /\ area' = <<>> /\ ~outputDone_'
                         /\ UNCHANGED <<wanted, got, flags, delivered, result>>
      /\ pc' = "idle" => /\ area' = <<>> /\ outputDone_'
                         /\ Ends(Len(got), [flags EXCEPT !.eof = TRUE, !.fail = TRUE])
  BY <1>1 DEF Ends
<1>10. /\ delivered' \o got' = delivered \o got
       /\ delivered' \in Seq(Word) /\ wanted' = wanted
       /\ got' \in Seq(Word) /\ Len(got') <= wanted
       /\ result'.words \in Seq(Word) /\ result'.count \in 0 .. Len(result'.words)
       /\ flags' \in [eof : BOOLEAN, fail : BOOLEAN, bad : BOOLEAN]
       /\ pc' = "idle" => got' = <<>>
  <2>1. CASE pc' # "idle"
    <3>1. UNCHANGED <<wanted, got, flags, delivered, result>>
      BY <1>9, <2>1
    <3>2. QED
      BY <1>4, <2>1, <3>1 DEF DecodedTypeOK
  <2>2. CASE pc' = "idle"
    <3>1. Ends(Len(got), [flags EXCEPT !.eof = TRUE, !.fail = TRUE])
      BY <1>9, <2>2
    <3>2. delivered' \o got' = delivered \o got /\ delivered' \in Seq(Word)
      BY <1>4, <3>1, EndsPassed
    <3>3. /\ flags' = [flags EXCEPT !.eof = TRUE, !.fail = TRUE]
          /\ result' = [words |-> got, count |-> Len(got)] /\ got' = <<>> /\ wanted' = wanted
      BY <3>1 DEF Ends
    <3>4. got \in Seq(Word) /\ Len(got) \in 0 .. Len(got) /\ Len(<<>>) = 0 /\ <<>> \in Seq(Word)
      BY <1>4, PassedType, FlagsType, EmptySeq
    <3>5. flags' \in [eof : BOOLEAN, fail : BOOLEAN, bad : BOOLEAN]
      BY <1>4, <3>3, FlagsType
    <3>6. QED
      BY <1>4, <3>2, <3>3, <3>4, <3>5
  <2>3. QED
    BY <2>1, <2>2
<1>11. Passed' = Decoded(Slice(file, 0, m))
  <2>1. /\ delivered \o got \in Seq(Word)
        /\ delivered \o got \o area' \in Seq(Word)
    <3>1. delivered \o got \in Seq(Word) /\ area' \in Seq(Word)
      BY <1>3, <1>4, PassedType
    <3>2. QED
      BY <3>1, ConcatProperties
  <2>2. delivered \o got \o area' \o <<>> = delivered \o got \o area'
    BY <2>1, ConcatEmptySeq
  <2>3. QED
    BY <1>2, <1>3, <1>4, <1>10, <2>2 DEF Passed
<1>12. Buffered'
  BY <1>2, <1>7, <1>8, <1>11 DEF Buffered
<1>13. DecodedTypeOK'
  <2>1. Len(input') <= InSize
    BY <1>3, <1>4, <1>7
  <2>2. pc' \in {"idle", "copy", "fill", "decode", "decoded"}
    BY <1>9
  <2>3. QED
    BY <1>2, <1>3, <1>4, <1>7, <1>10, <2>1, <2>2 DEF DecodedTypeOK
<1>14. Reading'
  BY <1>2, <1>4, <1>9, <1>10 DEF Reading, Good
<1>15. \A j \in 1 .. m : file[j].kind # "bad"
  <2>1. SUFFICES ASSUME NEW j \in 1 .. m
                 PROVE  file[j].kind # "bad"
    OBVIOUS
  <2>2. CASE j <= c
    BY <1>5, <1>6, <2>2 DEF LZMAInv
  <2>3. CASE c < j /\ j < m
    BY <1>3, <1>5, <1>6, <2>3
  <2>4. CASE c < j /\ j = m
    <3>1. k > 0
      BY <1>6, <2>4
    <3>2. input[k].kind # "bad"
      BY <1>1, <3>1 DEF LZMA!Fails
    <3>3. QED
      BY <1>3, <2>4, <3>1, <3>2
  <2>5. QED
    BY <1>6, <2>2, <2>3, <2>4
<1>16. atEnd' = LZMA!Ended(k) /\ stalled' = LZMA!Idles(k)
  BY <1>1 DEF LZMA!Code
<1>17. /\ atEnd' <=> m > 0 /\ file[m].kind = "end"
       /\ atEnd' \in BOOLEAN
  <2>1. CASE k = 0
    <3>1. m = c
      BY <1>6, <2>1
    <3>2. atEnd' = atEnd
      BY <1>16, <2>1 DEF LZMA!Ended
    <3>3. QED
      BY <1>5, <3>1, <3>2 DEF LZMAInv, DecoderTypes
  <2>2. CASE k # 0
    <3>1. k > 0 /\ m > 0
      BY <1>6, <2>2
    <3>2. atEnd' = (input[k].kind = "end")
      BY <1>16, <2>2 DEF LZMA!Ended
    <3>3. QED
      BY <1>3, <3>1, <3>2
  <2>3. QED
    BY <2>1, <2>2
<1>18. outputDone_' => /\ inputDone_ /\ k = Len(input) /\ LZMA!Ended(k)
                       /\ Len(Yield(input, k)) <= OutSize
  <2>1. ~outputDone_
    BY <1>2 DEF LZMAInv
  <2>2. QED
    BY <1>1, <2>1, SameYield DEF LZMA!NowDone, LZMA!StreamEnd
<1>19. outputDone_' => /\ pc' \in {"idle", "copy"}
                       /\ m = Len(file) /\ pending' = <<>> /\ atEnd'
  <2>1. SUFFICES ASSUME outputDone_'
                 PROVE  /\ pc' \in {"idle", "copy"}
                        /\ m = Len(file) /\ pending' = <<>> /\ atEnd'
    OBVIOUS
  <2>2. pos = Len(file)
    BY <1>18, <2>1 DEF LZMAInv
  <2>3. m = pos
    BY <1>4, <1>5, <1>6, <1>18, <2>1
  <2>4. QED
    BY <1>3, <1>9, <1>16, <1>18, <2>1, <2>2, <2>3
<1>20. outputDone_' \in BOOLEAN /\ stalled' \in BOOLEAN /\ inputDone_' \in BOOLEAN
  BY <1>1, <1>2, <1>16 DEF LZMA!NowDone, LZMA!StreamEnd, LZMA!Idles, DecoderTypes
<1>21. LZMAInv'
  BY <1>2, <1>4, <1>8, <1>9, <1>15, <1>17, <1>19 DEF LZMAInv
<1>22. QED
  BY <1>12, <1>13, <1>14, <1>17, <1>20, <1>21 DEF Common

-----------------------------------------------------------------------------
(***************************************************************************)
(* The invariant holds in every step.                                      *)
(***************************************************************************)
LEMMA GZipCases ==
  ASSUME codec = "gz", Step \/ ReadCalled
  PROVE  \/ Served /\ UNCHANGED zlibVars
         \/ GZip!Underflow
         \/ GZip!Iterate
         \/ GZip!UnderflowReturns
<1>1. CASE ReadCalled
  <2>1. PICK n \in Sizes : GZip!Idle(n)
    BY <1>1 DEF ReadCalled
  <2>2. (CallRead(n) \/ CallReadFails(n)) /\ UNCHANGED zlibVars
    BY <2>1 DEF GZip!Idle, GZip!CallRead, GZip!CallReadFails, CallRead, CallReadFails,
                GZip!Good, Good, GZip!zlibVars, zlibVars
  <2>3. QED
    BY <2>2 DEF Served
<1>2. CASE Step
  <2>1. GZip!Step
    BY <1>2 DEF Step
  <2>2. CASE (GZip!Copy \/ GZip!ReadReturns) /\ UNCHANGED GZip!zlibVars
    <3>1. \A S : GZip!Min(S) = Min(S)
      BY DEF GZip!Min, Min
    <3>2. GZip!Copy => Copy
      BY <3>1 DEF GZip!Copy, Copy
    <3>3. GZip!ReadReturns => ReadReturns
      BY DEF GZip!ReadReturns, ReadReturns, GZip!Ends, Ends
    <3>4. QED
      BY <2>2, <3>2, <3>3 DEF Served, GZip!zlibVars, zlibVars
  <2>3. QED
    BY <2>1, <2>2 DEF GZip!Step
<1>3. QED
  BY <1>1, <1>2

LEMMA GZipSteps ==
  ASSUME IInv, codec = "gz", Step \/ ReadCalled
  PROVE  Common' /\ GZipInv' /\ error_' \in {"Z_OK", "Z_STREAM_END", "Z_DATA_ERROR"}
         /\ count' \in 0 .. InSize /\ UNCHANGED <<codec, inputDone_, outputDone_, atEnd, stalled>>
<1>1. /\ Common /\ GZipInv /\ error_ \in {"Z_OK", "Z_STREAM_END", "Z_DATA_ERROR"}
      /\ count \in 0 .. InSize
  BY DEF IInv, DecoderTypes
<1>2. UNCHANGED <<codec, inputDone_, outputDone_, atEnd, stalled>>
  BY DEF Step, ReadCalled, lzmaVars
<1>3. \/ Served /\ UNCHANGED zlibVars
      \/ GZip!Underflow
      \/ GZip!Iterate
      \/ GZip!UnderflowReturns
  BY GZipCases
<1>4. CASE Served /\ UNCHANGED zlibVars
  <2>1. Common' /\ GZipInv'
    BY <1>1, <1>4, ServedStep, ServedGZip
  <2>2. QED
    BY <1>1, <1>2, <1>4, <2>1 DEF zlibVars
<1>5. CASE GZip!Underflow
  BY <1>1, <1>2, <1>5, UnderflowGZip
<1>6. CASE GZip!Iterate
  BY <1>1, <1>2, <1>6, IterateGZip
<1>7. CASE GZip!UnderflowReturns
  BY <1>1, <1>2, <1>7, UnderflowReturnsGZip
<1>8. QED
  BY <1>3, <1>4, <1>5, <1>6, <1>7

LEMMA LZMACases ==
  ASSUME codec = "xz", Step \/ ReadCalled
  PROVE  \/ Served /\ UNCHANGED lzmaVars
         \/ LZMA!Underflow \/ LZMA!UnderflowAtEnd \/ LZMA!Fill \/ LZMA!NoFill
         \/ LZMA!Decode \/ LZMA!DecodeThrows
<1>1. CASE ReadCalled
  <2>1. PICK n \in Sizes : LZMA!Idle(n)
    BY <1>1 DEF ReadCalled
  <2>2. (CallRead(n) \/ CallReadFails(n)) /\ UNCHANGED lzmaVars
    BY <2>1 DEF LZMA!Idle, LZMA!CallRead, LZMA!CallReadFails, CallRead, CallReadFails,
                LZMA!Good, Good, LZMA!lzmaVars, lzmaVars
  <2>3. QED
    BY <2>2 DEF Served
<1>2. CASE Step
  <2>1. LZMA!Step
    BY <1>2 DEF Step
  <2>2. CASE (LZMA!Copy \/ LZMA!ReadReturns) /\ UNCHANGED LZMA!lzmaVars
    <3>1. \A S : LZMA!Min(S) = Min(S)
      BY DEF LZMA!Min, Min
    <3>2. LZMA!Copy => Copy
      BY <3>1 DEF LZMA!Copy, Copy
    <3>3. LZMA!ReadReturns => ReadReturns
      BY DEF LZMA!ReadReturns, ReadReturns, LZMA!Ends, Ends
    <3>4. QED
      BY <2>2, <3>2, <3>3 DEF Served, LZMA!lzmaVars, lzmaVars
  <2>3. QED
    BY <2>1, <2>2 DEF LZMA!Step
<1>3. QED
  BY <1>1, <1>2

LEMMA LZMASteps ==
  ASSUME IInv, codec = "xz", Step \/ ReadCalled
  PROVE  /\ Common' /\ LZMAInv'
         /\ inputDone_' \in BOOLEAN /\ outputDone_' \in BOOLEAN
         /\ atEnd' \in BOOLEAN /\ stalled' \in BOOLEAN /\ UNCHANGED <<codec, error_, count>>
<1>1. /\ Common /\ LZMAInv /\ DecoderTypes
      /\ inputDone_ \in BOOLEAN /\ outputDone_ \in BOOLEAN
      /\ atEnd \in BOOLEAN /\ stalled \in BOOLEAN
  BY DEF IInv, DecoderTypes
<1>2. UNCHANGED <<codec, error_, count>>
  BY DEF Step, ReadCalled, zlibVars
<1>3. \/ Served /\ UNCHANGED lzmaVars
      \/ LZMA!Underflow \/ LZMA!UnderflowAtEnd \/ LZMA!Fill \/ LZMA!NoFill
      \/ LZMA!Decode \/ LZMA!DecodeThrows
  BY LZMACases
<1>4. ASSUME Common', LZMAInv', UNCHANGED lzmaVars
      PROVE  /\ Common' /\ LZMAInv'
             /\ inputDone_' \in BOOLEAN /\ outputDone_' \in BOOLEAN
             /\ atEnd' \in BOOLEAN /\ stalled' \in BOOLEAN
  BY <1>1, <1>4 DEF lzmaVars
<1>5. CASE Served /\ UNCHANGED lzmaVars
  BY <1>1, <1>2, <1>4, <1>5, ServedStep, ServedLZMA
<1>6. CASE LZMA!Underflow
  BY <1>1, <1>2, <1>4, <1>6, UnderflowLZMA
<1>7. CASE LZMA!UnderflowAtEnd
  BY <1>1, <1>2, <1>4, <1>7, UnderflowAtEndLZMA
<1>8. CASE LZMA!Fill
  BY <1>1, <1>2, <1>8, FillLZMA
<1>9. CASE LZMA!NoFill
  BY <1>1, <1>2, <1>4, <1>9, NoFillLZMA
<1>10. CASE LZMA!Decode
  BY <1>1, <1>2, <1>10, DecodeLZMA
<1>11. CASE LZMA!DecodeThrows
  BY <1>1, <1>2, <1>4, <1>11, DecodeThrowsLZMA
<1>12. QED
  BY <1>3, <1>5, <1>6, <1>7, <1>8, <1>9, <1>10, <1>11

LEMMA StutterIInv == IInv /\ UNCHANGED vars => IInv'
<1>1. SUFFICES ASSUME IInv, UNCHANGED vars
               PROVE  IInv'
  OBVIOUS
<1>2. /\ UNCHANGED <<codec, file, pos, input, pending, output, area, pc>>
      /\ UNCHANGED <<wanted, got, flags, delivered, result>>
      /\ UNCHANGED <<error_, count, inputDone_, outputDone_, atEnd, stalled>>
  BY <1>1 DEF vars, ioVars, zlibVars, lzmaVars
<1>3. UNCHANGED <<Consumed, Passed, Exhausted, StoppedAt>>
  BY <1>2 DEF Consumed, Passed, Exhausted, StoppedAt
<1>4. DecoderTypes'
  BY <1>1, <1>2 DEF IInv, DecoderTypes
<1>5. Common'
  <2>1. DecodedTypeOK'
    BY <1>1, <1>2 DEF IInv, Common, DecodedTypeOK
  <2>2. Buffered' /\ Reading'
    BY <1>1, <1>2, <1>3 DEF IInv, Common, Buffered, Reading, Good
  <2>3. QED
    BY <2>1, <2>2 DEF Common
<1>6. (codec = "gz" => GZipInv') /\ (codec = "xz" => LZMAInv')
  BY <1>1, <1>2, <1>3 DEF IInv, GZipInv, LZMAInv
<1>7. QED
  BY <1>2, <1>4, <1>5, <1>6 DEF IInv

LEMMA NextIInv == IInv /\ [Next]_vars => IInv'
<1>1. SUFFICES ASSUME IInv, Next
               PROVE  IInv'
  BY StutterIInv
<1>2. Step \/ ReadCalled
  BY <1>1 DEF Next
<1>3. CASE codec = "gz"
  BY <1>1, <1>2, <1>3, GZipSteps DEF IInv, DecoderTypes
<1>4. CASE codec = "xz"
  BY <1>1, <1>2, <1>4, LZMASteps DEF IInv, DecoderTypes
<1>5. QED
  BY <1>1, <1>3, <1>4 DEF IInv, DecoderTypes

(***************************************************************************)
(* The decoders' buffers are slices of the file, and what was passed on is *)
(* what was consumed of it, decoded: in every reachable state.             *)
(***************************************************************************)
THEOREM Invariance == Spec => []IInv
<1>1. Init => IInv
  BY InitIInv
<1>2. IInv /\ [Next]_vars => IInv'
  BY NextIInv
<1>3. QED
  BY <1>1, <1>2, PTL DEF Spec

(***************************************************************************)
(* Types: the get area, the output and the input buffer keep their sizes,  *)
(* whatever the two loops do.                                              *)
(***************************************************************************)
THEOREM TypeCorrect == Spec => []TypeOK
<1>1. IInv => TypeOK
  BY TypeIs DEF IInv, Common
<1>2. QED
  BY <1>1, Invariance, PTL

-----------------------------------------------------------------------------
(***************************************************************************)
(* Nothing is lost on the way.                                             *)
(***************************************************************************)
LEMMA ComingIs ==
  ASSUME Common
  PROVE  /\ input \o SubSeq(file, pos + 1, Len(file)) = Slice(file, Consumed, Len(file))
         /\ Slice(file, Consumed, Len(file)) \in Seq(Unit)
         /\ Consumed \in 0 .. Len(file) /\ Consumed \in Nat /\ Len(file) \in Nat
         /\ Passed = Decoded(Slice(file, 0, Consumed)) /\ file \in Seq(Unit)
<1>1. PICK c : c = Consumed
  OBVIOUS
<1>2. PICK len : len = Len(file)
  OBVIOUS
<1>3. /\ c \in Nat /\ c <= pos /\ pos <= len /\ pos \in Nat /\ len \in Nat /\ c <= len
      /\ file \in Seq(Unit) /\ input = Slice(file, c, pos) /\ len <= Len(file)
      /\ Passed = Decoded(Slice(file, 0, c))
  BY <1>1, <1>2, BufferTypes, BufferedSlices DEF Common
<1>4. Slice(file, c, pos) \o Slice(file, pos, len) = Slice(file, c, len)
  BY <1>3, SliceConcat
<1>5. Slice(file, c, len) \in Seq(Unit)
  BY <1>3, SliceProperties
<1>6. SubSeq(file, pos + 1, Len(file)) = Slice(file, pos, len)
  BY <1>2 DEF Slice
<1>7. c \in 0 .. len
  BY <1>3
<1>8. QED
  BY <1>1, <1>2, <1>3, <1>4, <1>5, <1>6, <1>7

(* Inside the first member all units are parts of it; its end is Consumed  *)
(* as soon as inflate() has reported one.                                  *)
LEMMA FirstMemberSoFar ==
  ASSUME Common, GZipInv, error_ \in {"Z_OK", "Z_STREAM_END", "Z_DATA_ERROR"}
  PROVE  /\ error_ = "Z_OK" =>
              \A j \in 1 .. Consumed : file[j].kind \notin {"end", "bad"}
         /\ error_ # "Z_OK" => /\ Consumed \in 1 .. Len(file)
                               /\ file[Consumed].kind = StoppedAt[error_]
                               /\ Until(file, {"end", "bad"}) = Slice(file, 0, Consumed)
<1>1. Consumed \in 0 .. Len(file) /\ Len(file) \in Nat /\ file \in Seq(Unit)
  BY ComingIs
<1>2. PICK c : c = Consumed
  OBVIOUS
<1>3. \A j \in 1 .. c - 1 : file[j].kind \notin {"end", "bad"}
  BY <1>2 DEF GZipInv
<1>4. CASE error_ = "Z_OK"
  <2>1. c > 0 => file[c].kind \notin {"end", "bad"}
    BY <1>2, <1>4 DEF GZipInv
  <2>2. \A j \in 1 .. c : j \in 1 .. c - 1 \/ (j = c /\ c > 0)
    BY <1>1, <1>2
  <2>3. QED
    BY <1>2, <1>3, <1>4, <2>1, <2>2
<1>5. CASE error_ # "Z_OK"
  <2>1. c \in 1 .. Len(file) /\ file[c].kind = StoppedAt[error_]
    BY <1>1, <1>2, <1>5 DEF GZipInv
  <2>2. StoppedAt[error_] \in {"end", "bad"}
    BY <1>5 DEF StoppedAt
  <2>3. Until(file, {"end", "bad"}) = Slice(file, 0, c)
    BY <1>1, <1>3, <2>1, <2>2, UntilAt
  <2>4. QED
    BY <1>2, <1>5, <2>1, <2>3
<1>6. QED
  BY <1>4, <1>5

LEMMA GZipLosesNothing ==
  ASSUME Common, GZipInv, error_ \in {"Z_OK", "Z_STREAM_END", "Z_DATA_ERROR"}
  PROVE  GZip!NothingLost
<1>1. /\ Consumed \in 0 .. Len(file)
      /\ input \o SubSeq(file, pos + 1, Len(file)) = Slice(file, Consumed, Len(file))
      /\ Slice(file, Consumed, Len(file)) \in Seq(Unit)
      /\ Passed = Decoded(Slice(file, 0, Consumed)) /\ file \in Seq(Unit)
  BY ComingIs
<1>2. GZip!Decoded(GZip!FirstMember(file)) = Decoded(Until(file, {"end", "bad"}))
  BY <1>1, FirstMemberIs, SameDecoded
<1>3. CASE error_ = "Z_OK"
  <2>1. \A j \in 1 .. Consumed : file[j].kind \notin {"end", "bad"}
    BY <1>3, FirstMemberSoFar
  <2>2. Decoded(Slice(file, 0, Consumed))
          \o Decoded(Until(Slice(file, Consumed, Len(file)), {"end", "bad"}))
          = Decoded(Until(file, {"end", "bad"}))
    BY <1>1, <2>1, UntilSplit
  <2>3. GZip!Upcoming = Decoded(Until(Slice(file, Consumed, Len(file)), {"end", "bad"}))
    <3>1. GZip!Upcoming = GZip!Decoded(GZip!FirstMember(Slice(file, Consumed, Len(file))))
      BY <1>1, <1>3 DEF GZip!Upcoming
    <3>2. QED
      BY <1>1, <3>1, FirstMemberIs, SameDecoded
  <2>4. QED
    BY <1>1, <1>2, <2>2, <2>3 DEF GZip!NothingLost, Passed
<1>4. CASE error_ # "Z_OK"
  <2>1. GZip!Upcoming = <<>>
    BY <1>4 DEF GZip!Upcoming
  <2>2. Passed = Decoded(Until(file, {"end", "bad"}))
    BY <1>1, <1>4, FirstMemberSoFar
  <2>3. Passed \in Seq(Word)
    <3>1. Consumed \in Nat /\ Consumed <= Len(file) /\ 0 <= Consumed /\ 0 \in Nat
      BY ComingIs
    <3>2. QED
      BY <1>1, <3>1, DecodedSlice
  <2>4. Passed \o <<>> = Passed
    BY <2>3, ConcatEmptySeq
  <2>5. QED
    BY <1>2, <2>1, <2>2, <2>4 DEF GZip!NothingLost, Passed
<1>5. QED
  BY <1>3, <1>4

LEMMA LZMALosesNothing ==
  ASSUME Common, LZMAInv
  PROVE  LZMA!NothingLost
<1>1. /\ Consumed \in 0 .. Len(file)
      /\ input \o SubSeq(file, pos + 1, Len(file)) = Slice(file, Consumed, Len(file))
      /\ Passed = Decoded(Slice(file, 0, Consumed)) /\ file \in Seq(Unit)
  BY ComingIs
<1>2. \A j \in 1 .. Consumed : file[j].kind \notin {"bad"}
  BY DEF LZMAInv
<1>3. Decoded(Slice(file, 0, Consumed))
        \o Decoded(Until(Slice(file, Consumed, Len(file)), {"bad"}))
        = Decoded(Until(file, {"bad"}))
  BY <1>1, <1>2, UntilSplit
<1>4. Passed = delivered \o got \o area \o pending
  <2>1. delivered \o got \o area \in Seq(Word)
    BY PassedType DEF Common
  <2>2. delivered \o got \o area \o <<>> = delivered \o got \o area
    BY <2>1, ConcatEmptySeq
  <2>3. output = <<>>
    BY DEF LZMAInv
  <2>4. QED
    BY <2>2, <2>3 DEF Passed
<1>5. QED
  BY <1>1, <1>3, <1>4, DecodableIs DEF LZMA!NothingLost

LEMMA LosesNothing == IInv => NothingLost
BY GZipLosesNothing, LZMALosesNothing DEF IInv, DecoderTypes, NothingLost

(***************************************************************************)
(* No byte is lost, doubled or reordered between the compressed file and   *)
(* the reader, in any step of either decoder's refill.                     *)
(***************************************************************************)
THEOREM NothingIsLost == Spec => []NothingLost
BY Invariance, LosesNothing, PTL

(***************************************************************************)
(* The file is left behind the member.                                     *)
(***************************************************************************)
LEMMA CompleteEnds ==
  ASSUME Common, GZipInv, error_ \in {"Z_OK", "Z_STREAM_END", "Z_DATA_ERROR"},
         Exhausted, GZip!Complete(file)
  PROVE  /\ error_ = "Z_STREAM_END"
         /\ GZip!FirstMember(file) = Slice(file, 0, Consumed)
         /\ Len(Slice(file, 0, Consumed)) = Consumed
<1>1. /\ file \in Seq(Unit) /\ Len(file) \in Nat /\ Consumed \in 0 .. Len(file)
      /\ GZip!FirstMember(file) = Until(file, {"end", "bad"})
  BY ComingIs, FirstMemberIs
<1>2. file # <<>> /\ GZip!Last(GZip!FirstMember(file)).kind = "end"
  BY DEF GZip!Complete
<1>3. error_ # "Z_OK"
  <2>1. SUFFICES ASSUME error_ = "Z_OK"
                 PROVE  FALSE
    OBVIOUS
  <2>2. \A j \in 1 .. Len(file) : file[j].kind \notin {"end", "bad"}
    BY <2>1, FirstMemberSoFar DEF Exhausted
  <2>3. GZip!FirstMember(file) = file
    BY <1>1, <2>2, UntilNone
  <2>4. Len(file) \in 1 .. Len(file)
    BY <1>1, <1>2, EmptySeq
  <2>5. QED
    BY <1>2, <2>2, <2>3, <2>4 DEF GZip!Last
<1>4. PICK c : c = Consumed
  OBVIOUS
<1>5. /\ c \in 1 .. Len(file) /\ file[c].kind = StoppedAt[error_]
      /\ GZip!FirstMember(file) = Slice(file, 0, c)
  BY <1>1, <1>3, <1>4, FirstMemberSoFar
<1>6. /\ Len(Slice(file, 0, c)) = c /\ Slice(file, 0, c)[c] = file[c]
  <2>1. c \in Nat /\ c <= Len(file) /\ 0 \in Nat /\ 0 <= c /\ c - 0 = c /\ 0 + c = c
    BY <1>1, <1>5
  <2>2. /\ Len(Slice(file, 0, c)) = c - 0
        /\ \A k \in 1 .. c - 0 : Slice(file, 0, c)[k] = file[0 + k]
    BY <1>1, <2>1, SliceProperties
  <2>3. QED
    BY <1>5, <2>1, <2>2
<1>7. error_ = "Z_STREAM_END"
  BY <1>2, <1>3, <1>5, <1>6 DEF GZip!Last, StoppedAt
<1>8. QED
  BY <1>4, <1>5, <1>6, <1>7

LEMMA StopsBehindMember == IInv => LeftBehindMember
<1>1. SUFFICES ASSUME IInv, codec = "gz", flags.eof, GZip!Complete(file)
               PROVE  pos = Len(GZip!FirstMember(file))
  BY DEF LeftBehindMember, GZip!LeftBehindMember
<1>2. /\ Common /\ GZipInv /\ error_ \in {"Z_OK", "Z_STREAM_END", "Z_DATA_ERROR"}
      /\ pc = "idle" /\ Exhausted
  BY <1>1 DEF IInv, DecoderTypes, Common, Reading, Good, GZipInv
<1>3. /\ error_ = "Z_STREAM_END"
      /\ Len(GZip!FirstMember(file)) = Consumed
  BY <1>1, <1>2, CompleteEnds
<1>4. Consumed \in Nat /\ Len(input) = pos - Consumed /\ pos \in Nat
  BY <1>2, BufferedSlices, BufferTypes DEF Common
<1>5. input = <<>>
  BY <1>2, <1>3 DEF GZipInv
<1>6. QED
  BY <1>3, <1>4, <1>5, EmptySeq

(***************************************************************************)
(* Whoever reads on in the file behind the end of a complete member finds  *)
(* what follows it: the refill gives back what it had buffered of that.    *)
(***************************************************************************)
THEOREM LeavesTheRest == Spec => []LeftBehindMember
BY Invariance, StopsBehindMember, PTL

-----------------------------------------------------------------------------
(***************************************************************************)
(* Either decoder implements the stream a reader expects.                  *)
(*                                                                         *)
(* Most steps are invisible through the mapping; the others are the ends   *)
(* of reads, and each of them is the read of ByteStream that keeps what    *)
(* was copied of the data, or all of it.                                   *)
(***************************************************************************)
Hurt == IF codec = "gz" THEN GZip!Damaged ELSE LZMA!Damaged

Data == IF codec = "gz" THEN GZip!Deliverable ELSE LZMA!Deliverable

Ending == IF codec = "xz" /\ LZMA!Damaged THEN "throw" ELSE "eof"

StreamOf(d, p, ending, eof, fail, bad) ==
  [ data |-> d, pos |-> p, ending |-> ending, eof |-> eof, fail |-> fail, bad |-> bad ]

Mapped ==
  StreamOf(Data, Len(delivered), Ending, flags.eof, flags.fail, flags.bad)

CutTo(kept) == [Mapped EXCEPT !.data = SubSeq(Data, 1, kept)]

LEMMA SameRead ==
  ASSUME NEW s, NEW n
  PROVE  Abstract!Read(s, n) = Read(s, n)
BY DEF Abstract!Read, Read, Abstract!IsGood, IsGood, Abstract!IsOk, IsOk,
       Abstract!Rest, Rest

LEMMA MappedReads ==
  ASSUME NEW n \in Sizes, NEW kept,
         IF Hurt THEN kept \in Len(delivered) .. Len(Data) ELSE kept = Len(Data),
         Mapped' = Read(CutTo(kept), n).stream,
         result' = [words |-> Read(CutTo(kept), n).words, count |-> Read(CutTo(kept), n).count],
         UNCHANGED Hurt
  PROVE  Abstract!Next
<1>1. kept \in Abstract!Kept
  BY DEF Abstract!Kept, Hurt, Data
<1>2. Abstract!Cut(kept) = CutTo(kept)
  BY DEF Abstract!Cut, CutTo, Mapped, StreamOf, Data, Ending
<1>3. Abstract!Read(Abstract!Cut(kept), n) = Read(CutTo(kept), n)
  BY <1>2, SameRead
<1>4. Abstract!ReadSome(n)
  BY <1>1, <1>3 DEF Abstract!ReadSome, Mapped, StreamOf, Hurt, Data, Ending
<1>5. QED
  BY <1>4 DEF Abstract!Next

LEMMA MappedStutters ==
  ASSUME UNCHANGED <<codec, file, flags, delivered, result>>
  PROVE  UNCHANGED Abstract!vars
<1>1. UNCHANGED <<GZip!Damaged, LZMA!Damaged, GZip!Deliverable, LZMA!Deliverable>>
  BY DEF GZip!Damaged, LZMA!Damaged, GZip!Deliverable, LZMA!Deliverable, GZip!Complete
<1>2. QED
  BY <1>1 DEF Abstract!vars

(* When the xz decoder is done, its file is whole, and all of it passed on. *)
LEMMA DoneIs ==
  IInv /\ codec = "xz" /\ outputDone_ =>
    ~LZMA!Damaged /\ LZMA!Decodable(file) = Passed /\ pending = <<>> /\ output = <<>>
<1>1. SUFFICES ASSUME IInv, codec = "xz", outputDone_
               PROVE  /\ ~LZMA!Damaged /\ LZMA!Decodable(file) = Passed
                      /\ pending = <<>> /\ output = <<>>
  OBVIOUS
<1>2. Common /\ LZMAInv
  BY <1>1 DEF IInv
<1>3. /\ Consumed = Len(file) /\ pending = <<>> /\ output = <<>> /\ Consumed > 0
      /\ file[Consumed].kind = "end"
      /\ \A j \in 1 .. Consumed : file[j].kind # "bad"
  BY <1>1, <1>2 DEF LZMAInv
<1>4. /\ file \in Seq(Unit) /\ Len(file) \in Nat /\ DOMAIN file = 1 .. Len(file)
      /\ Passed = Decoded(Slice(file, 0, Consumed))
  BY <1>2, ComingIs, LenProperties
<1>5. ~LZMA!Damaged
  <2>1. file # <<>>
    BY <1>3, EmptySeq
  <2>2. LZMA!Last(file).kind = "end"
    BY <1>3 DEF LZMA!Last
  <2>3. \A k \in DOMAIN file : file[k].kind # "bad"
    BY <1>3, <1>4
  <2>4. QED
    BY <2>1, <2>2, <2>3 DEF LZMA!Damaged
<1>6. LZMA!Decodable(file) = Decoded(file)
  <2>1. Until(file, {"bad"}) = file
    BY <1>3, <1>4, UntilNone
  <2>2. QED
    BY <2>1, DecodableIs
<1>7. Slice(file, 0, Consumed) = file
  BY <1>3, <1>4, SliceEdges
<1>8. QED
  BY <1>3, <1>4, <1>5, <1>6, <1>7

LEMMA DoneIsNext ==
  (IInv /\ codec = "xz" /\ outputDone_ =>
     ~LZMA!Damaged /\ LZMA!Decodable(file) = Passed /\ pending = <<>> /\ output = <<>>)'
BY DoneIs, PTL

LEMMA UntilType ==
  ASSUME NEW units \in Seq(Unit), NEW stops
  PROVE  Decoded(Until(units, stops)) \in Seq(Word)
<1>1. PICK len : len = Len(units)
  OBVIOUS
<1>2. /\ len \in Nat /\ 0 <= len /\ len <= Len(units) /\ Slice(units, 0, len) = units
  BY <1>1, LenProperties, SliceEdges
<1>3. Decoded(units) \in Seq(Word)
  <2>1. Decoded(Slice(units, 0, len)) \in Seq(Word)
    BY <1>2, DecodedSlice
  <2>2. QED
    BY <1>2, <2>1
<1>4. CASE \A j \in 1 .. Len(units) : units[j].kind \notin stops
  BY <1>3, <1>4, UntilNone
<1>5. CASE \E k \in 1 .. Len(units) : /\ units[k].kind \in stops
                                      /\ \A j \in 1 .. k - 1 : units[j].kind \notin stops
  <2>1. PICK k \in 1 .. Len(units) : /\ units[k].kind \in stops
                                     /\ \A j \in 1 .. k - 1 : units[j].kind \notin stops
    BY <1>5
  <2>2. Until(units, stops) = Slice(units, 0, k)
    BY <2>1, UntilAt
  <2>3. k \in Nat /\ 0 <= k /\ k <= Len(units)
    BY <1>1, <1>2
  <2>4. QED
    BY <2>2, <2>3, DecodedSlice
<1>6. QED
  BY <1>4, <1>5, FirstStop

LEMMA Behind ==
  ASSUME NEW p \in Seq(Word), NEW r \in Seq(Word), NEW a \in Seq(Word)
  PROVE  \E rest \in Seq(Word) : p \o r \o a = p \o rest
<1>1. p \o r \o a = p \o (r \o a)
  BY ConcatAssociative
<1>2. r \o a \in Seq(Word)
  BY ConcatProperties
<1>3. QED
  BY <1>1, <1>2

(* What was delivered and copied is where the data starts.                 *)
LEMMA DataIs ==
  ASSUME IInv
  PROVE  /\ \E rest \in Seq(Word) : Data = delivered \o got \o rest
         /\ delivered \in Seq(Word) /\ got \in Seq(Word) /\ delivered \o got \in Seq(Word)
<1>1. /\ Common /\ DecoderTypes /\ NothingLost
  BY LosesNothing DEF IInv
<1>2. /\ delivered \in Seq(Word) /\ got \in Seq(Word) /\ delivered \o got \in Seq(Word)
      /\ area \in Seq(Word) /\ output \in Seq(Word) /\ pending \in Seq(Word)
      /\ <<>> \in Seq(Word)
  BY <1>1, PassedType, EmptySeq DEF Common
<1>3. CASE (codec = "gz" /\ flags.eof) \/ (codec = "xz" /\ flags.bad)
  <2>1. Data = delivered
    BY <1>3 DEF Data, GZip!Deliverable, LZMA!Deliverable
  <2>2. got = <<>>
    BY <1>1, <1>3 DEF Common, Reading, Good
  <2>3. delivered \o got \o <<>> = delivered
    BY <1>2, <2>2, ConcatEmptySeq
  <2>4. QED
    BY <1>2, <2>1, <2>3
<1>4. /\ file \in Seq(Unit)
      /\ input \o SubSeq(file, pos + 1, Len(file)) = Slice(file, Consumed, Len(file))
      /\ Slice(file, Consumed, Len(file)) \in Seq(Unit)
  BY <1>1, ComingIs
<1>5. CASE codec = "gz" /\ ~flags.eof
  <2>1. delivered \o got \o area \o output \o pending \o GZip!Upcoming = Data
    BY <1>1, <1>5 DEF NothingLost, GZip!NothingLost, Data, GZip!Deliverable
  <2>2. GZip!Upcoming \in Seq(Word)
    <3>1. GZip!Upcoming \in
            {<<>>, Decoded(Until(Slice(file, Consumed, Len(file)), {"end", "bad"}))}
      BY <1>4, FirstMemberIs, SameDecoded DEF GZip!Upcoming
    <3>2. QED
      BY <1>2, <1>4, <3>1, UntilType
  <2>3. PICK p : p = delivered \o got
    OBVIOUS
  <2>4. PICK up : up = GZip!Upcoming
    OBVIOUS
  <2>5. /\ p \in Seq(Word) /\ area \in Seq(Word) /\ output \in Seq(Word)
        /\ pending \in Seq(Word) /\ up \in Seq(Word)
    BY <1>2, <2>2, <2>3, <2>4
  <2>6. PICK r1 \in Seq(Word) : p \o area \o output = p \o r1
    BY <2>5, Behind
  <2>7. PICK r2 \in Seq(Word) : p \o r1 \o pending = p \o r2
    BY <2>5, Behind
  <2>8. PICK r3 \in Seq(Word) : p \o r2 \o up = p \o r3
    <3>1. p \in Seq(Word) /\ r2 \in Seq(Word) /\ up \in Seq(Word)
      BY <2>5
    <3>2. QED
      BY <3>1, Behind
  <2>9. Data = p \o r3
    BY <2>1, <2>3, <2>4, <2>6, <2>7, <2>8
  <2>10. QED
    BY <1>2, <2>3, <2>9
<1>6. CASE codec = "xz" /\ ~flags.bad
  <2>1. PICK up : up = LZMA!Decodable(Slice(file, Consumed, Len(file)))
    OBVIOUS
  <2>2. delivered \o got \o area \o pending \o up = Data
    BY <1>1, <1>4, <1>6, <2>1 DEF NothingLost, LZMA!NothingLost, Data, LZMA!Deliverable
  <2>3. up \in Seq(Word) /\ Data \in Seq(Word)
    BY <1>4, <1>6, <2>1, DecodableIs, UntilType DEF Data, LZMA!Deliverable
  <2>4. PICK p : p = delivered \o got
    OBVIOUS
  <2>5. /\ p \in Seq(Word) /\ area \in Seq(Word) /\ pending \in Seq(Word)
        /\ up \in Seq(Word)
    BY <1>2, <2>3, <2>4
  <2>6. PICK r1 \in Seq(Word) : p \o area \o pending = p \o r1
    BY <2>5, Behind
  <2>7. PICK r2 \in Seq(Word) : p \o r1 \o up = p \o r2
    BY <2>5, Behind
  <2>8. Data = p \o r2
    BY <2>2, <2>4, <2>6, <2>7
  <2>9. QED
    BY <1>2, <2>4, <2>8
<1>7. QED
  BY <1>1, <1>2, <1>3, <1>5, <1>6 DEF DecoderTypes

LEMMA InParts ==
  ASSUME NEW p \in Seq(Word), NEW g \in Seq(Word), NEW rest \in Seq(Word),
         NEW data, data = p \o g \o rest
  PROVE  /\ Len(p) \in Nat /\ Len(g) \in Nat /\ Len(rest) \in Nat
         /\ Len(p \o g) = Len(p) + Len(g)
         /\ data \in Seq(Word) /\ Len(data) = Len(p) + Len(g) + Len(rest)
         /\ SubSeq(data, 1, Len(data)) = data
         /\ SubSeq(data, 1, Len(p \o g)) = p \o g
         /\ SubSeq(data, Len(p) + 1, Len(p) + Len(g)) = g
         /\ SubSeq(p \o g, Len(p) + 1, Len(p \o g)) = g
<1>1. PICK a : a = p \o g
  OBVIOUS
<1>2. /\ Len(p) \in Nat /\ Len(g) \in Nat /\ Len(rest) \in Nat
      /\ a \in Seq(Word) /\ Len(a) = Len(p) + Len(g)
      /\ \A i \in 1 .. Len(a) : a[i] = IF i <= Len(p) THEN p[i] ELSE g[i - Len(p)]
  BY <1>1, ConcatProperties, LenProperties
<1>3. /\ data \in Seq(Word) /\ Len(data) = Len(a) + Len(rest)
      /\ \A i \in 1 .. Len(data) : data[i] = IF i <= Len(a) THEN a[i] ELSE rest[i - Len(a)]
  BY <1>1, <1>2, ConcatProperties
<1>4. PICK len : len = Len(data)
  OBVIOUS
<1>5. PICK n : n = Len(p)
  OBVIOUS
<1>6. PICK m : m = Len(a)
  OBVIOUS
<1>7. n \in Nat /\ m \in Nat /\ len \in Nat /\ n <= m /\ m <= len /\ m - n = Len(g)
  BY <1>2, <1>3, <1>4, <1>5, <1>6
<1>8. Slice(data, 0, len) = data
  BY <1>3, <1>4, SliceEdges
<1>9. Slice(data, 0, m) = a
  <2>1. /\ Slice(data, 0, m) \in Seq(Word) /\ Len(Slice(data, 0, m)) = m - 0
        /\ \A k \in 1 .. m - 0 : Slice(data, 0, m)[k] = data[0 + k]
    <3>1. 0 \in Nat /\ 0 <= m /\ m <= Len(data)
      BY <1>4, <1>7
    <3>2. QED
      BY <1>3, <1>7, <3>1, SliceProperties
  <2>2. \A k \in 1 .. m : Slice(data, 0, m)[k] = a[k]
    BY <1>3, <1>4, <1>6, <1>7, <2>1
  <2>3. QED
    BY <1>2, <1>6, <1>7, <2>1, <2>2, SeqEqual
<1>10. Slice(data, n, m) = g
  <2>1. /\ Slice(data, n, m) \in Seq(Word) /\ Len(Slice(data, n, m)) = m - n
        /\ \A k \in 1 .. m - n : Slice(data, n, m)[k] = data[n + k]
    <3>1. n \in Nat /\ m \in Nat /\ n <= m /\ m <= Len(data)
      BY <1>4, <1>7
    <3>2. QED
      BY <1>3, <3>1, SliceProperties
  <2>2. \A k \in 1 .. m - n : data[n + k] = g[k]
    <3>1. SUFFICES ASSUME NEW k \in 1 .. m - n
                   PROVE  data[n + k] = g[k]
      OBVIOUS
    <3>2. PICK i : i = n + k
      OBVIOUS
    <3>3. i \in 1 .. Len(a) /\ i \in 1 .. Len(data) /\ ~(i <= Len(p)) /\ i - Len(p) = k
      BY <1>4, <1>5, <1>6, <1>7, <3>2
    <3>4. data[i] = a[i] /\ a[i] = g[k]
      BY <1>2, <1>3, <3>3
    <3>5. QED
      BY <3>2, <3>4
  <2>3. QED
    BY <1>7, <2>1, <2>2, SeqEqual
<1>11. Slice(a, n, m) = g
  <2>1. /\ Slice(a, n, m) \in Seq(Word) /\ Len(Slice(a, n, m)) = m - n
        /\ \A k \in 1 .. m - n : Slice(a, n, m)[k] = a[n + k]
    <3>1. a \in Seq(Word) /\ n \in Nat /\ m \in Nat /\ n <= m /\ m <= Len(a)
      BY <1>2, <1>6, <1>7
    <3>2. QED
      BY <3>1, SliceProperties
  <2>2. \A k \in 1 .. m - n : a[n + k] = g[k]
    <3>1. SUFFICES ASSUME NEW k \in 1 .. m - n
                   PROVE  a[n + k] = g[k]
      OBVIOUS
    <3>2. PICK i : i = n + k
      OBVIOUS
    <3>3. i \in 1 .. Len(a) /\ ~(i <= Len(p)) /\ i - Len(p) = k
      BY <1>5, <1>6, <1>7, <3>2
    <3>4. QED
      BY <1>2, <3>2, <3>3
  <2>3. QED
    BY <1>7, <2>1, <2>2, SeqEqual
<1>12. SubSeq(data, 1, len) = data /\ SubSeq(data, 1, m) = a
  BY <1>8, <1>9, FromStart
<1>13. SubSeq(data, n + 1, m) = g /\ SubSeq(a, n + 1, m) = g
  BY <1>10, <1>11 DEF Slice
<1>14. QED
  BY <1>1, <1>2, <1>3, <1>4, <1>5, <1>6, <1>12, <1>13

(***************************************************************************)
(* Streams as records.                                                     *)
(***************************************************************************)
LEMMA StreamCut ==
  ASSUME NEW s, NEW d, NEW p, NEW e, NEW f, NEW g, NEW h, s = StreamOf(d, p, e, f, g, h),
         NEW x
  PROVE  [s EXCEPT !.data = x] = StreamOf(x, p, e, f, g, h)
BY DEF StreamOf

LEMMA StreamFails ==
  ASSUME NEW s, NEW d, NEW p, NEW e, NEW f, NEW g, NEW h, s = StreamOf(d, p, e, f, g, h),
         NEW x
  PROVE  [s EXCEPT !.fail = x] = StreamOf(s.data, s.pos, s.ending, s.eof, x, s.bad)
<1>1. s.data = d /\ s.pos = p /\ s.ending = e /\ s.eof = f /\ s.bad = h
  BY DEF StreamOf
<1>2. [s EXCEPT !.fail = x] = StreamOf(d, p, e, f, x, h)
  BY DEF StreamOf
<1>3. QED
  BY <1>1, <1>2

LEMMA CutIs ==
  ASSUME NEW kept
  PROVE  CutTo(kept) = StreamOf(SubSeq(Data, 1, kept), Len(delivered), Ending,
                                flags.eof, flags.fail, flags.bad)
<1>1. PICK s : s = Mapped
  OBVIOUS
<1>2. PICK x : x = SubSeq(Data, 1, kept)
  OBVIOUS
<1>3. s = StreamOf(Data, Len(delivered), Ending, flags.eof, flags.fail, flags.bad)
  BY <1>1 DEF Mapped
<1>4. [s EXCEPT !.data = x]
        = StreamOf(x, Len(delivered), Ending, flags.eof, flags.fail, flags.bad)
  BY <1>3, StreamCut
<1>5. QED
  BY <1>1, <1>2, <1>4 DEF CutTo

LEMMA UncutIs ==
  ASSUME SubSeq(Data, 1, Len(Data)) = Data
  PROVE  CutTo(Len(Data)) = Mapped
BY CutIs DEF Mapped

(***************************************************************************)
(* The three ways a read ends, and the fourth, of a stream that is not     *)
(* good.                                                                   *)
(***************************************************************************)
LEMMA MapsFailed ==
  ASSUME IInv, NEW n \in Sizes, CallReadFails(n), UNCHANGED codec
  PROVE  Abstract!Next
<1>1. /\ ~Good /\ flags' = [flags EXCEPT !.fail = TRUE]
      /\ result' = [words |-> <<>>, count |-> 0]
      /\ UNCHANGED <<file, delivered>>
  BY DEF CallReadFails
<1>2. flags \in [eof : BOOLEAN, fail : BOOLEAN, bad : BOOLEAN]
  BY DEF IInv, Common, DecodedTypeOK
<1>3. flags'.eof = flags.eof /\ flags'.bad = flags.bad /\ flags'.fail = TRUE
  BY <1>1, <1>2
<1>4. UNCHANGED <<Data, Hurt, Ending>>
  BY <1>1, <1>3 DEF Data, Hurt, Ending, GZip!Damaged, LZMA!Damaged, GZip!Deliverable,
                    LZMA!Deliverable, GZip!Complete
<1>5. PICK rest \in Seq(Word) : Data = delivered \o got \o rest
  BY DataIs
<1>6. /\ SubSeq(Data, 1, Len(Data)) = Data /\ Len(Data) \in Nat
      /\ Len(delivered) \in Nat /\ Len(delivered) <= Len(Data)
  <2>1. delivered \in Seq(Word) /\ got \in Seq(Word)
    BY DataIs
  <2>2. /\ SubSeq(Data, 1, Len(Data)) = Data
        /\ Len(delivered) \in Nat /\ Len(got) \in Nat /\ Len(rest) \in Nat
        /\ Len(Data) = Len(delivered) + Len(got) + Len(rest)
    BY <1>5, <2>1, InParts
  <2>3. QED
    BY <2>2
<1>7. CutTo(Len(Data)) = Mapped
  BY <1>6, UncutIs
<1>8. ~IsGood(Mapped)
  BY <1>1 DEF Mapped, StreamOf, IsGood, IsOk, Good
<1>9. /\ Read(Mapped, n).stream = [Mapped EXCEPT !.fail = TRUE]
      /\ Read(Mapped, n).words = <<>> /\ Read(Mapped, n).count = 0
  BY <1>8 DEF Read
<1>10. Mapped' = [Mapped EXCEPT !.fail = TRUE]
  <2>1. PICK s : s = Mapped
    OBVIOUS
  <2>2. PICK yes : yes = TRUE
    OBVIOUS
  <2>3. [s EXCEPT !.fail = yes] = StreamOf(s.data, s.pos, s.ending, s.eof, yes, s.bad)
    BY <2>1, StreamFails DEF Mapped
  <2>4. /\ s.data = Data /\ s.pos = Len(delivered) /\ s.ending = Ending
        /\ s.eof = flags.eof /\ s.bad = flags.bad
    BY <2>1 DEF Mapped, StreamOf
  <2>5. Mapped' = StreamOf(Data', Len(delivered'), Ending', flags'.eof, flags'.fail, flags'.bad)
    BY DEF Mapped
  <2>6. Mapped' = StreamOf(Data, Len(delivered), Ending, flags.eof, yes, flags.bad)
    BY <1>1, <1>3, <1>4, <2>2, <2>5
  <2>7. QED
    BY <2>1, <2>2, <2>3, <2>4, <2>6
<1>11. IF Hurt THEN Len(Data) \in Len(delivered) .. Len(Data) ELSE Len(Data) = Len(Data)
  BY <1>6
<1>12. QED
  BY <1>1, <1>4, <1>7, <1>9, <1>10, <1>11, MappedReads


LEMMA StreamMoves ==
  ASSUME NEW s, NEW d, NEW p, NEW e, NEW f, NEW g, NEW h, s = StreamOf(d, p, e, f, g, h),
         NEW x
  PROVE  [s EXCEPT !.pos = x] = StreamOf(d, x, e, f, g, h)
BY DEF StreamOf

LEMMA StreamEnds ==
  ASSUME NEW s, NEW d, NEW p, NEW e, NEW f, NEW g, NEW h, s = StreamOf(d, p, e, f, g, h),
         NEW yes
  PROVE  /\ [s EXCEPT !.eof = yes] = StreamOf(d, p, e, yes, g, h)
         /\ [s EXCEPT !.fail = yes] = StreamOf(d, p, e, f, yes, h)
<1>1. [s EXCEPT !.eof = yes] = StreamOf(d, p, e, yes, g, h)
  BY DEF StreamOf
<1>2. [s EXCEPT !.fail = yes] = StreamOf(d, p, e, f, yes, h)
  BY DEF StreamOf
<1>3. QED
  BY <1>1, <1>2

LEMMA StreamThrows ==
  ASSUME NEW s, NEW d, NEW p, NEW e, NEW f, NEW g, NEW h, s = StreamOf(d, p, e, f, g, h),
         NEW yes
  PROVE  [s EXCEPT !.bad = yes] = StreamOf(d, p, e, f, g, yes)
BY DEF StreamOf

(***************************************************************************)
(* The end of a read that copied "got": what it is through the mapping,    *)
(* depending on how much of the data there turned out to be.               *)
(***************************************************************************)
LEMMA Copied ==
  ASSUME IInv, pc # "idle"
  PROVE  LET kept == Len(delivered \o got) IN
         /\ Good /\ wanted \in Sizes /\ wanted \in Nat
         /\ Len(delivered) \in Nat /\ Len(got) \in Nat
         /\ kept \in Len(delivered) .. Len(Data) /\ kept = Len(delivered) + Len(got)
         /\ SubSeq(Data, 1, Len(Data)) = Data
         /\ SubSeq(Data, 1, kept) = delivered \o got
         /\ SubSeq(Data, Len(delivered) + 1, Len(delivered) + Len(got)) = got
         /\ SubSeq(delivered \o got, Len(delivered) + 1, kept) = got
         /\ Len(got) <= Len(Data) - Len(delivered) /\ Len(Data) \in Nat
         /\ kept = Len(Data) => delivered \o got = Data
<1>1. /\ Good /\ wanted \in Sizes /\ wanted \in Nat
      /\ delivered \in Seq(Word) /\ got \in Seq(Word)
  BY DataIs, DecodedAssumption DEF IInv, Common, Reading
<1>2. PICK rest \in Seq(Word) : Data = delivered \o got \o rest
  BY DataIs
<1>3. PICK kept : kept = Len(delivered \o got)
  OBVIOUS
<1>4. /\ Len(delivered) \in Nat /\ Len(got) \in Nat /\ Len(rest) \in Nat
      /\ kept = Len(delivered) + Len(got)
      /\ Len(Data) = Len(delivered) + Len(got) + Len(rest)
      /\ SubSeq(Data, 1, Len(Data)) = Data
      /\ SubSeq(Data, 1, kept) = delivered \o got
      /\ SubSeq(Data, Len(delivered) + 1, Len(delivered) + Len(got)) = got
      /\ SubSeq(delivered \o got, Len(delivered) + 1, kept) = got
  BY <1>1, <1>2, <1>3, InParts
<1>5. kept \in Len(delivered) .. Len(Data) /\ Len(got) <= Len(Data) - Len(delivered)
  BY <1>4
<1>6. QED
  BY <1>1, <1>3, <1>4, <1>5

LEMMA ReadFull ==
  ASSUME IInv, pc # "idle", Len(got) = wanted
  PROVE  /\ Read(CutTo(Len(Data)), wanted).stream
              = StreamOf(Data, Len(delivered \o got), Ending, flags.eof, flags.fail, flags.bad)
         /\ Read(CutTo(Len(Data)), wanted).words = got
         /\ Read(CutTo(Len(Data)), wanted).count = wanted
<1>1. PICK s : s = Mapped
  OBVIOUS
<1>2. /\ s = StreamOf(Data, Len(delivered), Ending, flags.eof, flags.fail, flags.bad)
      /\ s.pos = Len(delivered) /\ s.data = Data
  BY <1>1 DEF Mapped, StreamOf
<1>3. /\ Good /\ Len(delivered \o got) = Len(delivered) + wanted
      /\ SubSeq(Data, Len(delivered) + 1, Len(delivered) + wanted) = got
      /\ wanted <= Len(Data) - Len(delivered)
      /\ CutTo(Len(Data)) = s
  BY <1>1, Copied, UncutIs
<1>4. IsGood(s)
  BY <1>1, <1>3 DEF Mapped, StreamOf, IsGood, IsOk, Good
<1>5. wanted <= Rest(s)
  BY <1>2, <1>3 DEF Rest
<1>6. /\ Read(s, wanted).stream = [s EXCEPT !.pos = s.pos + wanted]
      /\ Read(s, wanted).words = SubSeq(s.data, s.pos + 1, s.pos + wanted)
      /\ Read(s, wanted).count = wanted
  BY <1>4, <1>5 DEF Read
<1>7. PICK x : x = s.pos + wanted
  OBVIOUS
<1>8. [s EXCEPT !.pos = x]
        = StreamOf(Data, x, Ending, flags.eof, flags.fail, flags.bad)
  BY <1>2, StreamMoves
<1>9. QED
  BY <1>2, <1>3, <1>6, <1>7, <1>8

LEMMA ReadShort ==
  ASSUME IInv, pc # "idle", Len(got) < wanted
  PROVE  LET kept == Len(delivered \o got)
             read == Read(CutTo(kept), wanted) IN
         /\ read.words = got
         /\ Ending = "eof" =>
              /\ read.stream = StreamOf(delivered \o got, kept, "eof", TRUE, TRUE, flags.bad)
              /\ read.count = Len(got)
         /\ Ending = "throw" =>
              /\ read.stream = StreamOf(delivered \o got, kept, "throw", flags.eof,
                                        flags.fail, TRUE)
              /\ read.count = 0
<1>1. PICK kept : kept = Len(delivered \o got)
  OBVIOUS
<1>2. /\ Good /\ wanted \in Nat /\ kept = Len(delivered) + Len(got)
      /\ Len(delivered) \in Nat /\ Len(got) \in Nat
      /\ SubSeq(Data, 1, kept) = delivered \o got
      /\ SubSeq(delivered \o got, Len(delivered) + 1, kept) = got
  BY <1>1, Copied
<1>3. PICK s : s = CutTo(kept)
  OBVIOUS
<1>4. s = StreamOf(delivered \o got, Len(delivered), Ending,
                   flags.eof, flags.fail, flags.bad)
  BY <1>2, <1>3, CutIs
<1>5. /\ s.data = delivered \o got /\ s.pos = Len(delivered) /\ s.ending = Ending
      /\ s.eof = flags.eof /\ s.fail = flags.fail /\ s.bad = flags.bad
  BY <1>4 DEF StreamOf
<1>6. IsGood(s) /\ Rest(s) = Len(got) /\ ~(wanted <= Rest(s))
  BY <1>1, <1>2, <1>5 DEF IsGood, IsOk, Good, Rest
<1>7. PICK x : x = Len(s.data)
  OBVIOUS
<1>8. x = kept /\ SubSeq(s.data, s.pos + 1, x) = got
  BY <1>1, <1>2, <1>5, <1>7
<1>9. PICK yes : yes = TRUE
  OBVIOUS
<1>10. ASSUME Ending = "eof"
       PROVE  /\ Read(s, wanted).words = got /\ Read(s, wanted).count = Len(got)
              /\ Read(s, wanted).stream
                   = StreamOf(delivered \o got, kept, Ending, yes, yes, flags.bad)
  <2>1. s.ending # "throw"
    BY <1>5, <1>10
  <2>2. /\ Read(s, wanted).stream = [s EXCEPT !.pos = Len(s.data), !.eof = TRUE, !.fail = TRUE]
        /\ Read(s, wanted).words = SubSeq(s.data, s.pos + 1, Len(s.data))
        /\ Read(s, wanted).count = Rest(s)
    BY <1>6, <2>1 DEF Read
  <2>3. [s EXCEPT !.pos = x, !.eof = yes, !.fail = yes]
          = StreamOf(delivered \o got, x, Ending, yes, yes, flags.bad)
    <3>1. [s EXCEPT !.pos = x, !.eof = yes, !.fail = yes]
            = [[[s EXCEPT !.pos = x] EXCEPT !.eof = yes] EXCEPT !.fail = yes]
      OBVIOUS
    <3>2. PICK s1 : s1 = [s EXCEPT !.pos = x]
      OBVIOUS
    <3>3. s1 = StreamOf(delivered \o got, x, Ending, flags.eof, flags.fail, flags.bad)
      BY <1>4, <3>2, StreamMoves
    <3>4. PICK s2 : s2 = [s1 EXCEPT !.eof = yes]
      OBVIOUS
    <3>5. s2 = StreamOf(delivered \o got, x, Ending, yes, flags.fail, flags.bad)
      BY <3>3, <3>4, StreamEnds
    <3>6. [s2 EXCEPT !.fail = yes]
            = StreamOf(delivered \o got, x, Ending, yes, yes, flags.bad)
      BY <3>5, StreamEnds
    <3>7. QED
      BY <3>1, <3>2, <3>4, <3>6
  <2>4. QED
    BY <1>6, <1>7, <1>8, <1>9, <2>2, <2>3
<1>11. ASSUME Ending = "throw"
       PROVE  /\ Read(s, wanted).words = got /\ Read(s, wanted).count = 0
              /\ Read(s, wanted).stream
                   = StreamOf(delivered \o got, kept, Ending, flags.eof, flags.fail, yes)
  <2>1. s.ending = "throw"
    BY <1>5, <1>11
  <2>2. /\ Read(s, wanted).stream = [s EXCEPT !.pos = Len(s.data), !.bad = TRUE]
        /\ Read(s, wanted).words = SubSeq(s.data, s.pos + 1, Len(s.data))
        /\ Read(s, wanted).count = 0
    BY <1>6, <2>1 DEF Read
  <2>3. [s EXCEPT !.pos = x, !.bad = yes]
          = StreamOf(delivered \o got, x, Ending, flags.eof, flags.fail, yes)
    <3>1. [s EXCEPT !.pos = x, !.bad = yes] = [[s EXCEPT !.pos = x] EXCEPT !.bad = yes]
      OBVIOUS
    <3>2. PICK s1 : s1 = [s EXCEPT !.pos = x]
      OBVIOUS
    <3>3. s1 = StreamOf(delivered \o got, x, Ending, flags.eof, flags.fail, flags.bad)
      BY <1>4, <3>2, StreamMoves
    <3>4. [s1 EXCEPT !.bad = yes]
            = StreamOf(delivered \o got, x, Ending, flags.eof, flags.fail, yes)
      BY <3>3, StreamThrows
    <3>5. QED
      BY <3>1, <3>2, <3>4
  <2>4. QED
    BY <1>6, <1>7, <1>8, <1>9, <2>2, <2>3
<1>12. Ending \in {"eof", "throw"}
  BY DEF Ending
<1>13. QED
  BY <1>1, <1>3, <1>9, <1>10, <1>11, <1>12


LEMMA MapsFull ==
  ASSUME IInv, ReadReturns, UNCHANGED codec
  PROVE  Abstract!Next
<1>1. /\ pc # "idle" /\ Len(got) = wanted /\ flags' = flags
      /\ delivered' = delivered \o got /\ result' = [words |-> got, count |-> wanted]
      /\ UNCHANGED file
  BY DEF ReadReturns, Ends
<1>2. /\ Good /\ wanted \in Sizes /\ Len(delivered) \in Nat /\ Len(Data) \in Nat
      /\ Len(got) <= Len(Data) - Len(delivered) /\ Len(got) \in Nat
  BY <1>1, Copied
<1>3. UNCHANGED <<Data, Hurt, Ending>>
  BY <1>1, <1>2 DEF Data, Hurt, Ending, GZip!Damaged, LZMA!Damaged, GZip!Deliverable,
                    LZMA!Deliverable, GZip!Complete, Good
<1>4. Mapped' = StreamOf(Data, Len(delivered \o got), Ending, flags.eof, flags.fail, flags.bad)
  BY <1>1, <1>3 DEF Mapped
<1>5. Mapped' = Read(CutTo(Len(Data)), wanted).stream
  BY <1>1, <1>4, ReadFull
<1>6. result' = [words |-> Read(CutTo(Len(Data)), wanted).words,
                 count |-> Read(CutTo(Len(Data)), wanted).count]
  BY <1>1, ReadFull
<1>7. IF Hurt THEN Len(Data) \in Len(delivered) .. Len(Data) ELSE Len(Data) = Len(Data)
  BY <1>2
<1>8. QED
  BY <1>2, <1>3, <1>5, <1>6, <1>7, MappedReads

(* The end of the file is reported; a stream that is not damaged has been  *)
(* delivered by then.                                                      *)
LEMMA MapsEof ==
  ASSUME IInv, pc # "idle", Len(got) < wanted,
         Ends(Len(got), [flags EXCEPT !.eof = TRUE, !.fail = TRUE]),
         UNCHANGED <<codec, file>>, Ending = "eof",
         codec = "xz" \/ ~Hurt => Data = delivered \o got
  PROVE  Abstract!Next
<1>1. /\ delivered' = delivered \o got /\ result' = [words |-> got, count |-> Len(got)]
      /\ flags' = [flags EXCEPT !.eof = TRUE, !.fail = TRUE]
  BY DEF Ends
<1>2. flags \in [eof : BOOLEAN, fail : BOOLEAN, bad : BOOLEAN]
  BY DEF IInv, Common, DecodedTypeOK
<1>3. flags'.eof = TRUE /\ flags'.fail = TRUE /\ flags'.bad = flags.bad
  BY <1>1, <1>2
<1>4. PICK kept : kept = Len(delivered \o got)
  OBVIOUS
<1>5. /\ Good /\ wanted \in Sizes /\ kept \in Len(delivered) .. Len(Data)
  BY <1>4, Copied
<1>6. UNCHANGED <<Hurt, Ending>>
  BY DEF Hurt, Ending, GZip!Damaged, LZMA!Damaged, GZip!Complete
<1>7. Data' = delivered \o got
  <2>1. CASE codec = "gz"
    BY <1>1, <1>3, <2>1 DEF Data, GZip!Deliverable
  <2>2. CASE codec = "xz"
    <3>1. Data' = Data
      BY <1>1, <1>3, <1>5, <2>2 DEF Data, LZMA!Deliverable, Good
    <3>2. QED
      BY <2>2, <3>1
  <2>3. QED
    BY <2>1, <2>2 DEF IInv, DecoderTypes
<1>8. Mapped' = StreamOf(delivered \o got, kept, "eof", TRUE, TRUE, flags.bad)
  BY <1>1, <1>3, <1>4, <1>6, <1>7 DEF Mapped
<1>9. /\ Read(CutTo(kept), wanted).words = got
      /\ Read(CutTo(kept), wanted).count = Len(got)
      /\ Read(CutTo(kept), wanted).stream
           = StreamOf(delivered \o got, kept, "eof", TRUE, TRUE, flags.bad)
  BY <1>4, ReadShort
<1>10. IF Hurt THEN kept \in Len(delivered) .. Len(Data) ELSE kept = Len(Data)
  BY <1>4, <1>5
<1>11. Mapped' = Read(CutTo(kept), wanted).stream
  BY <1>8, <1>9
<1>12. result' = [words |-> Read(CutTo(kept), wanted).words,
                  count |-> Read(CutTo(kept), wanted).count]
  BY <1>1, <1>9
<1>13. QED
  BY <1>5, <1>6, <1>10, <1>11, <1>12, MappedReads

LEMMA MapsThrown ==
  ASSUME IInv, pc # "idle", Len(got) < wanted, codec = "xz", LZMA!Damaged,
         Ends(0, [flags EXCEPT !.bad = TRUE]), UNCHANGED <<codec, file>>
  PROVE  Abstract!Next
<1>1. /\ delivered' = delivered \o got /\ result' = [words |-> got, count |-> 0]
      /\ flags' = [flags EXCEPT !.bad = TRUE]
  BY DEF Ends
<1>2. flags \in [eof : BOOLEAN, fail : BOOLEAN, bad : BOOLEAN]
  BY DEF IInv, Common, DecodedTypeOK
<1>3. flags'.eof = flags.eof /\ flags'.fail = flags.fail /\ flags'.bad = TRUE
  BY <1>1, <1>2
<1>4. PICK kept : kept = Len(delivered \o got)
  OBVIOUS
<1>5. wanted \in Sizes /\ kept \in Len(delivered) .. Len(Data)
  BY <1>4, Copied
<1>6. UNCHANGED <<Hurt, Ending>> /\ Hurt /\ Ending = "throw"
  BY DEF Hurt, Ending, GZip!Damaged, LZMA!Damaged, GZip!Complete
<1>7. Data' = delivered \o got
  BY <1>1, <1>3 DEF Data, LZMA!Deliverable
<1>8. Mapped' = StreamOf(delivered \o got, kept, "throw", flags.eof, flags.fail, TRUE)
  BY <1>1, <1>3, <1>4, <1>6, <1>7 DEF Mapped
<1>9. /\ Read(CutTo(kept), wanted).words = got
      /\ Read(CutTo(kept), wanted).count = 0
      /\ Read(CutTo(kept), wanted).stream
           = StreamOf(delivered \o got, kept, "throw", flags.eof, flags.fail, TRUE)
  BY <1>4, <1>6, ReadShort
<1>10. IF Hurt THEN kept \in Len(delivered) .. Len(Data) ELSE kept = Len(Data)
  BY <1>5, <1>6
<1>11. Mapped' = Read(CutTo(kept), wanted).stream
  BY <1>8, <1>9
<1>12. result' = [words |-> Read(CutTo(kept), wanted).words,
                  count |-> Read(CutTo(kept), wanted).count]
  BY <1>1, <1>9
<1>13. QED
  BY <1>5, <1>6, <1>10, <1>11, <1>12, MappedReads


-----------------------------------------------------------------------------
(***************************************************************************)
(* Every step of a decoder is a read of ByteStream, or invisible.          *)
(***************************************************************************)
LEMMA GZipEof ==
  ASSUME IInv, codec = "gz", GZip!UnderflowReturns, output = <<>>, UNCHANGED codec
  PROVE  Abstract!Next
<1>1. /\ pc = "decoded" /\ UNCHANGED file
      /\ Ends(Len(got), [flags EXCEPT !.eof = TRUE, !.fail = TRUE])
  BY DEF GZip!UnderflowReturns, GZip!EofSeen, GZip!Ends, Ends
<1>2. /\ Common /\ GZipInv /\ error_ \in {"Z_OK", "Z_STREAM_END", "Z_DATA_ERROR"}
      /\ Exhausted /\ area = <<>> /\ Len(got) < wanted /\ ~flags.eof
  BY <1>1 DEF IInv, DecoderTypes, GZipInv, Common, Reading, Good
<1>3. Ending = "eof"
  BY DEF Ending
<1>4. ASSUME ~Hurt
      PROVE  Data = delivered \o got
  <2>1. GZip!Complete(file)
    BY <1>4 DEF Hurt, GZip!Damaged
  <2>2. error_ = "Z_STREAM_END"
    BY <1>2, <2>1, CompleteEnds
  <2>3. pending = <<>> /\ GZip!Upcoming = <<>>
    BY <1>2, <2>2 DEF GZipInv, GZip!Upcoming
  <2>4. delivered \o got \o area \o output \o pending \o GZip!Upcoming = Data
    BY <1>2, LosesNothing DEF NothingLost, GZip!NothingLost, Data, GZip!Deliverable
  <2>5. delivered \o got \o <<>> = delivered \o got
    BY DataIs, ConcatEmptySeq
  <2>6. QED
    BY <1>2, <2>3, <2>4, <2>5
<1>5. QED
  BY <1>1, <1>2, <1>3, <1>4, MapsEof

LEMMA LZMAEof ==
  ASSUME IInv, codec = "xz", LZMA!UnderflowAtEnd, UNCHANGED codec
  PROVE  Abstract!Next
<1>1. /\ pc = "copy" /\ outputDone_ /\ area = <<>> /\ Len(got) < wanted /\ UNCHANGED file
      /\ Ends(Len(got), [flags EXCEPT !.eof = TRUE, !.fail = TRUE])
  BY DEF LZMA!UnderflowAtEnd, LZMA!NeedsMore, LZMA!EofSeen, LZMA!Ends, Ends
<1>2. /\ ~LZMA!Damaged /\ LZMA!Decodable(file) = Passed /\ pending = <<>> /\ output = <<>>
  BY <1>1, DoneIs
<1>3. ~flags.bad
  BY <1>1 DEF IInv, Common, Reading, Good
<1>4. delivered \o got \o <<>> = delivered \o got
  BY DataIs, ConcatEmptySeq
<1>5. Data = delivered \o got
  BY <1>1, <1>2, <1>3, <1>4 DEF Data, LZMA!Deliverable, Passed
<1>6. Ending = "eof"
  BY <1>2 DEF Ending
<1>7. QED
  BY <1>1, <1>5, <1>6, MapsEof

LEMMA LZMADecodes ==
  ASSUME IInv, IInv', codec = "xz", LZMA!Decode, UNCHANGED codec
  PROVE  Abstract!Next \/ UNCHANGED Abstract!vars
<1>1. /\ pc = "decode" /\ UNCHANGED <<file, output>>
      /\ \/ UNCHANGED <<wanted, got, flags, delivered, result>>
         \/ /\ area' = <<>> /\ outputDone_'
            /\ Ends(Len(got), [flags EXCEPT !.eof = TRUE, !.fail = TRUE])
  BY DEF LZMA!Decode, LZMA!ioVars, LZMA!EofSeen, LZMA!Ends, Ends
<1>2. CASE UNCHANGED <<wanted, got, flags, delivered, result>>
  BY <1>1, <1>2, MappedStutters
<1>3. CASE /\ area' = <<>> /\ outputDone_'
           /\ Ends(Len(got), [flags EXCEPT !.eof = TRUE, !.fail = TRUE])
  <2>1. (/\ ~LZMA!Damaged /\ LZMA!Decodable(file) = Passed
         /\ pending = <<>> /\ output = <<>>)'
    BY <1>3, DoneIsNext
  <2>2. ~LZMA!Damaged /\ LZMA!Decodable(file) = Passed'
    <3>1. LZMA!Damaged' = LZMA!Damaged
      BY <1>1 DEF LZMA!Damaged
    <3>2. LZMA!Decodable(file)' = LZMA!Decodable(file)
      BY <1>1
    <3>3. QED
      BY <2>1, <3>1, <3>2
  <2>3. /\ delivered \o got \in Seq(Word) /\ Len(got) < wanted /\ ~flags.bad
        /\ delivered' \o got' = delivered \o got
    BY <1>1, <1>3, DataIs, EndsPassed DEF IInv, Common, Reading, Good
  <2>4. delivered \o got \o <<>> = delivered \o got
    BY <2>3, ConcatEmptySeq
  <2>5. Passed' = delivered \o got
    BY <1>3, <2>1, <2>3, <2>4 DEF Passed
  <2>6. Data = delivered \o got /\ Ending = "eof"
    BY <2>2, <2>3, <2>5 DEF Data, LZMA!Deliverable, Ending
  <2>7. QED
    BY <1>1, <1>3, <2>3, <2>6, MapsEof
<1>4. QED
  BY <1>1, <1>2, <1>3

(* lzma_code() fails only on a damaged file: on a bad unit, or when it is  *)
(* out of input inside a stream.                                           *)
LEMMA ThrowsOnDamage ==
  ASSUME IInv, codec = "xz", LZMA!DecodeThrows
  PROVE  LZMA!Damaged
<1>1. PICK k \in Taken(input, OutSize, {"bad"}) : LZMA!Fails(k)
  BY SameTaken DEF LZMA!DecodeThrows
<1>2. pc = "decode" /\ Common /\ LZMAInv
  BY DEF LZMA!DecodeThrows, IInv
<1>3. /\ Consumed \in Nat /\ Consumed <= pos /\ Consumed <= Len(file)
      /\ Len(input) = pos - Consumed /\ input = Slice(file, Consumed, pos)
      /\ file \in Seq(Unit) /\ Len(file) \in Nat /\ pos \in Nat /\ pos <= Len(file)
      /\ input \in Seq(Unit) /\ pending \in Seq(Word) /\ OutSize \in Nat \ {0}
      /\ DOMAIN file = 1 .. Len(file)
  BY <1>2, BufferedSlices, BufferTypes, PassedType, LenProperties DEF Common
<1>4. /\ k \in 0 .. Len(input)
      /\ k = Len(input) \/ Len(Yield(input, k)) >= OutSize
                        \/ (k > 0 /\ input[k].kind \in {"bad"})
  BY <1>3, TakenProperties
<1>5. CASE k > 0 /\ input[k].kind = "bad"
  <2>1. PICK c : c = Consumed
    OBVIOUS
  <2>2. \A j \in 1 .. pos - c : Slice(file, c, pos)[j] = file[c + j]
    <3>1. c \in Nat /\ pos \in Nat /\ c <= pos /\ pos <= Len(file) /\ file \in Seq(Unit)
      BY <1>3, <2>1
    <3>2. QED
      BY <3>1, SliceProperties
  <2>3. k \in 1 .. pos - c /\ c + k \in 1 .. Len(file)
    BY <1>3, <1>4, <1>5, <2>1
  <2>4. file[c + k].kind = "bad"
    BY <1>3, <1>5, <2>1, <2>2, <2>3
  <2>5. QED
    BY <1>3, <2>3, <2>4 DEF LZMA!Damaged
<1>6. CASE LZMA!Idles(k) /\ ~LZMA!StreamEnd(k) /\ stalled
  <2>1. k = 0 /\ pending = <<>> /\ ~LZMA!StreamEnd(0)
    BY <1>6 DEF LZMA!Idles
  <2>2. Yield(input, 0) = <<>>
    <3>1. 0 <= Len(input) /\ 0 \in Nat
      BY <1>3
    <3>2. SubSeq(input, 1, 0) = <<>>
      BY <1>3, <3>1, SliceEdges, FromStart
    <3>3. <<>> \o <<>> = <<>>
      BY ConcatEmptySeq, EmptySeq
    <3>4. QED
      BY <2>1, <3>2, <3>3, DecodedEmpty DEF Yield
  <2>3. Len(input) = 0
    BY <1>3, <1>4, <2>1, <2>2, EmptySeq
  <2>4. input = <<>> /\ Consumed = pos
    BY <1>3, <2>3, EmptySeq
  <2>5. inputDone_ /\ pos = Len(file)
    BY <1>2, <2>4 DEF LZMAInv
  <2>6. ~atEnd
    <3>1. Len(LZMA!Yield(input, 0)) <= OutSize
      BY <1>3, <2>2, SameYield, EmptySeq
    <3>2. ~(inputDone_ /\ 0 = Len(input) /\ atEnd /\ Len(LZMA!Yield(input, 0)) <= OutSize)
      BY <2>1 DEF LZMA!StreamEnd, LZMA!Ended
    <3>3. QED
      BY <2>3, <2>5, <3>1, <3>2
  <2>7. ~(Len(file) > 0 /\ file[Len(file)].kind = "end")
    BY <1>2, <2>4, <2>5, <2>6 DEF LZMAInv
  <2>8. file = <<>> \/ LZMA!Last(file).kind # "end"
    BY <1>3, <2>7, EmptySeq DEF LZMA!Last
  <2>9. QED
    BY <2>8 DEF LZMA!Damaged
<1>7. QED
  BY <1>1, <1>5, <1>6 DEF LZMA!Fails

LEMMA LZMAThrows ==
  ASSUME IInv, codec = "xz", LZMA!DecodeThrows, UNCHANGED codec
  PROVE  Abstract!Next
<1>1. /\ pc = "decode" /\ UNCHANGED file /\ Ends(0, [flags EXCEPT !.bad = TRUE])
  BY DEF LZMA!DecodeThrows, LZMA!Thrown, LZMA!Ends, Ends
<1>2. Len(got) < wanted
  BY <1>1 DEF IInv, Common, Reading
<1>3. QED
  BY <1>1, <1>2, ThrowsOnDamage, MapsThrown

LEMMA ServedMaps ==
  ASSUME IInv, Served, UNCHANGED codec
  PROVE  Abstract!Next \/ UNCHANGED Abstract!vars
<1>1. CASE \E n \in Sizes : CallReadFails(n)
  BY <1>1, MapsFailed
<1>2. CASE ReadReturns
  BY <1>2, MapsFull
<1>3. CASE Copy \/ \E n \in Sizes : CallRead(n)
  <2>1. UNCHANGED <<codec, file, flags, delivered, result>>
    BY <1>3 DEF Copy, CallRead
  <2>2. QED
    BY <2>1, MappedStutters
<1>4. QED
  BY <1>1, <1>2, <1>3 DEF Served

LEMMA StepMaps ==
  ASSUME IInv, IInv', [Next]_vars
  PROVE  Abstract!Next \/ UNCHANGED Abstract!vars
<1>1. CASE UNCHANGED vars
  <2>1. UNCHANGED <<codec, file, flags, delivered, result>>
    BY <1>1 DEF vars, ioVars
  <2>2. QED
    BY <2>1, MappedStutters
<1>2. CASE Next /\ codec = "gz"
  <2>1. (Step \/ ReadCalled) /\ UNCHANGED codec
    BY <1>2 DEF Next, Step, ReadCalled
  <2>2. \/ Served \/ GZip!Underflow \/ GZip!Iterate \/ GZip!UnderflowReturns
    BY <1>2, <2>1, GZipCases
  <2>3. CASE Served
    BY <2>1, <2>3, ServedMaps
  <2>4. CASE GZip!Underflow \/ GZip!Iterate \/ (GZip!UnderflowReturns /\ output # <<>>)
    <3>1. UNCHANGED <<codec, file, flags, delivered, result>>
      BY <2>1, <2>4 DEF GZip!Underflow, GZip!Iterate, GZip!UnderflowReturns, GZip!ioVars
    <3>2. QED
      BY <3>1, MappedStutters
  <2>5. CASE GZip!UnderflowReturns /\ output = <<>>
    BY <1>2, <2>1, <2>5, GZipEof
  <2>6. QED
    BY <2>2, <2>3, <2>4, <2>5
<1>3. CASE Next /\ codec = "xz"
  <2>1. (Step \/ ReadCalled) /\ UNCHANGED codec
    BY <1>3 DEF Next, Step, ReadCalled
  <2>2. \/ Served \/ LZMA!Underflow \/ LZMA!UnderflowAtEnd \/ LZMA!Fill \/ LZMA!NoFill
        \/ LZMA!Decode \/ LZMA!DecodeThrows
    BY <1>3, <2>1, LZMACases
  <2>3. CASE Served
    BY <2>1, <2>3, ServedMaps
  <2>4. CASE LZMA!Underflow \/ LZMA!Fill \/ LZMA!NoFill
    <3>1. UNCHANGED <<codec, file, flags, delivered, result>>
      BY <2>1, <2>4 DEF LZMA!Underflow, LZMA!Fill, LZMA!NoFill, LZMA!ioVars
    <3>2. QED
      BY <3>1, MappedStutters
  <2>5. CASE LZMA!UnderflowAtEnd
    BY <1>3, <2>1, <2>5, LZMAEof
  <2>6. CASE LZMA!Decode
    BY <1>3, <2>1, <2>6, LZMADecodes
  <2>7. CASE LZMA!DecodeThrows
    BY <1>3, <2>1, <2>7, LZMAThrows
  <2>8. QED
    BY <2>2, <2>3, <2>4, <2>5, <2>6, <2>7
<1>4. QED
  BY <1>1, <1>2, <1>3 DEF IInv, DecoderTypes

LEMMA InitMaps == Init => Abstract!Init
<1>1. SUFFICES ASSUME Init
               PROVE  Abstract!Init
  OBVIOUS
<1>2. /\ flags = [eof |-> FALSE, fail |-> FALSE, bad |-> FALSE] /\ delivered = <<>>
      /\ result = [words |-> <<>>, count |-> 0]
  BY <1>1 DEF Init, GZip!Init, GZip!DecodedInit
<1>3. QED
  BY <1>2, EmptySeq DEF Abstract!Init, Abstract!Stream

(***************************************************************************)
(* Whatever file is behind it, whichever sizes are asked for and however   *)
(* small its buffers are, the stream in front of a decoder is the one that *)
(* FileReader is modelled with: ByteStream, with the data fixed from the   *)
(* start.                                                                  *)
(***************************************************************************)
THEOREM Implements == Spec => ImplementsByteStream
<1>1. IInv /\ IInv' /\ [Next]_vars => [Abstract!Next]_Abstract!vars
  BY StepMaps
<1>2. QED
  BY <1>1, InitMaps, Invariance, PTL DEF Spec, ImplementsByteStream, Abstract!Spec
=============================================================================
