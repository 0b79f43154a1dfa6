------------------------- MODULE PinnedRequest_proofs -------------------------
(***************************************************************************)
(* For any heads and bodies: what decode_chunked makes of the first bytes  *)
(* of a body, and from that the bodies that requests return.  The decoder, *)
(* a loop over the buffer, is a recursive function here; its values follow *)
(* from facts about each of its rounds, last chunk first.                  *)
(***************************************************************************)
EXTENDS PinnedRequest, SequenceTheorems, FiniteSetTheorems, TLAPS

-----------------------------------------------------------------------------
(* Recursive functions, and what FlattenSeq makes of sequences of bytes.   *)

\* Induction for a set of numbers, from finite sets: the library's theorem takes
\* an operator.
LEMMA NatSetInduction ==
  ASSUME NEW S, 0 \in S, \A n \in Nat : n \in S => n + 1 \in S
  PROVE  Nat \subseteq S
<1> SUFFICES ASSUME NEW m \in Nat, m \notin S PROVE FALSE
  OBVIOUS
<1> DEFINE Below == {k \in 0..m : k \in S}
           f == [k \in Below |-> k + 1]
<1>1. IsFiniteSet(Below)
  <2>1. IsFiniteSet(0..m)
    BY FS_Interval, 0 \in Int, m \in Int
  <2> QED BY <2>1, FS_Subset, Below \in SUBSET (0..m)
<1>2. /\ IsFiniteSet(Below \ {0})
      /\ Cardinality(Below \ {0}) = Cardinality(Below) - 1
  BY <1>1, FS_RemoveElement, 0 \in Below
<1>3. f \in [Below -> Below \ {0}]
  OBVIOUS
<1>4. Cardinality(Below \ {0}) < Cardinality(Below)
  BY <1>1, <1>2, FS_CardinalityType
<1>5. \E x, y \in Below : x # y /\ f[x] = f[y]
  <2> HIDE DEF Below, f
  <2> QED BY <1>1, <1>2, <1>3, <1>4, FS_PigeonHole
<1> QED BY <1>5

\* A function on 0..n is defined by its first value and a step, which is a
\* function of the position and of the value before.
LEMMA Recursion ==
  ASSUME NEW A, NEW a \in A, NEW n \in Nat, NEW step \in [1..n -> [A -> A]]
  PROVE  \E h \in [0..n -> A] : h[0] = a /\ \A k \in 1..n : h[k] = step[k][h[k - 1]]
<1> DEFINE Good(m, h) == h[0] = a /\ \A k \in 1..m : h[k] = step[k][h[k - 1]]
           S == {m \in Nat : m <= n => \E h \in [0..m -> A] : Good(m, h)}
<1>1. 0 \in S
  <2>1. Good(0, [k \in 0..0 |-> a]) /\ [k \in 0..0 |-> a] \in [0..0 -> A]
    OBVIOUS
  <2> QED BY <2>1
<1>2. ASSUME NEW m \in Nat, m \in S PROVE m + 1 \in S
  <2> SUFFICES ASSUME m + 1 <= n PROVE \E h \in [0..(m + 1) -> A] : Good(m + 1, h)
    OBVIOUS
  <2>1. PICK h \in [0..m -> A] : Good(m, h)
    BY <1>2
  <2> DEFINE i == [k \in 0..(m + 1) |-> IF k <= m THEN h[k] ELSE step[m + 1][h[m]]]
  <2>2. h[m] \in A /\ m + 1 \in 1..n
    OBVIOUS
  <2>3. step[m + 1][h[m]] \in A
    BY <2>2
  <2>4. i \in [0..(m + 1) -> A]
    BY <2>3
  <2>5. i[0] = a
    BY <2>1
  <2>6. ASSUME NEW k \in 1..(m + 1) PROVE i[k] = step[k][i[k - 1]]
    <3>1. CASE k = m + 1
      BY <3>1
    <3>2. CASE k # m + 1
      <4>1. k \in 1..m /\ k <= m /\ k - 1 <= m /\ k \in 0..(m + 1) /\ k - 1 \in 0..(m + 1)
        BY <3>2
      <4> QED BY <4>1, <2>1
    <3> QED BY <3>1, <3>2
  <2> QED BY <2>4, <2>5, <2>6
<1>3. n \in S
  <2> HIDE DEF S
  <2> QED BY <1>1, <1>2, NatSetInduction
<1> QED BY <1>3

\* What is read and returned.
Text == Seq(Byte)

\* FlattenSeq puts the parts behind one another.
LEMMA Flattened ==
  ASSUME NEW ss \in Seq(Text)
  PROVE  \E f \in [0..Len(ss) -> Text] :
           /\ f[0] = <<>> /\ f[Len(ss)] = FlattenSeq(ss)
           /\ \A i \in 1..Len(ss) : f[i] = f[i - 1] \o ss[i]
<1> DEFINE n == Len(ss)
           step == [i \in 1..n |-> [x \in Text |-> x \o ss[i]]]
<1>1. n \in Nat /\ \A i \in 1..n : ss[i] \in Text
  BY LenProperties, ElementOfSeq
<1>2. step \in [1..n -> [Text -> Text]]
  BY <1>1, ConcatProperties DEF Text
<1>3. <<>> \in Text
  BY DEF Text
<1>4. PICK h \in [0..n -> Text] : h[0] = <<>> /\ \A i \in 1..n : h[i] = step[i][h[i - 1]]
  <2>1. n \in Nat
    BY <1>1
  <2> HIDE DEF n, step
  <2> DEFINE e == <<>>
  <2>3. e \in Text
    BY <1>3
  <2> HIDE DEF e
  <2>4. \E g \in [0..n -> Text] : g[0] = e /\ \A k \in 1..n : g[k] = step[k][g[k - 1]]
    BY <2>1, <2>3, <1>2, Recursion
  <2> USE DEF e
  <2> QED BY <2>4
<1>5. \A i \in 1..n : h[i] = h[i - 1] \o ss[i]
  <2> SUFFICES ASSUME NEW i \in 1..n PROVE h[i] = h[i - 1] \o ss[i]
    OBVIOUS
  <2>1. i - 1 \in 0..n /\ h[i - 1] \in Text
    BY <1>1
  <2> QED BY <1>4, <2>1
<1>6. CASE n = 0
  BY <1>4, <1>5, <1>6 DEF FlattenSeq
<1>7. CASE n # 0
  <2> DEFINE F(g) == [i \in 1..n |-> IF i = 1 THEN ss[i] ELSE g[i - 1] \o ss[i]]
             flat == CHOOSE g : g = F(g)
             g0 == [i \in 1..n |-> h[i]]
  <2>1. g0 = F(g0)
    <3>1. ASSUME NEW i \in 1..n PROVE g0[i] = F(g0)[i]
      <4>1. CASE i = 1
        <5>1. h[1] = <<>> \o ss[1] /\ ss[1] \in Text
          <6>1. 1 \in 1..n
            BY <4>1
          <6>2. h[1] = h[1 - 1] \o ss[1]
            BY <1>5, <6>1
          <6>3. h[0] = <<>> /\ 1 - 1 = 0
            BY <1>4
          <6>4. h[1 - 1] = <<>>
            BY <6>3
          <6> QED BY <1>1, <6>1, <6>2, <6>4, Zenon
        <5>2. h[1] = ss[1]
          BY <5>1, ConcatEmptySeq DEF Text
        <5> QED BY <4>1, <5>2
      <4>2. CASE i # 1
        <5>1. i - 1 \in 1..n
          BY <1>1, <4>2
        <5> QED BY <1>5, <4>2, <5>1
      <4> QED BY <4>1, <4>2
    <3> QED BY <3>1
  <2>2. flat = F(flat)
    BY <2>1
  <2>3. FlattenSeq(ss) = flat[n]
    BY <1>7 DEF FlattenSeq
  <2>4. ASSUME NEW i \in 1..n PROVE flat[i] = h[i]
    <3> DEFINE S == {k \in Nat : k + 1 <= n => flat[k + 1] = h[k + 1]}
    <3>0. \A k \in 1..n : flat[k] = IF k = 1 THEN ss[k] ELSE flat[k - 1] \o ss[k]
      BY <2>2
    <3>1. \A k \in 1..n : h[k] = IF k = 1 THEN ss[k] ELSE h[k - 1] \o ss[k]
      <4>1. \A k \in 1..n : g0[k] = IF k = 1 THEN ss[k] ELSE g0[k - 1] \o ss[k]
        BY <2>1
      <4>2. \A k \in 1..n : k # 1 => k - 1 \in 1..n
        BY <1>1
      <4> QED BY <4>1, <4>2
    <3> HIDE DEF flat, n
    <3>2. 0 \in S
      BY <3>0, <3>1, <1>1
    <3>3. ASSUME NEW k \in Nat, k \in S PROVE k + 1 \in S
      <4> SUFFICES ASSUME (k + 1) + 1 <= n PROVE flat[(k + 1) + 1] = h[(k + 1) + 1]
        OBVIOUS
      <4>1. flat[k + 1] = h[k + 1]
        BY <3>3, <1>1
      <4>2. (k + 1) + 1 \in 1..n /\ (k + 1) + 1 # 1 /\ ((k + 1) + 1) - 1 = k + 1
        BY <1>1
      <4> QED BY <3>0, <3>1, <4>1, <4>2
    <3>4. Nat \subseteq S
      <4> HIDE DEF S
      <4> QED BY <3>2, <3>3, NatSetInduction
    <3>5. i - 1 \in Nat /\ (i - 1) + 1 = i /\ i <= n
      BY <1>1
    <3> QED BY <3>4, <3>5
  <2>5. h[n] = FlattenSeq(ss)
    BY <1>1, <1>7, <2>3, <2>4
  <2> QED BY <1>4, <1>5, <2>5
<1> QED BY <1>6, <1>7

-----------------------------------------------------------------------------
(* Where the parts of a flattened sequence lie, and the sizes of chunks.   *)

\* Two texts behind one another.
LEMMA ConcatParts ==
  ASSUME NEW a \in Text, NEW b \in Text
  PROVE  /\ a \o b \in Text
         /\ Len(a) \in Nat /\ Len(b) \in Nat /\ Len(a \o b) = Len(a) + Len(b)
         /\ \A k \in 1..Len(a) : (a \o b)[k] = a[k]
         /\ \A k \in 1..Len(b) : (a \o b)[Len(a) + k] = b[k]
BY DEF Text

LEMMA Farther == \A a, b, c, d \in Nat : a <= b /\ d = b + c => a <= d
OBVIOUS

LEMMA Within == \A a, b \in Nat : \A k \in 1..b : a + k \in 1..(a + b)
OBVIOUS

\* Where the parts of a flattened sequence lie in it.
LEMMA Offsets ==
  ASSUME NEW ss \in Seq(Text)
  PROVE  /\ FlattenSeq(ss) \in Text
         /\ \E at \in [0..Len(ss) -> Nat] :
              /\ at[0] = 0 /\ at[Len(ss)] = Len(FlattenSeq(ss))
              /\ \A i \in 1..Len(ss) :
                   /\ at[i] = at[i - 1] + Len(ss[i]) /\ at[i] <= at[Len(ss)]
                   /\ \A k \in 1..Len(ss[i]) : FlattenSeq(ss)[at[i - 1] + k] = ss[i][k]
<1> DEFINE n == Len(ss)
<1>1. n \in Nat /\ \A i \in 1..n : ss[i] \in Text
  BY LenProperties, ElementOfSeq
<1>2. PICK f \in [0..n -> Text] :
        /\ f[0] = <<>> /\ f[n] = FlattenSeq(ss)
        /\ \A i \in 1..n : f[i] = f[i - 1] \o ss[i]
  BY Flattened
<1> DEFINE Extends(i, j) == Len(f[i]) <= Len(f[j]) /\ \A k \in 1..Len(f[i]) : f[j][k] = f[i][k]
<1> HIDE DEF n
<1>3. ASSUME NEW i \in 1..n
      PROVE  /\ f[i - 1] \in Text /\ f[i] \in Text /\ Len(f[i - 1]) \in Nat /\ Len(ss[i]) \in Nat
             /\ Len(f[i]) = Len(f[i - 1]) + Len(ss[i])
             /\ \A k \in 1..Len(f[i - 1]) : f[i][k] = f[i - 1][k]
             /\ \A k \in 1..Len(ss[i]) : f[i][Len(f[i - 1]) + k] = ss[i][k]
  <2>1. f[i - 1] \in Text /\ ss[i] \in Text /\ f[i] = f[i - 1] \o ss[i] /\ f[i] \in Text
    BY <1>1, <1>2, i - 1 \in 0..n
  <2> DEFINE a == f[i - 1]
             b == ss[i]
  <2> HIDE DEF a, b
  <2>2. /\ Len(a) \in Nat /\ Len(b) \in Nat /\ Len(a \o b) = Len(a) + Len(b)
        /\ \A k \in 1..Len(a) : (a \o b)[k] = a[k]
        /\ \A k \in 1..Len(b) : (a \o b)[Len(a) + k] = b[k]
    <3>1. a \in Text /\ b \in Text
      BY <2>1 DEF a, b
    <3> QED BY <3>1, ConcatParts
  <2>3. f[i] = a \o b
    BY <2>1 DEF a, b
  <2> QED BY <2>1, <2>2, <2>3, Zenon DEF a, b
<1>4. ASSUME NEW i \in 0..n PROVE Extends(i, n)
  <2> DEFINE S == {m \in Nat : i + m <= n => Extends(i, i + m)}
  <2>1. 0 \in S
    <3>1. f[i] \in Text /\ Len(f[i]) \in Nat /\ i + 0 = i
      BY LenProperties DEF Text
    <3> QED BY <3>1
  <2>2. ASSUME NEW m \in Nat, m \in S PROVE m + 1 \in S
    <3> SUFFICES ASSUME i + (m + 1) <= n PROVE Extends(i, i + (m + 1))
      OBVIOUS
    <3>1. Extends(i, i + m)
      BY <2>2, <1>1
    <3>2. PICK j \in 1..n : j = i + (m + 1) /\ j - 1 = i + m
      BY <1>1
    <3>3. /\ Len(f[j - 1]) \in Nat /\ Len(ss[j]) \in Nat
          /\ Len(f[j]) = Len(f[j - 1]) + Len(ss[j])
          /\ \A k \in 1..Len(f[j - 1]) : f[j][k] = f[j - 1][k]
      BY <1>3
    <3>4. Len(f[i]) \in Nat /\ Extends(i, j - 1)
      BY <3>1, <3>2, LenProperties DEF Text
    <3>5. Extends(i, j)
      <4>1. Len(f[i]) <= Len(f[j])
        <5>1. Len(f[j]) \in Nat
          BY <1>3
        <5> QED BY <3>3, <3>4, <5>1, Farther
      <4>2. ASSUME NEW k \in 1..Len(f[i]) PROVE f[j][k] = f[i][k]
        <5>1. k \in 1..Len(f[j - 1]) /\ f[j - 1][k] = f[i][k]
          BY <3>3, <3>4
        <5> QED BY <5>1, <3>3
      <4> QED BY <4>1, <4>2
    <3> QED BY <3>2, <3>5
  <2>3. n - i \in S
    <3> HIDE DEF S
    <3> QED BY <2>1, <2>2, <1>1, NatSetInduction, n - i \in Nat
  <2>4. i + (n - i) = n
    BY <1>1
  <2> QED BY <2>3, <2>4, <1>1
<1> DEFINE at == [i \in 0..n |-> Len(f[i])]
<1>5. at \in [0..n -> Nat] /\ at[0] = 0 /\ at[n] = Len(FlattenSeq(ss))
  <2>1. \A i \in 0..n : Len(f[i]) \in Nat
    BY LenProperties DEF Text
  <2>2. Len(f[0]) = 0 /\ 0 \in 0..n /\ n \in 0..n
    BY <1>1, <1>2
  <2> QED BY <2>1, <2>2, <1>2
<1>6. ASSUME NEW i \in 1..n
      PROVE  /\ at[i] = at[i - 1] + Len(ss[i]) /\ at[i] <= at[n]
             /\ \A k \in 1..Len(ss[i]) : FlattenSeq(ss)[at[i - 1] + k] = ss[i][k]
  <2>1. i \in 0..n /\ i - 1 \in 0..n /\ n \in 0..n
    BY <1>1
  <2>2. at[i] = Len(f[i]) /\ at[i - 1] = Len(f[i - 1]) /\ at[n] = Len(f[n])
    BY <2>1
  <2>3. Extends(i, n)
    BY <1>4, <2>1
  <2>4. ASSUME NEW k \in 1..Len(ss[i]) PROVE f[n][Len(f[i - 1]) + k] = ss[i][k]
    <3>1. /\ Len(f[i - 1]) \in Nat /\ Len(ss[i]) \in Nat
          /\ Len(f[i]) = Len(f[i - 1]) + Len(ss[i])
          /\ f[i][Len(f[i - 1]) + k] = ss[i][k]
      BY <1>3
    <3>2. Len(f[i - 1]) + k \in 1..Len(f[i])
      BY <3>1, Within
    <3> QED BY <2>3, <3>1, <3>2
  <2> HIDE DEF at
  <2> QED BY <1>2, <1>3, <2>2, <2>3, <2>4
<1>7. FlattenSeq(ss) \in Text
  BY <1>1, <1>2, n \in 0..n
<1>8. \E a \in [0..n -> Nat] :
        /\ a[0] = 0 /\ a[n] = Len(FlattenSeq(ss))
        /\ \A i \in 1..n :
             /\ a[i] = a[i - 1] + Len(ss[i]) /\ a[i] <= a[n]
             /\ \A k \in 1..Len(ss[i]) : FlattenSeq(ss)[a[i - 1] + k] = ss[i][k]
  <2> HIDE DEF at
  <2> QED BY <1>5, <1>6
<1> QED BY <1>7, <1>8 DEF n

-----------------------------------------------------------------------------
(* The lines of a chunked body, and the decoder round by round.            *)

\* A set of numbers that is not empty has a least one.
LEMMA Least ==
  ASSUME NEW T \in SUBSET Nat, NEW t \in T
  PROVE  \E m \in T : \A k \in T : m <= k
<1> SUFFICES ASSUME \A m \in T : \E k \in T : ~(m <= k) PROVE FALSE
  OBVIOUS
<1> DEFINE S == {n \in Nat : \A k \in 0..n : k \notin T}
<1>1. 0 \in S
  OBVIOUS
<1>2. ASSUME NEW n \in Nat, n \in S PROVE n + 1 \in S
  <2>1. n + 1 \notin T
    BY <1>2
  <2> QED BY <1>2, <2>1
<1>3. Nat \subseteq S
  <2> HIDE DEF S
  <2> QED BY <1>1, <1>2, NatSetInduction
<1>4. t \in S /\ t \in 0..t
  BY <1>3
<1> QED BY <1>4

\* A line ends at its first line end, or behind the data.
LEMMA LineEndType ==
  ASSUME NEW d \in Text, NEW i \in 1..(Len(d) + 1)
  PROVE  LineEnd(d, i) \in i..(Len(d) + 1)
<1>1. Len(d) \in Nat
  BY LenProperties DEF Text
<1> DEFINE T == {k \in i..Len(d) : d[k] = "r"}
<1>2. CASE \E k \in i..Len(d) : d[k] = "r"
  <2>1. T \in SUBSET Nat /\ T # {}
    BY <1>1, <1>2
  <2>2. \E m \in T : \A k \in T : m <= k
    <3> HIDE DEF T
    <3> QED BY <2>1, Least
  <2>3. \E m \in i..Len(d) : d[m] = "r" /\ \A j \in i..(m - 1) : d[j] # "r"
    <3>1. PICK m \in T : \A k \in T : m <= k
      BY <2>2
    <3>2. \A j \in i..(m - 1) : d[j] # "r"
      BY <1>1, <3>1
    <3> QED BY <3>1, <3>2
  <2>4. LineEnd(d, i) \in i..Len(d)
    BY <1>2, <2>3 DEF LineEnd
  <2> QED BY <1>1, <2>4
<1>3. CASE ~\E k \in i..Len(d) : d[k] = "r"
  BY <1>1, <1>3 DEF LineEnd
<1> QED BY <1>2, <1>3

\* A size is what a usize holds.
LEMMA SizeType == ASSUME NEW line PROVE SizeOf(line) \in Nat
<1> DEFINE hex == WithoutPlus(Trimmed(BeforeExtension(line)))
           v == HexValue(hex)
<1>1. SizeOf(line) = IF Range(hex) \subseteq Range(Digits) /\ v \in 1..MaxUsize THEN v ELSE 0
  BY DEF SizeOf
<1> HIDE DEF v, hex
<1> QED BY <1>1, RequestAssumption

\* What a line has before its end is no line end, and its end is one.
LEMMA LineEndIs ==
  ASSUME NEW d \in Text, NEW i \in 1..(Len(d) + 1)
  PROVE  /\ \A k \in i..(LineEnd(d, i) - 1) : d[k] # "r"
         /\ LineEnd(d, i) <= Len(d) => d[LineEnd(d, i)] = "r"
<1>1. Len(d) \in Nat
  BY LenProperties DEF Text
<1> DEFINE T == {k \in i..Len(d) : d[k] = "r"}
           First(k) == d[k] = "r" /\ \A j \in i..(k - 1) : d[j] # "r"
<1>2. CASE \E k \in i..Len(d) : d[k] = "r"
  <2>1. T \in SUBSET Nat /\ T # {}
    BY <1>1, <1>2
  <2>2. \E m \in T : \A k \in T : m <= k
    <3> HIDE DEF T
    <3> QED BY <2>1, Least
  <2>3. \E m \in i..Len(d) : First(m)
    <3>1. PICK m \in T : \A k \in T : m <= k
      BY <2>2
    <3>2. \A j \in i..(m - 1) : d[j] # "r"
      BY <1>1, <3>1
    <3> QED BY <3>1, <3>2
  <2>4. First(LineEnd(d, i))
    BY <1>2, <2>3 DEF LineEnd
  <2> QED BY <2>4
<1>3. CASE ~\E k \in i..Len(d) : d[k] = "r"
  <2>1. LineEnd(d, i) = Len(d) + 1
    BY <1>3, Zenon DEF LineEnd
  <2> QED BY <1>1, <1>3, <2>1
<1> QED BY <1>2, <1>3

\* Where a line of that text ends, as far as it is there.
LEMMA LineEndAt ==
  ASSUME NEW d \in Text, NEW p \in 1..(Len(d) + 1), NEW line \in Text, NEW q, q = Len(line),
         \A k \in 1..q : line[k] # "r",
         \A k \in 1..q : p + k - 1 <= Len(d) => d[p + k - 1] = line[k],
         p + q <= Len(d) => d[p + q] = "r"
  PROVE  /\ LineEnd(d, p) = IF p + q <= Len(d) THEN p + q ELSE Len(d) + 1
         /\ p + q <= Len(d) => SubSeq(d, p, p + q - 1) = line
<1>1. Len(d) \in Nat /\ q \in Nat
  BY LenProperties DEF Text
<1>2. ASSUME NEW j \in p..Len(d), j < p + q PROVE d[j] # "r"
  <2>1. PICK k \in 1..q : k = j - p + 1 /\ p + k - 1 = j
    BY <1>1, <1>2
  <2>2. j <= Len(d)
    BY <1>1
  <2> QED BY <2>1, <2>2
<1>3. CASE p + q <= Len(d)
  <2> DEFINE First(k) == k \in p..Len(d) /\ d[k] = "r" /\ \A j \in p..(k - 1) : d[j] # "r"
  <2>1. First(p + q)
    <3>1. p + q \in p..Len(d) /\ \A j \in p..(p + q - 1) : j \in p..Len(d) /\ j < p + q
      BY <1>1, <1>3
    <3> QED BY <1>2, <1>3, <3>1
  <2>2. \A k : First(k) => k = p + q
    <3>1. SUFFICES ASSUME NEW k, First(k) PROVE k = p + q
      OBVIOUS
    <3>2. ~(k < p + q)
      BY <1>2, <3>1
    <3>3. ~(k > p + q)
      <4>1. k > p + q => p + q \in p..(k - 1)
        BY <1>1, <3>1
      <4> QED BY <1>3, <3>1, <4>1
    <3>4. k \in Int /\ p + q \in Int
      BY <1>1, <3>1
    <3> QED BY <3>2, <3>3, <3>4
  <2>3. LineEnd(d, p) = CHOOSE k \in p..Len(d) : d[k] = "r" /\ \A j \in p..(k - 1) : d[j] # "r"
    BY <2>1, Zenon DEF LineEnd
  <2>4. First(LineEnd(d, p))
    BY <2>1, <2>3, Zenon
  <2>5. LineEnd(d, p) = p + q
    <3> HIDE DEF First
    <3> QED BY <2>2, <2>4
  <2>6. SubSeq(d, p, p + q - 1) = line
    <3> DEFINE x == SubSeq(d, p, p + q - 1)
    <3>1. x \in Text /\ Len(x) = q /\ \A k \in 1..q : x[k] = d[p + k - 1]
      BY <1>1, <1>3 DEF Text
    <3> HIDE DEF x
    <3>2. \A k \in 1..Len(x) : x[k] = line[k]
      BY <1>1, <1>3, <3>1
    <3>3. x = line
      BY <3>1, <3>2, SeqEqual DEF Text
    <3> QED BY <3>3 DEF x
  <2> QED BY <1>3, <2>5, <2>6
<1>4. CASE ~(p + q <= Len(d))
  <2>1. ~\E k \in p..Len(d) : d[k] = "r"
    BY <1>1, <1>2, <1>4
  <2> QED BY <1>4, <2>1, Zenon DEF LineEnd
<1> QED BY <1>3, <1>4

\* One round of decode_chunked at byte i, with `rest` for what follows the chunk.
NextChunk(d, i) == LineEnd(d, i) + 2 + SizeOf(SubSeq(d, i, LineEnd(d, i) - 1)) + AfterChunk
Round(d, i, rest) ==
  LET e == LineEnd(d, i)
      n == SizeOf(SubSeq(d, i, e - 1))
  IN  IF e > Len(d) \/ n = 0 THEN <<>>
      ELSE IF e + 1 + n > MaxUsize \/ e + 1 > Len(d) THEN Panic
      ELSE IF e + 1 + n > Len(d) THEN SubSeq(d, e + 2, Len(d))
      ELSE SubSeq(d, e + 2, e + 1 + n) \o (IF NextChunk(d, i) > Len(d) THEN <<>> ELSE rest)

\* A round refers to a later byte, and the one behind the data to none.
LEMMA RoundReads ==
  ASSUME NEW d \in Text, NEW i \in 1..(Len(d) + 1)
  PROVE  /\ NextChunk(d, i) \in Nat /\ NextChunk(d, i) > i
         /\ \A x, y : NextChunk(d, i) > Len(d) => Round(d, i, x) = Round(d, i, y)
         /\ \A x : i = Len(d) + 1 => Round(d, i, x) = <<>>
<1>1. Len(d) \in Nat /\ LineEnd(d, i) \in i..(Len(d) + 1)
  BY LineEndType, LenProperties DEF Text
<1>3. SizeOf(SubSeq(d, i, LineEnd(d, i) - 1)) \in Nat
  BY SizeType
<1>4. NextChunk(d, i) \in Nat /\ NextChunk(d, i) > i
  BY <1>1, <1>3 DEF NextChunk, AfterChunk
<1>5. \A x, y : NextChunk(d, i) > Len(d) => Round(d, i, x) = Round(d, i, y)
  BY DEF Round
<1>6. \A x : i = Len(d) + 1 => Round(d, i, x) = <<>>
  BY <1>1 DEF Round
<1> QED BY <1>4, <1>5, <1>6

\* The recursive function of DecodeChunked exists: each round refers to later
\* bytes only.
LEMMA DecodeRounds ==
  ASSUME NEW d \in Text
  PROVE  \E dec : /\ DecodeChunked(d) = dec[1]
                  /\ \A i \in 1..(Len(d) + 1) : dec[i] = Round(d, i, dec[NextChunk(d, i)])
<1> DEFINE N == Len(d) + 1
           Solves(h, a) == \A i \in a..N : h[i] = Round(d, i, h[NextChunk(d, i)])
           S == {k \in Nat : k < N => \E h : Solves(h, N - k)}
           F(g) == [i \in 1..N |-> Round(d, i, g[NextChunk(d, i)])]
           dec == CHOOSE g : g = F(g)
<1>1. N \in Nat /\ N >= 1 /\ Len(d) \in Nat /\ Len(d) < N
  BY LenProperties DEF Text
<1> HIDE DEF N
<1>2. 0 \in S
  <2> DEFINE h0 == [i \in {N} |-> <<>>]
  <2>1. Solves(h0, N - 0)
    <3>1. \A i \in N..N : i = N
      BY <1>1
    <3>2. Round(d, N, h0[NextChunk(d, N)]) = <<>>
      BY <1>1, RoundReads DEF N
    <3> QED BY <1>1, <3>1, <3>2
  <2> QED BY <2>1
<1>3. ASSUME NEW k \in Nat, k \in S PROVE k + 1 \in S
  <2> SUFFICES ASSUME k + 1 < N PROVE \E h : Solves(h, N - (k + 1))
    OBVIOUS
  <2>1. PICK h : Solves(h, N - k)
    BY <1>1, <1>3
  <2> DEFINE a == N - (k + 1)
             x == Round(d, a, h[NextChunk(d, a)])
             h2 == [i \in a..N |-> IF i = a THEN x ELSE h[i]]
  <2>2. a \in 1..N /\ a + 1 = N - k
    BY <1>1
  <2> HIDE DEF a
  <2>3. ASSUME NEW i \in a..N PROVE h2[i] = Round(d, i, h2[NextChunk(d, i)])
    <3>1. i \in 1..(Len(d) + 1)
      BY <2>2 DEF N
    <3>2. NextChunk(d, i) \in Nat /\ NextChunk(d, i) > i
      BY <3>1, RoundReads
    <3>3. Round(d, i, h2[NextChunk(d, i)]) = Round(d, i, h[NextChunk(d, i)])
      <4>1. CASE NextChunk(d, i) > Len(d)
        BY <3>1, <4>1, RoundReads
      <4>2. CASE ~(NextChunk(d, i) > Len(d))
        <5>1. NextChunk(d, i) \in a..N /\ NextChunk(d, i) # a
          BY <1>1, <2>2, <3>2, <4>2
        <5>2. h2[NextChunk(d, i)] = h[NextChunk(d, i)]
          BY <5>1
        <5> QED BY <5>2
      <4> QED BY <4>1, <4>2
    <3>4. CASE i = a
      BY <3>3, <3>4
    <3>5. CASE i # a
      <4>1. i \in (N - k)..N
        BY <1>1, <2>2, <3>5
      <4>2. h[i] = Round(d, i, h[NextChunk(d, i)])
        BY <2>1, <4>1
      <4> QED BY <3>3, <3>5, <4>2
    <3> QED BY <3>4, <3>5
  <2>4. Solves(h2, a)
    <3> HIDE DEF h2
    <3> QED BY <2>3
  <2> QED BY <2>4 DEF a
<1>4. PICK h : Solves(h, 1)
  <2>1. N - 1 \in S
    <3> HIDE DEF S
    <3> QED BY <1>1, <1>2, <1>3, NatSetInduction, N - 1 \in Nat
  <2>2. N - 1 < N /\ N - (N - 1) = 1
    BY <1>1
  <2> QED BY <2>1, <2>2
<1> DEFINE g0 == [i \in 1..N |-> h[i]]
<1>5. g0 = F(g0)
  <2>1. ASSUME NEW i \in 1..N PROVE h[i] = Round(d, i, g0[NextChunk(d, i)])
    <3>1. i \in 1..(Len(d) + 1)
      BY DEF N
    <3>2. NextChunk(d, i) \in Nat /\ NextChunk(d, i) > i
      BY <3>1, RoundReads
    <3>3. CASE NextChunk(d, i) > Len(d)
      BY <1>4, <3>1, <3>3, RoundReads
    <3>4. CASE ~(NextChunk(d, i) > Len(d))
      <4>1. NextChunk(d, i) \in 1..N
        BY <1>1, <3>2, <3>4
      <4>2. g0[NextChunk(d, i)] = h[NextChunk(d, i)]
        BY <4>1
      <4> QED BY <1>4, <4>2
    <3> QED BY <3>3, <3>4
  <2> QED BY <2>1
<1>6. dec = F(dec)
  <2> HIDE DEF F
  <2> QED BY <1>5
<1>7. DecodeChunked(d) = dec[1]
  BY DEF DecodeChunked, Round, NextChunk, N
<1>8. \A i \in 1..N : dec[i] = Round(d, i, dec[NextChunk(d, i)])
  <2> HIDE DEF dec
  <2> QED BY <1>6
<1> HIDE DEF dec
<1> QED BY <1>7, <1>8 DEF N

-----------------------------------------------------------------------------
(* A chunked body on the wire.                                             *)

LEMMA Inside == \A a, b, c \in Nat : \A k \in 1..b : a + b <= c => a + k \in 1..c
OBVIOUS

\* The symbols and bodies.
LEMMA Wired ==
  /\ "r" \in Byte /\ "n" \in Byte /\ "x" \in Byte /\ "0" \in Byte /\ "panic" \notin Byte
  /\ \A cs \in Bodies :
       /\ Len(cs) \in Nat /\ DOMAIN cs = 1..Len(cs)
       /\ \A i \in 1..Len(cs) :
            /\ cs[i].size \in Text /\ cs[i].data \in Text
            /\ \A k \in 1..Len(cs[i].size) : cs[i].size[k] # "r"
            /\ Len(cs[i].data) \in Nat /\ Len(cs[i].data) # 0
            /\ SizeOf(cs[i].size) = Len(cs[i].data)
<1> DEFINE C == [size : Seq(Byte \ {"r"}), data : Seq(Byte)]
<1>1. ASSUME NEW cs \in Bodies
      PROVE  /\ cs \in Seq(C) /\ Len(cs) \in Nat /\ DOMAIN cs = 1..Len(cs)
             /\ \A i \in 1..Len(cs) : cs[i].data # <<>> /\ SizeOf(cs[i].size) = Len(cs[i].data)
  <2>1. cs \in Seq(C)
    BY RequestAssumption
  <2>2. Len(cs) \in Nat /\ DOMAIN cs = 1..Len(cs)
    <3> HIDE DEF C
    <3> QED BY <2>1, LenProperties
  <2> QED BY <2>1, <2>2, RequestAssumption
<1>2. ASSUME NEW cs \in Bodies, NEW i \in 1..Len(cs)
      PROVE  /\ cs[i].size \in Text /\ cs[i].data \in Text
             /\ \A k \in 1..Len(cs[i].size) : cs[i].size[k] # "r"
             /\ Len(cs[i].data) \in Nat /\ Len(cs[i].data) # 0
  <2>1. cs[i] \in C
    <3> HIDE DEF C
    <3> QED BY <1>1, ElementOfSeq
  <2>2. cs[i].size \in Seq(Byte \ {"r"}) /\ cs[i].data \in Seq(Byte)
    BY <2>1
  <2> DEFINE z == cs[i].size
             t == cs[i].data
  <2>3. z \in Seq(Byte \ {"r"}) /\ t \in Seq(Byte) /\ t # <<>>
    BY <1>1, <2>2
  <2> HIDE DEF z, t
  <2>4. z \in Seq(Byte) /\ Len(t) \in Nat /\ Len(t) # 0
    BY <2>3
  <2>5. \A k \in 1..Len(z) : z[k] # "r"
    BY <2>3, ElementOfSeq
  <2> QED BY <2>3, <2>4, <2>5 DEF z, t, Text
<1> QED BY <1>1, <1>2, RequestAssumption

\* The bytes of a chunk.
LEMMA ChunkBytes ==
  ASSUME NEW c, c.size \in Text, c.data \in Text
  PROVE  /\ ChunkOf(c) \in Text /\ Len(ChunkOf(c)) = Len(c.size) + Len(c.data) + 4
         /\ Len(c.size) \in Nat /\ Len(c.data) \in Nat
         /\ \A k \in 1..Len(c.size) : ChunkOf(c)[k] = c.size[k]
         /\ ChunkOf(c)[Len(c.size) + 1] = "r"
         /\ \A k \in 1..Len(c.data) : ChunkOf(c)[Len(c.size) + 2 + k] = c.data[k]
<1> DEFINE z == c.size
           t == c.data
           b == <<"r", "n">>
<1>1. /\ z \in Text /\ t \in Text
      /\ b \in Text /\ Len(b) = 2 /\ b[1] = "r"
  BY Wired DEF Text
<1>2. ChunkOf(c) = ((z \o b) \o t) \o b
  BY DEF ChunkOf
<1> HIDE DEF z, t, b
<1>3. /\ z \o b \in Text /\ Len(z \o b) = Len(z) + Len(b) /\ Len(z) \in Nat
      /\ \A k \in 1..Len(z) : (z \o b)[k] = z[k]
      /\ \A k \in 1..Len(b) : (z \o b)[Len(z) + k] = b[k]
  BY <1>1, ConcatParts
<1> DEFINE zb == z \o b
<1> HIDE DEF zb
<1>4. /\ zb \in Text /\ Len(zb) = Len(z) + 2 /\ zb[Len(z) + 1] = "r"
      /\ \A k \in 1..Len(z) : zb[k] = z[k]
  BY <1>1, <1>3 DEF zb
<1>5. /\ zb \o t \in Text /\ Len(zb \o t) = Len(zb) + Len(t) /\ Len(t) \in Nat
      /\ \A k \in 1..Len(zb) : (zb \o t)[k] = zb[k]
      /\ \A k \in 1..Len(t) : (zb \o t)[Len(zb) + k] = t[k]
  BY <1>1, <1>4, ConcatParts
<1> DEFINE zbt == zb \o t
<1> HIDE DEF zbt
<1>6. /\ zbt \in Text /\ Len(zbt) = Len(z) + 2 + Len(t)
      /\ \A k \in 1..(Len(z) + 2) : zbt[k] = zb[k]
      /\ \A k \in 1..Len(t) : zbt[Len(z) + 2 + k] = t[k]
  BY <1>4, <1>5 DEF zbt
<1>7. /\ zbt \o b \in Text /\ Len(zbt \o b) = Len(zbt) + Len(b)
      /\ \A k \in 1..Len(zbt) : (zbt \o b)[k] = zbt[k]
  BY <1>1, <1>6, ConcatParts
<1> DEFINE w == zbt \o b
<1> HIDE DEF w
<1>8. /\ w \in Text /\ Len(w) = Len(z) + Len(t) + 4
      /\ \A k \in 1..(Len(z) + 2 + Len(t)) : w[k] = zbt[k]
  BY <1>1, <1>3, <1>5, <1>6, <1>7 DEF w
<1>9. \A k \in 1..Len(z) : w[k] = z[k]
  <2>1. \A k \in 1..Len(z) : k \in 1..(Len(z) + 2) /\ k \in 1..(Len(z) + 2 + Len(t))
    BY <1>3, <1>5
  <2> QED BY <1>4, <1>6, <1>8, <2>1
<1>10. w[Len(z) + 1] = "r"
  <2>1. Len(z) + 1 \in 1..(Len(z) + 2) /\ Len(z) + 1 \in 1..(Len(z) + 2 + Len(t))
    BY <1>3, <1>5
  <2> QED BY <1>4, <1>6, <1>8, <2>1
<1>11. \A k \in 1..Len(t) : w[Len(z) + 2 + k] = t[k]
  <2>1. \A k \in 1..Len(t) : Len(z) + 2 + k \in 1..(Len(z) + 2 + Len(t))
    BY <1>3, <1>5
  <2> QED BY <1>6, <1>8, <2>1
<1>12. ChunkOf(c) = w
  BY <1>2 DEF zb, zbt, w
<1> QED BY <1>3, <1>5, <1>8, <1>9, <1>10, <1>11, <1>12 DEF z, t

\* Where the chunks lie on the wire (at) and in the body (of).
Layout(cs, at, of) ==
  /\ at \in [0..Len(cs) -> Nat] /\ at[0] = 0 /\ at[Len(cs)] = Len(Chunks(cs))
  /\ of \in [0..Len(cs) -> Nat] /\ of[0] = 0 /\ of[Len(cs)] = Len(DataOf(cs))
  /\ \A i \in 1..Len(cs) :
       /\ at[i] = at[i - 1] + Len(cs[i].size) + Len(cs[i].data) + 4 /\ at[i] <= at[Len(cs)]
       /\ of[i] = of[i - 1] + Len(cs[i].data) /\ of[i] <= of[Len(cs)]
       /\ \A k \in 1..Len(cs[i].size) : Chunks(cs)[at[i - 1] + k] = cs[i].size[k]
       /\ Chunks(cs)[at[i - 1] + (Len(cs[i].size) + 1)] = "r"
       /\ \A k \in 1..Len(cs[i].data) :
            /\ Chunks(cs)[at[i - 1] + (Len(cs[i].size) + 2 + k)] = cs[i].data[k]
            /\ DataOf(cs)[of[i - 1] + k] = cs[i].data[k]

\* Every body has such places.
LEMMA Laid ==
  ASSUME NEW cs \in Bodies
  PROVE  /\ Chunks(cs) \in Text /\ DataOf(cs) \in Text
         /\ \E at, of : Layout(cs, at, of)
<1> DEFINE n == Len(cs)
           ws == [i \in DOMAIN cs |-> ChunkOf(cs[i])]
           ds == [i \in DOMAIN cs |-> cs[i].data]
           W == Chunks(cs)
           B == DataOf(cs)
<1>1. /\ n \in Nat /\ DOMAIN cs = 1..n
      /\ \A i \in 1..n : cs[i].size \in Text /\ cs[i].data \in Text
  BY Wired
<1> HIDE DEF n
<1>2. ws \in Seq(Text) /\ Len(ws) = n /\ \A i \in 1..n : ws[i] = ChunkOf(cs[i])
  <2>1. \A i \in 1..n : ChunkOf(cs[i]) \in Text
    BY <1>1, ChunkBytes
  <2>2. ws \in [1..n -> Text]
    BY <1>1, <2>1
  <2> QED BY <1>1, <2>2
<1>3. ds \in Seq(Text) /\ Len(ds) = n /\ \A i \in 1..n : ds[i] = cs[i].data
  <2>1. ds \in [1..n -> Text]
    BY <1>1
  <2> QED BY <1>1, <2>1
<1>4. W = FlattenSeq(ws) /\ B = FlattenSeq(ds)
  BY DEF Chunks, DataOf
<1> HIDE DEF ws, ds, W, B
<1>5. W \in Text /\ B \in Text
  BY <1>2, <1>3, <1>4, Offsets
<1>6. PICK at \in [0..n -> Nat] :
        /\ at[0] = 0 /\ at[n] = Len(W)
        /\ \A i \in 1..n :
             /\ at[i] = at[i - 1] + Len(ws[i]) /\ at[i] <= at[n]
             /\ \A k \in 1..Len(ws[i]) : W[at[i - 1] + k] = ws[i][k]
  BY <1>2, <1>4, Offsets
<1>7. PICK of \in [0..n -> Nat] :
        /\ of[0] = 0 /\ of[n] = Len(B)
        /\ \A i \in 1..n :
             /\ of[i] = of[i - 1] + Len(ds[i]) /\ of[i] <= of[n]
             /\ \A k \in 1..Len(ds[i]) : B[of[i - 1] + k] = ds[i][k]
  BY <1>3, <1>4, Offsets
<1>8. ASSUME NEW i \in 1..n
      PROVE  /\ at[i] = at[i - 1] + Len(cs[i].size) + Len(cs[i].data) + 4 /\ at[i] <= at[n]
             /\ \A k \in 1..Len(cs[i].size) : W[at[i - 1] + k] = cs[i].size[k]
             /\ W[at[i - 1] + (Len(cs[i].size) + 1)] = "r"
             /\ \A k \in 1..Len(cs[i].data) : W[at[i - 1] + (Len(cs[i].size) + 2 + k)] = cs[i].data[k]
  <2> DEFINE c == cs[i]
             q == Len(c.size)
             m == Len(c.data)
             v == ws[i]
  <2>1. at[i - 1] \in Nat
    BY <1>1, <1>6
  <2>2. c.size \in Text /\ c.data \in Text /\ v = ChunkOf(c)
    BY <1>1, <1>2
  <2> HIDE DEF c, v
  <2>3. /\ Len(v) = q + m + 4 /\ q \in Nat /\ m \in Nat
        /\ \A k \in 1..q : v[k] = c.size[k]
        /\ v[q + 1] = "r"
        /\ \A k \in 1..m : v[q + 2 + k] = c.data[k]
    BY <2>2, ChunkBytes
  <2>4. at[i] = at[i - 1] + Len(v) /\ at[i] <= at[n] /\ \A k \in 1..Len(v) : W[at[i - 1] + k] = v[k]
    BY <1>6 DEF v
  <2> HIDE DEF q, m
  <2>5. at[i] = at[i - 1] + q + m + 4
    BY <2>1, <2>3, <2>4
  <2>6. /\ \A k \in 1..q : k \in 1..Len(v)
        /\ q + 1 \in 1..Len(v)
        /\ \A k \in 1..m : q + 2 + k \in 1..Len(v)
    BY <2>3
  <2>7. /\ \A k \in 1..q : W[at[i - 1] + k] = c.size[k]
        /\ W[at[i - 1] + (q + 1)] = "r"
        /\ \A k \in 1..m : W[at[i - 1] + (q + 2 + k)] = c.data[k]
    BY <2>3, <2>4, <2>6
  <2> QED BY <2>4, <2>5, <2>7 DEF c, q, m
<1>9. Layout(cs, at, of)
  <2>1. /\ at \in [0..n -> Nat] /\ at[0] = 0 /\ at[n] = Len(W)
        /\ of \in [0..n -> Nat] /\ of[0] = 0 /\ of[n] = Len(B)
    BY <1>6, <1>7
  <2>2. ASSUME NEW i \in 1..n
        PROVE  /\ of[i] = of[i - 1] + Len(cs[i].data) /\ of[i] <= of[n]
               /\ \A k \in 1..Len(cs[i].data) : B[of[i - 1] + k] = cs[i].data[k]
    <3>1. ds[i] = cs[i].data
      BY <1>3
    <3> QED BY <1>7, <3>1
  <2>3. ASSUME NEW i \in 1..n
        PROVE  /\ at[i] = at[i - 1] + Len(cs[i].size) + Len(cs[i].data) + 4 /\ at[i] <= at[n]
               /\ of[i] = of[i - 1] + Len(cs[i].data) /\ of[i] <= of[n]
               /\ \A k \in 1..Len(cs[i].size) : W[at[i - 1] + k] = cs[i].size[k]
               /\ W[at[i - 1] + (Len(cs[i].size) + 1)] = "r"
               /\ \A k \in 1..Len(cs[i].data) :
                    /\ W[at[i - 1] + (Len(cs[i].size) + 2 + k)] = cs[i].data[k]
                    /\ B[of[i - 1] + k] = cs[i].data[k]
    BY <1>8, <2>2, Zenon
  <2> QED BY <2>1, <2>3, Zenon DEF Layout, n, W, B
<1> QED BY <1>5, <1>9 DEF B, W

-----------------------------------------------------------------------------
(* The decoder on the first bytes of a chunked body.                       *)

\* A round whose line of q bytes begins at p and gives the size m.
RoundOf(d, p, q, m, x) ==
  IF p + q > Len(d) \/ m = 0 THEN <<>>
  ELSE IF p + q + 1 + m > MaxUsize \/ p + q + 1 > Len(d) THEN Panic
  ELSE IF p + q + 1 + m > Len(d) THEN SubSeq(d, p + q + 2, Len(d))
  ELSE SubSeq(d, p + q + 2, p + q + 1 + m) \o (IF p + q + 4 + m > Len(d) THEN <<>> ELSE x)

\* The line of q bytes and its end are at byte p, as far as d goes.
LineIsAt(d, p, line, q) ==
  /\ d \in Text /\ p \in 1..(Len(d) + 1) /\ line \in Text /\ q = Len(line)
  /\ \A k \in 1..q : line[k] # "r"
  /\ \A k \in 1..q : p + k - 1 <= Len(d) => d[p + k - 1] = line[k]
  /\ p + q <= Len(d) => d[p + q] = "r"

\* The round at byte p, where a line and its end are, as far as they are there.
LEMMA RoundAt ==
  ASSUME NEW d, NEW p, NEW line, NEW q, LineIsAt(d, p, line, q), NEW m, m = SizeOf(line)
  PROVE  /\ p + q <= Len(d) => NextChunk(d, p) = p + q + 4 + m
         /\ \A x : Round(d, p, x) = RoundOf(d, p, q, m, x)
<1>1. Len(d) \in Nat /\ q \in Nat /\ m \in Nat /\ p \in Nat
  BY SizeType, LenProperties DEF Text, LineIsAt
<1>2. /\ LineEnd(d, p) = IF p + q <= Len(d) THEN p + q ELSE Len(d) + 1
      /\ p + q <= Len(d) => SubSeq(d, p, p + q - 1) = line
  BY LineEndAt DEF LineIsAt
<1>3. CASE p + q <= Len(d)
  <2>1. LineEnd(d, p) = p + q /\ SizeOf(SubSeq(d, p, LineEnd(d, p) - 1)) = m
    <3>1. LineEnd(d, p) = p + q
      BY <1>2, <1>3, Zenon
    <3>2. SubSeq(d, p, p + q - 1) = line
      BY <1>2, <1>3, Zenon
    <3>3. SubSeq(d, p, LineEnd(d, p) - 1) = line
      <4> DEFINE e == LineEnd(d, p)
      <4>1. e - 1 = p + q - 1
        BY <1>1, <3>1
      <4> HIDE DEF e
      <4>2. SubSeq(d, p, e - 1) = line
        BY <3>2, <4>1, Zenon
      <4> QED BY <4>2 DEF e
    <3>4. SizeOf(SubSeq(d, p, LineEnd(d, p) - 1)) = SizeOf(line)
      BY <3>3
    <3> QED BY <3>1, <3>4
  <2>2. NextChunk(d, p) = p + q + 4 + m
    <3>1. NextChunk(d, p) = p + q + 2 + m + 2
      BY <2>1, Zenon DEF NextChunk, AfterChunk
    <3> QED BY <1>1, <3>1
  <2>3. ~(LineEnd(d, p) > Len(d)) /\ ~(p + q > Len(d))
    BY <1>1, <1>3, <2>1
  <2>4. /\ LineEnd(d, p) + 1 = p + q + 1 /\ LineEnd(d, p) + 1 + m = p + q + 1 + m
        /\ LineEnd(d, p) + 2 = p + q + 2
    BY <1>1, <2>1
  <2>5. ASSUME NEW x
        PROVE  Round(d, p, x) =
                 IF m = 0 THEN <<>>
                 ELSE IF p + q + 1 + m > MaxUsize \/ p + q + 1 > Len(d) THEN Panic
                 ELSE IF p + q + 1 + m > Len(d) THEN SubSeq(d, p + q + 2, Len(d))
                 ELSE SubSeq(d, p + q + 2, p + q + 1 + m)
                      \o (IF p + q + 4 + m > Len(d) THEN <<>> ELSE x)
    BY <2>1, <2>2, <2>3, <2>4, Zenon DEF Round
  <2>6. ASSUME NEW x PROVE Round(d, p, x) = RoundOf(d, p, q, m, x)
    BY <2>3, <2>5, Zenon DEF RoundOf
  <2> QED BY <2>2, <2>6
<1>4. CASE ~(p + q <= Len(d))
  <2>1. LineEnd(d, p) > Len(d) /\ p + q > Len(d)
    BY <1>1, <1>2, <1>4
  <2> QED BY <1>4, <2>1, Zenon DEF Round, RoundOf
<1> QED BY <1>3, <1>4

\* The round at byte p, where what follows the chunks begins.
LEMMA ClosingRound ==
  ASSUME NEW d \in Text, NEW p \in 1..(Len(d) + 1), NEW t \in Text, Closes(t),
         Len(d) < p + Len(t),
         \A k \in 1..Len(t) : p + k - 1 <= Len(d) => d[p + k - 1] = t[k]
  PROVE  \A x : Round(d, p, x) = <<>>
<1> DEFINE e == LineEnd(t, 1)
           line == SubSeq(t, 1, e - 1)
           q == e - 1
<1>1. Len(d) \in Nat /\ Len(t) \in Nat /\ e \in 1..(Len(t) + 1)
  BY LineEndType, LenProperties, 1 \in 1..(Len(t) + 1) DEF Text
<1>2. \A k \in 1..(e - 1) : t[k] # "r"
  BY <1>1, LineEndIs, 1 \in 1..(Len(t) + 1)
<1>3. e <= Len(t) => t[e] = "r"
  BY <1>1, LineEndIs, 1 \in 1..(Len(t) + 1)
<1>4. e > Len(t) \/ SizeOf(line) = 0
  BY DEF Closes
<1> HIDE DEF e
<1>5. line \in Text /\ q = Len(line) /\ \A k \in 1..q : line[k] = t[k]
  BY <1>1 DEF Text
<1> HIDE DEF line
<1>6. \A k \in 1..q : line[k] # "r"
  BY <1>2, <1>5
<1>7. \A k \in 1..q : p + k - 1 <= Len(d) => d[p + k - 1] = line[k]
  <2>1. \A k \in 1..q : k \in 1..Len(t)
    BY <1>1
  <2> QED BY <1>5, <2>1
<1>8. p + q <= Len(d) => e <= Len(t) /\ d[p + q] = "r"
  <2> SUFFICES ASSUME p + q <= Len(d) PROVE e <= Len(t) /\ d[p + q] = "r"
    OBVIOUS
  <2>1. e <= Len(t) /\ e \in 1..Len(t) /\ p + e - 1 <= Len(d) /\ p + q = p + e - 1
    BY <1>1
  <2> QED BY <1>3, <2>1
<1> DEFINE m == SizeOf(line)
<1>9. \A x : Round(d, p, x) = RoundOf(d, p, q, m, x)
  <2>1. m = SizeOf(line)
    OBVIOUS
  <2> HIDE DEF q, m
  <2>2. LineIsAt(d, p, line, q)
    BY <1>5, <1>6, <1>7, <1>8, Zenon DEF LineIsAt
  <2> QED BY <2>1, <2>2, RoundAt, Zenon
<1>10. p + q > Len(d) \/ m = 0
  <2>1. CASE e > Len(t)
    <3>1. p + q >= p + Len(t)
      BY <1>1, <2>1
    <3> QED BY <1>1, <3>1
  <2> QED BY <1>4, <2>1
<1> QED BY <1>9, <1>10, Zenon DEF RoundOf

\* What may come of the first g bytes of D, which carry B: all of it if they are
\* all, else a beginning of it, after which the decoder panics only at a line end.
MayDecode(B, D, g, w) ==
  /\ g = Len(D) => w = B
  /\ \/ \E l \in 0..Len(B) : w = SubSeq(B, 1, l)
     \/ /\ \E l \in 0..Len(B) : w = SubSeq(B, 1, l) \o Panic
        /\ g >= 1 /\ D[g] = "r"

\* What decode_chunked returns of the first g bytes.
LEMMA Decoding ==
  ASSUME NEW cs \in Bodies, NEW t \in Text, Closes(t), NEW D, D = Chunks(cs) \o t,
         NEW g \in 0..Len(D), NEW w, w = DecodeChunked(SubSeq(D, 1, g))
  PROVE  MayDecode(DataOf(cs), D, g, w)
<1> DEFINE n == Len(cs)
           B == DataOf(cs)
           W == Chunks(cs)
           d == SubSeq(D, 1, g)
<1>1. /\ W \in Text /\ B \in Text /\ Len(B) \in Nat /\ Len(W) <= MaxUsize /\ MaxUsize \in Nat
      /\ Len(W) \in Nat /\ Len(t) \in Nat
      /\ D \in Text /\ Len(D) = Len(W) + Len(t) /\ Len(D) \in Nat /\ g \in Nat
      /\ \A k \in 1..Len(W) : D[k] = W[k]
      /\ \A k \in 1..Len(t) : D[Len(W) + k] = t[k]
  <2>1. W \in Text /\ B \in Text /\ Len(B) \in Nat
    BY Laid, LenProperties DEF Text
  <2>2. Len(W) <= MaxUsize /\ MaxUsize \in Nat
    BY RequestAssumption
  <2> HIDE DEF W, B
  <2>3. /\ D \in Text /\ Len(W) \in Nat /\ Len(t) \in Nat /\ Len(D) = Len(W) + Len(t)
        /\ \A k \in 1..Len(W) : D[k] = W[k]
        /\ \A k \in 1..Len(t) : D[Len(W) + k] = t[k]
    <3>1. D = W \o t
      BY DEF W
    <3> QED BY <2>1, <3>1, ConcatParts
  <2>4. Len(D) \in Nat /\ g \in Nat
    BY <2>3
  <2> QED BY <2>1, <2>2, <2>3, <2>4
<1>2. PICK at, of : Layout(cs, at, of)
  BY Laid
<1>3. /\ n \in Nat
      /\ \A i \in 1..n :
           /\ cs[i].size \in Text /\ cs[i].data \in Text
           /\ \A k \in 1..Len(cs[i].size) : cs[i].size[k] # "r"
           /\ Len(cs[i].data) \in Nat /\ Len(cs[i].data) # 0
           /\ SizeOf(cs[i].size) = Len(cs[i].data)
  BY Wired
<1> HIDE DEF B, W, n
<1>0. /\ Len(W) \in Nat /\ Len(B) \in Nat /\ Len(D) \in Nat /\ g \in Nat /\ g <= Len(D)
      /\ Len(W) <= Len(D)
  BY <1>1
<1>4. d \in Text /\ Len(d) = g /\ \A k \in 1..g : d[k] = D[k]
  BY <1>1 DEF Text
<1> HIDE DEF d
<1>5. PICK dec : /\ DecodeChunked(d) = dec[1]
                 /\ \A i \in 1..(Len(d) + 1) : dec[i] = Round(d, i, dec[NextChunk(d, i)])
  BY <1>4, DecodeRounds
<1>6. /\ at \in [0..n -> Nat] /\ at[0] = 0 /\ of \in [0..n -> Nat] /\ of[0] = 0
      /\ of[n] = Len(B) /\ at[n] = Len(W)
  BY <1>2 DEF Layout, n, B, W
<1>7. \A i \in 1..n :
        /\ at[i] = at[i - 1] + Len(cs[i].size) + Len(cs[i].data) + 4 /\ at[i] <= at[n]
        /\ of[i] = of[i - 1] + Len(cs[i].data) /\ of[i] <= of[n]
        /\ \A k \in 1..Len(cs[i].size) : W[at[i - 1] + k] = cs[i].size[k]
        /\ W[at[i - 1] + (Len(cs[i].size) + 1)] = "r"
        /\ \A k \in 1..Len(cs[i].data) :
             /\ W[at[i - 1] + (Len(cs[i].size) + 2 + k)] = cs[i].data[k]
             /\ B[of[i - 1] + k] = cs[i].data[k]
  BY <1>2 DEF Layout, n, B, W
<1> DEFINE Part(i, v) == \E l \in of[i]..of[n] : v = SubSeq(B, of[i] + 1, l)
           Torn(i, v) == /\ \E l \in of[i]..of[n] : v = SubSeq(B, of[i] + 1, l) \o Panic
                         /\ g >= 1 /\ D[g] = "r"
           Claim(i, v) == /\ g = Len(D) => v = SubSeq(B, of[i] + 1, of[n])
                          /\ Part(i, v) \/ Torn(i, v)
<1>8. ASSUME at[n] <= g PROVE Claim(n, dec[at[n] + 1])
  <2> DEFINE p == at[n] + 1
  <2>1. at[n] \in Nat /\ of[n] \in Nat /\ at[n] = Len(W)
    BY <1>3, <1>6
  <2>2. p \in 1..(Len(d) + 1) /\ Len(d) < p + Len(t)
    BY <1>1, <1>4, <1>8, <2>1
  <2>3. \A k \in 1..Len(t) : p + k - 1 <= Len(d) => d[p + k - 1] = t[k]
    <3>1. \A k \in 1..Len(t) : p + k - 1 = Len(W) + k /\ (p + k - 1 <= Len(d) => p + k - 1 \in 1..g)
      BY <1>1, <1>4, <2>1
    <3> QED BY <3>1, <1>1, <1>4
  <2>4. \A x : Round(d, p, x) = <<>>
    <3> HIDE DEF p
    <3> QED BY <2>2, <2>3, <1>4, ClosingRound
  <2>5. dec[p] = <<>>
    BY <1>5, <2>2, <2>4
  <2>6. SubSeq(B, of[n] + 1, of[n]) = <<>>
    BY <1>1, <1>6, <2>1 DEF Text
  <2>7. of[n] \in of[n]..of[n]
    BY <2>1
  <2> QED BY <2>5, <2>6, <2>7
<1>9. ASSUME NEW i \in 1..n, at[i] <= g => Claim(i, dec[at[i] + 1]), at[i - 1] <= g
      PROVE  Claim(i - 1, dec[at[i - 1] + 1])
  <2> DEFINE a == at[i - 1]
             o == of[i - 1]
             p == a + 1
             z == cs[i].size
             q == Len(z)
             m == Len(cs[i].data)
             u == a + q
  <2>1. /\ a \in Nat /\ o \in Nat /\ q \in Nat /\ m \in Nat /\ m # 0 /\ u \in Nat /\ a <= g
        /\ at[i] = u + m + 4 /\ at[i] <= Len(W) /\ at[i] <= MaxUsize /\ at[i] <= Len(D)
        /\ of[i] = o + m /\ of[i] <= of[n] /\ of[n] = Len(B)
        /\ z \in Text /\ m = SizeOf(z) /\ \A k \in 1..q : z[k] # "r"
    <3>1. i - 1 \in 0..n /\ i \in 0..n /\ n \in 0..n
      BY <1>3
    <3>2. a \in Nat /\ o \in Nat /\ at[i] \in Nat /\ at[n] \in Nat
      BY <1>6, <3>1
    <3>3. /\ z \in Text /\ m = SizeOf(z) /\ \A k \in 1..q : z[k] # "r"
          /\ m \in Nat /\ m # 0
      BY <1>3
    <3>4. q \in Nat
      BY <3>3, LenProperties DEF Text
    <3>5. at[i] = a + q + m + 4 /\ at[i] <= at[n] /\ of[i] = o + m /\ of[i] <= of[n]
      BY <1>7
    <3>6. a <= g
      BY <1>9
    <3>7. at[n] = Len(W) /\ of[n] = Len(B)
      BY <1>6
    <3> HIDE DEF a, o, q, m, z
    <3>8. at[i] = u + m + 4 /\ u \in Nat
      BY <3>2, <3>3, <3>4, <3>5
    <3> DEFINE ai == at[i]
               an == at[n]
    <3>9. ai \in Nat /\ an \in Nat /\ ai <= an /\ an = Len(W)
      BY <3>2, <3>5, <3>7
    <3> HIDE DEF ai, an
    <3>10. ai <= Len(W) /\ ai <= MaxUsize /\ ai <= Len(D)
      BY <1>1, <3>9
    <3> QED BY <3>2, <3>3, <3>4, <3>5, <3>6, <3>7, <3>8, <3>10, Zenon DEF ai
  <2>2. /\ \A k \in 1..q : W[a + k] = z[k]
        /\ W[a + (q + 1)] = "r"
        /\ \A k \in 1..m : W[a + (q + 2 + k)] = cs[i].data[k] /\ B[o + k] = cs[i].data[k]
    BY <1>7
  <2> HIDE DEF a, o, z, q, m
  <2>n. /\ a \in Nat /\ o \in Nat /\ q \in Nat /\ m \in Nat /\ m # 0 /\ u \in Nat /\ a <= g
        /\ u = a + q /\ p = a + 1 /\ at[i] = u + m + 4 /\ at[i] <= Len(W) /\ at[i] <= Len(D)
        /\ of[i] = o + m /\ of[i] <= of[n] /\ of[n] = Len(B) /\ of[n] \in Nat
        /\ Len(d) = g
    <3>1. of[n] \in Nat
      BY <1>0, <2>1
    <3> QED BY <1>4, <2>1, <3>1
  <2> HIDE DEF p, u
  <2>3. p \in 1..(Len(d) + 1)
    BY <1>0, <2>n
  <2>4. /\ \A k \in 1..q : p + k - 1 <= Len(d) => d[p + k - 1] = z[k]
        /\ p + q <= Len(d) => d[p + q] = "r"
        /\ u + 1 <= g => D[u + 1] = "r"
        /\ \A k \in 1..m : u + 2 + k <= g => d[u + 2 + k] = B[o + k]
    <3>1. \A k \in 1..q : p + k - 1 = a + k /\ a + k \in 1..Len(W) /\ (a + k <= Len(d) => a + k \in 1..g)
      BY <1>0, <2>n
    <3>2. /\ p + q = a + (q + 1) /\ a + (q + 1) \in 1..Len(W) /\ u + 1 = a + (q + 1)
          /\ a + (q + 1) <= Len(d) => a + (q + 1) \in 1..g
      BY <1>0, <2>n
    <3>3. \A k \in 1..m : /\ u + 2 + k = a + (q + 2 + k) /\ a + (q + 2 + k) \in 1..Len(W)
                          /\ a + (q + 2 + k) <= g => a + (q + 2 + k) \in 1..g
      BY <1>0, <2>n
    <3>4. \A j \in 1..Len(W) : j \in 1..g => d[j] = W[j]
      BY <1>1, <1>4
    <3>5. \A k \in 1..q : p + k - 1 <= Len(d) => d[p + k - 1] = z[k]
      BY <2>2, <3>1, <3>4
    <3>6. p + q <= Len(d) => d[p + q] = "r"
      BY <2>2, <3>2, <3>4
    <3>7. D[u + 1] = "r"
      BY <1>1, <2>2, <3>2
    <3>8. \A k \in 1..m : u + 2 + k <= g => d[u + 2 + k] = B[o + k]
      BY <2>2, <3>3, <3>4
    <3> QED BY <3>5, <3>6, <3>7, <3>8
  <2>5. /\ u + 1 <= g => NextChunk(d, p) = u + 5 + m
        /\ \A x : Round(d, p, x) =
             IF u + 1 > g THEN <<>>
             ELSE IF u + 2 > g THEN Panic
             ELSE IF u + 2 + m > g THEN SubSeq(d, u + 3, g)
             ELSE SubSeq(d, u + 3, u + 2 + m) \o (IF u + 5 + m > g THEN <<>> ELSE x)
    <3>1. /\ p + q <= Len(d) => NextChunk(d, p) = p + q + 4 + m
          /\ \A x : Round(d, p, x) = RoundOf(d, p, q, m, x)
      <4>1. LineIsAt(d, p, z, q) /\ m = SizeOf(z)
        BY <1>4, <2>1, <2>3, <2>4, Zenon DEF q, LineIsAt
      <4> QED BY <4>1, RoundAt
    <3>2. /\ p + q = u + 1 /\ p + q + 4 + m = u + 5 + m /\ p + q + 1 + m = u + 2 + m
          /\ p + q + 1 = u + 2 /\ p + q + 2 = u + 3 /\ Len(d) = g
          /\ ~(u + 2 + m > MaxUsize) /\ ~(m = 0)
      BY <2>1, <2>n, RequestAssumption
    <3> QED BY <3>1, <3>2, Zenon DEF RoundOf
  <2> DEFINE v == dec[p]
             y == dec[at[i] + 1]
  <2>6. v = Round(d, p, dec[NextChunk(d, p)])
    BY <1>5, <2>3
  <2> SUFFICES Claim(i - 1, v)
    BY DEF a, p
  <2> HIDE DEF v
  <2>7. ASSUME NEW l \in 0..m, u + 2 + l <= g
        PROVE  SubSeq(d, u + 3, u + 2 + l) = SubSeq(B, o + 1, o + l)
    <3> DEFINE i1 == u + 3
               e1 == u + 2 + l
               j1 == o + 1
               f1 == o + l
    <3>1. ASSUME NEW k \in 0..(e1 - i1) PROVE d[i1 + k] = B[j1 + k]
      <4>1. PICK h \in 1..m : /\ h = k + 1 /\ u + 2 + h <= g
                              /\ i1 + k = u + 2 + h /\ j1 + k = o + h
        BY <1>0, <2>n, <2>7
      <4> QED BY <4>1, <2>4
    <3>2. /\ i1 \in Nat /\ e1 \in Nat /\ j1 \in Nat /\ f1 \in Nat /\ 1 <= i1 /\ i1 <= e1 + 1
          /\ e1 <= Len(d) /\ 1 <= j1 /\ f1 <= Len(B) /\ e1 - i1 = f1 - j1
      BY <1>1, <1>4, <2>1, <2>7
    <3> HIDE DEF i1, e1, j1, f1
    <3>3. ASSUME NEW s \in Text, NEW r \in Text, e1 <= Len(s), f1 <= Len(r),
                 \A k \in 0..(e1 - i1) : s[i1 + k] = r[j1 + k]
          PROVE  SubSeq(s, i1, e1) = SubSeq(r, j1, f1)
      <4> DEFINE cut1 == SubSeq(s, i1, e1)
                 cut2 == SubSeq(r, j1, f1)
      <4>1. /\ cut1 \in Text /\ Len(cut1) = e1 - i1 + 1
            /\ \A k \in 1..Len(cut1) : cut1[k] = s[i1 + (k - 1)]
        BY <3>2, <3>3 DEF Text
      <4>2. /\ cut2 \in Text /\ Len(cut2) = e1 - i1 + 1
            /\ \A k \in 1..Len(cut2) : cut2[k] = r[j1 + (k - 1)]
        BY <3>2, <3>3 DEF Text
      <4> HIDE DEF cut1, cut2
      <4>3. \A k \in 1..Len(cut1) : cut1[k] = cut2[k]
        <5> SUFFICES ASSUME NEW k \in 1..Len(cut1) PROVE cut1[k] = cut2[k]
          OBVIOUS
        <5>1. PICK h \in 0..(e1 - i1) : h = k - 1
          BY <3>2, <4>1
        <5> QED BY <3>3, <4>1, <4>2, <5>1
      <4>4. cut1 = cut2
        BY <4>1, <4>2, <4>3, SeqEqual DEF Text
      <4> QED BY <4>4 DEF cut1, cut2
    <3>4. SubSeq(d, i1, e1) = SubSeq(B, j1, f1)
      BY <1>1, <1>4, <3>1, <3>2, <3>3, Zenon
    <3> QED BY <3>4 DEF i1, e1, j1, f1
  <2>e. SubSeq(B, o + 1, o) = <<>>
    <3>1. o + 1 \in Int /\ o \in Int /\ o < o + 1
      BY <2>n
    <3> QED BY <3>1, SubSeqEmpty
  <2>8. ASSUME NEW l \in o..of[n], v = SubSeq(B, o + 1, l), g # Len(D)
        PROVE  Claim(i - 1, v)
    BY <2>8 DEF o
  <2>9. CASE u + 1 > g
    <3>1. v = <<>>
      BY <2>5, <2>6, <2>9
    <3>2. SubSeq(B, o + 1, o) = <<>>
      BY <2>e
    <3>3. g # Len(D) /\ o \in o..of[n]
      BY <1>0, <2>n, <2>9
    <3> HIDE DEF Claim
    <3> QED BY <2>8, <3>1, <3>2, <3>3
  <2>10. CASE ~(u + 1 > g) /\ u + 2 > g
    <3>1. v = Panic
      BY <2>5, <2>6, <2>10
    <3>2. SubSeq(B, o + 1, o) = <<>>
      BY <2>e
    <3>3. g # Len(D) /\ o \in o..of[n] /\ g = u + 1
      BY <1>0, <2>n, <2>10
    <3>4. <<>> \o Panic = Panic
      BY DEF Panic
    <3>5. D[g] = "r" /\ g >= 1
      <4>1. u + 1 <= g /\ g >= 1
        BY <1>0, <2>n, <3>3
      <4> QED BY <2>4, <3>3, <4>1
    <3>6. v = SubSeq(B, o + 1, o) \o Panic
      BY <3>1, <3>2, <3>4
    <3>7. Torn(i - 1, v)
      BY <3>3, <3>5, <3>6 DEF o
    <3> QED BY <3>3, <3>7
  <2>11. CASE ~(u + 2 > g) /\ u + 2 + m > g
    <3> DEFINE l == g - (u + 2)
    <3>1. l \in 0..m /\ u + 2 + l = g /\ ~(u + 1 > g)
      BY <1>0, <2>n, <2>11
    <3>2. v = SubSeq(d, u + 3, g)
      BY <2>5, <2>6, <2>11, <3>1
    <3>3. SubSeq(d, u + 3, u + 2 + l) = SubSeq(B, o + 1, o + l)
      <4> HIDE DEF l
      <4>1. u + 2 + l <= g
        BY <1>0, <3>1
      <4> QED BY <2>7, <3>1, <4>1
    <3>4. v = SubSeq(B, o + 1, o + l)
      BY <3>1, <3>2, <3>3
    <3>5. o + l \in o..of[n] /\ g # Len(D)
      BY <1>0, <2>n, <2>11, <3>1
    <3> HIDE DEF Claim, l
    <3> QED BY <2>8, <3>4, <3>5
  <2>12. CASE ~(u + 2 + m > g)
    <3> DEFINE c == SubSeq(d, u + 3, u + 2 + m)
    <3>1. ~(u + 1 > g) /\ ~(u + 2 > g) /\ u + 1 <= g
      BY <1>0, <2>n, <2>12
    <3>2. NextChunk(d, p) = at[i] + 1 /\ u + 5 + m = at[i] + 1
      BY <2>1, <2>5, <3>1
    <3>3. v = c \o (IF at[i] + 1 > g THEN <<>> ELSE y)
      BY <2>5, <2>6, <2>12, <3>1, <3>2
    <3>4. c = SubSeq(B, o + 1, of[i])
      <4>1. m \in 0..m /\ u + 2 + m <= g
        BY <1>0, <2>n, <2>12
      <4> QED BY <2>1, <2>7, <4>1
    <3>5. ASSUME NEW l \in of[i]..of[n]
          PROVE  c \o SubSeq(B, of[i] + 1, l) = SubSeq(B, o + 1, l) /\ l \in o..of[n]
      <4>1. /\ B \in Seq(Byte) /\ o + 1 \in 1..(Len(B) + 1) /\ of[i] \in ((o + 1) - 1)..Len(B)
            /\ l \in of[i]..Len(B) /\ l \in o..of[n]
        BY <1>0, <1>1, <2>n DEF Text
      <4> HIDE DEF c
      <4> QED BY <3>4, <4>1, ConcatAdjacentSubSeq
    <3>6. c \in Text
      <4> DEFINE j == o + 1
                 k == of[i]
      <4>1. j \in 1..(Len(B) + 1) /\ k \in 0..Len(B)
        BY <1>0, <2>n
      <4> HIDE DEF c, j, k
      <4>2. SubSeq(B, j, k) \in Text
        BY <1>1, <4>1 DEF Text
      <4> QED BY <3>4, <4>2 DEF j, k
    <3>7. CASE at[i] > g
      <4>1. v = SubSeq(B, o + 1, of[i])
        <5>1. c \o <<>> = c
          <6> HIDE DEF c
          <6> QED BY <3>6, ConcatEmptySeq DEF Text
        <5>2. at[i] + 1 > g
          BY <1>0, <2>n, <3>7
        <5> QED BY <3>3, <3>4, <5>1, <5>2
      <4>2. of[i] \in o..of[n] /\ g # Len(D)
        BY <1>0, <2>n, <3>7
      <4> HIDE DEF Claim
      <4> QED BY <2>8, <4>1, <4>2
    <3>8. CASE ~(at[i] > g)
      <4>0. at[i] <= g
        BY <1>0, <2>n, <3>8
      <4>1. v = c \o y
        <5>1. CASE at[i] + 1 > g
          <6>1. at[i] + 1 = Len(d) + 1 /\ at[i] + 1 \in 1..(Len(d) + 1)
            BY <1>0, <2>n, <4>0, <5>1
          <6>2. \A x : Round(d, at[i] + 1, x) = <<>>
            BY <1>4, <6>1, RoundReads
          <6>3. y = <<>>
            BY <1>5, <6>1, <6>2
          <6> QED BY <3>3, <5>1, <6>3
        <5>2. CASE ~(at[i] + 1 > g)
          BY <3>3, <5>2
        <5> QED BY <5>1, <5>2
      <4>2. Claim(i, y)
        BY <1>9, <4>0
      <4> HIDE DEF c, y
      <4>3. g = Len(D) => v = SubSeq(B, o + 1, of[n])
        <5>1. of[n] \in of[i]..of[n]
          BY <1>0, <2>n
        <5> QED BY <3>5, <4>1, <4>2, <5>1
      <4>4. CASE Part(i, y)
        <5>1. PICK l \in of[i]..of[n] : y = SubSeq(B, of[i] + 1, l)
          BY <4>4
        <5>2. v = SubSeq(B, o + 1, l) /\ l \in o..of[n]
          BY <3>5, <4>1, <5>1
        <5> QED BY <4>3, <5>2 DEF o
      <4>5. CASE Torn(i, y)
        <5>1. PICK l \in of[i]..of[n] : y = SubSeq(B, of[i] + 1, l) \o Panic
          BY <4>5
        <5>2. c \o SubSeq(B, of[i] + 1, l) = SubSeq(B, o + 1, l) /\ l \in o..of[n]
          BY <3>5
        <5>3. v = SubSeq(B, o + 1, l) \o Panic
          <6> DEFINE S == Byte \cup {"panic"}
                     rest == SubSeq(B, of[i] + 1, l)
          <6>1. c \in Seq(S)
            BY <3>6 DEF Text
          <6>2. rest \in Seq(S)
            <7> DEFINE j == of[i] + 1
            <7>1. j \in 1..(Len(B) + 1) /\ l \in 0..Len(B)
              BY <1>0, <2>n
            <7>2. rest = SubSeq(B, j, l)
              OBVIOUS
            <7> HIDE DEF rest, j
            <7>3. SubSeq(B, j, l) \in Seq(Byte)
              BY <1>1, <7>1 DEF Text
            <7>4. rest \in Seq(Byte)
              BY <7>2, <7>3
            <7> QED BY <7>4
          <6>3. Panic \in Seq(S)
            BY DEF Panic
          <6> HIDE DEF S, rest
          <6>4. (c \o rest) \o Panic = c \o (rest \o Panic)
            BY <6>1, <6>2, <6>3, ConcatAssociative
          <6> QED BY <4>1, <5>1, <5>2, <6>4 DEF rest
        <5> QED BY <4>3, <4>5, <5>2, <5>3 DEF o
      <4> QED BY <4>2, <4>4, <4>5
    <3> QED BY <3>7, <3>8
  <2> QED BY <2>9, <2>10, <2>11, <2>12
<1>10. Claim(0, dec[1])
  <2> DEFINE S == {k \in Nat : k <= n => (at[n - k] <= g => Claim(n - k, dec[at[n - k] + 1]))}
  <2>1. 0 \in S
    <3>1. n - 0 = n
      BY <1>3
    <3> HIDE DEF Claim
    <3> QED BY <1>8, <3>1
  <2>2. ASSUME NEW k \in Nat, k \in S PROVE k + 1 \in S
    <3> HIDE DEF Claim
    <3> SUFFICES ASSUME k + 1 <= n, at[n - (k + 1)] <= g
                 PROVE  Claim(n - (k + 1), dec[at[n - (k + 1)] + 1])
      OBVIOUS
    <3>1. PICK i \in 1..n : i = n - k /\ i - 1 = n - (k + 1)
      BY <1>3
    <3>2. at[i] <= g => Claim(i, dec[at[i] + 1])
      BY <1>3, <2>2, <3>1
    <3>3. Claim(i - 1, dec[at[i - 1] + 1])
      BY <1>9, <3>1, <3>2
    <3> QED BY <3>1, <3>3
  <2>3. n \in S
    <3> HIDE DEF S
    <3> QED BY <2>1, <2>2, <1>3, NatSetInduction
  <2>4. n - n = 0 /\ at[n - n] = 0 /\ 0 <= g /\ at[n - n] + 1 = 1
    BY <1>3, <1>6
  <2> HIDE DEF Claim
  <2> QED BY <1>3, <2>3, <2>4
<1>11. w = dec[1]
  BY <1>5 DEF d
<1>12. /\ SubSeq(B, 0 + 1, of[n]) = B
       /\ of[0] = 0 /\ 0 + 1 = 1 /\ of[n] = Len(B)
  <2>1. SubSeq(B, 1, Len(B)) = B
    BY <1>1, SubSeqFull DEF Text
  <2> QED BY <1>6, <2>1
<1>13. /\ g = Len(D) => w = B
       /\ \/ \E l \in 0..Len(B) : w = SubSeq(B, 1, l)
          \/ /\ \E l \in 0..Len(B) : w = SubSeq(B, 1, l) \o Panic
             /\ g >= 1 /\ D[g] = "r"
  BY <1>10, <1>11, <1>12
<1> QED BY <1>13 DEF B, MayDecode

-----------------------------------------------------------------------------
(* Ends and beginnings of what is read.                                    *)

\* What ends with t ends with its last element.
LEMMA LastOfSuffix ==
  ASSUME NEW S, NEW s \in Seq(S), NEW t \in Seq(S), Len(t) >= 1
  PROVE  /\ EndsWith(s, t) => Len(s) >= Len(t) /\ s[Len(s)] = t[Len(t)]
         /\ Len(t) = 1 /\ Len(s) >= 1 /\ s[Len(s)] = t[1] => EndsWith(s, t)
<1> DEFINE rs == Reverse(s)
           rt == Reverse(t)
           n == Len(t)
<1>1. n \in Nat /\ Len(s) \in Nat /\ n >= 1
  BY LenProperties
<1>2. /\ rs \in Seq(S) /\ Len(rs) = Len(s) /\ \A k \in 1..Len(s) : rs[k] = s[(Len(s) - k) + 1]
      /\ rt \in Seq(S) /\ Len(rt) = n /\ \A k \in 1..n : rt[k] = t[(n - k) + 1]
  <2>1. \A k \in 1..Len(s) : (Len(s) - k) + 1 \in 1..Len(s)
    BY <1>1
  <2>2. \A k \in 1..n : (n - k) + 1 \in 1..n
    BY <1>1
  <2>3. rs \in [1..Len(s) -> S] /\ rt \in [1..n -> S]
    BY <2>1, <2>2, ElementOfSeq DEF Reverse
  <2> QED BY <1>1, <2>3 DEF Reverse
<1>3. EndsWith(s, t) <=> n <= Len(s) /\ SubSeq(rt, 1, n) = SubSeq(rs, 1, n)
  BY <1>2 DEF EndsWith, IsSuffix, IsPrefix
<1> HIDE DEF rs, rt, n
<1>4. ASSUME n <= Len(s)
      PROVE  /\ SubSeq(rt, 1, n) \in Seq(S) /\ Len(SubSeq(rt, 1, n)) = n
             /\ \A k \in 1..n : SubSeq(rt, 1, n)[k] = rt[k]
             /\ SubSeq(rs, 1, n) \in Seq(S) /\ Len(SubSeq(rs, 1, n)) = n
             /\ \A k \in 1..n : SubSeq(rs, 1, n)[k] = rs[k]
  BY <1>1, <1>2, <1>4
<1> DEFINE x == SubSeq(rt, 1, n)
           y == SubSeq(rs, 1, n)
<1>5. ASSUME EndsWith(s, t) PROVE Len(s) >= n /\ s[Len(s)] = t[n]
  <2>1. n <= Len(s) /\ x = y
    BY <1>3, <1>5
  <2>2. x[1] = rt[1] /\ y[1] = rs[1]
    <3>1. 1 \in 1..n
      BY <1>1
    <3> QED BY <1>4, <2>1, <3>1
  <2>3. rt[1] = t[n] /\ rs[1] = s[Len(s)]
    <3>1. 1 \in 1..n /\ 1 \in 1..Len(s) /\ (n - 1) + 1 = n /\ (Len(s) - 1) + 1 = Len(s)
      BY <1>1, <2>1
    <3> QED BY <1>2, <3>1
  <2> HIDE DEF x, y
  <2> QED BY <1>1, <2>1, <2>2, <2>3
<1>6. ASSUME n = 1, Len(s) >= 1, s[Len(s)] = t[1] PROVE EndsWith(s, t)
  <2>1. rt[1] = t[1] /\ rs[1] = s[Len(s)]
    <3>1. 1 \in 1..n /\ 1 \in 1..Len(s) /\ (n - 1) + 1 = 1 /\ (Len(s) - 1) + 1 = Len(s)
      BY <1>1, <1>6
    <3> QED BY <1>2, <3>1
  <2>2. /\ x \in Seq(S) /\ Len(x) = 1 /\ x[1] = rt[1]
        /\ y \in Seq(S) /\ Len(y) = 1 /\ y[1] = rs[1]
    BY <1>1, <1>4, <1>6
  <2> HIDE DEF x, y
  <2>3. \A k \in 1..Len(x) : x[k] = y[k]
    BY <1>6, <2>1, <2>2
  <2>4. x = y
    BY <2>2, <2>3, SeqEqual
  <2> QED BY <1>1, <1>3, <1>6, <2>4 DEF x, y
<1> QED BY <1>5, <1>6 DEF n

\* What ends with the panic's mark is no text.
LEMMA PanicMark ==
  ASSUME NEW w \in Text
  PROVE  ~EndsWith(w, Panic) /\ EndsWith(w \o Panic, Panic)
<1> DEFINE S == Byte \cup {"panic"}
           p == Panic
           wp == w \o p
<1>1. w \in Seq(S) /\ Len(w) \in Nat /\ \A k \in 1..Len(w) : w[k] \in Byte
  BY DEF Text
<1>2. p \in Seq(S) /\ Len(p) = 1 /\ p[1] = "panic"
  BY DEF Panic
<1> HIDE DEF S, p
<1>3. ~EndsWith(w, p)
  <2> SUFFICES ASSUME EndsWith(w, p) PROVE FALSE
    OBVIOUS
  <2>1. Len(w) >= 1 /\ w[Len(w)] = "panic"
    BY <1>1, <1>2, LastOfSuffix
  <2> QED BY <1>1, <2>1, Wired
<1>4. wp \in Seq(S) /\ Len(wp) = Len(w) + 1 /\ wp[Len(w) + 1] = p[1]
  <2>1. /\ wp \in Seq(S) /\ Len(wp) = Len(w) + Len(p)
        /\ \A i \in 1..(Len(w) + Len(p)) : wp[i] = IF i <= Len(w) THEN w[i] ELSE p[i - Len(w)]
    BY <1>1, <1>2, ConcatProperties
  <2>2. Len(w) + 1 \in 1..(Len(w) + Len(p)) /\ ~(Len(w) + 1 <= Len(w)) /\ (Len(w) + 1) - Len(w) = 1
    BY <1>1, <1>2
  <2> HIDE DEF wp
  <2> QED BY <1>2, <2>1, <2>2
<1> HIDE DEF wp
<1>5. EndsWith(wp, p)
  BY <1>1, <1>2, <1>4, LastOfSuffix
<1> QED BY <1>3, <1>5 DEF wp, p

\* The beginnings of a text.
LEMMA PrefixOf ==
  ASSUME NEW B \in Text, NEW l \in 0..Len(B)
  PROVE  SubSeq(B, 1, l) \in Text /\ IsPrefix(SubSeq(B, 1, l), B)
<1> DEFINE w == SubSeq(B, 1, l)
<1>1. Len(B) \in Nat
  BY LenProperties DEF Text
<1>2. w \in Text /\ Len(w) = l
  BY <1>1 DEF Text
<1> HIDE DEF w
<1>3. SubSeq(w, 1, Len(w)) = w
  BY <1>2, SubSeqFull DEF Text
<1>4. SubSeq(B, 1, Len(w)) = w
  BY <1>2 DEF w
<1>5. Len(w) <= Len(B)
  BY <1>1, <1>2
<1>6. IsPrefix(w, B)
  BY <1>3, <1>4, <1>5 DEF IsPrefix
<1> QED BY <1>2, <1>6 DEF w

\* What is sent, and the head it comes after.
LEMMA OnTheWire ==
  ASSUME NEW r \in Responses
  PROVE  /\ r.head \in Text /\ Sent(r) \in Text /\ TrueBody(r) \in Text /\ Wire(r) \in Text
         /\ r.head \o Blank \in Text
         /\ Len(r.head \o Blank) = Len(r.head) + 4
         /\ Wire(r) = (r.head \o Blank) \o Sent(r)
         /\ Len(Wire(r)) = Len(r.head) + 4 + Len(Sent(r))
<1>1. r.head \in Heads /\ r.chunks \in Bodies
  BY DEF Responses
<1>2. r.head \in Text
  BY <1>1, RequestAssumption DEF Text
<1>3. TrueBody(r) \in Text /\ Chunks(r.chunks) \in Text /\ r.ending \in Text
  BY <1>1, Laid, RequestAssumption DEF TrueBody, Responses, Text
<1>4. Sent(r) \in Text
  <2>1. <<"x">> \in Text
    BY Wired DEF Text
  <2>2. TrueBody(r) \o <<"x">> \in Text
    BY <1>3, <2>1, ConcatParts
  <2>3. Chunks(r.chunks) \o r.ending \in Text
    BY <1>3, ConcatParts
  <2> QED BY <1>3, <2>2, <2>3 DEF Sent, TrueBody
<1>5. Blank \in Text /\ Len(Blank) = 4
  BY Wired DEF Blank, Text
<1>6. /\ r.head \o Blank \in Text /\ Len(r.head \o Blank) = Len(r.head) + Len(Blank)
  BY <1>2, <1>5, ConcatParts
<1>7. Wire(r) = (r.head \o Blank) \o Sent(r)
  BY DEF Wire
<1> DEFINE hb == r.head \o Blank
<1> HIDE DEF hb
<1>8. hb \in Text /\ Len(hb) = Len(r.head) + 4
  BY <1>5, <1>6 DEF hb
<1>9. /\ hb \o Sent(r) \in Text /\ Len(hb \o Sent(r)) = Len(hb) + Len(Sent(r))
  BY <1>4, <1>8, ConcatParts
<1> QED BY <1>2, <1>3, <1>4, <1>6, <1>7, <1>8, <1>9 DEF hb

-----------------------------------------------------------------------------
(* The head of the response in the buffer.                                 *)

\* A blank line, byte by byte.
LEMMA BlankAt ==
  ASSUME NEW s \in Text, NEW k \in 4..Len(s)
  PROVE  SubSeq(s, k - 3, k) = Blank
           <=> s[k - 3] = "r" /\ s[k - 2] = "n" /\ s[k - 1] = "r" /\ s[k] = "n"
<1> DEFINE x == SubSeq(s, k - 3, k)
           y == Blank
<1>1. Len(s) \in Nat
  BY LenProperties DEF Text
<1>2. /\ x \in Seq(Byte) /\ Len(x) = 4
      /\ x[1] = s[k - 3] /\ x[2] = s[k - 2] /\ x[3] = s[k - 1] /\ x[4] = s[k]
  <2> DEFINE m == k - 3
  <2>0. m \in Int /\ k \in Int /\ m <= k /\ k - m + 1 = 4 /\ \A i \in m..k : i \in 1..Len(s)
    BY <1>1
  <2>1. x \in Text /\ Len(x) = 4 /\ \A i \in 1..4 : x[i] = s[(k - 4) + i]
    <3>1. \A i \in 1..Len(s) : s[i] \in Byte
      BY ElementOfSeq DEF Text
    <3> HIDE DEF m
    <3>2. /\ SubSeq(s, m, k) \in Seq(Byte)
          /\ Len(SubSeq(s, m, k)) = IF m <= k THEN k - m + 1 ELSE 0
          /\ \A i \in 1..(k - m + 1) : SubSeq(s, m, k)[i] = s[m + i - 1]
      BY <2>0, <3>1, SubSeqProperties
    <3>3. \A i \in 1..4 : m + i - 1 = (k - 4) + i
      BY <1>1 DEF m
    <3> QED BY <2>0, <3>2, <3>3 DEF m, Text
  <2>2. (k - 4) + 1 = k - 3 /\ (k - 4) + 2 = k - 2 /\ (k - 4) + 3 = k - 1 /\ (k - 4) + 4 = k
    BY <1>1
  <2> HIDE DEF x
  <2>3. /\ x[1] = s[(k - 4) + 1] /\ x[2] = s[(k - 4) + 2]
        /\ x[3] = s[(k - 4) + 3] /\ x[4] = s[(k - 4) + 4]
    BY <2>1
  <2> QED BY <2>1, <2>2, <2>3, Zenon DEF Text
<1>3. /\ y \in Seq(Byte) /\ Len(y) = 4
      /\ y[1] = "r" /\ y[2] = "n" /\ y[3] = "r" /\ y[4] = "n"
  BY Wired DEF Blank
<1> HIDE DEF x, y
<1>4. ASSUME x[1] = y[1], x[2] = y[2], x[3] = y[3], x[4] = y[4] PROVE x = y
  <2>1. \A i \in 1..Len(x) : x[i] = y[i]
    <3>1. \A i \in 1..4 : i = 1 \/ i = 2 \/ i = 3 \/ i = 4
      OBVIOUS
    <3> QED BY <1>2, <1>4, <3>1
  <2> QED BY <1>2, <1>3, <2>1, SeqEqual
<1>5. x = y <=> x[1] = y[1] /\ x[2] = y[2] /\ x[3] = y[3] /\ x[4] = y[4]
  BY <1>4
<1> QED BY <1>2, <1>3, <1>5 DEF x, y

\* What read_http_response takes for the head is the head, once it is there.
LEMMA HeadFound ==
  ASSUME NEW r \in Responses, NEW g \in 0..Len(Wire(r)), NEW s, s = SubSeq(Wire(r), 1, g)
  PROVE  /\ s \in Text /\ Len(s) = g /\ \A k \in 1..g : s[k] = Wire(r)[k]
         /\ HeaderLen(s) = IF Len(r.head) + 4 <= g THEN Len(r.head) + 4 ELSE 0
<1> DEFINE W == Wire(r)
           hb == r.head \o Blank
           H == Len(r.head) + 4
<1>1. /\ W \in Text /\ hb \in Text /\ Len(hb) = H /\ Sent(r) \in Text /\ W = hb \o Sent(r)
      /\ Len(W) \in Nat /\ Len(r.head) \in Nat /\ H \in Nat /\ H >= 4
  <2>1. /\ W \in Text /\ hb \in Text /\ Len(hb) = H /\ Sent(r) \in Text /\ W = hb \o Sent(r)
        /\ r.head \in Text
    BY OnTheWire, Zenon
  <2>2. Len(W) \in Nat /\ Len(r.head) \in Nat
    BY <2>1, LenProperties, Zenon DEF Text
  <2>3. H \in Nat /\ H >= 4
    BY <2>2
  <2> QED BY <2>1, <2>2, <2>3, Zenon
<1>2. s \in Text /\ Len(s) = g /\ \A k \in 1..g : s[k] = W[k]
  <2>1. W \in Seq(Byte) /\ Len(W) \in Nat /\ g \in 0..Len(W) /\ s = SubSeq(W, 1, g)
    BY <1>1, Zenon DEF Text
  <2> HIDE DEF W
  <2> QED BY <2>1 DEF Text
<1>3. \A k \in 1..H : W[k] = hb[k]
  <2> HIDE DEF W, hb, H
  <2>1. \A k \in 1..Len(hb) : (hb \o Sent(r))[k] = hb[k]
    BY <1>1, ConcatParts
  <2> QED BY <1>1, <2>1
<1>4. g \in Nat
  BY <1>1
<1> DEFINE Ends(k) == SubSeq(s, k - 3, k) = Blank
<1>5. ASSUME NEW k \in 4..g, k <= H
      PROVE  SubSeq(s, k - 3, k) = Blank <=> SubSeq(hb, k - 3, k) = Blank
  <2> HIDE DEF hb, H, W
  <2>1. k \in 4..Len(s) /\ k \in 4..Len(hb)
    BY <1>1, <1>2, <1>4, <1>5
  <2>2. /\ k - 3 \in 1..g /\ k - 2 \in 1..g /\ k - 1 \in 1..g /\ k \in 1..g
        /\ k - 3 \in 1..H /\ k - 2 \in 1..H /\ k - 1 \in 1..H /\ k \in 1..H
    BY <1>1, <1>4, <1>5
  <2>3. s[k - 3] = hb[k - 3] /\ s[k - 2] = hb[k - 2] /\ s[k - 1] = hb[k - 1] /\ s[k] = hb[k]
    BY <1>2, <1>3, <2>2
  <2>4. SubSeq(s, k - 3, k) = Blank
          <=> s[k - 3] = "r" /\ s[k - 2] = "n" /\ s[k - 1] = "r" /\ s[k] = "n"
    BY <1>2, <2>1, BlankAt
  <2>5. SubSeq(hb, k - 3, k) = Blank
          <=> hb[k - 3] = "r" /\ hb[k - 2] = "n" /\ hb[k - 1] = "r" /\ hb[k] = "n"
    BY <1>1, <2>1, BlankAt
  <2> QED BY <2>3, <2>4, <2>5, Zenon
<1>6. \A k \in 4..(Len(r.head) + 3) : SubSeq(hb, k - 3, k) # Blank
  BY RequestAssumption DEF Responses
<1>7. SubSeq(hb, H - 3, H) = Blank
  <2>1. Blank \in Text /\ Len(Blank) = 4 /\ r.head \in Text
    BY Wired, OnTheWire DEF Blank, Text
  <2>2. \A k \in 1..4 : hb[Len(r.head) + k] = Blank[k]
    <3> DEFINE hd == r.head
    <3>1. hd \in Text
      BY <2>1
    <3> HIDE DEF hd
    <3>2. \A k \in 1..Len(Blank) : (hd \o Blank)[Len(hd) + k] = Blank[k]
      BY <2>1, <3>1, ConcatParts
    <3>3. \A k \in 1..4 : (hd \o Blank)[Len(hd) + k] = Blank[k]
      BY <2>1, <3>2
    <3> QED BY <3>3 DEF hd
  <2>3. Blank[1] = "r" /\ Blank[2] = "n" /\ Blank[3] = "r" /\ Blank[4] = "n"
    BY DEF Blank
  <2> HIDE DEF hb
  <2>4. hb[H - 3] = "r" /\ hb[H - 2] = "n" /\ hb[H - 1] = "r" /\ hb[H] = "n"
    <3>1. /\ H - 3 = Len(r.head) + 1 /\ H - 2 = Len(r.head) + 2 /\ H - 1 = Len(r.head) + 3
          /\ H = Len(r.head) + 4
      BY <1>1
    <3>2. 1 \in 1..4 /\ 2 \in 1..4 /\ 3 \in 1..4 /\ 4 \in 1..4
      OBVIOUS
    <3> HIDE DEF H
    <3> QED BY <2>2, <2>3, <3>1, <3>2
  <2>5. H \in 4..Len(hb)
    BY <1>1
  <2> HIDE DEF H
  <2> QED BY <1>1, <2>4, <2>5, BlankAt
<1> DEFINE First(k) == k \in 4..Len(s) /\ SubSeq(s, k - 3, k) = Blank
                       /\ \A j \in 4..(k - 1) : SubSeq(s, j - 3, j) # Blank
<1>8. ASSUME NEW k \in 4..g, k < H PROVE SubSeq(s, k - 3, k) # Blank
  <2>1. k \in 4..(Len(r.head) + 3) /\ k <= H
    BY <1>1, <1>8
  <2> QED BY <1>5, <1>6, <2>1
<1>9. CASE H <= g
  <2> HIDE DEF hb, H
  <2>1. H \in 4..g /\ H <= H
    BY <1>1, <1>4, <1>9
  <2>2. SubSeq(s, H - 3, H) = Blank
    BY <1>5, <1>7, <2>1
  <2>3. \A j \in 4..(H - 1) : SubSeq(s, j - 3, j) # Blank
    <3> SUFFICES ASSUME NEW j \in 4..(H - 1) PROVE SubSeq(s, j - 3, j) # Blank
      OBVIOUS
    <3>1. j \in 4..g /\ j < H
      BY <1>1, <1>4, <1>9
    <3> QED BY <1>8, <3>1
  <2>4. First(H)
    BY <1>2, <2>1, <2>2, <2>3
  <2>5. \A k : First(k) => k = H
    <3> SUFFICES ASSUME NEW k, First(k) PROVE k = H
      OBVIOUS
    <3>1. k \in 4..g
      BY <1>2
    <3>2. ~(k < H)
      BY <1>8, <3>1
    <3>3. ~(H < k)
      <4>1. H < k => H \in 4..(k - 1)
        BY <1>1, <1>4, <3>1
      <4> QED BY <2>2, <4>1
    <3> QED BY <1>1, <1>4, <3>1, <3>2, <3>3
  <2>6. HeaderLen(s) = CHOOSE k \in 4..Len(s) : SubSeq(s, k - 3, k) = Blank
                         /\ \A j \in 4..(k - 1) : SubSeq(s, j - 3, j) # Blank
    BY <1>2, <2>1, <2>2, Zenon DEF HeaderLen
  <2>7. First(HeaderLen(s))
    BY <2>4, <2>6, Zenon
  <2>8. HeaderLen(s) = H
    <3> HIDE DEF First
    <3> QED BY <2>5, <2>7
  <2> QED BY <1>2, <1>9, <2>8 DEF H
<1>10. CASE ~(H <= g)
  <2>1. \A k \in 4..Len(s) : SubSeq(s, k - 3, k) # Blank
    <3> SUFFICES ASSUME NEW k \in 4..Len(s) PROVE SubSeq(s, k - 3, k) # Blank
      OBVIOUS
    <3>1. k \in 4..g /\ k < H
      BY <1>1, <1>2, <1>4, <1>10
    <3> QED BY <1>8, <3>1
  <2>2. HeaderLen(s) = 0
    BY <2>1, Zenon DEF HeaderLen
  <2> QED BY <1>2, <1>10, <2>2
<1> QED BY <1>9, <1>10

\* What follows the head in the buffer is the beginning of what is sent.
LEMMA AfterHead ==
  ASSUME NEW r \in Responses, NEW g \in 0..Len(Wire(r)), Len(r.head) + 4 <= g,
         NEW s, s = SubSeq(Wire(r), 1, g)
  PROVE  /\ g - (Len(r.head) + 4) \in 0..Len(Sent(r))
         /\ SubSeq(s, Len(r.head) + 4 + 1, Len(s)) = SubSeq(Sent(r), 1, g - (Len(r.head) + 4))
         /\ \A k \in 1..(g - (Len(r.head) + 4)) : Sent(r)[k] = s[Len(r.head) + 4 + k]
<1> DEFINE W == Wire(r)
           hb == r.head \o Blank
           H == Len(r.head) + 4
           N == Sent(r)
           l == g - H
<1>1. /\ W \in Text /\ hb \in Text /\ Len(hb) = H /\ N \in Text /\ W = hb \o N
      /\ Len(W) \in Nat /\ Len(N) \in Nat /\ H \in Nat /\ Len(W) = H + Len(N)
  BY OnTheWire, LenProperties DEF Text
<1>2. s \in Text /\ Len(s) = g /\ \A k \in 1..g : s[k] = W[k]
  <2>1. g \in 0..Len(W) /\ s = SubSeq(W, 1, g)
    OBVIOUS
  <2> HIDE DEF W, hb, N, H, l
  <2>2. W \in Text
    BY <1>1
  <2>3. \A t \in Text : \A n \in 0..Len(t) :
          /\ SubSeq(t, 1, n) \in Text /\ Len(SubSeq(t, 1, n)) = n
          /\ \A k \in 1..n : SubSeq(t, 1, n)[k] = t[k]
    BY DEF Text
  <2> QED BY <2>1, <2>2, <2>3, Zenon
<1> HIDE DEF W, hb, N
<1>3. \A k \in 1..Len(N) : W[H + k] = N[k]
  <2>1. \A k \in 1..Len(N) : (hb \o N)[Len(hb) + k] = N[k]
    BY <1>1, ConcatParts
  <2> QED BY <1>1, <2>1
<1>4. g \in Nat /\ l \in 0..Len(N) /\ H + l = g
  <2>1. g \in 0..Len(W) /\ H <= g
    BY DEF W
  <2> HIDE DEF H
  <2> QED BY <1>1, <2>1
<1> HIDE DEF H, l
<1>5. ASSUME NEW k \in 1..l PROVE N[k] = s[H + k]
  <2>1. k \in 1..Len(N) /\ H + k \in 1..g
    BY <1>1, <1>4
  <2> QED BY <1>2, <1>3, <2>1
<1> DEFINE x == SubSeq(s, H + 1, Len(s))
           y == SubSeq(N, 1, l)
<1>6. x \in Text /\ Len(x) = l /\ \A k \in 1..l : x[k] = s[H + k]
  BY <1>1, <1>2, <1>4 DEF Text
<1>7. y \in Text /\ Len(y) = l /\ \A k \in 1..l : y[k] = N[k]
  BY <1>1, <1>4 DEF Text
<1> HIDE DEF x, y
<1>8. x = y
  <2>1. \A k \in 1..Len(x) : x[k] = y[k]
    BY <1>5, <1>6, <1>7
  <2> QED BY <1>6, <1>7, <2>1, SeqEqual DEF Text
<1> QED BY <1>4, <1>5, <1>8 DEF x, y, H, N, l

-----------------------------------------------------------------------------
(* What is returned of the buffer.                                         *)

LEMMA MinOfTwo ==
  ASSUME NEW a \in Nat, NEW b \in Nat
  PROVE  Min({a, b}) = IF a <= b THEN a ELSE b
BY DEF Min

\* What is returned of the first g bytes of a response whose head is in them.
LEMMA Outcome ==
  ASSUME resp \in Responses, WellSent, NEW g \in 0..Len(Wire(resp)),
         NEW s, s = SubSeq(Wire(resp), 1, g), HeaderLen(s) # 0
  PROVE  /\ s \in Text /\ Len(s) = g /\ Len(resp.head) + 4 <= g
         /\ EndsWith(BodyOf(s), Panic) =>
              resp.framing = "chunked" /\ g < Len(Wire(resp)) /\ g >= 1 /\ s[g] = "r"
         /\ ~EndsWith(BodyOf(s), Panic) =>
              /\ IsPrefix(BodyOf(s), TrueBody(resp))
              /\ g = Len(Wire(resp)) => BodyOf(s) = TrueBody(resp)
              /\ resp.framing = "length" /\ Complete(s) => BodyOf(s) = TrueBody(resp)
<1> DEFINE W == Wire(resp)
           N == Sent(resp)
           B == TrueBody(resp)
           H == Len(resp.head) + 4
           raw == SubSeq(s, H + 1, Len(s))
           l == g - H
<1>1. s \in Text /\ Len(s) = g /\ HeaderLen(s) = H /\ H <= g
  <2>1. /\ s \in Text /\ Len(s) = g
        /\ HeaderLen(s) = IF H <= g THEN H ELSE 0
    BY HeadFound
  <2> QED BY <2>1
<1>2. /\ W \in Text /\ N \in Text /\ B \in Text /\ Len(W) = H + Len(N) /\ H \in Nat /\ H >= 4
      /\ Len(W) \in Nat /\ Len(N) \in Nat /\ Len(B) \in Nat
  BY OnTheWire, LenProperties DEF Text
<1>3. /\ l \in 0..Len(N) /\ raw = SubSeq(N, 1, l)
      /\ \A k \in 1..l : N[k] = s[H + k]
  BY <1>1, AfterHead
<1>4. g \in Nat /\ H + l = g /\ (g = Len(W) <=> l = Len(N)) /\ (g < Len(W) <=> l < Len(N))
  <2>1. g \in 0..Len(W)
    BY DEF W
  <2> HIDE DEF H, W
  <2> QED BY <1>2, <2>1
<1>5. BodyOf(s) = CASE resp.framing = "chunked" -> DecodeChunked(raw)
                    [] resp.framing = "length" -> Counted(raw)
                    [] OTHER -> raw
  BY <1>1 DEF BodyOf
<1> HIDE DEF W, H, l
<1>6. CASE resp.framing = "chunked"
  <2> DEFINE cs == resp.chunks
             t == resp.ending
             w == DecodeChunked(raw)
  <2>1. /\ cs \in Bodies /\ t \in Text /\ Closes(t)
        /\ N = Chunks(cs) \o t /\ B = DataOf(cs) /\ BodyOf(s) = w
    BY <1>5, <1>6, RequestAssumption DEF WellSent, Sent, TrueBody, Responses, Text
  <2>2. /\ l = Len(N) => w = B
        /\ \/ \E k \in 0..Len(B) : w = SubSeq(B, 1, k)
           \/ /\ \E k \in 0..Len(B) : w = SubSeq(B, 1, k) \o Panic
              /\ l >= 1 /\ N[l] = "r"
    <3> HIDE DEF cs, t, N, B, raw
    <3>1. w = DecodeChunked(SubSeq(N, 1, l)) /\ l \in 0..Len(N)
      BY <1>3
    <3> HIDE DEF w
    <3>2. MayDecode(DataOf(cs), N, l, w)
      <4>1. /\ cs \in Bodies /\ t \in Text /\ Closes(t) /\ N = Chunks(cs) \o t
            /\ l \in 0..Len(N) /\ w = DecodeChunked(SubSeq(N, 1, l))
        BY <2>1, <3>1, Zenon
      <4> QED BY <4>1, Decoding, Zenon
    <3> QED BY <2>1, <3>2 DEF MayDecode
  <2> HIDE DEF N, B, raw, w, cs
  <2>3. ~(resp.framing = "length")
    BY <1>6
  <2>4. CASE \E k \in 0..Len(B) : w = SubSeq(B, 1, k)
    <3>1. w \in Text /\ IsPrefix(w, B)
      BY <1>2, <2>4, PrefixOf
    <3>2. ~EndsWith(w, Panic)
      BY <3>1, PanicMark
    <3> QED BY <1>1, <1>4, <2>1, <2>2, <2>3, <3>1, <3>2, Zenon DEF B, W, H
  <2>5. CASE /\ \E k \in 0..Len(B) : w = SubSeq(B, 1, k) \o Panic
             /\ l >= 1 /\ N[l] = "r"
    <3>1. EndsWith(w, Panic)
      <4>1. PICK k \in 0..Len(B) : w = SubSeq(B, 1, k) \o Panic
        BY <2>5
      <4>2. SubSeq(B, 1, k) \in Text
        BY <1>2, PrefixOf
      <4> QED BY <4>1, <4>2, PanicMark
    <3>2. ~(l = Len(N))
      <4> SUFFICES ASSUME l = Len(N) PROVE FALSE
        OBVIOUS
      <4>1. w \in Text
        BY <1>2, <2>2
      <4> QED BY <3>1, <4>1, PanicMark
    <3>3. g < Len(W) /\ g >= 1 /\ s[g] = "r"
      <4>1. l \in 1..l /\ l < Len(N)
        BY <1>2, <1>3, <2>5, <3>2
      <4>2. N[l] = s[H + l]
        BY <1>3, <4>1
      <4>3. g >= 1
        BY <1>1, <1>2, <1>4
      <4> QED BY <1>4, <2>5, <4>1, <4>2, <4>3
    <3> QED BY <1>1, <1>6, <2>1, <3>1, <3>3, Zenon DEF W, H
  <2> QED BY <2>2, <2>4, <2>5
<1>7. ASSUME NEW w, BodyOf(s) = w,
             ~(resp.framing = "chunked"),
             \E k \in 0..Len(B) : w = SubSeq(B, 1, k),
             g = Len(W) => w = B,
             resp.framing = "length" /\ Complete(s) => w = B
      PROVE  /\ ~EndsWith(BodyOf(s), Panic) /\ IsPrefix(BodyOf(s), B)
             /\ g = Len(W) => BodyOf(s) = B
             /\ resp.framing = "length" /\ Complete(s) => BodyOf(s) = B
  <2> HIDE DEF B
  <2>1. w \in Text /\ IsPrefix(w, B)
    BY <1>2, <1>7, PrefixOf
  <2>2. ~EndsWith(w, Panic)
    BY <2>1, PanicMark
  <2> QED BY <1>7, <2>1, <2>2, Zenon
<1>8. CASE resp.framing = "length"
  <2> DEFINE w == Counted(raw)
             k == IF l <= Len(B) THEN l ELSE Len(B)
             z == <<"x">>
  <2>1. BodyOf(s) = w /\ ~(resp.framing = "chunked")
    BY <1>5, <1>8
  <2>2. N = B \o z
    BY <1>8 DEF Sent, TrueBody
  <2>3. z \in Text /\ Len(z) = 1
    BY Wired DEF Text
  <2> HIDE DEF N, B, z
  <2>4. Len(N) = Len(B) + 1 /\ \A j \in 1..Len(B) : N[j] = B[j]
    <3>1. Len(B \o z) = Len(B) + Len(z) /\ \A j \in 1..Len(B) : (B \o z)[j] = B[j]
      BY <1>2, <2>3, ConcatParts
    <3> QED BY <2>2, <2>3, <3>1
  <2>5. raw \in Text /\ Len(raw) = l /\ l \in Nat /\ \A j \in 1..l : raw[j] = N[j]
    <3> DEFINE q == SubSeq(N, 1, l)
    <3>1. q \in Text /\ Len(q) = l /\ l \in Nat /\ \A j \in 1..l : q[j] = N[j]
      BY <1>2, <1>3 DEF Text
    <3> HIDE DEF q, raw
    <3> QED BY <1>3, <3>1 DEF q
  <2> HIDE DEF raw
  <2>6. k \in 0..Len(B) /\ k <= l /\ k \in Nat
    BY <1>2, <2>5
  <2>7. w = SubSeq(raw, 1, k)
    <3>1. Min({l, Len(B)}) = k
      BY <1>2, <2>5, MinOfTwo
    <3> QED BY <2>5, <3>1, Zenon DEF Counted, B
  <2> HIDE DEF w, k
  <2>8. w = SubSeq(B, 1, k)
    <3> DEFINE x == SubSeq(raw, 1, k)
               y == SubSeq(B, 1, k)
    <3>1. x \in Text /\ Len(x) = k /\ \A j \in 1..k : x[j] = raw[j]
      BY <2>5, <2>6 DEF Text
    <3>2. y \in Text /\ Len(y) = k /\ \A j \in 1..k : y[j] = B[j]
      BY <1>2, <2>6 DEF Text
    <3>3. \A j \in 1..k : j \in 1..l /\ j \in 1..Len(B)
      BY <1>2, <2>5, <2>6
    <3> HIDE DEF x, y
    <3>4. \A j \in 1..Len(x) : x[j] = y[j]
      BY <2>4, <2>5, <3>1, <3>2, <3>3
    <3>5. x = y
      BY <3>1, <3>2, <3>4, SeqEqual DEF Text
    <3> QED BY <2>7, <3>5 DEF x, y
  <2>9. l >= Len(B) => w = B
    <3> SUFFICES ASSUME l >= Len(B) PROVE w = B
      OBVIOUS
    <3>1. k = Len(B)
      BY <1>2, <2>5 DEF k
    <3>2. SubSeq(B, 1, Len(B)) = B
      BY <1>2, SubSeqFull DEF Text
    <3> QED BY <2>8, <3>1, <3>2
  <2>10. g = Len(W) => w = B
    BY <1>2, <1>4, <2>4, <2>9
  <2>11. Complete(s) => w = B
    <3> SUFFICES ASSUME Complete(s) PROVE w = B
      OBVIOUS
    <3>1. Len(s) - H >= Len(B)
      BY <1>1, <1>8 DEF Complete, HasLength, B
    <3>2. l >= Len(B)
      BY <1>1, <3>1 DEF l
    <3> QED BY <2>9, <3>2
  <2>12. /\ ~EndsWith(BodyOf(s), Panic) /\ IsPrefix(BodyOf(s), B)
         /\ g = Len(W) => BodyOf(s) = B
         /\ resp.framing = "length" /\ Complete(s) => BodyOf(s) = B
    BY <1>7, <2>1, <2>6, <2>8, <2>10, <2>11
  <2> QED BY <1>1, <2>12, Zenon DEF B, W, H
<1>9. CASE resp.framing \notin {"chunked", "length"}
  <2>1. BodyOf(s) = raw /\ N = B /\ ~(resp.framing = "chunked") /\ ~(resp.framing = "length")
    BY <1>5, <1>9 DEF Sent, TrueBody
  <2> HIDE DEF raw, N, B
  <2>2. raw = SubSeq(B, 1, l) /\ l \in 0..Len(B)
    BY <1>3, <2>1
  <2>3. g = Len(W) => raw = B
    <3>1. SubSeq(B, 1, Len(B)) = B
      BY <1>2, SubSeqFull DEF Text
    <3> QED BY <1>4, <2>1, <2>2, <3>1
  <2>4. /\ ~EndsWith(BodyOf(s), Panic) /\ IsPrefix(BodyOf(s), B)
        /\ g = Len(W) => BodyOf(s) = B
        /\ resp.framing = "length" /\ Complete(s) => BodyOf(s) = B
    BY <1>7, <2>1, <2>2, <2>3
  <2> QED BY <1>1, <2>4, Zenon DEF B, W, H
<1> QED BY <1>6, <1>8, <1>9

-----------------------------------------------------------------------------
(* The steps of a request.                                                 *)

\* The last chunk ends with the last byte of a line end.
LEMMA LastChunkBytes == LastChunk \in Seq(Byte) /\ Len(LastChunk) = 5 /\ LastChunk[5] = "n"
<1> DEFINE z == <<"0">>
           b == Blank
<1>1. z \in Text /\ Len(z) = 1
  BY Wired DEF Text
<1>2. b \in Text /\ Len(b) = 4 /\ b[4] = "n"
  BY Wired DEF Blank, Text
<1> HIDE DEF z, b
<1>3. /\ z \o b \in Text /\ Len(z \o b) = Len(z) + Len(b)
      /\ \A k \in 1..Len(b) : (z \o b)[Len(z) + k] = b[k]
  BY <1>1, <1>2, ConcatParts
<1>4. LastChunk = z \o b
  BY DEF LastChunk, z, b
<1> DEFINE q == z \o b
<1> HIDE DEF q
<1>5. q \in Seq(Byte) /\ Len(q) = 5 /\ \A k \in 1..4 : q[1 + k] = b[k]
  BY <1>1, <1>2, <1>3 DEF q, Text
<1>6. q[1 + 4] = "n" /\ 1 + 4 = 5
  BY <1>2, <1>5
<1>7. q[5] = "n"
  BY <1>6
<1> QED BY <1>4, <1>5, <1>7 DEF q

\* A request has read some of its own response.
WholeInv == resp \in Responses /\ got \in 0..Len(Wire(resp)) /\ BodyIsWhole

LEMMA WholeInit == Init => WholeInv
<1> SUFFICES ASSUME Init PROVE WholeInv
  OBVIOUS
<1>1. resp \in Responses /\ got = 0 /\ phase = "connect"
  BY DEF Init
<1>2. Len(Wire(resp)) \in Nat
  BY <1>1, OnTheWire, LenProperties DEF Text
<1> QED BY <1>1, <1>2 DEF WholeInv, BodyIsWhole

\* A handler that neither returns a body nor panics.
LEMMA Unanswered ==
  ASSUME WholeInv, resp' = resp, got' \in 0..Len(Wire(resp)), phase' \notin {"ok", "panicked"}
  PROVE  WholeInv'
BY DEF WholeInv, BodyIsWhole

\* A response with a chunk that is not there is claimed nothing of.
LEMMA IllSent ==
  ASSUME WholeInv, resp' = resp, got' \in 0..Len(Wire(resp)), ~WellSent
  PROVE  WholeInv'
BY DEF WholeInv, BodyIsWhole, WellSent

\* An attempt that fails.
LEMMA Failing ==
  ASSUME NEW e, Fails(e)
  PROVE  resp' = resp /\ phase' \notin {"ok", "panicked"}
BY DEF Fails

\* A read that completes the response has either all of it or what looks like
\* its end; the decoder cannot be between the two bytes of a line end then.
LEMMA WholeRead ==
  ASSUME WholeInv, Read
  PROVE  WholeInv'
<1> DEFINE W == Wire(resp)
<1>1. resp \in Responses /\ got \in 0..Len(W) /\ Len(W) \in Nat /\ phase = "read"
  BY OnTheWire, LenProperties DEF WholeInv, Read, Text
<1>2. PICK more \in 1..(Len(W) - got) :
        /\ got' = got + more
        /\ IF Complete(SubSeq(W, 1, got + more)) THEN Finish(SubSeq(W, 1, got + more))
           ELSE UNCHANGED <<call, resp, phase, attempt, error, body>>
  BY Zenon DEF Read
<1> DEFINE g == got + more
           s == SubSeq(W, 1, g)
           w == BodyOf(s)
<1>3. g \in 0..Len(W) /\ got' = g /\ cut' = cut
  BY <1>1, <1>2 DEF Read
<1> HIDE DEF g
<1>4. CASE ~Complete(s)
  <2>1. resp' = resp /\ phase' = "read"
    BY <1>1, <1>2, <1>4 DEF g
  <2> QED BY <1>3, <2>1, Unanswered
<1>5. CASE Complete(s)
  <2>1. Finish(s)
    BY <1>2, <1>5 DEF g
  <2>2. CASE \E e : Fails(e)
    <3>1. resp' = resp /\ phase' \notin {"ok", "panicked"}
      BY <2>2, Failing
    <3> QED BY <1>3, <3>1, Unanswered
  <2>3. CASE ~WellSent
    <3>1. resp' = resp
      BY <2>1, Zenon DEF Finish, Fails
    <3> QED BY <1>3, <2>3, <3>1, IllSent
  <2>4. CASE WellSent /\ ~\E e : Fails(e)
    <3>1. /\ HeaderLen(s) # 0 /\ resp' = resp
          /\ \/ EndsWith(w, Panic) /\ phase' = "panicked"
             \/ ~EndsWith(w, Panic) /\ phase' = "ok" /\ body' = w
      BY <2>1, <2>4, Zenon DEF Finish
    <3>2. /\ s \in Text /\ Len(s) = g /\ Len(resp.head) + 4 <= g
          /\ EndsWith(w, Panic) =>
               resp.framing = "chunked" /\ g < Len(W) /\ g >= 1 /\ s[g] = "r"
          /\ ~EndsWith(w, Panic) =>
               /\ IsPrefix(w, TrueBody(resp))
               /\ g = Len(W) => w = TrueBody(resp)
               /\ resp.framing = "length" /\ Complete(s) => w = TrueBody(resp)
      BY <1>1, <1>3, <2>4, <3>1, Outcome
    <3>3. resp.framing = "chunked" => EndsWith(s, LastChunk)
      BY <1>5 DEF Complete, LooksDone
    <3>4. resp.framing \in {"chunked", "length"}
      BY <1>5 DEF Complete
    <3> HIDE DEF s, w
    <3>5. ~EndsWith(w, Panic)
      <4> SUFFICES ASSUME EndsWith(w, Panic) PROVE FALSE
        OBVIOUS
      <4>1. LastChunk \in Seq(Byte) /\ Len(LastChunk) = 5 /\ LastChunk[5] = "n"
        BY LastChunkBytes
      <4>2. EndsWith(s, LastChunk) /\ s \in Seq(Byte) /\ Len(LastChunk) >= 1
        BY <3>2, <3>3, <4>1 DEF Text
      <4>3. s[Len(s)] = LastChunk[Len(LastChunk)]
        BY <4>1, <4>2, LastOfSuffix
      <4>4. s[g] = "n"
        BY <3>2, <4>1, <4>3
      <4> QED BY <3>2, <4>4
    <3>6. phase' = "ok" /\ body' = w /\ resp' = resp
      BY <3>1, <3>5
    <3>7. w = TrueBody(resp) \/ LooksDoneEarly
      <4>1. CASE resp.framing = "length" \/ g = Len(W)
        BY <1>5, <3>2, <3>5, <4>1
      <4>2. CASE ~(resp.framing = "length" \/ g = Len(W))
        <5>1. EndsWith(SubSeq(Wire(resp), 1, g), LastChunk) /\ resp.framing = "chunked"
          BY <3>3, <3>4, <4>2 DEF s
        <5>2. g \in (Len(resp.head) + 4)..(Len(Wire(resp)) - 1)
          <6>1. Len(resp.head) \in Nat
            BY <1>1, OnTheWire, LenProperties DEF Text
          <6> QED BY <1>1, <1>3, <3>2, <4>2, <6>1
        <5> QED BY <5>1, <5>2, Zenon DEF LooksDoneEarly
      <4> QED BY <4>1, <4>2
    <3>8. LooksDoneEarly <=> LooksDoneEarly'
      BY <3>6 DEF LooksDoneEarly
    <3>9. BodyIsWhole'
      BY <3>2, <3>5, <3>6, <3>7, <3>8 DEF BodyIsWhole
    <3> QED BY <1>1, <1>3, <3>6, <3>9 DEF WholeInv
  <2> QED BY <2>2, <2>3, <2>4
<1> QED BY <1>4, <1>5

\* A connection that ends before the response does is noticed as cut.
LEMMA WholeEof ==
  ASSUME WholeInv, ReadEof
  PROVE  WholeInv'
<1> DEFINE W == Wire(resp)
           g == got
           s == SubSeq(W, 1, g)
           w == BodyOf(s)
<1>1. /\ resp \in Responses /\ got \in 0..Len(W) /\ Len(W) \in Nat
      /\ got' = got /\ cut' = (got < Len(W)) /\ Finish(s)
  BY OnTheWire, LenProperties DEF WholeInv, ReadEof, Text, Buffer
<1>2. CASE \E e : Fails(e)
  <2>1. resp' = resp /\ phase' \notin {"ok", "panicked"}
    BY <1>2, Failing
  <2> QED BY <1>1, <2>1, Unanswered
<1>3. CASE ~WellSent
  <2>1. resp' = resp
    BY <1>1, Zenon DEF Finish, Fails
  <2> QED BY <1>1, <1>3, <2>1, IllSent
<1>4. CASE WellSent /\ ~\E e : Fails(e)
  <2>1. /\ HeaderLen(s) # 0 /\ resp' = resp
        /\ \/ EndsWith(w, Panic) /\ phase' = "panicked"
           \/ ~EndsWith(w, Panic) /\ phase' = "ok" /\ body' = w
    BY <1>1, <1>4, Zenon DEF Finish
  <2>2. /\ EndsWith(w, Panic) => g < Len(W)
        /\ ~EndsWith(w, Panic) =>
             /\ IsPrefix(w, TrueBody(resp))
             /\ g = Len(W) => w = TrueBody(resp)
    BY <1>1, <1>4, <2>1, Outcome
  <2> HIDE DEF s, w
  <2>3. EndsWith(w, Panic) => cut'
    BY <1>1, <2>2
  <2>4. ~EndsWith(w, Panic) => w = TrueBody(resp) \/ (cut' /\ IsPrefix(w, TrueBody(resp)))
    <3>1. g = Len(W) \/ got < Len(W)
      BY <1>1
    <3> QED BY <1>1, <2>2, <3>1, Zenon
  <2>5. BodyIsWhole'
    BY <2>1, <2>3, <2>4 DEF BodyIsWhole
  <2> QED BY <1>1, <2>1, <2>5 DEF WholeInv
<1> QED BY <1>2, <1>3, <1>4

LEMMA WholeStep == WholeInv /\ [Next]_vars => WholeInv'
<1> SUFFICES ASSUME WholeInv, [Next]_vars PROVE WholeInv'
  OBVIOUS
<1>1. resp \in Responses /\ got \in 0..Len(Wire(resp)) /\ 0 \in 0..Len(Wire(resp))
  BY OnTheWire, LenProperties DEF WholeInv, Text
<1>2. CASE Connect
  <2>1. resp' = resp /\ got' = got /\ phase' \notin {"ok", "panicked"}
    BY <1>2 DEF Connect, Goto
  <2> QED BY <1>1, <2>1, Unanswered
<1>3. CASE Handshake
  <2>1. resp' = resp /\ got' = got /\ phase' \notin {"ok", "panicked"}
    BY <1>3 DEF Handshake, Goto
  <2> QED BY <1>1, <2>1, Unanswered
<1>4. CASE SendRequest
  <2>1. resp' = resp /\ got' = got /\ phase' \notin {"ok", "panicked"}
    BY <1>4 DEF SendRequest, Goto
  <2> QED BY <1>1, <2>1, Unanswered
<1>5. CASE Timeout
  <2>1. got' = got /\ Fails("timed out")
    BY <1>5 DEF Timeout
  <2> QED BY <1>1, <2>1, Failing, Unanswered
<1>6. CASE Backoff
  <2>1. resp' = resp /\ got' = 0 /\ phase' \notin {"ok", "panicked"}
    BY <1>6 DEF Backoff
  <2> QED BY <1>1, <2>1, Unanswered
<1>7. CASE NetworkFails
  <2>1. got' = got /\ \E e : Fails(e)
    BY <1>7, Zenon DEF NetworkFails
  <2> QED BY <1>1, <2>1, Failing, Unanswered
<1>8. CASE UNCHANGED vars
  BY <1>8 DEF vars, WholeInv, BodyIsWhole, WellSent, LooksDoneEarly
<1> QED BY <1>2, <1>3, <1>4, <1>5, <1>6, <1>7, <1>8, WholeRead, WholeEof DEF Next, ClientStep

\* PinnedConnector, whatever the heads, the bodies and the pieces they arrive in:
\* a request that returns ok while the connection held returns the whole body,
\* one cut short or fooled by its own data a beginning of it, and a task panics
\* in the decoder only if the response was cut.
THEOREM BodiesAreWhole == Spec => []BodyIsWhole
<1>1. WholeInv => BodyIsWhole
  BY DEF WholeInv
<1> QED BY <1>1, WholeInit, WholeStep, PTL DEF Spec

-----------------------------------------------------------------------------
(* The types.                                                              *)

\* with_retry sleeps only before an attempt it still has.
CountInv == phase = "backoff" => attempt < MaxAttempts

\* Type correctness of the request: no step takes more attempts than
\* max_attempts, reads past the response or leaves the phases and errors named.
THEOREM TypeCorrect == Spec => []TypeOK
<1> DEFINE Inv == TypeOK /\ CountInv /\ WholeInv
<1>1. Init => Inv
  <2> SUFFICES ASSUME Init PROVE Inv
    OBVIOUS
  <2>1. WholeInv
    BY WholeInit
  <2>2. MaxAttempts \in Nat \ {0} /\ 1 \in 1..MaxAttempts
    BY RequestAssumption
  <2> QED BY <2>1, <2>2 DEF Init, TypeOK, CountInv, WholeInv, Busy
<1>2. Inv /\ [Next]_vars => Inv'
  <2> SUFFICES ASSUME Inv, [Next]_vars PROVE Inv'
    OBVIOUS
  <2>1. WholeInv'
    BY WholeStep
  <2>2. got' \in 0..Len(Wire(resp))' /\ MaxAttempts \in Nat
    BY <2>1, RequestAssumption DEF WholeInv
  <2>3. ASSUME NEW e \in {"timed out", "reset", "other", "tls", "http"}, Fails(e), cut' \in BOOLEAN
        PROVE  TypeOK' /\ CountInv'
    <3>1. phase' \in {"backoff", "failed"} /\ attempt' = attempt /\ error' = e
      BY <2>3 DEF Fails
    <3>2. phase' = "backoff" => attempt < MaxAttempts
      BY <2>3 DEF Fails, Retries
    <3> QED BY <2>2, <2>3, <3>1, <3>2 DEF TypeOK, CountInv, Busy, Ended
  <2>4. ASSUME NEW s, Finish(s), cut' \in BOOLEAN
        PROVE  TypeOK' /\ CountInv'
    <3>1. CASE Fails("http")
      BY <2>3, <2>4, <3>1
    <3>2. CASE ~Fails("http")
      <4>1. phase' \in {"ok", "panicked"} /\ attempt' = attempt /\ error' = error
        BY <2>4, <3>2, Zenon DEF Finish
      <4> QED BY <2>2, <2>4, <4>1 DEF TypeOK, CountInv, Busy, Ended
    <3> QED BY <3>1, <3>2
  <2>5. ASSUME phase' \in Busy, attempt' \in 1..MaxAttempts, error' = error, cut' \in BOOLEAN
        PROVE  TypeOK' /\ CountInv'
    BY <2>2, <2>5 DEF TypeOK, CountInv, Busy
  <2>6. cut \in BOOLEAN /\ attempt \in 1..MaxAttempts
    BY DEF TypeOK
  <2>7. CASE Connect \/ Handshake \/ SendRequest
    <3>1. phase' \in Busy /\ attempt' = attempt /\ error' = error /\ cut' = cut
      BY <2>7 DEF Connect, Handshake, SendRequest, Goto, Busy
    <3> QED BY <2>1, <2>5, <2>6, <3>1
  <2>8. CASE Timeout \/ NetworkFails
    <3>1. /\ \E e \in {"timed out", "reset", "other", "tls"} : Fails(e)
          /\ cut' = cut
      BY <2>8 DEF Timeout, NetworkFails
    <3> QED BY <2>1, <2>3, <2>6, <3>1
  <2>9. CASE Backoff
    <3>1. phase' \in Busy /\ attempt' = attempt + 1 /\ error' = error /\ cut' \in BOOLEAN
      BY <2>9 DEF Backoff, Busy
    <3>2. attempt < MaxAttempts
      BY <2>9 DEF Backoff, CountInv
    <3> QED BY <2>1, <2>2, <2>5, <2>6, <3>1, <3>2
  <2>10. CASE Read
    <3>1. cut' = cut
      BY <2>10 DEF Read
    <3>2. \/ \E s : Finish(s)
          \/ UNCHANGED <<call, resp, phase, attempt, error, body>>
      BY <2>10, Zenon DEF Read
    <3>3. CASE \E s : Finish(s)
      BY <2>1, <2>4, <2>6, <3>1, <3>3
    <3>4. CASE UNCHANGED <<call, resp, phase, attempt, error, body>>
      BY <2>1, <2>2, <2>6, <3>1, <3>4 DEF TypeOK, CountInv
    <3> QED BY <3>2, <3>3, <3>4
  <2>11. CASE ReadEof
    <3>1. cut' \in BOOLEAN /\ \E s : Finish(s)
      BY <2>11 DEF ReadEof
    <3> QED BY <2>1, <2>4, <3>1
  <2>12. CASE UNCHANGED vars
    BY <2>1, <2>2, <2>12 DEF vars, TypeOK, CountInv
  <2> QED BY <2>7, <2>8, <2>9, <2>10, <2>11, <2>12 DEF Next, ClientStep
<1>3. Inv => TypeOK
  OBVIOUS
<1> QED BY <1>1, <1>2, <1>3, PTL DEF Spec
===============================================================================
