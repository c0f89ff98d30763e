-------------------------- MODULE Algorithms_proof --------------------------
(***************************************************************************)
(* What the operators of Zrle, Shape and Wheel yield, for every size,      *)
(* colour and pixel format: tiles come back from every form they are       *)
(* written in, cursors from their bitmaps, the wheel's turns from notches. *)
(*                                                                         *)
(* The operators are recursive functions, sums over sets and flattened     *)
(* sequences. What holds of them at every step is shown by the least step  *)
(* at which it would fail (LeastExists), an induction whose property is a  *)
(* set and not an operator.                                                *)
(***************************************************************************)
EXTENDS Codecs, WellFoundedInduction, SequenceTheorems, FiniteSetTheorems, TLAPS

----------------------------------------------------------------------------
(* Least numbers, recursive functions, flattened sequences and sums.       *)

LEMMA LeastExists ==
  ASSUME NEW T \in SUBSET Nat, T # {}
  PROVE  \E x \in T : \A y \in T : x <= y
<1> DEFINE R == {ss \in Nat \X Nat : ss[1] < ss[2]}
<1>1. IsWellFoundedOn(R, Nat)
  BY NatLessThanWellFounded DEF OpToRel
<1>2. \A x, y \in Nat : <<y, x>> \in R <=> y < x
  OBVIOUS
<1> HIDE DEF R
<1>3. PICK x \in T : \A y \in T : ~ (<<y, x>> \in R)
  BY <1>1, WFMin
<1>4. \A y \in T : ~(y < x)
  BY <1>2, <1>3
<1> QED
  BY <1>3, <1>4

Chain(f, z, G, n) == f[0] = z /\ \A j \in 1 .. n : f[j] = G[<<f[j - 1], j>>]

LEMMA Recursion ==
  ASSUME NEW S, NEW z \in S, NEW N \in Nat, NEW G \in [S \X (1 .. N) -> S]
  PROVE  \E f \in [0 .. N -> S] : Chain(f, z, G, N)
<1> DEFINE Bad == {n \in Nat : n <= N /\ ~ \E f \in [0 .. n -> S] : Chain(f, z, G, n)}
<1>1. CASE Bad = {}
  BY <1>1
<1>2. CASE Bad # {}
  <2>1. PICK n \in Bad : \A m \in Bad : n <= m
    BY <1>2, LeastExists
  <2>2. n \in Nat /\ n <= N /\ ~ \E f \in [0 .. n -> S] : Chain(f, z, G, n)
    BY <2>1
  <2>3. CASE n = 0
    <3>1. [j \in 0 .. 0 |-> z] \in [0 .. 0 -> S] /\ Chain([j \in 0 .. 0 |-> z], z, G, 0)
      BY DEF Chain
    <3> QED
      BY <2>2, <2>3, <3>1
  <2>4. CASE n # 0
    <3>1. n - 1 \in Nat /\ n - 1 < n /\ n - 1 <= N /\ n \in 1 .. N
      BY <2>2, <2>4
    <3>2. n - 1 \notin Bad
      BY <2>1, <2>2, <3>1
    <3>3. PICK g \in [0 .. n - 1 -> S] : Chain(g, z, G, n - 1)
      BY <3>1, <3>2
    <3>4. g[0] = z /\ \A j \in 1 .. n - 1 : g[j] = G[<<g[j - 1], j>>]
      BY <3>3, Zenon DEF Chain
    <3>5. g[n - 1] \in S /\ G[<<g[n - 1], n>>] \in S
      BY <3>1
    <3> DEFINE f == [j \in 0 .. n |-> IF j = n THEN G[<<g[n - 1], n>>] ELSE g[j]]
    <3>6. f \in [0 .. n -> S]
      BY <3>1, <3>5
    <3>7. f[0] = z
      BY <2>4, <3>1, <3>4
    <3>8. ASSUME NEW j \in 1 .. n
          PROVE  f[j] = G[<<f[j - 1], j>>]
      <4>1. CASE j = n
        <5>1. n - 1 \in 0 .. n /\ n - 1 # n /\ n \in 0 .. n
          BY <3>1
        <5>2. f[n] = G[<<g[n - 1], n>>] /\ f[n - 1] = g[n - 1]
          BY <5>1
        <5> QED
          BY <4>1, <5>2
      <4>2. CASE j # n
        <5>1. j - 1 \in 0 .. n /\ j - 1 # n /\ j \in 0 .. n /\ j \in 1 .. n - 1
          BY <4>2, <3>1
        <5>2. f[j] = g[j] /\ f[j - 1] = g[j - 1]
          BY <4>2, <5>1
        <5> QED
          BY <5>1, <5>2, <3>4
      <4> QED
        BY <4>1, <4>2
    <3>9. Chain(f, z, G, n)
      BY <3>7, <3>8, Zenon DEF Chain
    <3> QED
      BY <2>2, <3>6, <3>9
  <2> QED
    BY <2>3, <2>4
<1> QED
  BY <1>1, <1>2

(* FlattenSeq, one sequence after the other.                               *)
LEMMA FlatSteps ==
  ASSUME NEW S, NEW seqs \in Seq(Seq(S)), seqs # <<>>
  PROVE  \E f \in [1 .. Len(seqs) -> Seq(S)] :
            /\ f[1] = seqs[1]
            /\ \A i \in 2 .. Len(seqs) : f[i] = f[i - 1] \o seqs[i]
            /\ FlattenSeq(seqs) = f[Len(seqs)]
<1> DEFINE n == Len(seqs)
           G == [x \in Seq(S) \X (1 .. n - 1) |-> x[1] \o seqs[x[2] + 1]]
<1>1. n \in Nat /\ n >= 1 /\ n - 1 \in Nat /\ seqs[1] \in Seq(S)
  BY EmptySeq, LenProperties
<1>2. \A v \in Seq(S), j \in 1 .. n - 1 : v \o seqs[j + 1] \in Seq(S)
  BY <1>1
<1>3. G \in [Seq(S) \X (1 .. n - 1) -> Seq(S)]
  BY <1>2
<1>4. \A v \in Seq(S), j \in 1 .. n - 1 : G[<<v, j>>] = v \o seqs[j + 1]
  OBVIOUS
<1> HIDE DEF G, n
<1>5. PICK g \in [0 .. n - 1 -> Seq(S)] : Chain(g, seqs[1], G, n - 1)
  BY <1>1, <1>3, Recursion
<1>6. g[0] = seqs[1] /\ \A j \in 1 .. n - 1 : g[j] = G[<<g[j - 1], j>>]
  BY <1>5, Zenon DEF Chain
<1>7. \A j \in 1 .. n - 1 : g[j] = g[j - 1] \o seqs[j + 1]
  <2>1. \A j \in 1 .. n - 1 : g[j - 1] \in Seq(S)
    BY <1>1
  <2> QED
    BY <1>4, <1>6, <2>1
<1> DEFINE Step(f, i) == IF i = 1 THEN seqs[i] ELSE f[i - 1] \o seqs[i]
           f0 == [i \in 1 .. n |-> g[i - 1]]
           h0 == [i \in 1 .. n |-> Step(f0, i)]
<1>8. ASSUME NEW i \in 1 .. n
      PROVE  f0[i] = h0[i]
  <2>1. CASE i = 1
    BY <1>1, <1>6, <2>1
  <2>2. CASE i # 1
    <3>1. i - 1 \in 1 .. n - 1 /\ i - 1 \in 1 .. n /\ (i - 1) + 1 = i
      BY <1>1, <2>2
    <3>2. f0[i] = g[i - 1] /\ f0[i - 1] = g[(i - 1) - 1]
      BY <3>1
    <3>3. g[i - 1] = g[(i - 1) - 1] \o seqs[(i - 1) + 1]
      BY <1>7, <3>1
    <3> QED
      BY <2>2, <3>1, <3>2, <3>3
  <2> QED
    BY <2>1, <2>2
<1>9. f0 = h0
  BY <1>8
<1> DEFINE flatten == CHOOSE f : f = [i \in 1 .. n |-> Step(f, i)]
<1>10. flatten = [i \in 1 .. n |-> Step(flatten, i)]
  BY <1>9
<1>11. FlattenSeq(seqs) = flatten[n]
  BY <1>1 DEF FlattenSeq, n
<1> HIDE DEF flatten
<1>12. \A i \in 1 .. n : flatten[i] = IF i = 1 THEN seqs[i] ELSE flatten[i - 1] \o seqs[i]
  BY <1>10
<1> DEFINE Bad == {i \in Nat : i \in 1 .. n /\ flatten[i] \notin Seq(S)}
<1>13. Bad = {}
  <2>1. SUFFICES ASSUME Bad # {} PROVE FALSE
    OBVIOUS
  <2>2. PICK i \in Bad : \A j \in Bad : i <= j
    BY <2>1, LeastExists
  <2>3. i \in 1 .. n /\ flatten[i] \notin Seq(S) /\ seqs[i] \in Seq(S)
    BY <1>1, <2>2 DEF n
  <2>4. i # 1
    BY <1>12, <2>3
  <2>5. i - 1 \in 1 .. n /\ i - 1 \notin Bad
    BY <1>1, <2>2, <2>3, <2>4
  <2>6. flatten[i - 1] \in Seq(S)
    BY <2>5
  <2>7. flatten[i] = flatten[i - 1] \o seqs[i]
    BY <1>12, <2>3, <2>4
  <2> QED
    BY <2>3, <2>6, <2>7
<1>14. flatten \in [1 .. n -> Seq(S)]
  <2>1. ASSUME NEW i \in 1 .. n
        PROVE  flatten[i] \in Seq(S)
    <3> HIDE DEF Bad
    <3>1. i \notin Bad
      BY <1>13, Zenon
    <3>2. i \in Nat
      BY <1>1
    <3> QED
      BY <3>1, <3>2 DEF Bad
  <2> QED
    BY <1>10, <2>1
<1>15. flatten[1] = seqs[1] /\ \A i \in 2 .. n : flatten[i] = flatten[i - 1] \o seqs[i]
  <2>1. 1 \in 1 .. n /\ \A i \in 2 .. n : i \in 1 .. n /\ i # 1
    BY <1>1
  <2> QED
    BY <1>12, <2>1
<1> QED
  BY <1>11, <1>14, <1>15 DEF n

LEMMA Concat ==
  ASSUME NEW S, NEW q \in Seq(S), NEW r \in Seq(S)
  PROVE  /\ q \o r \in Seq(S) /\ Len(q) \in Nat
         /\ DOMAIN q = 1 .. Len(q) /\ DOMAIN r = 1 .. Len(r) /\ DOMAIN (q \o r) = 1 .. Len(q) + Len(r)
         /\ \A i \in DOMAIN q : i \in DOMAIN (q \o r) /\ (q \o r)[i] = q[i]
         /\ \A i \in DOMAIN r : Len(q) + i \in DOMAIN (q \o r) /\ (q \o r)[Len(q) + i] = r[i]
         /\ \A i \in DOMAIN (q \o r) : i \in DOMAIN q \/ \E j \in DOMAIN r : i = Len(q) + j
<1>1. /\ Len(q) \in Nat /\ Len(r) \in Nat /\ DOMAIN q = 1 .. Len(q) /\ DOMAIN r = 1 .. Len(r)
  BY LenProperties
<1>2. /\ q \o r \in Seq(S) /\ Len(q \o r) = Len(q) + Len(r)
      /\ \A i \in 1 .. Len(q) + Len(r) : (q \o r)[i] = IF i <= Len(q) THEN q[i] ELSE r[i - Len(q)]
  BY ConcatProperties
<1>3. DOMAIN (q \o r) = 1 .. Len(q) + Len(r)
  BY <1>2, LenProperties
<1>4. ASSUME NEW i \in DOMAIN r
      PROVE  Len(q) + i \in DOMAIN (q \o r) /\ (q \o r)[Len(q) + i] = r[i]
  <2>1. i \in 1 .. Len(r) /\ Len(q) + i \in 1 .. Len(q) + Len(r) /\ ~ (Len(q) + i <= Len(q))
        /\ (Len(q) + i) - Len(q) = i
    BY <1>1
  <2> QED
    BY <1>2, <1>3, <2>1
<1>5. ASSUME NEW i \in DOMAIN (q \o r)
      PROVE  i \in DOMAIN q \/ \E j \in DOMAIN r : i = Len(q) + j
  <2>1. i \in 1 .. Len(q) + Len(r)
    BY <1>3
  <2>2. CASE i <= Len(q)
    BY <1>1, <2>1, <2>2
  <2>3. CASE ~(i <= Len(q))
    <3>1. i - Len(q) \in 1 .. Len(r) /\ i = Len(q) + (i - Len(q))
      BY <1>1, <2>1, <2>3
    <3> QED
      BY <1>1, <3>1
  <2> QED
    BY <2>2, <2>3
<1>6. \A i \in DOMAIN q : i \in DOMAIN (q \o r) /\ (q \o r)[i] = q[i]
  BY <1>1, <1>2, <1>3
<1> QED
  BY <1>1, <1>2, <1>3, <1>4, <1>5, <1>6

(* What is in a sequence.                                                  *)
Elems(q) == {q[i] : i \in DOMAIN q}

LEMMA ElemsOfBoth ==
  ASSUME NEW S, NEW q \in Seq(S), NEW r \in Seq(S)
  PROVE  Elems(q \o r) = Elems(q) \cup Elems(r)
<1>1. Elems(q \o r) \subseteq Elems(q) \cup Elems(r)
  BY Concat DEF Elems
<1>2. Elems(q) \subseteq Elems(q \o r)
  BY Concat DEF Elems
<1>3. Elems(r) \subseteq Elems(q \o r)
  <2>1. \A i \in DOMAIN r : \E k \in DOMAIN (q \o r) : (q \o r)[k] = r[i]
    <3>1. \A i \in DOMAIN r : Len(q) + i \in DOMAIN (q \o r) /\ (q \o r)[Len(q) + i] = r[i]
      BY Concat
    <3> QED
      BY <3>1, Zenon
  <2> QED
    BY <2>1, Zenon DEF Elems
<1> QED
  BY <1>1, <1>2, <1>3

LEMMA Flat ==
  ASSUME NEW S, NEW seqs \in Seq(Seq(S))
  PROVE  /\ FlattenSeq(seqs) \in Seq(S)
         /\ Elems(FlattenSeq(seqs)) = UNION {Elems(seqs[i]) : i \in DOMAIN seqs}
<1>1. CASE seqs = <<>>
  <2>1. FlattenSeq(seqs) = <<>> /\ DOMAIN seqs = {} /\ <<>> \in Seq(S)
    BY <1>1 DEF FlattenSeq
  <2>2. Elems(FlattenSeq(seqs)) = {}
    BY <2>1 DEF Elems
  <2> QED
    BY <2>1, <2>2
<1>2. CASE seqs # <<>>
  <2>1. PICK f \in [1 .. Len(seqs) -> Seq(S)] :
            /\ f[1] = seqs[1]
            /\ \A i \in 2 .. Len(seqs) : f[i] = f[i - 1] \o seqs[i]
            /\ FlattenSeq(seqs) = f[Len(seqs)]
    BY <1>2, FlatSteps
  <2> DEFINE n == Len(seqs)
             Upto(k) == UNION {Elems(seqs[i]) : i \in 1 .. k}
             Bad == {k \in Nat : k \in 1 .. n /\ Elems(f[k]) # Upto(k)}
  <2>2. n \in Nat /\ n >= 1 /\ DOMAIN seqs = 1 .. n
    BY <1>2, EmptySeq, LenProperties
  <2>3. (\A i \in 1 .. n : seqs[i] \in Seq(S)) /\ \A i \in 1 .. n : f[i] \in Seq(S)
    BY ElementOfSeq
  <2>4. f[1] = seqs[1] /\ (\A i \in 2 .. n : f[i] = f[i - 1] \o seqs[i]) /\ FlattenSeq(seqs) = f[n]
    BY <2>1
  <2> HIDE DEF n
  <2>5. ASSUME NEW k \in Bad, \A j \in Bad : k <= j
        PROVE  FALSE
    <3>1. k \in 1 .. n /\ Elems(f[k]) # Upto(k)
      OBVIOUS
    <3>2. k # 1
      <4>1. 1 .. 1 = {1}
        OBVIOUS
      <4>2. Upto(1) = Elems(seqs[1])
        BY <4>1
      <4> QED
        BY <2>4, <3>1, <4>2
    <3>3. k - 1 \in 1 .. n /\ k \in 2 .. n /\ k - 1 \in Nat /\ ~(k <= k - 1)
      BY <2>2, <3>1, <3>2
    <3>4. k - 1 \notin Bad
      BY <2>5, <3>3, Zenon
    <3>5. Elems(f[k - 1]) = Upto(k - 1)
      BY <3>3, <3>4, Zenon
    <3>6. f[k] = f[k - 1] \o seqs[k] /\ f[k - 1] \in Seq(S) /\ seqs[k] \in Seq(S)
      BY <2>3, <2>4, <3>1, <3>3, Zenon
    <3>7. Elems(f[k]) = Upto(k - 1) \cup Elems(seqs[k])
      BY <3>5, <3>6, ElemsOfBoth
    <3>8. \A i : i \in 1 .. k <=> i \in 1 .. k - 1 \/ i = k
      BY <2>2, <3>1
    <3>9. Upto(k) = Upto(k - 1) \cup Elems(seqs[k])
      BY <3>8, Zenon
    <3> QED
      BY <3>1, <3>7, <3>9
  <2>6. Bad = {}
    <3>1. Bad \in SUBSET Nat
      BY Zenon
    <3> QED
      BY <2>5, <3>1, LeastExists, Zenon
  <2>7. n \in 1 .. n
    BY <2>2
  <2>8. Elems(f[n]) = Upto(n)
    BY <2>2, <2>6, <2>7, Zenon
  <2> QED
    BY <2>2, <2>3, <2>4, <2>7, <2>8, Zenon
<1> QED
  BY <1>1, <1>2


----------------------------------------------------------------------------
LEMMA Climb ==
  ASSUME NEW n \in Nat, NEW T, 0 \in T, \A k \in 1 .. n : k - 1 \in T => k \in T
  PROVE  \A k \in 0 .. n : k \in T
<1> DEFINE Bad == {k \in Nat : k \in 0 .. n /\ k \notin T}
<1>1. SUFFICES ASSUME Bad # {} PROVE FALSE
  OBVIOUS
<1>2. PICK k \in Bad : \A j \in Bad : k <= j
  BY <1>1, LeastExists
<1>3. k # 0 /\ k \in 1 .. n /\ k - 1 \in 0 .. n /\ k - 1 \in Nat
  BY <1>2
<1>4. k - 1 \in T
  BY <1>2, <1>3
<1> QED
  BY <1>2, <1>3, <1>4

----------------------------------------------------------------------------
(* Sums over finite sets.                                                  *)
Picks(s) == CHOOSE x \in s : TRUE
Adds(f, g, s) == IF s = {} THEN 0 ELSE LET x == Picks(s) IN f[x] + g[s \ {x}]
Sums(g, f, S) == g = [s \in SUBSET S |-> Adds(f, g, s)]

LEMMA BySize ==
  ASSUME NEW S, IsFiniteSet(S), NEW P,
         \A s \in SUBSET S :
           (\A t \in SUBSET S : Cardinality(t) < Cardinality(s) => t \in P) => s \in P
  PROVE  \A s \in SUBSET S : s \in P
<1> DEFINE Bad == {m \in Nat : \E s \in SUBSET S : Cardinality(s) = m /\ s \notin P}
<1>1. \A s \in SUBSET S : Cardinality(s) \in Nat
  BY FS_Subset, FS_CardinalityType
<1>2. SUFFICES ASSUME Bad # {} PROVE FALSE
  BY <1>1
<1>3. PICK m \in Bad : \A k \in Bad : m <= k
  <2>1. Bad \in SUBSET Nat
    OBVIOUS
  <2> QED
    BY <1>2, <2>1, LeastExists
<1>4. PICK s \in SUBSET S : Cardinality(s) = m /\ s \notin P
  BY <1>3
<1>5. ASSUME NEW t \in SUBSET S, Cardinality(t) < Cardinality(s)
      PROVE  t \in P
  <2>1. Cardinality(t) \in Nat /\ ~(m <= Cardinality(t)) /\ m \in Nat
    BY <1>1, <1>4, <1>5
  <2> QED
    BY <1>3, <2>1
<1> QED
  BY <1>4, <1>5

LEMMA LessByOne ==
  ASSUME NEW S, IsFiniteSet(S), NEW s \in SUBSET S, NEW x \in s
  PROVE  /\ s \ {x} \in SUBSET S
         /\ Cardinality(s \ {x}) < Cardinality(s)
<1>1. IsFiniteSet(s)
  BY FS_Subset
<1>2. Cardinality(s) \in Nat /\ Cardinality(s \ {x}) = Cardinality(s) - 1
  BY <1>1, FS_CardinalityType, FS_RemoveElement
<1> QED
  BY <1>2

LEMMA PicksOne ==
  ASSUME NEW s, s # {}
  PROVE  Picks(s) \in s
  BY DEF Picks

LEMMA SumExists ==
  ASSUME NEW S, IsFiniteSet(S), NEW f, \A x \in S : f[x] \in Int
  PROVE  \E g \in [SUBSET S -> Int] : Sums(g, f, S)
<1> DEFINE Upto(m) == {s \in SUBSET S : Cardinality(s) <= m}
           Does(g, m) == g \in [Upto(m) -> Int] /\ \A s \in Upto(m) : g[s] = Adds(f, g, s)
           T == {m \in Nat : \E g : Does(g, m)}
<1>1. \A s \in SUBSET S : Cardinality(s) \in Nat /\ (s # {} => Cardinality(s) > 0)
  <2>1. \A s \in SUBSET S : IsFiniteSet(s)
    BY FS_Subset
  <2> QED
    BY <2>1, FS_CardinalityType, FS_EmptySet
<1>2. 0 \in T
  <2> DEFINE g == [s \in Upto(0) |-> 0]
  <2>1. \A s \in Upto(0) : s = {}
    BY <1>1
  <2>2. \A s \in Upto(0) : g[s] = Adds(f, g, s)
    BY <2>1 DEF Adds
  <2>3. Does(g, 0)
    BY <2>2
  <2> QED
    BY <2>3
<1>3. ASSUME NEW m \in 1 .. Cardinality(S), m - 1 \in T
      PROVE  m \in T
  <2>0. m \in Nat /\ m - 1 \in Nat
    OBVIOUS
  <2>1. PICK h : Does(h, m - 1)
    BY <1>3
  <2>2. h \in [Upto(m - 1) -> Int] /\ \A s \in Upto(m - 1) : h[s] = Adds(f, h, s)
    BY <2>1
  <2> DEFINE g == [s \in Upto(m) |-> Adds(f, h, s)]
  <2>3. ASSUME NEW s \in Upto(m), s # {}
        PROVE  /\ Picks(s) \in S /\ s \ {Picks(s)} \in Upto(m - 1) /\ s \ {Picks(s)} \in Upto(m)
    <3>1. s \in SUBSET S /\ Cardinality(s) <= m /\ Picks(s) \in s
      BY <2>3, PicksOne
    <3>2. s \ {Picks(s)} \in SUBSET S /\ Cardinality(s \ {Picks(s)}) < Cardinality(s)
      BY <3>1, LessByOne
    <3>3. Cardinality(s \ {Picks(s)}) <= m - 1 /\ Cardinality(s \ {Picks(s)}) <= m
      BY <1>1, <2>0, <3>1, <3>2
    <3> QED
      BY <3>1, <3>2, <3>3, Zenon
  <2>4. \A s \in Upto(m) : Adds(f, h, s) \in Int
    <3>1. SUFFICES ASSUME NEW s \in Upto(m), s # {} PROVE Adds(f, h, s) \in Int
      BY DEF Adds
    <3>2. f[Picks(s)] \in Int /\ h[s \ {Picks(s)}] \in Int
      BY <2>2, <2>3, <3>1, Zenon
    <3> QED
      BY <3>1, <3>2 DEF Adds
  <2>5. g \in [Upto(m) -> Int]
    BY <2>4, Zenon
  <2>6. \A s \in Upto(m - 1) : s \in Upto(m)
    BY <1>1, <2>0
  <2>7. \A s \in Upto(m - 1) : g[s] = h[s]
    BY <2>2, <2>6, Zenon
  <2>8. ASSUME NEW s \in Upto(m)
        PROVE  g[s] = Adds(f, g, s)
    <3>1. g[s] = Adds(f, h, s)
      BY Zenon
    <3>2. CASE s = {}
      BY <3>1, <3>2 DEF Adds
    <3>3. CASE s # {}
      <4>1. g[s \ {Picks(s)}] = h[s \ {Picks(s)}]
        BY <2>3, <2>7, <3>3, Zenon
      <4> QED
        BY <3>1, <3>3, <4>1, Zenon DEF Adds
    <3> QED
      BY <3>2, <3>3
  <2>9. Does(g, m)
    BY <2>5, <2>8, Zenon
  <2> QED
    BY <2>0, <2>9, Zenon
<1>4. Cardinality(S) \in Nat
  BY FS_CardinalityType
<1>5. Cardinality(S) \in T
  <2>1. Cardinality(S) \in 0 .. Cardinality(S)
    BY <1>4
  <2> HIDE DEF T
  <2> QED
    BY <1>2, <1>3, <1>4, <2>1, Climb
<1>6. PICK g : Does(g, Cardinality(S))
  BY <1>5, Zenon
<1>7. Upto(Cardinality(S)) = SUBSET S
  <2>1. \A s \in SUBSET S : Cardinality(s) <= Cardinality(S)
    BY FS_Subset
  <2> QED
    BY <2>1, Zenon
<1>8. g \in [SUBSET S -> Int] /\ \A s \in SUBSET S : g[s] = Adds(f, g, s)
  BY <1>6, <1>7, Zenon
<1>9. Sums(g, f, S)
  BY <1>8 DEF Sums
<1> QED
  BY <1>8, <1>9

Summed(f, S) == CHOOSE g : Sums(g, f, S)
SumOn(f, S) == Summed(f, S)[S]

LEMMA SumIs ==
  ASSUME NEW f
  PROVE  SumFunction(f) = SumOn(f, DOMAIN f)
  BY DEF SumFunction, SumFunctionOnSet, FoldFunctionOnSet, MapThenFoldSet, SumOn, Summed, Sums, Adds, Picks

(* A part is summed alike in every set it is part of.                      *)
LEMMA SumParts ==
  ASSUME NEW S, IsFiniteSet(S), NEW f, \A x \in S : f[x] \in Int
  PROVE  \A s \in SUBSET S : /\ SumOn(f, s) \in Int
                             /\ SumOn(f, s) = IF s = {} THEN 0
                                              ELSE f[Picks(s)] + SumOn(f, s \ {Picks(s)})
<1>1. ASSUME NEW T \in SUBSET S
      PROVE  \A s \in SUBSET T : Summed(f, T)[s] = Adds(f, Summed(f, T), s)
  <2>1. IsFiniteSet(T) /\ \A x \in T : f[x] \in Int
    BY FS_Subset
  <2>2. \E g : Sums(g, f, T)
    BY <2>1, SumExists, Zenon
  <2>3. Sums(Summed(f, T), f, T)
    BY <2>2, Zenon DEF Summed
  <2> QED
    BY <2>3 DEF Sums
<1>2. ASSUME NEW T \in SUBSET S
      PROVE  \A s \in SUBSET T : Summed(f, T)[s] \in Int /\ Summed(f, T)[s] = Summed(f, S)[s]
  <2> DEFINE g == Summed(f, T)
             h == Summed(f, S)
             P == {s \in SUBSET T : g[s] \in Int /\ g[s] = h[s]}
  <2>1. (\A s \in SUBSET T : g[s] = Adds(f, g, s)) /\ \A s \in SUBSET T : h[s] = Adds(f, h, s)
    BY <1>1
  <2>2. IsFiniteSet(T) /\ \A x \in T : f[x] \in Int
    BY FS_Subset
  <2> HIDE DEF g, h
  <2>3. ASSUME NEW s \in SUBSET T, \A t \in SUBSET T : Cardinality(t) < Cardinality(s) => t \in P
        PROVE  s \in P
    <3>1. g[s] = Adds(f, g, s) /\ h[s] = Adds(f, h, s)
      BY <2>1
    <3>2. CASE s = {}
      BY <3>1, <3>2 DEF Adds
    <3>3. CASE s # {}
      <4>1. Picks(s) \in s /\ f[Picks(s)] \in Int
        BY <2>2, <3>3, PicksOne
      <4>2. s \ {Picks(s)} \in P
        BY <2>2, <2>3, <4>1, LessByOne
      <4>3. g[s \ {Picks(s)}] \in Int /\ g[s \ {Picks(s)}] = h[s \ {Picks(s)}]
        BY <4>2
      <4>4. g[s] = f[Picks(s)] + g[s \ {Picks(s)}] /\ h[s] = f[Picks(s)] + h[s \ {Picks(s)}]
        BY <3>1, <3>3 DEF Adds
      <4>5. g[s] \in Int /\ g[s] = h[s]
        BY <4>1, <4>3, <4>4
      <4> QED
        BY <4>5
    <3> QED
      BY <3>2, <3>3
  <2>4. \A s \in SUBSET T : s \in P
    <3> HIDE DEF P
    <3> QED
      BY <2>2, <2>3, BySize
  <2> QED
    BY <2>4 DEF g, h
<1>3. ASSUME NEW s \in SUBSET S
      PROVE  /\ SumOn(f, s) \in Int
             /\ SumOn(f, s) = IF s = {} THEN 0 ELSE f[Picks(s)] + SumOn(f, s \ {Picks(s)})
  <2>1. s \in SUBSET s
    OBVIOUS
  <2>2. Summed(f, s)[s] \in Int /\ Summed(f, s)[s] = Adds(f, Summed(f, s), s)
    BY <1>1, <1>2, <2>1
  <2>3. ASSUME s # {}
        PROVE  Summed(f, s)[s \ {Picks(s)}] = Summed(f, s \ {Picks(s)})[s \ {Picks(s)}]
    <3>1. s \ {Picks(s)} \in SUBSET S /\ s \ {Picks(s)} \in SUBSET s
          /\ s \ {Picks(s)} \in SUBSET (s \ {Picks(s)})
      OBVIOUS
    <3> QED
      BY <1>2, <3>1
  <2> QED
    BY <2>2, <2>3 DEF SumOn, Adds
<1> QED
  BY <1>3

(* Whichever is taken out.                                                 *)
LEMMA SumStep ==
  ASSUME NEW S, IsFiniteSet(S), NEW f, \A x \in S : f[x] \in Int
  PROVE  /\ SumOn(f, {}) = 0
         /\ SumOn(f, S) \in Int
         /\ \A x \in S : SumOn(f, S \ {x}) \in Int /\ SumOn(f, S) = f[x] + SumOn(f, S \ {x})
<1> DEFINE P == {s \in SUBSET S : \A x \in s : SumOn(f, s) = f[x] + SumOn(f, s \ {x})}
<1>1. ASSUME NEW s \in SUBSET S, \A t \in SUBSET S : Cardinality(t) < Cardinality(s) => t \in P,
             NEW x \in s
      PROVE  SumOn(f, s) = f[x] + SumOn(f, s \ {x})
  <2> DEFINE c == Picks(s)
  <2>1. c \in s /\ s # {}
    BY PicksOne
  <2>2. SumOn(f, s) = f[c] + SumOn(f, s \ {c})
    BY <2>1, SumParts
  <2> HIDE DEF c
  <2>3. CASE x = c
    BY <2>2, <2>3
  <2>4. CASE x # c
    <3>1. s \ {c} \in P /\ s \ {x} \in P
      BY <1>1, <2>1, LessByOne
    <3>2. x \in s \ {c} /\ c \in s \ {x} /\ (s \ {c}) \ {x} = (s \ {x}) \ {c}
      BY <2>1, <2>4
    <3>3. /\ SumOn(f, s \ {c}) = f[x] + SumOn(f, (s \ {c}) \ {x})
          /\ SumOn(f, s \ {x}) = f[c] + SumOn(f, (s \ {x}) \ {c})
      BY <3>1, <3>2
    <3>4. f[x] \in Int /\ f[c] \in Int /\ SumOn(f, (s \ {c}) \ {x}) \in Int
      <4>1. (s \ {c}) \ {x} \in SUBSET S /\ x \in S /\ c \in S
        BY <2>1
      <4> QED
        BY <4>1, SumParts
    <3> DEFINE rest == SumOn(f, (s \ {c}) \ {x})
    <3>5. SumOn(f, (s \ {x}) \ {c}) = rest
      BY <3>2
    <3>6. SumOn(f, s) = f[c] + (f[x] + rest) /\ SumOn(f, s \ {x}) = f[c] + rest
      BY <2>2, <3>3, <3>5
    <3>7. f[x] \in Int /\ f[c] \in Int /\ rest \in Int
      BY <3>4
    <3> HIDE DEF rest
    <3>8. f[c] + (f[x] + rest) = f[x] + (f[c] + rest)
      BY <3>7
    <3> QED
      BY <3>6, <3>8
  <2> QED
    BY <2>3, <2>4
<1>2. \A s \in SUBSET S : s \in P
  <2>1. \A s \in SUBSET S :
           (\A t \in SUBSET S : Cardinality(t) < Cardinality(s) => t \in P) => s \in P
    BY <1>1
  <2> HIDE DEF P
  <2> QED
    BY <2>1, BySize
<1>3. S \in SUBSET S /\ {} \in SUBSET S /\ \A x \in S : S \ {x} \in SUBSET S
  OBVIOUS
<1>4. S \in P
  BY <1>2, <1>3
<1> QED
  BY <1>3, <1>4, SumParts

(* What the sum is made of is all that counts.                             *)
LEMMA SumAgree ==
  ASSUME NEW S, IsFiniteSet(S), NEW f, NEW g, \A x \in S : f[x] \in Int /\ f[x] = g[x]
  PROVE  SumOn(f, S) = SumOn(g, S)
<1> DEFINE P == {s \in SUBSET S : SumOn(f, s) = SumOn(g, s)}
<1>0. (\A x \in S : f[x] \in Int) /\ \A x \in S : g[x] \in Int
  OBVIOUS
<1>1. ASSUME NEW s \in SUBSET S, \A t \in SUBSET S : Cardinality(t) < Cardinality(s) => t \in P
      PROVE  s \in P
  <2>1. /\ SumOn(f, s) = IF s = {} THEN 0 ELSE f[Picks(s)] + SumOn(f, s \ {Picks(s)})
        /\ SumOn(g, s) = IF s = {} THEN 0 ELSE g[Picks(s)] + SumOn(g, s \ {Picks(s)})
    BY <1>0, SumParts
  <2>2. CASE s = {}
    BY <2>1, <2>2
  <2>3. CASE s # {}
    <3>1. Picks(s) \in s /\ Picks(s) \in S
      BY <2>3, PicksOne
    <3>2. s \ {Picks(s)} \in P
      BY <1>1, <3>1, LessByOne
    <3> QED
      BY <2>1, <2>3, <3>1, <3>2
  <2> QED
    BY <2>2, <2>3
<1>2. \A s \in SUBSET S : s \in P
  <2> HIDE DEF P
  <2> QED
    BY <1>1, BySize
<1>3. S \in SUBSET S
  OBVIOUS
<1> QED
  BY <1>2, <1>3

(* The last one of a row.                                                  *)
LEMMA SumLast ==
  ASSUME NEW n \in Nat, NEW f, \A x \in 1 .. n : f[x] \in Int
  PROVE  /\ SumOn(f, 1 .. 0) = 0
         /\ SumOn(f, 1 .. n) \in Int
         /\ \A k \in 1 .. n : /\ SumOn(f, 1 .. k) \in Int /\ SumOn(f, 1 .. k - 1) \in Int
                             /\ SumOn(f, 1 .. k) = SumOn(f, 1 .. k - 1) + f[k]
<1>1. ASSUME NEW k \in 0 .. n
      PROVE  IsFiniteSet(1 .. k) /\ \A x \in 1 .. k : f[x] \in Int
  <2>1. k \in Nat /\ \A x \in 1 .. k : x \in 1 .. n
    OBVIOUS
  <2> QED
    BY <2>1, FS_Interval
<1>2. 1 .. 0 = {} /\ n \in 0 .. n /\ 0 \in 0 .. n
  OBVIOUS
<1>3. SumOn(f, 1 .. 0) = 0 /\ SumOn(f, 1 .. n) \in Int
  BY <1>1, <1>2, SumStep
<1>4. ASSUME NEW k \in 1 .. n
      PROVE  /\ SumOn(f, 1 .. k) \in Int /\ SumOn(f, 1 .. k - 1) \in Int
             /\ SumOn(f, 1 .. k) = SumOn(f, 1 .. k - 1) + f[k]
  <2>1. k \in 0 .. n /\ k \in 1 .. k /\ (1 .. k) \ {k} = 1 .. k - 1
    OBVIOUS
  <2>2. /\ SumOn(f, 1 .. k) \in Int /\ SumOn(f, (1 .. k) \ {k}) \in Int
        /\ SumOn(f, 1 .. k) = f[k] + SumOn(f, (1 .. k) \ {k})
    BY <1>1, <2>1, SumStep
  <2>3. f[k] \in Int
    OBVIOUS
  <2> DEFINE rest == SumOn(f, (1 .. k) \ {k})
  <2>4. rest \in Int /\ SumOn(f, 1 .. k) = f[k] + rest /\ SumOn(f, 1 .. k - 1) = rest
    BY <2>1, <2>2
  <2> HIDE DEF rest
  <2>5. f[k] + rest = rest + f[k]
    BY <2>3, <2>4
  <2> QED
    BY <2>2, <2>4, <2>5
<1> QED
  BY <1>3, <1>4

(* The eight of a byte.                                                    *)
LEMMA SumOfEight ==
  ASSUME NEW f, \A c \in 0 .. 7 : f[c] \in Int
  PROVE  SumOn(f, 0 .. 7) = f[0] + f[1] + f[2] + f[3] + f[4] + f[5] + f[6] + f[7]
<1> DEFINE g == [x \in 0 .. 8 |-> SumOn(f, 0 .. x - 1)]
<1>1. ASSUME NEW x \in 0 .. 7
      PROVE  g[x] \in Int /\ g[x + 1] = f[x] + g[x]
  <2>1. /\ (x + 1) - 1 = x /\ x + 1 \in 0 .. 8 /\ x \in 0 .. 8 /\ x \in 0 .. x
        /\ (0 .. x) \ {x} = 0 .. x - 1 /\ \A y \in 0 .. x : f[y] \in Int
    OBVIOUS
  <2>2. IsFiniteSet(0 .. x)
    BY FS_Interval
  <2>3. SumOn(f, (0 .. x) \ {x}) \in Int /\ SumOn(f, 0 .. x) = f[x] + SumOn(f, (0 .. x) \ {x})
    BY <2>1, <2>2, SumStep
  <2>4. g[x + 1] = SumOn(f, 0 .. (x + 1) - 1) /\ g[x] = SumOn(f, 0 .. x - 1)
    BY <2>1
  <2> QED
    BY <2>1, <2>3, <2>4
<1>2. g[0] = 0
  <2>1. 0 .. 0 - 1 = {} /\ IsFiniteSet({}) /\ \A x \in {} : f[x] \in Int
    BY FS_EmptySet
  <2>2. SumOn(f, {}) = 0
    BY <2>1, SumStep
  <2> QED
    BY <2>1, <2>2
<1>3. g[8] = SumOn(f, 0 .. 7)
  OBVIOUS
<1> HIDE DEF g
<1>4. /\ g[1] = f[0] + g[0] /\ g[2] = f[1] + g[1] /\ g[3] = f[2] + g[2] /\ g[4] = f[3] + g[3]
      /\ g[5] = f[4] + g[4] /\ g[6] = f[5] + g[5] /\ g[7] = f[6] + g[6] /\ g[8] = f[7] + g[7]
  <2>1. \A x \in 0 .. 7 : g[x + 1] = f[x] + g[x]
    BY <1>1
  <2> QED
    BY <2>1
<1>5. f[0] \in Int /\ f[1] \in Int /\ f[2] \in Int /\ f[3] \in Int /\ f[4] \in Int /\ f[5] \in Int
      /\ f[6] \in Int /\ f[7] \in Int
  OBVIOUS
<1> QED
  BY <1>2, <1>3, <1>4, <1>5

(* FlattenSeq, from nothing at all, one sequence after the other.          *)
LEMMA FlatChain ==
  ASSUME NEW S, NEW seqs \in Seq(Seq(S))
  PROVE  \E f \in [0 .. Len(seqs) -> Seq(S)] :
            /\ f[0] = <<>>
            /\ \A i \in 1 .. Len(seqs) : f[i] = f[i - 1] \o seqs[i]
            /\ FlattenSeq(seqs) = f[Len(seqs)]
<1> DEFINE n == Len(seqs)
<1>1. n \in Nat /\ <<>> \in Seq(S) /\ \A i \in 1 .. n : seqs[i] \in Seq(S)
  BY LenProperties, ElementOfSeq
<1>2. CASE seqs = <<>>
  <2>1. n = 0 /\ FlattenSeq(seqs) = <<>>
    BY <1>2 DEF FlattenSeq
  <2> DEFINE f == [i \in 0 .. n |-> <<>>]
  <2>2. f \in [0 .. n -> Seq(S)] /\ f[0] = <<>> /\ f[n] = <<>> /\ 1 .. n = {}
    BY <1>1, <2>1
  <2> QED
    BY <2>1, <2>2
<1>3. CASE seqs # <<>>
  <2>1. PICK g \in [1 .. n -> Seq(S)] :
            /\ g[1] = seqs[1]
            /\ \A i \in 2 .. n : g[i] = g[i - 1] \o seqs[i]
            /\ FlattenSeq(seqs) = g[n]
    BY <1>3, FlatSteps
  <2>2. n >= 1
    BY <1>1, <1>3, EmptySeq, LenProperties
  <2> DEFINE f == [i \in 0 .. n |-> IF i = 0 THEN <<>> ELSE g[i]]
  <2> HIDE DEF n
  <2>3. f \in [0 .. n -> Seq(S)] /\ f[0] = <<>> /\ f[n] = g[n]
    BY <1>1, <2>1, <2>2
  <2>4. ASSUME NEW i \in 1 .. n
        PROVE  f[i] = f[i - 1] \o seqs[i]
    <3>1. i \in 0 .. n /\ i # 0 /\ i - 1 \in 0 .. n
      BY <1>1
    <3>2. CASE i = 1
      <4>1. f[i - 1] = <<>> /\ f[i] = seqs[i]
        BY <2>1, <2>3, <3>1, <3>2
      <4>2. <<>> \o seqs[i] = seqs[i]
        BY <1>1, ConcatEmptySeq
      <4> QED
        BY <4>1, <4>2
    <3>3. CASE i # 1
      <4>1. i \in 2 .. n /\ i - 1 # 0
        BY <1>1, <3>3
      <4> QED
        BY <2>1, <3>1, <4>1
    <3> QED
      BY <3>2, <3>3
  <2> QED
    BY <2>1, <2>3, <2>4 DEF n
<1> QED
  BY <1>2, <1>3

LEMMA AsSeq ==
  ASSUME NEW S, NEW n \in Nat, NEW r \in [1 .. n -> S]
  PROVE  r \in Seq(S) /\ Len(r) = n /\ DOMAIN r = 1 .. n
<1>1. r \in Seq(S)
  BY SeqDef
<1> QED
  BY <1>1, LenProperties

----------------------------------------------------------------------------
(* The wheel.                                                              *)

(* What is left of a count of deltas when its whole notches are off.       *)
LEMMA TruncLeaves ==
  ASSUME NEW n \in Int
  PROVE  /\ Trunc(n) \in Int /\ n - Trunc(n) * Divisor \in Int
         /\ Abs(n - Trunc(n) * Divisor) < Divisor
<1>1. Divisor \in Nat /\ Divisor > 0
  BY WheelAssumption
<1>2. \A m \in Nat : m \div Divisor \in Int /\ 0 <= m - (m \div Divisor) * Divisor /\ m - (m \div Divisor) * Divisor < Divisor
  BY <1>1
<1>3. CASE n >= 0
  BY <1>1, <1>2, <1>3 DEF Trunc, Abs
<1>4. CASE ~(n >= 0)
  <2>1. -n \in Nat /\ Trunc(n) = -((-n) \div Divisor)
    BY <1>4 DEF Trunc
  <2> DEFINE q == (-n) \div Divisor
  <2>2. q \in Int /\ q * Divisor \in Int /\ 0 <= (-n) - q * Divisor /\ (-n) - q * Divisor < Divisor
    BY <1>1, <1>2, <2>1
  <2>3. Trunc(n) = -q
    BY <2>1
  <2> HIDE DEF q
  <2>4. (-q) * Divisor = -(q * Divisor)
    BY <1>1, <2>2
  <2> QED
    BY <1>1, <2>2, <2>3, <2>4 DEF Abs
<1> QED
  BY <1>3, <1>4

LEMMA CarryIs ==
  ASSUME NEW deltas \in Seq(Int)
  PROVE  /\ Carry(deltas) \in [0 .. Len(deltas) -> Int]
         /\ Carry(deltas)[0] = 0
         /\ \A k \in 1 .. Len(deltas) :
              LET sum == Carry(deltas)[k - 1] + deltas[k]
              IN  Carry(deltas)[k] = sum - Trunc(sum) * Divisor
<1> DEFINE n == Len(deltas)
           G == [x \in Int \X (1 .. n) |-> (x[1] + deltas[x[2]]) - Trunc(x[1] + deltas[x[2]]) * Divisor]
<1>1. n \in Nat /\ \A k \in 1 .. n : deltas[k] \in Int
  BY LenProperties, ElementOfSeq
<1>2. \A v \in Int, k \in 1 .. n : (v + deltas[k]) - Trunc(v + deltas[k]) * Divisor \in Int
  <2>1. \A v \in Int, k \in 1 .. n : v + deltas[k] \in Int
    BY <1>1
  <2> QED
    BY <2>1, TruncLeaves
<1>3. G \in [Int \X (1 .. n) -> Int]
  BY <1>2
<1>4. \A v \in Int, k \in 1 .. n : G[<<v, k>>] = (v + deltas[k]) - Trunc(v + deltas[k]) * Divisor
  OBVIOUS
<1> HIDE DEF G, n
<1>5. PICK g \in [0 .. n -> Int] : Chain(g, 0, G, n)
  <2>1. 0 \in Int
    OBVIOUS
  <2> QED
    BY <1>1, <1>3, <2>1, Recursion
<1>6. g[0] = 0 /\ \A k \in 1 .. n : g[k] = G[<<g[k - 1], k>>]
  BY <1>5, Zenon DEF Chain
<1> DEFINE Step(f, k) == IF k = 0 THEN 0
                         ELSE LET sum == f[k - 1] + deltas[k] IN sum - Trunc(sum) * Divisor
           h == [k \in 0 .. n |-> Step(g, k)]
<1>7. ASSUME NEW k \in 0 .. n
      PROVE  g[k] = h[k]
  <2>1. CASE k = 0
    BY <1>6, <2>1
  <2>2. CASE k # 0
    <3>1. k \in 1 .. n /\ k - 1 \in 0 .. n
      BY <1>1, <2>2
    <3>2. g[k - 1] \in Int
      BY <3>1
    <3>3. g[k] = (g[k - 1] + deltas[k]) - Trunc(g[k - 1] + deltas[k]) * Divisor
      BY <1>4, <1>6, <3>1, <3>2
    <3> QED
      BY <2>2, <3>3
  <2> QED
    BY <2>1, <2>2
<1>8. g = h
  BY <1>7
<1> DEFINE carry == CHOOSE f : f = [k \in 0 .. n |-> Step(f, k)]
<1>9. carry = [k \in 0 .. n |-> Step(carry, k)]
  BY <1>8
<1>10. Carry(deltas) = [k \in 0 .. n |-> carry[k]]
  BY DEF Carry, n
<1> HIDE DEF carry
<1>11. carry[0] = 0 /\ \A k \in 1 .. n : carry[k] = (carry[k - 1] + deltas[k])
                                                   - Trunc(carry[k - 1] + deltas[k]) * Divisor
  <2>1. 0 \in 0 .. n /\ \A k \in 1 .. n : k \in 0 .. n /\ k # 0
    BY <1>1
  <2> QED
    BY <1>9, <2>1
<1> DEFINE T == {k \in Nat : k \in 0 .. n => carry[k] \in Int}
<1>12. ASSUME NEW k \in 1 .. n, k - 1 \in T
       PROVE  k \in T
  <2>1. k - 1 \in 0 .. n /\ k \in Nat
    BY <1>1
  <2>2. carry[k - 1] \in Int /\ deltas[k] \in Int
    BY <1>1, <1>12, <2>1
  <2>3. carry[k] \in Int
    BY <1>2, <1>11, <2>2
  <2> QED
    BY <2>1, <2>3
<1>13. 0 \in T
  BY <1>11
<1>14. \A k \in 0 .. n : k \in T
  <2> HIDE DEF T
  <2> QED
    BY <1>1, <1>12, <1>13, Climb
<1>15. \A k \in 0 .. n : carry[k] \in Int
  BY <1>14
<1>16. \A k \in 1 .. n : k \in 0 .. n /\ k - 1 \in 0 .. n
  BY <1>1
<1>17. 0 \in 0 .. n
  BY <1>1
<1> QED
  BY <1>10, <1>11, <1>15, <1>16, <1>17 DEF n

(* What the server makes of a press and of a release.                      *)
LEMMA ClickIsNotch ==
  ASSUME NEW mask \in 0 .. 7
  PROVE  /\ Notches(mask, mask + 8) = 1 /\ Notches(mask, mask + 16) = -1
         /\ Notches(mask + 8, mask) = 0 /\ Notches(mask + 16, mask) = 0
         /\ Changes(mask, mask + 8) = {} /\ Changes(mask, mask + 16) = {}
         /\ Changes(mask + 8, mask) = {} /\ Changes(mask + 16, mask) = {}
<1>1. 2^0 = 1 /\ 2^1 = 2 /\ 2^2 = 4 /\ 2^3 = 8 /\ 2^4 = 16
  OBVIOUS
<1>2. /\ Bit(mask, 3) = 0 /\ Bit(mask, 4) = 0 /\ Bit(mask + 8, 3) = 1 /\ Bit(mask + 8, 4) = 0
      /\ Bit(mask + 16, 3) = 0 /\ Bit(mask + 16, 4) = 1
  BY <1>1 DEF Bit
<1>3. \A b \in 0 .. 2 : Bit(mask + 8, b) = Bit(mask, b) /\ Bit(mask + 16, b) = Bit(mask, b)
  <2>1. \A b \in 0 .. 2 : b = 0 \/ b = 1 \/ b = 2
    OBVIOUS
  <2>2. Bit(mask + 8, 0) = Bit(mask, 0) /\ Bit(mask + 16, 0) = Bit(mask, 0)
    BY <1>1 DEF Bit
  <2>3. Bit(mask + 8, 1) = Bit(mask, 1) /\ Bit(mask + 16, 1) = Bit(mask, 1)
    BY <1>1 DEF Bit
  <2>4. Bit(mask + 8, 2) = Bit(mask, 2) /\ Bit(mask + 16, 2) = Bit(mask, 2)
    BY <1>1 DEF Bit
  <2> QED
    BY <2>1, <2>2, <2>3, <2>4
<1>4. /\ Notches(mask, mask + 8) = 1 /\ Notches(mask, mask + 16) = -1
      /\ Notches(mask + 8, mask) = 0 /\ Notches(mask + 16, mask) = 0
  BY <1>2 DEF Notches
<1>5. /\ Changes(mask, mask + 8) = {} /\ Changes(mask, mask + 16) = {}
      /\ Changes(mask + 8, mask) = {} /\ Changes(mask + 16, mask) = {}
  BY <1>3 DEF Changes
<1> QED
  BY <1>4, <1>5

(* The mask before the j-th of those that are sent.                        *)
MaskBefore(mask, q, j) == IF j = 1 THEN mask ELSE q[j - 1]
NotchAt(mask, q) == [j \in 1 .. Len(q) |-> Notches(MaskBefore(mask, q, j), q[j])]
Turned(mask, q) == SumOn(NotchAt(mask, q), 1 .. Len(q))

(* Presses and releases in turn, and nothing else.                         *)
Alternates(mask, q) ==
  /\ q \in Seq(0 .. 31) /\ Len(q) % 2 = 0
  /\ \A j \in 1 .. Len(q) : IF j % 2 = 0 THEN q[j] = mask ELSE q[j] \in {mask + 8, mask + 16}

LEMMA AlternatesNotch ==
  ASSUME NEW mask \in 0 .. 7, NEW q, Alternates(mask, q), NEW j \in 1 .. Len(q)
  PROVE  /\ Notches(MaskBefore(mask, q, j), q[j]) \in Int
         /\ Notches(MaskBefore(mask, q, j), q[j]) = IF j % 2 = 0 THEN 0
                                                    ELSE IF q[j] = mask + 8 THEN 1 ELSE -1
         /\ Changes(MaskBefore(mask, q, j), q[j]) = {}
<1>1. Len(q) \in Nat
  BY LenProperties DEF Alternates
<1> DEFINE a == MaskBefore(mask, q, j)
           b == q[j]
<1>0. /\ Notches(mask, mask + 8) = 1 /\ Notches(mask, mask + 16) = -1
      /\ Notches(mask + 8, mask) = 0 /\ Notches(mask + 16, mask) = 0
      /\ Changes(mask, mask + 8) = {} /\ Changes(mask, mask + 16) = {}
      /\ Changes(mask + 8, mask) = {} /\ Changes(mask + 16, mask) = {}
      /\ mask + 16 # mask + 8
  BY ClickIsNotch, SMTT(60)
<1>2. CASE j % 2 = 0
  <2>1. j # 1 /\ j - 1 \in 1 .. Len(q) /\ (j - 1) % 2 # 0
    BY <1>1, <1>2
  <2>2. q[j] = mask /\ q[j - 1] \in {mask + 8, mask + 16} /\ MaskBefore(mask, q, j) = q[j - 1]
    BY <1>2, <2>1 DEF Alternates, MaskBefore
  <2>3. b = mask /\ (a = mask + 8 \/ a = mask + 16)
    BY <2>2
  <2> HIDE DEF a, b
  <2>4. Notches(a, b) = 0 /\ Changes(a, b) = {}
    BY <1>0, <2>3
  <2>5. Notches(a, b) \in Int
    BY <2>4
  <2> QED
    BY <1>2, <2>4, <2>5 DEF a, b
<1>3. CASE j % 2 # 0
  <2>1. q[j] \in {mask + 8, mask + 16}
    BY <1>3 DEF Alternates
  <2>2. MaskBefore(mask, q, j) = mask
    <3>1. CASE j = 1
      BY <3>1 DEF MaskBefore
    <3>2. CASE j # 1
      <4>1. j - 1 \in 1 .. Len(q) /\ (j - 1) % 2 = 0
        BY <1>1, <1>3, <3>2
      <4> QED
        BY <3>2, <4>1 DEF Alternates, MaskBefore
    <3> QED
      BY <3>1, <3>2
  <2>3. a = mask /\ (b = mask + 8 \/ b = mask + 16)
    BY <2>1, <2>2
  <2> HIDE DEF a, b
  <2>4. Notches(a, b) = (IF b = mask + 8 THEN 1 ELSE -1) /\ Changes(a, b) = {}
    BY <1>0, <2>3
  <2>5. Notches(a, b) \in Int
    BY <2>4
  <2> QED
    BY <1>3, <2>4, <2>5 DEF a, b
<1> QED
  BY <1>2, <1>3

(* One delta more: its clicks are added.                                   *)
Presses(c, mask) ==
  [i \in 1 .. 2 * Abs(c) |-> IF i % 2 = 1 THEN mask + (IF c > 0 THEN 8 ELSE 16) ELSE mask]

LEMMA ClicksTurn ==
  ASSUME NEW mask \in 0 .. 7, NEW q, Alternates(mask, q), NEW c \in Int
  PROVE  LET s == q \o Presses(c, mask)
         IN  /\ Presses(c, mask) \in Seq(0 .. 31)
             /\ Alternates(mask, s)
             /\ Turned(mask, q) \in Int /\ Turned(mask, s) = Turned(mask, q) + c
<1> DEFINE r == Presses(c, mask)
           s == q \o r
           n == Abs(c)
           dir == IF c > 0 THEN 8 ELSE 16
           one == IF c > 0 THEN 1 ELSE -1
           L == Len(q)
<1>1. n \in Nat /\ n * one = c
  BY DEF Abs
<1>2. L \in Nat /\ L % 2 = 0 /\ q \in Seq(0 .. 31)
  BY LenProperties DEF Alternates
<1>3. r \in Seq(0 .. 31) /\ Len(r) = 2 * n
      /\ \A i \in 1 .. 2 * n : r[i] = IF i % 2 = 1 THEN mask + dir ELSE mask
  <2>1. \A i \in 1 .. 2 * n : (IF i % 2 = 1 THEN mask + dir ELSE mask) \in 0 .. 31
    OBVIOUS
  <2>2. 2 * n \in Nat
    BY <1>1
  <2>3. r = [i \in 1 .. 2 * n |-> IF i % 2 = 1 THEN mask + dir ELSE mask]
    BY DEF Presses
  <2> DEFINE e(i) == IF i % 2 = 1 THEN mask + dir ELSE mask
  <2>4. (\A i \in 1 .. 2 * n : e(i) \in 0 .. 31) /\ r = [i \in 1 .. 2 * n |-> e(i)]
    BY <2>1, <2>3
  <2> HIDE DEF r, n, dir, e
  <2>5. r \in [1 .. 2 * n -> 0 .. 31]
    BY <2>4
  <2>6. r \in Seq(0 .. 31) /\ Len(r) = 2 * n
    BY <2>2, <2>5, AsSeq
  <2>7. DOMAIN r = 1 .. 2 * n
    BY <2>5
  <2>8. \A i \in 1 .. 2 * n : r[i] = e(i)
    BY <2>4
  <2> QED
    BY <2>6, <2>7, <2>8 DEF e
<1> HIDE DEF r, n
<1>4. /\ s \in Seq(0 .. 31) /\ Len(s) = L + 2 * n
      /\ \A j \in 1 .. L + 2 * n : s[j] = IF j <= L THEN q[j] ELSE r[j - L]
  <2>1. /\ s \in Seq(0 .. 31) /\ Len(s) = Len(q) + Len(r)
        /\ \A j \in 1 .. Len(q) + Len(r) : s[j] = IF j <= Len(q) THEN q[j] ELSE r[j - Len(q)]
    BY <1>2, <1>3, ConcatProperties
  <2> QED
    BY <1>3, <2>1
<1> HIDE DEF s
<1>5. Alternates(mask, s)
  <2>1. Len(s) % 2 = 0
    BY <1>1, <1>2, <1>4
  <2>2. ASSUME NEW j \in 1 .. Len(s)
        PROVE  IF j % 2 = 0 THEN s[j] = mask ELSE s[j] \in {mask + 8, mask + 16}
    <3>1. CASE j <= L
      <4>1. j \in 1 .. L /\ s[j] = q[j]
        BY <1>1, <1>2, <1>4, <3>1
      <4> QED
        BY <4>1 DEF Alternates
    <3>2. CASE ~(j <= L)
      <4>1. s[j] = r[j - L] /\ j - L \in 1 .. 2 * n /\ j \in Int
        BY <1>1, <1>2, <1>4, <3>2
      <4>2. (j - L) % 2 = j % 2
        <5>1. L = 2 * (L \div 2) /\ L \div 2 \in Int
          BY <1>2
        <5> DEFINE m == L \div 2
        <5> HIDE DEF m
        <5>2. L = 2 * m /\ m \in Int
          BY <5>1 DEF m
        <5> QED
          BY <4>1, <5>2
      <4> QED
        BY <1>3, <4>1, <4>2
    <3> QED
      BY <3>1, <3>2
  <2> QED
    BY <1>4, <2>1, <2>2 DEF Alternates
<1> DEFINE f == NotchAt(mask, s)
           g == NotchAt(mask, q)
<1>6. \A j \in 1 .. L : g[j] \in Int
  BY AlternatesNotch DEF NotchAt
<1>7. \A j \in 1 .. L + 2 * n : /\ f[j] \in Int
                              /\ f[j] = IF j % 2 = 0 THEN 0 ELSE IF s[j] = mask + 8 THEN 1 ELSE -1
  BY <1>4, <1>5, AlternatesNotch DEF NotchAt
<1>8. \A j \in 1 .. L : g[j] = f[j]
  <2> SUFFICES ASSUME NEW j \in 1 .. L PROVE g[j] = f[j]
    OBVIOUS
  <2>1. j \in 1 .. L + 2 * n /\ j <= L
    BY <1>1, <1>2
  <2>2. s[j] = q[j] /\ (j # 1 => s[j - 1] = q[j - 1])
    BY <1>1, <1>2, <1>4, <2>1
  <2> QED
    BY <1>4, <2>1, <2>2 DEF NotchAt, MaskBefore
<1>9. Turned(mask, q) \in Int /\ Turned(mask, q) = SumOn(f, 1 .. L)
  <2>1. IsFiniteSet(1 .. L)
    <3>1. L \in Int
      BY <1>2
    <3> HIDE DEF L
    <3> QED
      BY <3>1, FS_Interval
  <2>2. \A j \in 1 .. L : g[j] \in Int /\ g[j] = f[j]
    BY <1>6, <1>8
  <2>3. SumOn(g, 1 .. L) = SumOn(f, 1 .. L)
    BY <2>1, <2>2, SumAgree
  <2>4. SumOn(g, 1 .. L) \in Int
    BY <2>1, <2>2, SumStep
  <2> QED
    BY <2>3, <2>4 DEF Turned
<1> DEFINE T == {i \in Nat : SumOn(f, 1 .. L + 2 * i) = SumOn(f, 1 .. L) + i * one}
           total == SumOn(f, 1 .. L)
<1>10. 0 \in T
  <2>1. total + 0 * one = total /\ L + 2 * 0 = L
    BY <1>2, <1>9
  <2> QED
    BY <2>1
<1>11. ASSUME NEW i \in 1 .. n, i - 1 \in T
       PROVE  i \in T
  <2> DEFINE j == L + 2 * i - 1
  <2>1. /\ j \in 1 .. L + 2 * n /\ j + 1 \in 1 .. L + 2 * n /\ j % 2 = 1 /\ (j + 1) % 2 = 0
        /\ ~(j <= L) /\ j - L \in 1 .. 2 * n /\ (j - L) % 2 = 1
        /\ L + 2 * n \in Nat /\ j - 1 = L + 2 * (i - 1) /\ j + 1 = L + 2 * i /\ (j + 1) - 1 = j
    BY <1>1, <1>2
  <2>2. f[j] = one /\ f[j + 1] = 0
    <3>1. s[j] = mask + dir
      BY <1>3, <1>4, <2>1
    <3>2. (mask + dir = mask + 8) <=> c > 0
      OBVIOUS
    <3> HIDE DEF f, j
    <3> QED
      BY <1>7, <2>1, <3>1, <3>2
  <2> HIDE DEF f, j
  <2>3. /\ SumOn(f, 1 .. j) = SumOn(f, 1 .. j - 1) + f[j]
        /\ SumOn(f, 1 .. j + 1) = SumOn(f, 1 .. (j + 1) - 1) + f[j + 1]
    BY <1>7, <2>1, SumLast
  <2>4. SumOn(f, 1 .. j - 1) = total + (i - 1) * one
    BY <1>11, <2>1
  <2>5. SumOn(f, 1 .. L + 2 * i) = ((total + (i - 1) * one) + one) + 0
    BY <2>1, <2>2, <2>3, <2>4
  <2>6. ((total + (i - 1) * one) + one) + 0 = total + i * one
    <3>1. total \in Int
      BY <1>9
    <3> HIDE DEF total
    <3> QED
      BY <3>1
  <2>7. i \in Nat
    OBVIOUS
  <2> QED
    BY <2>5, <2>6, <2>7
<1>12. \A i \in 0 .. n : i \in T
  <2> HIDE DEF T
  <2> QED
    BY <1>1, <1>10, <1>11, Climb
<1>13. n \in T
  BY <1>1, <1>12
<1>14. Turned(mask, s) = Turned(mask, q) + c
  BY <1>1, <1>4, <1>9, <1>13 DEF Turned
<1> QED
  BY <1>3, <1>5, <1>9, <1>14 DEF r, s

LEMMA ClicksAdd ==
  ASSUME NEW deltas \in Seq(Int), NEW mask \in 0 .. 7
  PROVE  LET q == Clicks(deltas, mask)
             c == Carry(deltas)[Len(deltas)]
         IN  /\ Alternates(mask, q)
             /\ Turned(mask, q) * Divisor + c = SumFunction(deltas)
             /\ Abs(c) < Divisor
<1> DEFINE n == Len(deltas)
           carry == Carry(deltas)
           c(k) == Trunc(carry[k - 1] + deltas[k])
           seqs == [k \in 1 .. n |-> Presses(c(k), mask)]
<1>1. n \in Nat /\ DOMAIN deltas = 1 .. n /\ \A k \in 1 .. n : deltas[k] \in Int
  BY LenProperties, ElementOfSeq
<1>2. /\ carry \in [0 .. n -> Int] /\ carry[0] = 0
      /\ \A k \in 1 .. n : carry[k] = (carry[k - 1] + deltas[k]) - c(k) * Divisor
  BY CarryIs
<1>3. Clicks(deltas, mask) = FlattenSeq(seqs)
  BY DEF Clicks, Presses
<1> HIDE DEF n, carry
<1>4. \A k \in 1 .. n : carry[k - 1] + deltas[k] \in Int /\ c(k) \in Int
                       /\ Abs(carry[k]) < Divisor
  <2> SUFFICES ASSUME NEW k \in 1 .. n
               PROVE  /\ carry[k - 1] + deltas[k] \in Int /\ c(k) \in Int
                      /\ Abs(carry[k]) < Divisor
    OBVIOUS
  <2>1. k - 1 \in 0 .. n
    BY <1>1
  <2>2. carry[k - 1] + deltas[k] \in Int
    BY <1>1, <1>2, <2>1
  <2> QED
    BY <1>2, <2>2, TruncLeaves
<1>5. Abs(carry[n]) < Divisor
  <2>1. CASE n = 0
    BY <1>2, <2>1, WheelAssumption DEF Abs
  <2>2. CASE n # 0
    <3>1. n \in 1 .. n
      BY <1>1, <2>2
    <3> QED
      BY <1>4, <3>1
  <2> QED
    BY <2>1, <2>2
<1> HIDE DEF c
<1>6. Alternates(mask, <<>>)
  BY DEF Alternates
<1>7. seqs \in Seq(Seq(0 .. 31)) /\ Len(seqs) = n
  <2>1. \A k \in 1 .. n : Presses(c(k), mask) \in Seq(0 .. 31)
    BY <1>4, <1>6, ClicksTurn
  <2>2. seqs \in [1 .. n -> Seq(0 .. 31)]
    BY <2>1
  <2> QED
    BY <1>1, <2>2, AsSeq
<1>8. \A k \in 1 .. n : seqs[k] = Presses(c(k), mask)
  OBVIOUS
<1> HIDE DEF seqs
<1>9. PICK f \in [0 .. n -> Seq(0 .. 31)] :
            /\ f[0] = <<>>
            /\ \A k \in 1 .. n : f[k] = f[k - 1] \o seqs[k]
            /\ FlattenSeq(seqs) = f[n]
  BY <1>7, FlatChain
<1> DEFINE sum(k) == SumOn(deltas, 1 .. k)
           Good(k) == /\ Alternates(mask, f[k]) /\ Turned(mask, f[k]) \in Int
                      /\ Turned(mask, f[k]) * Divisor + carry[k] = sum(k)
           T == {k \in Nat : Good(k)}
<1>10. Divisor \in Int
  BY WheelAssumption
<1>11. 0 \in T
  <2>1. Len(<<>>) = 0 /\ 1 .. 0 = {} /\ IsFiniteSet({}) /\ \A x \in {} : NotchAt(mask, <<>>)[x] \in Int
    BY FS_EmptySet
  <2>2. SumOn(NotchAt(mask, <<>>), {}) = 0
    BY <2>1, SumStep
  <2>3. Turned(mask, <<>>) = 0
    BY <2>1, <2>2 DEF Turned
  <2>4. sum(0) = 0
    BY <1>1, SumLast
  <2>5. f[0] = <<>> /\ 0 * Divisor + 0 = 0
    BY <1>9, <1>10
  <2> HIDE DEF sum
  <2>6. Good(0)
    BY <1>2, <1>6, <2>3, <2>4, <2>5
  <2> QED
    BY <2>6
<1>12. ASSUME NEW k \in 1 .. n, k - 1 \in T
       PROVE  k \in T
  <2>0. k \in Nat /\ k \in 0 .. n /\ k - 1 \in 0 .. n
    BY <1>1
  <2>1. Good(k - 1)
    BY <1>12
  <2> DEFINE a == Turned(mask, f[k - 1])
             b == carry[k - 1]
             d == deltas[k]
             e == c(k)
  <2>2. f[k] = f[k - 1] \o Presses(e, mask)
    BY <1>8, <1>9
  <2>3. e \in Int /\ Alternates(mask, f[k - 1])
    BY <1>4, <2>1
  <2>4. Alternates(mask, f[k]) /\ a \in Int /\ Turned(mask, f[k]) = a + e
    <3> HIDE DEF e
    <3> QED
      BY <2>2, <2>3, ClicksTurn
  <2>5. sum(k) = sum(k - 1) + d
    BY <1>1, SumLast
  <2>6. b \in Int /\ d \in Int /\ carry[k] = (b + d) - e * Divisor /\ a * Divisor + b = sum(k - 1)
    BY <1>1, <1>2, <2>0, <2>1
  <2> HIDE DEF a, b, d, e, sum
  <2>7. (a + e) * Divisor = a * Divisor + e * Divisor
    BY <1>10, <2>3, <2>4
  <2>8. a * Divisor \in Int /\ e * Divisor \in Int /\ (a + e) * Divisor \in Int
    BY <1>10, <2>3, <2>4
  <2>9. (a + e) * Divisor + ((b + d) - e * Divisor) = (a * Divisor + b) + d
    BY <2>6, <2>7, <2>8
  <2>10. Good(k)
    BY <2>3, <2>4, <2>5, <2>6, <2>9
  <2> QED
    BY <2>0, <2>10
<1>13. \A k \in 0 .. n : k \in T
  <2> HIDE DEF T
  <2> QED
    BY <1>1, <1>11, <1>12, Climb
<1>14. Good(n)
  BY <1>1, <1>13
<1>15. SumFunction(deltas) = sum(n)
  BY <1>1, SumIs
<1> QED
  BY <1>3, <1>5, <1>9, <1>14, <1>15 DEF n, carry

(* What the server has seen when all are in.                               *)
LEMMA NotchesSeen ==
  ASSUME NEW mask \in 0 .. 7, NEW q, Alternates(mask, q)
  PROVE  LET masks == <<mask>> \o q
             steps == 1 .. Len(masks) - 1
         IN  /\ SumFunction([k \in steps |-> Notches(masks[k], masks[k + 1])]) = Turned(mask, q)
             /\ UNION {Changes(masks[k], masks[k + 1]) : k \in steps} = {}
<1> DEFINE masks == <<mask>> \o q
           steps == 1 .. Len(masks) - 1
           f == [k \in steps |-> Notches(masks[k], masks[k + 1])]
<1>1. q \in Seq(0 .. 31) /\ Len(q) \in Nat /\ <<mask>> \in Seq(0 .. 31) /\ Len(<<mask>>) = 1
  BY LenProperties DEF Alternates
<1>2. Len(masks) = 1 + Len(q)
      /\ \A j \in 1 .. 1 + Len(q) : masks[j] = IF j <= 1 THEN <<mask>>[j] ELSE q[j - 1]
  BY <1>1, ConcatProperties
<1> HIDE DEF masks
<1>3. steps = 1 .. Len(q)
  BY <1>1, <1>2
<1>4. \A k \in 1 .. Len(q) : masks[k] = MaskBefore(mask, q, k) /\ masks[k + 1] = q[k]
  <2> SUFFICES ASSUME NEW k \in 1 .. Len(q)
               PROVE  masks[k] = MaskBefore(mask, q, k) /\ masks[k + 1] = q[k]
    OBVIOUS
  <2>1. k \in 1 .. 1 + Len(q) /\ k + 1 \in 1 .. 1 + Len(q) /\ ~(k + 1 <= 1) /\ (k + 1) - 1 = k
        /\ (k <= 1 <=> k = 1)
    BY <1>1
  <2> QED
    BY <1>2, <2>1 DEF MaskBefore
<1>5. f = NotchAt(mask, q)
  BY <1>3, <1>4 DEF NotchAt
<1>6. DOMAIN f = 1 .. Len(q)
  BY <1>3
<1>7. SumFunction(f) = Turned(mask, q)
  <2>1. SumFunction(f) = SumOn(f, DOMAIN f)
    BY SumIs
  <2> HIDE DEF f
  <2> QED
    BY <1>5, <1>6, <2>1 DEF Turned
<1>8. \A k \in steps : Changes(masks[k], masks[k + 1]) = {}
  BY <1>3, <1>4, AlternatesNotch
<1> QED
  BY <1>7, <1>8 DEF masks

----------------------------------------------------------------------------
(* Bytes, bits and division.                                               *)

LEMMA TimesUp ==
  ASSUME NEW a \in Int, NEW b \in Int, a <= b, NEW s \in Nat
  PROVE  a * s \in Int /\ b * s \in Int /\ a * s <= b * s
OBVIOUS

(* Division has one answer.                                                *)
LEMMA DivMod ==
  ASSUME NEW s \in Nat \ {0}, NEW r \in Int, NEW a \in 0 .. s - 1
  PROVE  (r * s + a) \div s = r /\ (r * s + a) % s = a
<1> DEFINE n == r * s + a
           q == n \div s
           m == n % s
<1>0. r * s \in Int /\ n \in Int
  OBVIOUS
<1>1. q \in Int /\ m \in 0 .. s - 1 /\ n = s * q + m
  <2> HIDE DEF n
  <2> QED
    BY <1>0
<1> HIDE DEF q, m
<1>2. s * q = q * s /\ q * s \in Int
  BY <1>1
<1>3. CASE q < r
  <2>1. (q + 1) * s <= r * s
    BY <1>1, <1>3, TimesUp
  <2>2. (q + 1) * s = q * s + s
    BY <1>1
  <2> QED
    BY <1>0, <1>1, <1>2, <2>1, <2>2
<1>4. CASE r < q
  <2>1. (r + 1) * s <= q * s
    BY <1>1, <1>4, TimesUp
  <2>2. (r + 1) * s = r * s + s
    OBVIOUS
  <2> QED
    BY <1>0, <1>1, <1>2, <2>1, <2>2
<1>5. q = r
  BY <1>1, <1>3, <1>4
<1> QED
  BY <1>0, <1>1, <1>2, <1>5 DEF q, m

LEMMA RowCol ==
  ASSUME NEW w \in Nat \ {0}, NEW h \in Nat, NEW i \in 0 .. w * h - 1
  PROVE  /\ i \div w \in 0 .. h - 1 /\ i % w \in 0 .. w - 1
         /\ i = (i \div w) * w + (i % w)
<1> DEFINE q == i \div w
           m == i % w
<1>0. w * h \in Nat /\ i \in Nat
  OBVIOUS
<1>1. q \in Nat /\ m \in 0 .. w - 1 /\ i = w * q + m
  BY <1>0
<1> HIDE DEF q, m
<1>2. w * q = q * w /\ q * w \in Int /\ w * h = h * w
  BY <1>1
<1>3. q < h
  <2> SUFFICES ASSUME h <= q PROVE FALSE
    BY <1>1
  <2>1. h * w <= q * w
    BY <1>1, TimesUp
  <2> QED
    BY <1>0, <1>1, <1>2, <2>1
<1> QED
  BY <1>1, <1>2, <1>3 DEF q, m

MadeOf(b, hi, d, p, lo) == b = (2 * hi + d) * p + lo

LEMMA Digit ==
  ASSUME NEW hi \in Nat, NEW d \in 0 .. 1, NEW p \in Nat \ {0}, NEW lo \in 0 .. p - 1,
         NEW b, MadeOf(b, hi, d, p, lo)
  PROVE  (b \div p) % 2 = d
<1>1. 2 * hi + d \in Int /\ (2 * hi + d) % 2 = d
  OBVIOUS
<1>2. b \div p = 2 * hi + d
  BY <1>1, DivMod DEF MadeOf
<1> QED
  BY <1>1, <1>2

(* Eight bits, the first on top.                                           *)
BitsOf(P) == [c \in 0 .. 7 |-> IF c \in P THEN 2^(7 - c) ELSE 0]

LEMMA EightBits ==
  ASSUME NEW P
  PROVE  /\ SumFunction(BitsOf(P)) \in 0 .. 255
         /\ \A c \in 0 .. 7 : (SumFunction(BitsOf(P)) \div 2^(7 - c)) % 2 = IF c \in P THEN 1 ELSE 0
<1> DEFINE f == BitsOf(P)
           d(c) == IF c \in P THEN 1 ELSE 0
           b == SumFunction(f)
<1>1. /\ 2^0 = 1 /\ 2^1 = 2 /\ 2^2 = 4 /\ 2^3 = 8 /\ 2^4 = 16 /\ 2^5 = 32 /\ 2^6 = 64 /\ 2^7 = 128
  OBVIOUS
<1>2. /\ f[0] = 128 * d(0) /\ f[1] = 64 * d(1) /\ f[2] = 32 * d(2) /\ f[3] = 16 * d(3)
      /\ f[4] = 8 * d(4) /\ f[5] = 4 * d(5) /\ f[6] = 2 * d(6) /\ f[7] = 1 * d(7)
  <2>1. /\ 7 - 0 = 7 /\ 7 - 1 = 6 /\ 7 - 2 = 5 /\ 7 - 3 = 4 /\ 7 - 4 = 3 /\ 7 - 5 = 2 /\ 7 - 6 = 1 /\ 7 - 7 = 0
    OBVIOUS
  <2> QED
    BY <1>1, <2>1 DEF BitsOf
<1>3. DOMAIN f = 0 .. 7
  BY DEF BitsOf
<1> HIDE DEF f
<1>4. \A c \in 0 .. 7 : d(c) \in {0, 1}
  OBVIOUS
<1>5. \A c \in 0 .. 7 : f[c] \in Int
  <2>1. \A c \in 0 .. 7 : c = 0 \/ c = 1 \/ c = 2 \/ c = 3 \/ c = 4 \/ c = 5 \/ c = 6 \/ c = 7
    OBVIOUS
  <2> QED
    BY <1>2, <1>4, <2>1
<1> HIDE DEF d
<1>6. b = 128 * d(0) + 64 * d(1) + 32 * d(2) + 16 * d(3) + 8 * d(4) + 4 * d(5) + 2 * d(6) + d(7)
  <2>1. b = SumOn(f, 0 .. 7)
    BY <1>3, SumIs
  <2>2. SumOn(f, 0 .. 7) = f[0] + f[1] + f[2] + f[3] + f[4] + f[5] + f[6] + f[7]
    BY <1>5, SumOfEight
  <2>3. d(7) \in Int
    BY <1>4
  <2> HIDE DEF b
  <2> QED
    BY <1>2, <2>1, <2>2, <2>3
<1> HIDE DEF b
<1>7. /\ d(0) \in 0 .. 1 /\ d(1) \in 0 .. 1 /\ d(2) \in 0 .. 1 /\ d(3) \in 0 .. 1
      /\ d(4) \in 0 .. 1 /\ d(5) \in 0 .. 1 /\ d(6) \in 0 .. 1 /\ d(7) \in 0 .. 1
  BY <1>4
<1>8. b \in 0 .. 255
  BY <1>6, <1>7
<1> DEFINE h1 == d(0)
           h2 == 2 * h1 + d(1)
           h3 == 2 * h2 + d(2)
           h4 == 2 * h3 + d(3)
           h5 == 2 * h4 + d(4)
           h6 == 2 * h5 + d(5)
           h7 == 2 * h6 + d(6)
           l6 == d(7)
           l5 == 2 * d(6) + l6
           l4 == 4 * d(5) + l5
           l3 == 8 * d(4) + l4
           l2 == 16 * d(3) + l3
           l1 == 32 * d(2) + l2
           l0 == 64 * d(1) + l1
<1>9. /\ 0 \in Nat /\ h1 \in Nat /\ h2 \in Nat /\ h3 \in Nat /\ h4 \in Nat /\ h5 \in Nat /\ h6 \in Nat /\ h7 \in Nat
      /\ 0 \in 0 .. 1 - 1 /\ l6 \in 0 .. 2 - 1 /\ l5 \in 0 .. 4 - 1 /\ l4 \in 0 .. 8 - 1 /\ l3 \in 0 .. 16 - 1
      /\ l2 \in 0 .. 32 - 1 /\ l1 \in 0 .. 64 - 1 /\ l0 \in 0 .. 128 - 1
  BY <1>7
<1>10. /\ MadeOf(b, 0, d(0), 128, l0) /\ MadeOf(b, h1, d(1), 64, l1) /\ MadeOf(b, h2, d(2), 32, l2)
       /\ MadeOf(b, h3, d(3), 16, l3) /\ MadeOf(b, h4, d(4), 8, l4) /\ MadeOf(b, h5, d(5), 4, l5)
       /\ MadeOf(b, h6, d(6), 2, l6) /\ MadeOf(b, h7, d(7), 1, 0)
  BY <1>6, <1>7 DEF MadeOf
<1> HIDE DEF h1, h2, h3, h4, h5, h6, h7, l0, l1, l2, l3, l4, l5, l6
<1>11. \A c \in 0 .. 7 : (b \div 2^(7 - c)) % 2 = d(c)
  <2>1. \A c \in 0 .. 7 : c = 0 \/ c = 1 \/ c = 2 \/ c = 3 \/ c = 4 \/ c = 5 \/ c = 6 \/ c = 7
    OBVIOUS
  <2>2. (b \div 2^(7 - 0)) % 2 = d(0)
    <3>1. 7 - 0 = 7 /\ 128 \in Nat \ {0}
      OBVIOUS
    <3>2. /\ 0 \in Nat /\ d(0) \in 0 .. 1 /\ 128 \in Nat \ {0} /\ l0 \in 0 .. 128 - 1
          /\ MadeOf(b, 0, d(0), 128, l0)
      BY <1>7, <1>9, <1>10, <3>1, Zenon
    <3>3. (b \div 128) % 2 = d(0)
      BY <3>2, Digit, Zenon
    <3> QED
      BY <1>1, <3>1, <3>3
  <2>3. (b \div 2^(7 - 1)) % 2 = d(1)
    <3>1. 7 - 1 = 6 /\ 64 \in Nat \ {0}
      OBVIOUS
    <3>2. /\ h1 \in Nat /\ d(1) \in 0 .. 1 /\ 64 \in Nat \ {0} /\ l1 \in 0 .. 64 - 1
          /\ MadeOf(b, h1, d(1), 64, l1)
      BY <1>7, <1>9, <1>10, <3>1, Zenon
    <3>3. (b \div 64) % 2 = d(1)
      BY <3>2, Digit, Zenon
    <3> QED
      BY <1>1, <3>1, <3>3
  <2>4. (b \div 2^(7 - 2)) % 2 = d(2)
    <3>1. 7 - 2 = 5 /\ 32 \in Nat \ {0}
      OBVIOUS
    <3>2. /\ h2 \in Nat /\ d(2) \in 0 .. 1 /\ 32 \in Nat \ {0} /\ l2 \in 0 .. 32 - 1
          /\ MadeOf(b, h2, d(2), 32, l2)
      BY <1>7, <1>9, <1>10, <3>1, Zenon
    <3>3. (b \div 32) % 2 = d(2)
      BY <3>2, Digit, Zenon
    <3> QED
      BY <1>1, <3>1, <3>3
  <2>5. (b \div 2^(7 - 3)) % 2 = d(3)
    <3>1. 7 - 3 = 4 /\ 16 \in Nat \ {0}
      OBVIOUS
    <3>2. /\ h3 \in Nat /\ d(3) \in 0 .. 1 /\ 16 \in Nat \ {0} /\ l3 \in 0 .. 16 - 1
          /\ MadeOf(b, h3, d(3), 16, l3)
      BY <1>7, <1>9, <1>10, <3>1, Zenon
    <3>3. (b \div 16) % 2 = d(3)
      BY <3>2, Digit, Zenon
    <3> QED
      BY <1>1, <3>1, <3>3
  <2>6. (b \div 2^(7 - 4)) % 2 = d(4)
    <3>1. 7 - 4 = 3 /\ 8 \in Nat \ {0}
      OBVIOUS
    <3>2. /\ h4 \in Nat /\ d(4) \in 0 .. 1 /\ 8 \in Nat \ {0} /\ l4 \in 0 .. 8 - 1
          /\ MadeOf(b, h4, d(4), 8, l4)
      BY <1>7, <1>9, <1>10, <3>1, Zenon
    <3>3. (b \div 8) % 2 = d(4)
      BY <3>2, Digit, Zenon
    <3> QED
      BY <1>1, <3>1, <3>3
  <2>7. (b \div 2^(7 - 5)) % 2 = d(5)
    <3>1. 7 - 5 = 2 /\ 4 \in Nat \ {0}
      OBVIOUS
    <3>2. /\ h5 \in Nat /\ d(5) \in 0 .. 1 /\ 4 \in Nat \ {0} /\ l5 \in 0 .. 4 - 1
          /\ MadeOf(b, h5, d(5), 4, l5)
      BY <1>7, <1>9, <1>10, <3>1, Zenon
    <3>3. (b \div 4) % 2 = d(5)
      BY <3>2, Digit, Zenon
    <3> QED
      BY <1>1, <3>1, <3>3
  <2>8. (b \div 2^(7 - 6)) % 2 = d(6)
    <3>1. 7 - 6 = 1 /\ 2 \in Nat \ {0}
      OBVIOUS
    <3>2. /\ h6 \in Nat /\ d(6) \in 0 .. 1 /\ 2 \in Nat \ {0} /\ l6 \in 0 .. 2 - 1
          /\ MadeOf(b, h6, d(6), 2, l6)
      BY <1>7, <1>9, <1>10, <3>1, Zenon
    <3>3. (b \div 2) % 2 = d(6)
      BY <3>2, Digit, Zenon
    <3> QED
      BY <1>1, <3>1, <3>3
  <2>9. (b \div 2^(7 - 7)) % 2 = d(7)
    <3>1. 7 - 7 = 0 /\ 1 \in Nat \ {0}
      OBVIOUS
    <3>2. /\ h7 \in Nat /\ d(7) \in 0 .. 1 /\ 1 \in Nat \ {0} /\ 0 \in 0 .. 1 - 1
          /\ MadeOf(b, h7, d(7), 1, 0)
      BY <1>7, <1>9, <1>10, <3>1, Zenon
    <3>3. (b \div 1) % 2 = d(7)
      BY <3>2, Digit, Zenon
    <3> QED
      BY <1>1, <3>1, <3>3
  <2> QED
    BY <2>1, <2>2, <2>3, <2>4, <2>5, <2>6, <2>7, <2>8, <2>9
<1> QED
  BY <1>8, <1>11 DEF b, f, d

----------------------------------------------------------------------------
(* The pointer's picture.                                                  *)
LEMMA MaskIs ==
  ASSUME NEW bm, bm.w \in Nat, bm.h \in Nat
  PROVE  \A k \in DOMAIN Mask(bm) :
           LET row == (k - 1) \div Stride(bm.w)
               P   == {c \in 0 .. 7 : /\ 8 * ((k - 1) % Stride(bm.w)) + c < bm.w
                                     /\ row * bm.w + (8 * ((k - 1) % Stride(bm.w)) + c) + 1 \in Drawn(bm)}
           IN  Mask(bm)[k] = SumFunction(BitsOf(P))
<1> SUFFICES ASSUME NEW k \in DOMAIN Mask(bm)
             PROVE  LET row == (k - 1) \div Stride(bm.w)
                        P   == {c \in 0 .. 7 : /\ 8 * ((k - 1) % Stride(bm.w)) + c < bm.w
                                              /\ row * bm.w + (8 * ((k - 1) % Stride(bm.w)) + c) + 1 \in Drawn(bm)}
                    IN  Mask(bm)[k] = SumFunction(BitsOf(P))
  OBVIOUS
<1> DEFINE row == (k - 1) \div Stride(bm.w)
           col(c) == 8 * ((k - 1) % Stride(bm.w)) + c
           set(c) == col(c) < bm.w /\ row * bm.w + col(c) + 1 \in Drawn(bm)
           P == {c \in 0 .. 7 : set(c)}
           f == [c \in 0 .. 7 |-> IF set(c) THEN 2^(7 - c) ELSE 0]
<1>1. Mask(bm)[k] = SumFunction(f)
  BY DEF Mask
<1> HIDE DEF set
<1>2. f = BitsOf(P)
  BY DEF BitsOf
<1>3. SumFunction(f) = SumFunction(BitsOf(P))
  <2> HIDE DEF f
  <2> QED
    BY <1>2
<1> QED
  BY <1>1, <1>3 DEF set

LEMMA DrawnArePixels ==
  ASSUME NEW bm
  PROVE  Drawn(bm) \subseteq DOMAIN bm.px
BY DEF Drawn

LEMMA MaskRead ==
  ASSUME NEW bm, bm.w \in Nat \ {0}, bm.h \in Nat \ {0}, DOMAIN bm.px = 1 .. bm.w * bm.h
  PROVE  ReadCursor(CursorShape(bm)) =
           [w |-> bm.w, h |-> bm.h, px |-> CursorShape(bm).px, on |-> Drawn(bm)]
<1> DEFINE c == CursorShape(bm)
           w == bm.w
           h == bm.h
           S == Stride(w)
           bit(i) == (c.mask[((i - 1) \div w) * S + (((i - 1) % w) \div 8) + 1]
                        \div 2^(7 - (((i - 1) % w) % 8))) % 2
<1>1. /\ c.w = w /\ c.h = h /\ c.mask = Mask(bm) /\ DOMAIN c.px = 1 .. w * h
  BY DEF CursorShape
<1>2. S \in Nat \ {0} /\ \A j \in 0 .. w - 1 : j \div 8 \in 0 .. S - 1 /\ j % 8 \in 0 .. 7
                                           /\ j = 8 * (j \div 8) + (j % 8)
  BY DEF Stride
<1>3. DOMAIN Mask(bm) = 1 .. S * h
  BY DEF Mask
<1> HIDE DEF S, c
<1>4. ASSUME NEW i \in 1 .. w * h
      PROVE  bit(i) = 1 <=> i \in Drawn(bm)
  <2> DEFINE r == (i - 1) \div w
             j == (i - 1) % w
             q == j \div 8
             m == j % 8
             k == r * S + q + 1
  <2>1. w * h \in Nat /\ i - 1 \in 0 .. w * h - 1
    OBVIOUS
  <2>2. r \in 0 .. h - 1 /\ j \in 0 .. w - 1 /\ i - 1 = r * w + j
    BY <2>1, RowCol
  <2> HIDE DEF r, j
  <2>3. q \in 0 .. S - 1 /\ m \in 0 .. 7 /\ j = 8 * q + m
    BY <1>2, <2>2
  <2> HIDE DEF q, m
  <2>4. r * S \in Nat /\ r * S <= (h - 1) * S /\ (h - 1) * S = S * h - S /\ S * h \in Nat
    <3>1. r * S <= (h - 1) * S
      <4>1. r \in Int /\ h - 1 \in Int /\ r <= h - 1 /\ S \in Nat
        BY <1>2, <2>2
      <4> QED
        BY <4>1, TimesUp
    <3>2. r * S \in Nat /\ S * h \in Nat
      BY <1>2, <2>2, SMTT(60)
    <3>3. (h - 1) * S = S * h - S
      BY <1>2
    <3> QED
      BY <3>1, <3>2, <3>3
  <2>5. k \in 1 .. S * h /\ k - 1 = r * S + q
    <3> DEFINE a == r * S
               b == S * h
    <3>1. a \in Nat /\ b \in Nat /\ a <= b - S
      BY <1>2, <2>4
    <3>2. k = a + q + 1
      OBVIOUS
    <3> HIDE DEF a, b, k
    <3>3. k \in 1 .. b /\ k - 1 = a + q
      BY <1>2, <2>3, <3>1, <3>2
    <3> QED
      BY <3>3 DEF a, b
  <2>6. (k - 1) \div S = r /\ (k - 1) % S = q
    <3>1. r \in Int /\ (r * S + q) \div S = r /\ (r * S + q) % S = q
      <4>1. r \in Int /\ S \in Nat \ {0} /\ q \in 0 .. S - 1
        BY <1>2, <2>2, <2>3
      <4> QED
        BY <4>1, DivMod, Zenon
    <3> HIDE DEF k
    <3> QED
      BY <2>5, <3>1
  <2>7. bit(i) = (Mask(bm)[k] \div 2^(7 - m)) % 2
    BY <1>1 DEF r, j, q, m
  <2> HIDE DEF k
  <2> DEFINE P == {x \in 0 .. 7 : /\ 8 * ((k - 1) % Stride(bm.w)) + x < bm.w
                                 /\ ((k - 1) \div Stride(bm.w)) * bm.w
                                     + (8 * ((k - 1) % Stride(bm.w)) + x) + 1 \in Drawn(bm)}
  <2>8. Mask(bm)[k] = SumFunction(BitsOf(P))
    BY <1>3, <2>5, MaskIs
  <2>9. m \in P <=> i \in Drawn(bm)
    <3>1. 8 * q + m < w /\ r * w + (8 * q + m) + 1 = i
      <4>1. r * w \in Int
        BY <2>2
      <4> QED
        BY <2>2, <2>3, <4>1
    <3>2. (k - 1) % Stride(bm.w) = q /\ (k - 1) \div Stride(bm.w) = r
      BY <2>6 DEF S
    <3> QED
      BY <2>3, <3>1, <3>2
  <2> HIDE DEF P
  <2>10. (SumFunction(BitsOf(P)) \div 2^(7 - m)) % 2 = IF m \in P THEN 1 ELSE 0
    BY <2>3, EightBits
  <2> HIDE DEF bit
  <2> QED
    BY <2>7, <2>8, <2>9, <2>10
<1>5. {i \in DOMAIN c.px : bit(i) = 1} = Drawn(bm)
  <2> HIDE DEF bit
  <2> QED
    BY <1>1, <1>4, DrawnArePixels
<1>6. ReadCursor(c) = [w |-> w, h |-> h, px |-> c.px, on |-> {i \in DOMAIN c.px : bit(i) = 1}]
  BY <1>1 DEF ReadCursor, S
<1> QED
  BY <1>5, <1>6 DEF c

LEMMA ShapeIsShown ==
  ASSUME NEW bm, bm.w \in Nat, bm.h \in Nat, DOMAIN bm.px = 1 .. bm.w * bm.h, NEW s, NEW at,
         s = [p \in DOMAIN s |-> s[p]]
  PROVE  LET c  == ReadCursor(CursorShape(bm))
             up == Draw(c, s, at)
             here(p) == {i \in Drawn(bm) : Lands(bm, i, at) = p}
         IN  /\ \A p \in DOMAIN s : IF here(p) = {} THEN up[p] = s[p]
                                   ELSE \E i \in here(p) : up[p] = bm.px[i]
             /\ Restore(up, Under(c, s, at)) = s
<1> DEFINE c  == ReadCursor(CursorShape(bm))
           up == Draw(c, s, at)
           here(p) == {i \in Drawn(bm) : Lands(bm, i, at) = p}
           under == Under(c, s, at)
<1>1. /\ c.on = Drawn(bm) /\ \A i \in Drawn(bm) : c.px[i] = bm.px[i] /\ Lands(c, i, at) = Lands(bm, i, at)
  <2>1. CASE bm.w = 0 \/ bm.h = 0
    <3>1. DOMAIN bm.px = {}
      BY <2>1
    <3>2. Drawn(bm) = {}
      BY <3>1, DrawnArePixels
    <3>3. c = Hidden
      BY <2>1 DEF ReadCursor, CursorShape
    <3> QED
      BY <3>2, <3>3 DEF Hidden
  <2>2. CASE bm.w # 0 /\ bm.h # 0
    <3>1. c = [w |-> bm.w, h |-> bm.h, px |-> CursorShape(bm).px, on |-> Drawn(bm)]
      BY <2>2, MaskRead
    <3>2. c.on = Drawn(bm) /\ c.w = bm.w /\ c.px = CursorShape(bm).px
      BY <3>1
    <3>3. \A i \in Drawn(bm) : CursorShape(bm).px[i] = bm.px[i]
      BY DrawnArePixels DEF CursorShape
    <3> HIDE DEF c
    <3>4. \A i \in Drawn(bm) : Lands(c, i, at) = Lands(bm, i, at)
      BY <3>2 DEF Lands
    <3> QED
      BY <3>2, <3>3, <3>4 DEF c
  <2> QED
    BY <2>1, <2>2
<1> HIDE DEF c
<1>2. \A p \in DOMAIN s : {i \in Visible(c, s, at) : Lands(c, i, at) = p} = here(p)
  BY <1>1 DEF Visible
<1>3. \A p \in DOMAIN s : up[p] = IF here(p) = {} THEN s[p] ELSE c.px[CHOOSE i \in here(p) : TRUE]
  <2> DEFINE V(p) == {i \in Visible(c, s, at) : Lands(c, i, at) = p}
  <2>1. \A p \in DOMAIN s : up[p] = IF V(p) = {} THEN s[p] ELSE c.px[CHOOSE i \in V(p) : TRUE]
    BY DEF Draw
  <2>2. \A p \in DOMAIN s : V(p) = here(p)
    BY <1>2
  <2> HIDE DEF V, here, up
  <2> QED
    BY <2>1, <2>2
<1>4. \A p \in DOMAIN s : IF here(p) = {} THEN up[p] = s[p] ELSE \E i \in here(p) : up[p] = bm.px[i]
  <2> SUFFICES ASSUME NEW p \in DOMAIN s, here(p) # {} PROVE \E i \in here(p) : up[p] = bm.px[i]
    BY <1>3
  <2>1. (CHOOSE i \in here(p) : TRUE) \in here(p)
    OBVIOUS
  <2> QED
    BY <1>1, <1>3, <2>1
<1>5. DOMAIN up = DOMAIN s
  BY DEF Draw
<1>6. DOMAIN under = {Lands(c, i, at) : i \in Visible(c, s, at)} /\ \A p \in DOMAIN under : under[p] = s[p]
  BY DEF Under
<1>7. ASSUME NEW p \in DOMAIN s
      PROVE  Restore(up, under)[p] = s[p]
  <2>1. CASE p \in DOMAIN under
    BY <1>5, <1>6, <2>1 DEF Restore
  <2>2. CASE p \notin DOMAIN under
    <3>1. here(p) = {}
      BY <1>2, <1>6, <2>2
    <3>2. up[p] = s[p]
      BY <1>3, <3>1
    <3> HIDE DEF up, under
    <3> QED
      BY <1>5, <2>2, <3>2 DEF Restore
  <2> QED
    BY <2>1, <2>2
<1>8. Restore(up, under) = s
  <2> HIDE DEF up, under
  <2>1. Restore(up, under) = [p \in DOMAIN s |-> Restore(up, under)[p]]
    BY <1>5 DEF Restore
  <2> QED
    BY <1>7, <2>1
<1> QED
  BY <1>4, <1>8 DEF c

----------------------------------------------------------------------------
(* Parts of sequences.                                                     *)

LEMMA SubIs ==
  ASSUME NEW S, NEW s \in Seq(S), NEW m \in Nat, NEW n \in Nat, 1 <= m, n <= Len(s), m <= n + 1
  PROVE  /\ SubSeq(s, m, n) \in Seq(S) /\ Len(SubSeq(s, m, n)) = n - m + 1
         /\ \A i \in 1 .. n - m + 1 : SubSeq(s, m, n)[i] = s[m + i - 1]
<1>1. \A i \in m .. n : s[i] \in S
  <2>1. \A i \in m .. n : i \in 1 .. Len(s)
    BY LenProperties
  <2> QED
    BY <2>1, ElementOfSeq
<1>2. m \in Int /\ n \in Int
  OBVIOUS
<1>3. /\ SubSeq(s, m, n) \in Seq(S)
      /\ Len(SubSeq(s, m, n)) = IF m <= n THEN n - m + 1 ELSE 0
      /\ \A i \in 1 .. n - m + 1 : SubSeq(s, m, n)[i] = s[m + i - 1]
  BY <1>1, <1>2, SubSeqProperties
<1>4. ~(m <= n) => n - m + 1 = 0
  OBVIOUS
<1> QED
  BY <1>3, <1>4

----------------------------------------------------------------------------
(* Colours as bytes.                                                       *)

(* The bytes of a pixel, the lowest first.                                 *)
Little(f, c) ==
  LET byte(k) == {c[i] : i \in {i \in 1..3 : f.shift[i] = 8 * (k - 1)}}
  IN  [k \in 1..4 |-> IF byte(k) = {} THEN 0 ELSE CHOOSE b \in byte(k) : TRUE]

LEMMA FourSwapped ==
  ASSUME NEW S, NEW b \in [1..4 -> S]
  PROVE  /\ Swapped(b) \in [1..4 -> S] /\ Swapped(Swapped(b)) = b
         /\ \A k \in 1..4 : Swapped(b)[k] = b[5 - k]
<1>1. b \in Seq(S) /\ Len(b) = 4
  BY AsSeq
<1> DEFINE a == Swapped(b)
<1>2. a = [k \in 1..4 |-> b[4 + 1 - k]]
  BY <1>1 DEF Swapped
<1>3. a \in [1..4 -> S] /\ \A k \in 1..4 : a[k] = b[5 - k]
  BY <1>2
<1>4. Len(a) = 4
  BY <1>3, AsSeq
<1> HIDE DEF a
<1>5. Swapped(a) = [k \in 1..4 |-> a[4 + 1 - k]]
  BY <1>4 DEF Swapped
<1>6. \A k \in 1..4 : Swapped(a)[k] = b[k]
  BY <1>3, <1>5
<1>7. Swapped(a) = [k \in 1..4 |-> Swapped(a)[k]] /\ b = [k \in 1..4 |-> b[k]]
  BY <1>5
<1>8. Swapped(a) = b
  BY <1>6, <1>7
<1> QED
  BY <1>3, <1>8 DEF a

LEMMA LittleIs ==
  ASSUME NEW f \in PixFmts, NEW c \in Rgb
  PROVE  /\ Little(f, c) \in [1..4 -> Byte]
         /\ \A i \in 1..3 : /\ (f.shift[i] \div 8) + 1 \in 1..4
                            /\ (HasCpixel(f) => (f.shift[i] \div 8) + 1 \in 1..3)
                            /\ Little(f, c)[(f.shift[i] \div 8) + 1] = c[i]
<1> DEFINE byte(k) == {c[i] : i \in {i \in 1..3 : f.shift[i] = 8 * (k - 1)}}
           e(k) == IF byte(k) = {} THEN 0 ELSE CHOOSE b \in byte(k) : TRUE
<1>1. /\ \A i \in 1..3 : f.shift[i] \in {0, 8, 16, 24} /\ c[i] \in Byte
      /\ \A i, j \in 1..3 : f.shift[i] = f.shift[j] => i = j
  BY DEF PixFmts, Rgb
<1>2. \A k \in 1..4 : byte(k) \subseteq Byte
  BY <1>1
<1>3. \A k \in 1..4 : e(k) \in Byte
  <2> SUFFICES ASSUME NEW k \in 1..4 PROVE e(k) \in Byte
    OBVIOUS
  <2>1. byte(k) # {} => (CHOOSE b \in byte(k) : TRUE) \in byte(k)
    OBVIOUS
  <2> HIDE DEF byte
  <2> QED
    BY <1>2, <2>1 DEF Byte
<1>4. ASSUME NEW i \in 1..3
      PROVE  /\ (f.shift[i] \div 8) + 1 \in 1..4
             /\ (HasCpixel(f) => (f.shift[i] \div 8) + 1 \in 1..3)
             /\ e((f.shift[i] \div 8) + 1) = c[i]
  <2> DEFINE s == f.shift[i]
             k == (s \div 8) + 1
  <2>1. s \in {0, 8, 16, 24} /\ (HasCpixel(f) => s <= 16)
    BY <1>1 DEF HasCpixel
  <2>2. k \in 1..4 /\ 8 * (k - 1) = s /\ (s <= 16 => k \in 1..3)
    <3> HIDE DEF s
    <3> QED
      BY <2>1
  <2>3. {j \in 1..3 : f.shift[j] = 8 * (k - 1)} = {i}
    <3> HIDE DEF k
    <3> QED
      BY <1>1, <2>2
  <2> HIDE DEF k
  <2>4. byte(k) = {c[i]}
    BY <2>3
  <2> HIDE DEF byte
  <2>5. e(k) = c[i]
    BY <2>4
  <2> QED
    BY <2>1, <2>2, <2>5 DEF k
<1>5. Little(f, c) = [k \in 1..4 |-> e(k)]
  BY DEF Little
<1> HIDE DEF e
<1> QED
  BY <1>3, <1>4, <1>5

(* Four bytes, read back by a client that asked for them.                  *)
LEMMA PixelBack ==
  ASSUME NEW f \in PixFmts, NEW c \in Rgb
  PROVE  /\ Pixel(f, c) \in Seq(Byte) /\ Len(Pixel(f, c)) = 4
         /\ ReadPixel(f, Pixel(f, c)) = c
<1> DEFINE l == Little(f, c)
<1>1. l \in [1..4 -> Byte] /\ \A i \in 1..3 : l[(f.shift[i] \div 8) + 1] = c[i]
  BY LittleIs
<1>2. Pixel(f, c) = IF f.big THEN Swapped(l) ELSE l
  BY DEF Pixel, Little
<1> HIDE DEF l
<1>3. Swapped(l) \in [1..4 -> Byte] /\ Swapped(Swapped(l)) = l
  BY <1>1, FourSwapped
<1>4. Pixel(f, c) \in [1..4 -> Byte]
  BY <1>1, <1>2, <1>3
<1>5. (IF f.big THEN Swapped(Pixel(f, c)) ELSE Pixel(f, c)) = l
  BY <1>2, <1>3
<1>6. ReadPixel(f, Pixel(f, c)) = [i \in 1..3 |-> l[(f.shift[i] \div 8) + 1]]
  BY <1>5 DEF ReadPixel
<1>7. ReadPixel(f, Pixel(f, c)) = [i \in 1..3 |-> c[i]]
  BY <1>1, <1>6
<1>8. [i \in 1..3 |-> c[i]] = c
  BY DEF Rgb
<1> QED
  <2>1. Pixel(f, c) \in Seq(Byte) /\ Len(Pixel(f, c)) = 4
    <3>1. 4 \in Nat
      OBVIOUS
    <3> QED
      BY <1>4, <3>1, AsSeq, Zenon
  <2> QED
    BY <2>1, <1>7, <1>8

(* And three, when the colour fits into them.                              *)
LEMMA CpixelBack ==
  ASSUME NEW f \in PixFmts, HasCpixel(f), NEW c \in Rgb
  PROVE  /\ Cpixel(f, c) \in [1..3 -> Byte]
         /\ Cpixel(f, c) \in Seq(Byte) /\ Len(Cpixel(f, c)) = 3
         /\ ReadCpixel(f, Cpixel(f, c)) = c
<1> DEFINE l == Little(f, c)
<1>1. l \in [1..4 -> Byte] /\ \A i \in 1..3 : /\ (f.shift[i] \div 8) + 1 \in 1..3
                                                /\ l[(f.shift[i] \div 8) + 1] = c[i]
  BY LittleIs
<1>2. Pixel(f, c) = IF f.big THEN Swapped(l) ELSE l
  BY DEF Pixel, Little
<1> HIDE DEF l
<1>3. Swapped(l) \in [1..4 -> Byte] /\ \A k \in 1..4 : Swapped(l)[k] = l[5 - k]
  BY <1>1, FourSwapped
<1> DEFINE p == Pixel(f, c)
           b == Cpixel(f, c)
<1>4. p \in [1..4 -> Byte]
  BY <1>1, <1>2, <1>3
<1>5. b \in Seq(Byte) /\ Len(b) = 3 /\ \A k \in 1..3 : b[k] = IF f.big THEN p[k + 1] ELSE p[k]
  <2>1. p \in Seq(Byte) /\ Len(p) = 4
    <3> HIDE DEF p
    <3>1. 4 \in Nat
      OBVIOUS
    <3> QED
      BY <1>4, <3>1, AsSeq, Zenon
  <2>2. b = IF f.big THEN SubSeq(p, 2, 4) ELSE SubSeq(p, 1, 3)
    BY DEF Cpixel
  <2> HIDE DEF p, b
  <2>3. /\ SubSeq(p, 2, 4) \in Seq(Byte) /\ Len(SubSeq(p, 2, 4)) = 4 - 2 + 1
        /\ \A i \in 1 .. 4 - 2 + 1 : SubSeq(p, 2, 4)[i] = p[2 + i - 1]
    <3>1. 2 \in Nat /\ 4 \in Nat /\ 1 <= 2 /\ 4 <= Len(p) /\ 2 <= 4 + 1
      BY <2>1
    <3> QED
      BY <2>1, <3>1, SubIs
  <2>4. /\ SubSeq(p, 1, 3) \in Seq(Byte) /\ Len(SubSeq(p, 1, 3)) = 3 - 1 + 1
        /\ \A i \in 1 .. 3 - 1 + 1 : SubSeq(p, 1, 3)[i] = p[1 + i - 1]
    <3>1. 1 \in Nat /\ 3 \in Nat /\ 1 <= 1 /\ 3 <= Len(p) /\ 1 <= 3 + 1
      BY <2>1
    <3> QED
      BY <2>1, <3>1, SubIs
  <2>5. 4 - 2 + 1 = 3 /\ 3 - 1 + 1 = 3 /\ \A i \in 1..3 : 2 + i - 1 = i + 1 /\ 1 + i - 1 = i
    OBVIOUS
  <2> QED
    BY <2>2, <2>3, <2>4, <2>5
<1>6. b \in [1..3 -> Byte]
  <2> HIDE DEF b
  <2>1. DOMAIN b = 1..3 /\ \A k \in 1..3 : b[k] \in Byte
    BY <1>5, LenProperties, ElementOfSeq
  <2>2. b = [k \in 1..3 |-> b[k]]
    BY <1>5, <2>1, LenProperties
  <2> QED
    BY <2>1, <2>2
<1>7. b \in Seq(Byte) /\ Len(b) = 3
  BY <1>5
<1>8. \A k \in 1..3 : b[k] = IF f.big THEN l[4 - k] ELSE l[k]
  BY <1>1, <1>2, <1>3, <1>5
<1> HIDE DEF b, p
<1> DEFINE r == IF f.big THEN Swapped(b) ELSE b
<1>9. \A k \in 1..3 : r[k] = l[k]
  <2>1. Swapped(b) = [k \in 1..3 |-> b[3 + 1 - k]]
    BY <1>7 DEF Swapped
  <2> QED
    BY <1>8, <2>1
<1>10. ReadCpixel(f, b) = [i \in 1..3 |-> r[(f.shift[i] \div 8) + 1]]
  BY DEF ReadCpixel
<1> HIDE DEF r
<1>11. ReadCpixel(f, b) = [i \in 1..3 |-> c[i]]
  BY <1>1, <1>9, <1>10
<1>12. [i \in 1..3 |-> c[i]] = c
  BY DEF Rgb
<1> QED
  BY <1>6, <1>7, <1>11, <1>12 DEF b

----------------------------------------------------------------------------
(* What is written is somewhere among the bytes that are read.             *)
Holds(b, i, s) == i + Len(s) - 1 <= Len(b) /\ \A k \in 1 .. Len(s) : b[i + k - 1] = s[k]

LEMMA HoldsItself ==
  ASSUME NEW S, NEW b \in Seq(S)
  PROVE  Holds(b, 1, b)
<1>1. Len(b) \in Nat
  BY LenProperties
<1>2. 1 + Len(b) - 1 <= Len(b) /\ \A k \in 1 .. Len(b) : 1 + k - 1 = k
  BY <1>1
<1> QED
  BY <1>2 DEF Holds

LEMMA HoldsBoth ==
  ASSUME NEW S, NEW b \in Seq(S), NEW i \in Nat \ {0}, NEW q \in Seq(S), NEW r \in Seq(S),
         Holds(b, i, q \o r)
  PROVE  /\ Holds(b, i, q) /\ Holds(b, i + Len(q), r) /\ Len(q \o r) = Len(q) + Len(r)
         /\ Len(q) \in Nat /\ Len(r) \in Nat /\ i + Len(q) \in Nat \ {0} /\ q \o r \in Seq(S)
<1>1. Len(q) \in Nat /\ Len(r) \in Nat /\ Len(b) \in Nat
  BY LenProperties
<1>2. /\ q \o r \in Seq(S) /\ Len(q \o r) = Len(q) + Len(r)
      /\ \A k \in 1 .. Len(q) + Len(r) : (q \o r)[k] = IF k <= Len(q) THEN q[k] ELSE r[k - Len(q)]
  BY ConcatProperties
<1>3. /\ i + (Len(q) + Len(r)) - 1 <= Len(b)
      /\ \A k \in 1 .. Len(q) + Len(r) : b[i + k - 1] = (q \o r)[k]
  BY <1>2 DEF Holds
<1>4. Holds(b, i, q)
  <2>1. i + Len(q) - 1 <= Len(b)
    BY <1>1, <1>3
  <2>2. \A k \in 1 .. Len(q) : k \in 1 .. Len(q) + Len(r) /\ k <= Len(q)
    BY <1>1
  <2> QED
    BY <1>2, <1>3, <2>1, <2>2 DEF Holds
<1>5. Holds(b, i + Len(q), r)
  <2>1. (i + Len(q)) + Len(r) - 1 <= Len(b)
    BY <1>1, <1>3
  <2>2. ASSUME NEW k \in 1 .. Len(r)
        PROVE  b[(i + Len(q)) + k - 1] = r[k]
    <3>1. /\ Len(q) + k \in 1 .. Len(q) + Len(r) /\ ~(Len(q) + k <= Len(q))
          /\ (Len(q) + k) - Len(q) = k /\ i + (Len(q) + k) - 1 = (i + Len(q)) + k - 1
      BY <1>1
    <3>2. b[i + (Len(q) + k) - 1] = r[(Len(q) + k) - Len(q)]
      BY <1>2, <1>3, <3>1
    <3> QED
      BY <3>1, <3>2
  <2> QED
    BY <2>1, <2>2 DEF Holds
<1> QED
  BY <1>1, <1>2, <1>4, <1>5

LEMMA HoldsThere ==
  ASSUME NEW S, NEW b \in Seq(S), NEW i \in Nat \ {0}, NEW s \in Seq(S), Holds(b, i, s)
  PROVE  SubSeq(b, i, i + Len(s) - 1) = s
<1> DEFINE n == i + Len(s) - 1
           t == SubSeq(b, i, n)
<1>1. Len(s) \in Nat /\ n \in Nat /\ n <= Len(b) /\ i \in Nat /\ 1 <= i /\ i <= n + 1 /\ n - i + 1 = Len(s)
  BY LenProperties DEF Holds
<1>2. t \in Seq(S) /\ Len(t) = n - i + 1 /\ \A k \in 1 .. n - i + 1 : t[k] = b[i + k - 1]
  <2> HIDE DEF n
  <2> QED
    BY <1>1, SubIs
<1> HIDE DEF t, n
<1>3. \A k \in 1 .. Len(s) : t[k] = s[k]
  BY <1>1, <1>2 DEF Holds
<1>4. t = s
  BY <1>1, <1>2, <1>3, SeqEqual
<1> QED
  BY <1>4 DEF t, n

(* Of sequences one after the other, each is where those before it end.    *)
LEMMA FlatHolds ==
  ASSUME NEW S, NEW seqs \in Seq(Seq(S)), NEW f \in [0 .. Len(seqs) -> Seq(S)],
         f[0] = <<>>, \A k \in 1 .. Len(seqs) : f[k] = f[k - 1] \o seqs[k],
         NEW b \in Seq(S), NEW i \in Nat \ {0}, Holds(b, i, f[Len(seqs)])
  PROVE  \A k \in 1 .. Len(seqs) :
           /\ Len(f[k - 1]) \in Nat /\ Len(f[k]) \in Nat /\ Len(seqs[k]) \in Nat
           /\ Holds(b, i + Len(f[k - 1]), seqs[k])
           /\ Len(f[k]) = Len(f[k - 1]) + Len(seqs[k])
<1> DEFINE n == Len(seqs)
           T == {j \in Nat : Holds(b, i, f[n - j])}
<1>1. n \in Nat /\ \A k \in 1 .. n : seqs[k] \in Seq(S)
  BY LenProperties, ElementOfSeq
<1> HIDE DEF n
<1>2. \A k \in 1 .. n : f[k] = f[k - 1] \o seqs[k] /\ f[k - 1] \in Seq(S) /\ f[k] \in Seq(S)
  <2>1. \A k \in 1 .. n : k \in 0 .. n /\ k - 1 \in 0 .. n
    BY <1>1
  <2> QED
    BY <2>1 DEF n
<1>3. 0 \in T
  <2>1. n - 0 = n
    BY <1>1
  <2> QED
    BY <2>1 DEF n
<1>4. ASSUME NEW j \in 1 .. n, j - 1 \in T
      PROVE  j \in T
  <2>1. n - (j - 1) \in 1 .. n /\ (n - (j - 1)) - 1 = n - j /\ j \in Nat
    BY <1>1
  <2>2. Holds(b, i, f[n - j] \o seqs[n - (j - 1)]) /\ f[n - j] \in Seq(S) /\ seqs[n - (j - 1)] \in Seq(S)
    BY <1>1, <1>2, <1>4, <2>1
  <2>3. Holds(b, i, f[n - j])
    BY <2>2, HoldsBoth
  <2> QED
    BY <2>1, <2>3
<1>5. \A j \in 0 .. n : j \in T
  <2> HIDE DEF T
  <2> QED
    BY <1>1, <1>3, <1>4, Climb
<1>6. ASSUME NEW k \in 1 .. n
      PROVE  /\ Len(f[k - 1]) \in Nat /\ Len(f[k]) \in Nat /\ Len(seqs[k]) \in Nat
             /\ Holds(b, i + Len(f[k - 1]), seqs[k])
             /\ Len(f[k]) = Len(f[k - 1]) + Len(seqs[k])
  <2>1. n - k \in 0 .. n /\ n - (n - k) = k
    BY <1>1
  <2>2. Holds(b, i, f[k])
    BY <1>5, <2>1
  <2>3. Holds(b, i, f[k - 1] \o seqs[k]) /\ f[k - 1] \in Seq(S) /\ seqs[k] \in Seq(S)
    BY <1>1, <1>2, <2>2
  <2>4. /\ Len(f[k - 1]) \in Nat /\ Len(seqs[k]) \in Nat
        /\ Holds(b, i + Len(f[k - 1]), seqs[k])
        /\ Len(f[k - 1] \o seqs[k]) = Len(f[k - 1]) + Len(seqs[k])
    <3> DEFINE q == f[k - 1]
               r == seqs[k]
    <3>1. Holds(b, i, q \o r) /\ q \in Seq(S) /\ r \in Seq(S)
      BY <2>3
    <3> HIDE DEF q, r
    <3>2. /\ Len(q) \in Nat /\ Len(r) \in Nat /\ Holds(b, i + Len(q), r)
          /\ Len(q \o r) = Len(q) + Len(r)
      BY <3>1, HoldsBoth
    <3> QED
      BY <3>2 DEF q, r
  <2>5. Len(f[k]) = Len(f[k - 1]) + Len(seqs[k])
    BY <1>2, <2>4
  <2>6. Len(f[k]) \in Nat
    <3> DEFINE q == Len(f[k - 1])
               r == Len(seqs[k])
    <3>1. q \in Nat /\ r \in Nat /\ Len(f[k]) = q + r
      BY <2>4, <2>5
    <3> HIDE DEF q, r
    <3> QED
      BY <3>1
  <2> QED
    BY <2>4, <2>5, <2>6
<1> QED
  BY <1>6 DEF n

LEMMA ColoursBack ==
  ASSUME NEW f \in PixFmts, HasCpixel(f), NEW cs \in Seq(Rgb)
  PROVE  /\ Colours(f, cs) \in Seq(Byte) /\ Len(Colours(f, cs)) = 3 * Len(cs)
         /\ \A b \in Seq(Byte), i \in Nat \ {0} :
              Holds(b, i, Colours(f, cs)) => ReadColours(f, b, i, Len(cs)) = cs
<1> DEFINE n == Len(cs)
           q == Colours(f, cs)
           at(k) == DivCeil(k, 3)
           off(k) == ((k - 1) % 3) + 1
<1>1. n \in Nat /\ 3 * n \in Nat /\ DOMAIN cs = 1 .. n /\ \A k \in 1 .. n : cs[k] \in Rgb
  BY LenProperties, ElementOfSeq
<1>2. q = [k \in 1 .. 3 * n |-> Cpixel(f, cs[at(k)])[off(k)]]
  BY DEF Colours
<1> HIDE DEF n
<1>3. \A k \in 1 .. 3 * n : at(k) \in 1 .. n /\ off(k) \in 1..3
  BY <1>1 DEF DivCeil
<1>4. \A k \in 1 .. n : /\ Cpixel(f, cs[k]) \in [1..3 -> Byte] /\ Cpixel(f, cs[k]) \in Seq(Byte)
                       /\ Len(Cpixel(f, cs[k])) = 3 /\ ReadCpixel(f, Cpixel(f, cs[k])) = cs[k]
  BY <1>1, CpixelBack
<1>5. \A k \in 1 .. 3 * n : Cpixel(f, cs[at(k)])[off(k)] \in Byte
  <2> HIDE DEF at, off
  <2> QED
    BY <1>3, <1>4
<1>6. q \in [1 .. 3 * n -> Byte]
  <2> HIDE DEF at, off, q
  <2> QED
    BY <1>2, <1>5
<1>7. q \in Seq(Byte) /\ Len(q) = 3 * n
  <2> DEFINE m == 3 * n
  <2>1. m \in Nat /\ q \in [1 .. m -> Byte]
    BY <1>1, <1>6
  <2> HIDE DEF q, m
  <2>2. q \in Seq(Byte) /\ Len(q) = m
    BY <2>1, AsSeq
  <2> QED
    BY <2>2 DEF m
<1> HIDE DEF q
<1>8. ASSUME NEW k \in 1 .. n, NEW j \in 1..3
      PROVE  3 * (k - 1) + j \in 1 .. 3 * n /\ q[3 * (k - 1) + j] = Cpixel(f, cs[k])[j]
  <2>1. /\ 3 * (k - 1) + j \in 1 .. 3 * n /\ at(3 * (k - 1) + j) = k /\ off(3 * (k - 1) + j) = j
    BY <1>1 DEF DivCeil
  <2> HIDE DEF at, off
  <2> QED
    BY <1>2, <2>1
<1>9. ASSUME NEW b \in Seq(Byte), NEW i \in Nat \ {0}, Holds(b, i, q)
      PROVE  ReadColours(f, b, i, n) = cs
  <2>1. i + 3 * n - 1 <= Len(b) /\ \A k \in 1 .. 3 * n : b[i + k - 1] = q[k]
    BY <1>7, <1>9 DEF Holds
  <2>2. ASSUME NEW k \in 1 .. n
        PROVE  ReadCpixel(f, SubSeq(b, i + 3 * (k - 1), i + 3 * k - 1)) = cs[k]
    <3> DEFINE c == Cpixel(f, cs[k])
               m == i + 3 * (k - 1)
    <3>1. c \in Seq(Byte) /\ Len(c) = 3 /\ ReadCpixel(f, c) = cs[k]
      BY <1>4
    <3>2. m \in Nat \ {0} /\ i + 3 * k - 1 = m + 3 - 1 /\ m + 3 - 1 <= Len(b)
      <4>1. Len(b) \in Nat
        BY LenProperties
      <4> QED
        BY <1>1, <2>1, <4>1
    <3>3. \A j \in 1..3 : b[m + j - 1] = c[j]
      <4> SUFFICES ASSUME NEW j \in 1..3 PROVE b[m + j - 1] = c[j]
        OBVIOUS
      <4>1. i + (3 * (k - 1) + j) - 1 = m + j - 1
        BY <1>1
      <4> QED
        BY <1>8, <2>1, <4>1
    <3> HIDE DEF m, c
    <3>4. Holds(b, m, c)
      BY <3>1, <3>2, <3>3 DEF Holds
    <3>5. SubSeq(b, m, m + Len(c) - 1) = c
      BY <3>1, <3>2, <3>4, HoldsThere
    <3> QED
      BY <3>1, <3>2, <3>5 DEF m
  <2>3. ReadColours(f, b, i, n) = [k \in 1 .. n |-> cs[k]]
    BY <2>2 DEF ReadColours
  <2>4. [k \in 1 .. n |-> cs[k]] = cs
    BY <1>1
  <2> QED
    BY <2>3, <2>4
<1> QED
  BY <1>7, <1>9 DEF n, q

----------------------------------------------------------------------------
(* Palettes.                                                               *)
Distinct(p) == \A i, j \in DOMAIN p : p[i] = p[j] => i = j
Extends(pal, p) ==
  /\ p \in Seq(Rgb) /\ Distinct(p)
  /\ Elems(pal) \subseteq Elems(p) /\ Len(pal) <= Len(p)

LEMMA NotedIs ==
  ASSUME NEW pal \in Seq(Rgb), Distinct(pal), NEW c \in Rgb
  PROVE  Extends(pal, Noted(pal, c)) /\ c \in Elems(Noted(pal, c))
<1> DEFINE n == Len(pal)
<1>1. n \in Nat /\ DOMAIN pal = 1 .. n
  BY LenProperties
<1>2. CASE \E k \in DOMAIN pal : pal[k] = c
  BY <1>1, <1>2 DEF Noted, Extends, Elems
<1>3. CASE ~\E k \in DOMAIN pal : pal[k] = c
  <2> DEFINE p == Append(pal, c)
  <2>1. Noted(pal, c) = p
    BY <1>3 DEF Noted
  <2>2. /\ p \in Seq(Rgb) /\ Len(p) = n + 1 /\ p[n + 1] = c /\ \A k \in 1 .. n : p[k] = pal[k]
    BY AppendProperties
  <2> HIDE DEF p, n
  <2>3. DOMAIN p = 1 .. n + 1
    BY <2>2, LenProperties
  <2>4. \A k \in 1 .. n + 1 : k \in 1 .. n \/ k = n + 1
    BY <1>1
  <2>5. Distinct(p)
    <3> SUFFICES ASSUME NEW a \in 1 .. n + 1, NEW b \in 1 .. n + 1, p[a] = p[b] PROVE a = b
      BY <2>3 DEF Distinct
    <3>1. CASE a \in 1 .. n /\ b \in 1 .. n
      BY <1>1, <2>2, <3>1 DEF Distinct
    <3>2. CASE a \in 1 .. n /\ b = n + 1
      BY <1>1, <1>3, <2>2, <3>2
    <3>3. CASE a = n + 1 /\ b \in 1 .. n
      BY <1>1, <1>3, <2>2, <3>3
    <3> QED
      BY <2>4, <3>1, <3>2, <3>3
  <2>6. \A k \in 1 .. n : k \in 1 .. n + 1
    BY <1>1
  <2>7. n + 1 \in 1 .. n + 1 /\ n <= n + 1
    BY <1>1
  <2>8. Elems(pal) \subseteq Elems(p)
    BY <1>1, <2>2, <2>3, <2>6 DEF Elems
  <2>9. c \in Elems(p)
    BY <2>2, <2>3, <2>7 DEF Elems
  <2> QED
    BY <2>1, <2>2, <2>5, <2>7, <2>8, <2>9 DEF Extends, n
<1> QED
  BY <1>2, <1>3

LEMMA ExtendsOn ==
  ASSUME NEW a \in Seq(Rgb), NEW b, NEW c, Extends(a, b), Extends(b, c)
  PROVE  Extends(a, c)
<1>1. Len(a) \in Nat /\ Len(b) \in Nat /\ Len(c) \in Nat
  BY LenProperties DEF Extends
<1> QED
  BY <1>1 DEF Extends

LEMMA NotedAlongIs ==
  ASSUME NEW pal \in Seq(Rgb), Distinct(pal), NEW s \in Seq(Rgb)
  PROVE  /\ Extends(pal, NotedAlong(pal, s))
         /\ Len(pal) <= 127 => Elems(s) \subseteq Elems(NotedAlong(pal, s))
<1> DEFINE n == Len(s)
           D == {p \in Seq(Rgb) : Distinct(p)}
           G == [x \in D \X (1 .. n) |-> Noted(x[1], s[x[2]])]
<1>1. n \in Nat /\ DOMAIN s = 1 .. n /\ \A k \in 1 .. n : s[k] \in Rgb
  BY LenProperties, ElementOfSeq
<1> HIDE DEF n
<1>2. \A v \in D, k \in 1 .. n : Noted(v, s[k]) \in D
  BY <1>1, NotedIs DEF Extends
<1>3. G \in [D \X (1 .. n) -> D] /\ pal \in D
  <2> HIDE DEF D
  <2>1. G \in [D \X (1 .. n) -> D]
    BY <1>2
  <2> QED
    BY <2>1 DEF D
<1>4. \A v \in D, k \in 1 .. n : G[<<v, k>>] = Noted(v, s[k])
  OBVIOUS
<1> HIDE DEF G, D
<1>5. PICK g \in [0 .. n -> D] : Chain(g, pal, G, n)
  BY <1>1, <1>3, Recursion
<1>6. g[0] = pal /\ \A k \in 1 .. n : g[k] = Noted(g[k - 1], s[k])
  <2>1. g[0] = pal /\ \A k \in 1 .. n : g[k] = G[<<g[k - 1], k>>]
    BY <1>5, Zenon DEF Chain
  <2>2. \A k \in 1 .. n : g[k - 1] \in D
    BY <1>1
  <2> QED
    BY <1>4, <2>1, <2>2
<1> DEFINE Step(f, k) == IF k = 0 THEN pal ELSE Noted(f[k - 1], s[k])
           h == [k \in 0 .. n |-> Step(g, k)]
<1>7. g = h
  <2>1. ASSUME NEW k \in 0 .. n
        PROVE  g[k] = h[k]
    <3>1. k = 0 \/ k \in 1 .. n
      BY <1>1
    <3> QED
      BY <1>6, <3>1
  <2> QED
    BY <2>1
<1> DEFINE noted == CHOOSE f : f = [k \in 0 .. n |-> Step(f, k)]
<1>8. noted = [k \in 0 .. n |-> Step(noted, k)]
  BY <1>7
<1>9. NotedAlong(pal, s) = IF Len(pal) > 127 THEN pal ELSE noted[n]
  BY DEF NotedAlong, n
<1> HIDE DEF noted
<1>10. noted[0] = pal /\ \A k \in 1 .. n : noted[k] = Noted(noted[k - 1], s[k])
  <2>1. 0 \in 0 .. n /\ \A k \in 1 .. n : k \in 0 .. n /\ k # 0
    BY <1>1
  <2> QED
    BY <1>8, <2>1
<1> DEFINE T == {k \in Nat : /\ Extends(pal, noted[k])
                            /\ \A j \in 1 .. k : s[j] \in Elems(noted[k])}
<1>11. Extends(pal, pal)
  <2>1. Len(pal) \in Nat
    BY LenProperties
  <2> QED
    BY <2>1 DEF Extends
<1>12. 0 \in T
  BY <1>10, <1>11
<1>13. ASSUME NEW k \in 1 .. n, k - 1 \in T
       PROVE  k \in T
  <2>1. Extends(pal, noted[k - 1]) /\ \A j \in 1 .. k - 1 : s[j] \in Elems(noted[k - 1])
    BY <1>13
  <2>2. noted[k] = Noted(noted[k - 1], s[k])
    BY <1>10
  <2>3. Extends(noted[k - 1], noted[k]) /\ s[k] \in Elems(noted[k])
    BY <1>1, <2>1, <2>2, NotedIs DEF Extends
  <2>4. Extends(pal, noted[k])
    BY <2>1, <2>3, ExtendsOn
  <2>5. \A j \in 1 .. k : j \in 1 .. k - 1 \/ j = k
    OBVIOUS
  <2>6. \A j \in 1 .. k : s[j] \in Elems(noted[k])
    BY <2>1, <2>3, <2>5 DEF Extends
  <2> QED
    BY <2>4, <2>6
<1>14. \A k \in 0 .. n : k \in T
  <2> HIDE DEF T
  <2> QED
    BY <1>1, <1>12, <1>13, Climb
<1>15. Extends(pal, noted[n]) /\ \A j \in 1 .. n : s[j] \in Elems(noted[n])
  <2>1. n \in 0 .. n
    BY <1>1
  <2> QED
    BY <1>14, <2>1
<1>16. Elems(s) \subseteq Elems(noted[n])
  BY <1>1, <1>15 DEF Elems
<1>17. Len(pal) \in Nat
  BY LenProperties
<1> QED
  BY <1>9, <1>11, <1>15, <1>16, <1>17

----------------------------------------------------------------------------
(* The rows of a tile.                                                     *)
LEMMA Stretch ==
  ASSUME NEW w \in Nat, NEW h \in Nat, NEW row \in 1 .. h
  PROVE  /\ (row - 1) * w \in Nat /\ row * w \in Nat /\ w * h \in Nat
         /\ row * w = (row - 1) * w + w /\ row * w <= w * h
<1>1. row \in Nat /\ row - 1 \in Nat /\ row <= h
  OBVIOUS
<1>2. row * w <= h * w
  BY <1>1, TimesUp
<1>3. (row - 1) * w \in Nat /\ row * w \in Nat /\ w * h \in Nat /\ h * w = w * h
  BY <1>1
<1>4. row * w = (row - 1) * w + w
  BY <1>1
<1> QED
  BY <1>2, <1>3, <1>4

LEMMA LineIs ==
  ASSUME NEW w \in Nat \ {0}, NEW h \in Nat, NEW px \in [1 .. w * h -> Rgb], NEW row \in 1 .. h
  PROVE  /\ Line(px, w, row) \in Seq(Rgb) /\ Len(Line(px, w, row)) = w
         /\ \A j \in 1 .. w : Line(px, w, row)[j] = px[(row - 1) * w + j]
<1> DEFINE a == (row - 1) * w
           b == row * w
           n == w * h
<1>1. a \in Nat /\ b \in Nat /\ n \in Nat /\ b = a + w /\ b <= n
  BY Stretch
<1>2. Line(px, w, row) = SubSeq(px, a + 1, b)
  BY DEF Line
<1>3. px \in Seq(Rgb) /\ Len(px) = n
  <2>1. px \in [1 .. n -> Rgb]
    OBVIOUS
  <2> HIDE DEF n
  <2> QED
    BY <1>1, <2>1, AsSeq
<1> HIDE DEF a, b, n
<1>4. a + 1 \in Nat /\ 1 <= a + 1 /\ b <= Len(px) /\ a + 1 <= b + 1
  BY <1>1, <1>3
<1>5. /\ SubSeq(px, a + 1, b) \in Seq(Rgb) /\ Len(SubSeq(px, a + 1, b)) = b - (a + 1) + 1
      /\ \A i \in 1 .. b - (a + 1) + 1 : SubSeq(px, a + 1, b)[i] = px[(a + 1) + i - 1]
  BY <1>1, <1>3, <1>4, SubIs
<1>6. b - (a + 1) + 1 = w /\ \A i \in 1 .. w : (a + 1) + i - 1 = a + i
  BY <1>1
<1> QED
  BY <1>2, <1>5, <1>6 DEF a

LEMMA PaletteIs ==
  ASSUME NEW w \in Nat \ {0}, NEW h \in Nat, NEW px \in [1 .. w * h -> Rgb]
  PROVE  /\ Palette(px, w, h) \in Seq(Rgb) /\ Distinct(Palette(px, w, h))
         /\ Len(Palette(px, w, h)) \in Nat /\ Len(Palette(px, w, h)) <= 127
         /\ \/ Palette(px, w, h) = <<>>
            \/ \A k \in 1 .. w * h : px[k] \in Elems(Palette(px, w, h))
<1> DEFINE D == {p \in Seq(Rgb) : Distinct(p)}
           line(k) == Line(px, w, k)
           G == [x \in D \X (1 .. h) |-> NotedAlong(x[1], line(x[2]))]
<1>1. \A k \in 1 .. h : /\ line(k) \in Seq(Rgb) /\ Len(line(k)) = w
                       /\ \A j \in 1 .. w : line(k)[j] = px[(k - 1) * w + j]
  BY LineIs
<1> HIDE DEF line
<1>2. \A v \in D, k \in 1 .. h : NotedAlong(v, line(k)) \in D
  BY <1>1, NotedAlongIs DEF Extends
<1>3. G \in [D \X (1 .. h) -> D] /\ <<>> \in D
  <2>1. <<>> \in D
    BY DEF Distinct
  <2> HIDE DEF D
  <2>2. G \in [D \X (1 .. h) -> D]
    BY <1>2
  <2> QED
    BY <2>1, <2>2
<1>4. \A v \in D, k \in 1 .. h : G[<<v, k>>] = NotedAlong(v, line(k))
  OBVIOUS
<1> HIDE DEF G, D
<1>5. PICK g \in [0 .. h -> D] : Chain(g, <<>>, G, h)
  BY <1>3, Recursion
<1>6. g[0] = <<>> /\ \A k \in 1 .. h : g[k] = NotedAlong(g[k - 1], line(k))
  <2>1. g[0] = <<>> /\ \A k \in 1 .. h : g[k] = G[<<g[k - 1], k>>]
    BY <1>5, Zenon DEF Chain
  <2>2. \A k \in 1 .. h : g[k - 1] \in D
    OBVIOUS
  <2> QED
    BY <1>4, <2>1, <2>2
<1> DEFINE Step(f, k) == IF k = 0 THEN <<>> ELSE NotedAlong(f[k - 1], line(k))
           h0 == [k \in 0 .. h |-> Step(g, k)]
<1>7. g = h0
  <2>1. ASSUME NEW k \in 0 .. h
        PROVE  g[k] = h0[k]
    <3>1. k = 0 \/ k \in 1 .. h
      OBVIOUS
    <3> QED
      BY <1>6, <3>1
  <2> QED
    BY <2>1
<1> DEFINE noted == CHOOSE f : f = [k \in 0 .. h |-> Step(f, k)]
<1>8. noted = [k \in 0 .. h |-> Step(noted, k)]
  BY <1>7
<1>9. Palette(px, w, h) = IF Len(noted[h]) > 127 THEN <<>> ELSE noted[h]
  BY DEF Palette, line
<1> HIDE DEF noted
<1>10. noted[0] = <<>> /\ \A k \in 1 .. h : noted[k] = NotedAlong(noted[k - 1], line(k))
  <2>1. 0 \in 0 .. h /\ \A k \in 1 .. h : k \in 0 .. h /\ k # 0
    OBVIOUS
  <2> QED
    BY <1>8, <2>1
<1> DEFINE Good(k) == /\ noted[k] \in Seq(Rgb) /\ Distinct(noted[k])
                      /\ \/ Len(noted[k]) > 127
                         \/ \A j \in 1 .. k * w : px[j] \in Elems(noted[k])
           T == {k \in Nat : Good(k)}
<1>11. 0 \in T
  <2>1. 1 .. 0 * w = {}
    OBVIOUS
  <2>2. noted[0] \in Seq(Rgb) /\ Distinct(noted[0])
    BY <1>10 DEF Distinct
  <2> QED
    BY <2>1, <2>2
<1>12. ASSUME NEW k \in 1 .. h, k - 1 \in T
       PROVE  k \in T
  <2>0. k \in Nat /\ k - 1 \in Nat
    OBVIOUS
  <2>1. Good(k - 1)
    BY <1>12
  <2> DEFINE a == noted[k - 1]
             b == noted[k]
  <2>2. b = NotedAlong(a, line(k)) /\ line(k) \in Seq(Rgb)
    BY <1>1, <1>10
  <2>3. Extends(a, b) /\ (Len(a) <= 127 => Elems(line(k)) \subseteq Elems(b))
    BY <2>1, <2>2, NotedAlongIs
  <2>4. Len(a) \in Nat /\ Len(b) \in Nat
    BY <2>1, <2>3, LenProperties DEF Extends
  <2>5. CASE Len(a) > 127
    BY <2>0, <2>3, <2>4, <2>5 DEF Extends
  <2>6. CASE ~(Len(a) > 127)
    <3>1. Elems(line(k)) \subseteq Elems(b) /\ \A j \in 1 .. (k - 1) * w : px[j] \in Elems(a)
      BY <2>1, <2>3, <2>4, <2>6
    <3>2. \A j \in 1 .. k * w : j \in 1 .. (k - 1) * w \/ j - (k - 1) * w \in 1 .. w
      <4> DEFINE x == (k - 1) * w
                 y == k * w
      <4>1. x \in Nat /\ y = x + w
        BY Stretch
      <4> HIDE DEF x, y
      <4>2. \A j \in 1 .. y : j \in 1 .. x \/ j - x \in 1 .. w
        BY <4>1
      <4> QED
        BY <4>2 DEF x, y
    <3>3. \A j \in 1 .. w : px[(k - 1) * w + j] \in Elems(line(k))
      <4>1. \A j \in 1 .. w : j \in DOMAIN line(k) /\ line(k)[j] = px[(k - 1) * w + j]
        BY <1>1, LenProperties
      <4> QED
        BY <4>1 DEF Elems
    <3>4. \A j \in 1 .. k * w : px[j] \in Elems(b)
      <4> SUFFICES ASSUME NEW j \in 1 .. k * w PROVE px[j] \in Elems(b)
        OBVIOUS
      <4>1. CASE j \in 1 .. (k - 1) * w
        BY <2>3, <3>1, <4>1 DEF Extends
      <4>2. CASE j - (k - 1) * w \in 1 .. w
        <5>1. (k - 1) * w + (j - (k - 1) * w) = j
          OBVIOUS
        <5>2. px[(k - 1) * w + (j - (k - 1) * w)] \in Elems(line(k))
          BY <3>3, <4>2
        <5> QED
          BY <3>1, <5>1, <5>2
      <4> QED
        BY <3>2, <4>1, <4>2
    <3> QED
      BY <2>0, <2>3, <3>4 DEF Extends
  <2> QED
    BY <2>5, <2>6
<1>13. \A k \in 0 .. h : k \in T
  <2> HIDE DEF T
  <2> QED
    BY <1>11, <1>12, Climb
<1>14. Good(h) /\ h * w = w * h
  BY <1>13
<1>15. Len(noted[h]) \in Nat
  BY <1>14, LenProperties
<1> HIDE DEF T
<1>16. CASE Len(noted[h]) > 127
  <2>1. Palette(px, w, h) = <<>>
    BY <1>9, <1>16
  <2> QED
    BY <2>1 DEF Distinct
<1>17. CASE ~(Len(noted[h]) > 127)
  <2>1. Palette(px, w, h) = noted[h] /\ Len(noted[h]) \in Nat /\ Len(noted[h]) <= 127
    BY <1>9, <1>15, <1>17
  <2>2. \A k \in 1 .. w * h : px[k] \in Elems(noted[h])
    BY <1>14, <1>17
  <2> QED
    BY <1>14, <2>1, <2>2
<1> QED
  BY <1>16, <1>17

----------------------------------------------------------------------------
(* Sequences one after the other, and others after those.                  *)
LEMMA FlatBoth ==
  ASSUME NEW S, NEW a \in Seq(Seq(S)), NEW b \in Seq(Seq(S))
  PROVE  /\ FlattenSeq(a \o b) = FlattenSeq(a) \o FlattenSeq(b)
         /\ FlattenSeq(a) \in Seq(S) /\ FlattenSeq(b) \in Seq(S)
<1> DEFINE n == Len(a)
           m == Len(b)
           c == a \o b
<1>1. n \in Nat /\ m \in Nat
  BY LenProperties
<1>2. c \in Seq(Seq(S)) /\ Len(c) = n + m /\ \A i \in 1 .. n + m : c[i] = IF i <= n THEN a[i] ELSE b[i - n]
  BY ConcatProperties
<1>3. PICK f \in [0 .. Len(c) -> Seq(S)] :
        f[0] = <<>> /\ (\A i \in 1 .. Len(c) : f[i] = f[i - 1] \o c[i]) /\ FlattenSeq(c) = f[Len(c)]
  BY <1>2, FlatChain
<1>4. PICK g \in [0 .. n -> Seq(S)] :
        g[0] = <<>> /\ (\A i \in 1 .. n : g[i] = g[i - 1] \o a[i]) /\ FlattenSeq(a) = g[n]
  BY FlatChain
<1>5. PICK k \in [0 .. m -> Seq(S)] :
        k[0] = <<>> /\ (\A i \in 1 .. m : k[i] = k[i - 1] \o b[i]) /\ FlattenSeq(b) = k[m]
  BY FlatChain
<1> HIDE DEF n, m, c
<1> DEFINE T == {i \in Nat : i <= n => f[i] = g[i]}
           U == {i \in Nat : i <= m => f[n + i] = g[n] \o k[i]}
<1>6. 0 \in T
  BY <1>3, <1>4
<1>7. ASSUME NEW i \in 1 .. n, i - 1 \in T
      PROVE  i \in T
  <2>1. i \in 1 .. Len(c) /\ i \in 1 .. n + m /\ i <= n /\ i - 1 <= n /\ i \in Nat
    BY <1>1, <1>2
  <2>2. f[i] = f[i - 1] \o a[i] /\ g[i] = g[i - 1] \o a[i] /\ f[i - 1] = g[i - 1]
    BY <1>2, <1>3, <1>4, <1>7, <2>1
  <2> QED
    BY <2>1, <2>2
<1>8. f[n] = g[n]
  <2>1. \A i \in 0 .. n : i \in T
    <3> HIDE DEF T
    <3> QED
      BY <1>1, <1>6, <1>7, Climb
  <2>2. n \in T
    BY <1>1, <2>1
  <2> QED
    BY <1>1, <2>2
<1>9. g[n] \in Seq(S) /\ k[m] \in Seq(S)
  <2>1. n \in 0 .. n /\ m \in 0 .. m
    BY <1>1
  <2> QED
    BY <2>1
<1>10. 0 \in U
  <2>1. n + 0 = n /\ g[n] \o <<>> = g[n]
    BY <1>1, <1>9, ConcatEmptySeq
  <2> QED
    BY <1>5, <1>8, <2>1
<1>11. ASSUME NEW i \in 1 .. m, i - 1 \in U
       PROVE  i \in U
  <2>1. /\ n + i \in 1 .. Len(c) /\ n + i \in 1 .. n + m /\ ~(n + i <= n) /\ (n + i) - n = i
        /\ (n + i) - 1 = n + (i - 1) /\ i - 1 <= m /\ i \in Nat /\ i - 1 \in 0 .. m
    BY <1>1, <1>2
  <2>2. f[n + i] = f[n + (i - 1)] \o b[i]
    BY <1>2, <1>3, <2>1
  <2>3. f[n + (i - 1)] = g[n] \o k[i - 1] /\ k[i] = k[i - 1] \o b[i]
    BY <1>5, <1>11, <2>1
  <2>4. g[n] \in Seq(S) /\ k[i - 1] \in Seq(S) /\ b[i] \in Seq(S)
    <3>1. i \in 1 .. Len(b)
      BY DEF m
    <3>2. b[i] \in Seq(S)
      BY <3>1, ElementOfSeq
    <3> QED
      BY <1>9, <2>1, <3>2
  <2>5. (g[n] \o k[i - 1]) \o b[i] = g[n] \o (k[i - 1] \o b[i])
    <3> DEFINE x == g[n]
               y == k[i - 1]
               z == b[i]
    <3>1. x \in Seq(S) /\ y \in Seq(S) /\ z \in Seq(S)
      BY <2>4
    <3> HIDE DEF x, y, z
    <3>2. (x \o y) \o z = x \o (y \o z)
      BY <3>1, ConcatAssociative, SMTT(60)
    <3> QED
      BY <3>2 DEF x, y, z
  <2> QED
    BY <2>1, <2>2, <2>3, <2>5
<1>12. f[n + m] = g[n] \o k[m]
  <2>1. \A i \in 0 .. m : i \in U
    <3> HIDE DEF U
    <3> QED
      BY <1>1, <1>10, <1>11, Climb
  <2>2. m \in U
    BY <1>1, <2>1
  <2> QED
    BY <1>1, <2>2
<1>13. FlattenSeq(c) = f[n + m]
  BY <1>2, <1>3
<1> QED
  BY <1>4, <1>5, <1>9, <1>12, <1>13 DEF c

LEMMA FlatOne ==
  ASSUME NEW S, NEW s \in Seq(S)
  PROVE  FlattenSeq(<<s>>) = s
<1>1. <<s>> \in Seq(Seq(S)) /\ Len(<<s>>) = 1 /\ <<s>>[1] = s
  OBVIOUS
<1>2. PICK f \in [0 .. Len(<<s>>) -> Seq(S)] :
        f[0] = <<>> /\ (\A i \in 1 .. Len(<<s>>) : f[i] = f[i - 1] \o <<s>>[i])
        /\ FlattenSeq(<<s>>) = f[Len(<<s>>)]
  BY <1>1, FlatChain
<1>3. f[1] = f[0] \o <<s>>[1]
  <2>1. 1 \in 1 .. Len(<<s>>) /\ 1 - 1 = 0
    BY <1>1
  <2> QED
    BY <1>2, <2>1
<1>4. <<>> \o s = s
  BY ConcatEmptySeq
<1> QED
  BY <1>1, <1>2, <1>3, <1>4

----------------------------------------------------------------------------
(* Runs, and the pixels they stand for.                                    *)
Run == [colour : Rgb, len : Nat \ {0}]
Rep(r) == [j \in 1 .. r.len |-> r.colour]
Reps(runs) == [k \in 1 .. Len(runs) |-> Rep(runs[k])]
Expand(runs) == FlattenSeq(Reps(runs))

LEMMA RepIs ==
  ASSUME NEW r \in Run
  PROVE  Rep(r) \in Seq(Rgb) /\ Len(Rep(r)) = r.len /\ \A j \in 1 .. r.len : Rep(r)[j] = r.colour
<1>1. r.len \in Nat /\ r.colour \in Rgb
  BY DEF Run
<1>2. Rep(r) \in [1 .. r.len -> Rgb] /\ \A j \in 1 .. r.len : Rep(r)[j] = r.colour
  BY <1>1 DEF Rep
<1> QED
  BY <1>1, <1>2, AsSeq

LEMMA RepsAre ==
  ASSUME NEW a \in Seq(Run)
  PROVE  Reps(a) \in Seq(Seq(Rgb)) /\ Len(Reps(a)) = Len(a) /\ \A k \in 1 .. Len(a) : Reps(a)[k] = Rep(a[k])
<1>1. Len(a) \in Nat /\ \A k \in 1 .. Len(a) : a[k] \in Run
  BY LenProperties, ElementOfSeq
<1>2. Reps(a) \in [1 .. Len(a) -> Seq(Rgb)] /\ \A k \in 1 .. Len(a) : Reps(a)[k] = Rep(a[k])
  BY <1>1, RepIs DEF Reps
<1> QED
  BY <1>1, <1>2, AsSeq

LEMMA ExpandBoth ==
  ASSUME NEW a \in Seq(Run), NEW b \in Seq(Run)
  PROVE  /\ Expand(a \o b) = Expand(a) \o Expand(b) /\ a \o b \in Seq(Run)
         /\ Expand(a) \in Seq(Rgb) /\ Expand(b) \in Seq(Rgb)
<1> DEFINE n == Len(a)
           m == Len(b)
           c == a \o b
<1>1. n \in Nat /\ m \in Nat
  BY LenProperties
<1>2. c \in Seq(Run) /\ Len(c) = n + m /\ \A i \in 1 .. n + m : c[i] = IF i <= n THEN a[i] ELSE b[i - n]
  BY ConcatProperties
<1>3. /\ Reps(a) \in Seq(Seq(Rgb)) /\ Len(Reps(a)) = n /\ \A k \in 1 .. n : Reps(a)[k] = Rep(a[k])
      /\ Reps(b) \in Seq(Seq(Rgb)) /\ Len(Reps(b)) = m /\ \A k \in 1 .. m : Reps(b)[k] = Rep(b[k])
      /\ Reps(c) \in Seq(Seq(Rgb)) /\ Len(Reps(c)) = n + m /\ \A k \in 1 .. n + m : Reps(c)[k] = Rep(c[k])
  BY <1>2, RepsAre
<1> DEFINE d == Reps(a) \o Reps(b)
<1>4. d \in Seq(Seq(Rgb)) /\ Len(d) = n + m
      /\ \A i \in 1 .. n + m : d[i] = IF i <= n THEN Reps(a)[i] ELSE Reps(b)[i - n]
  <2> DEFINE x == Reps(a)
             y == Reps(b)
  <2>1. x \in Seq(Seq(Rgb)) /\ y \in Seq(Seq(Rgb)) /\ Len(x) = n /\ Len(y) = m
    BY <1>3
  <2> HIDE DEF x, y, n, m
  <2>2. x \o y \in Seq(Seq(Rgb)) /\ Len(x \o y) = n + m
        /\ \A i \in 1 .. n + m : (x \o y)[i] = IF i <= n THEN x[i] ELSE y[i - n]
    BY <2>1, ConcatProperties
  <2> QED
    BY <2>2 DEF x, y
<1> HIDE DEF n, m, c, d
<1>5. \A i \in 1 .. n + m : Reps(c)[i] = d[i]
  <2> SUFFICES ASSUME NEW i \in 1 .. n + m PROVE Reps(c)[i] = d[i]
    OBVIOUS
  <2>1. CASE i <= n
    <3>1. i \in 1 .. n
      BY <1>1, <2>1
    <3> QED
      BY <1>2, <1>3, <1>4, <2>1, <3>1, ZenonT(60)
  <2>2. CASE ~(i <= n)
    <3>1. i - n \in 1 .. m
      BY <1>1, <2>2
    <3> QED
      BY <1>2, <1>3, <1>4, <2>2, <3>1
  <2> QED
    BY <2>1, <2>2
<1>6. Reps(c) = d
  <2>1. \A i \in 1 .. Len(Reps(c)) : Reps(c)[i] = d[i]
    BY <1>3, <1>5
  <2> QED
    BY <1>3, <1>4, <2>1, SeqEqual
<1>7. FlattenSeq(d) = FlattenSeq(Reps(a)) \o FlattenSeq(Reps(b))
      /\ FlattenSeq(Reps(a)) \in Seq(Rgb) /\ FlattenSeq(Reps(b)) \in Seq(Rgb)
  BY <1>3, FlatBoth DEF d
<1> QED
  BY <1>2, <1>6, <1>7 DEF Expand, c

LEMMA ExpandOne ==
  ASSUME NEW r \in Run
  PROVE  Expand(<<r>>) = Rep(r) /\ <<r>> \in Seq(Run)
<1>1. <<r>> \in Seq(Run) /\ Len(<<r>>) = 1
  OBVIOUS
<1>2. Reps(<<r>>) = <<Rep(r)>>
  BY <1>1 DEF Reps
<1> QED
  BY <1>1, <1>2, RepIs, FlatOne DEF Expand

LEMMA LastOff ==
  ASSUME NEW S, NEW s \in Seq(S), s # <<>>
  PROVE  \E front \in Seq(S) : s = front \o <<s[Len(s)]>> /\ Len(front) = Len(s) - 1 /\ s[Len(s)] \in S
<1> DEFINE n == Len(s)
           front == SubSeq(s, 1, n - 1)
           one == <<s[n]>>
<1>1. n \in Nat \ {0} /\ s[n] \in S
  <2>1. n \in Nat /\ n # 0
    BY LenProperties, EmptySeq
  <2>2. n \in 1 .. n
    BY <2>1
  <2> QED
    BY <2>1, <2>2, ElementOfSeq
<1>2. front \in Seq(S) /\ Len(front) = n - 1 /\ \A i \in 1 .. n - 1 : front[i] = s[i]
  <2> DEFINE m == n - 1
  <2>1. 1 \in Nat /\ m \in Nat /\ 1 <= 1 /\ m <= Len(s) /\ 1 <= m + 1
    BY <1>1
  <2> HIDE DEF m
  <2>2. /\ SubSeq(s, 1, m) \in Seq(S) /\ Len(SubSeq(s, 1, m)) = m - 1 + 1
        /\ \A i \in 1 .. m - 1 + 1 : SubSeq(s, 1, m)[i] = s[1 + i - 1]
    BY <2>1, SubIs
  <2>3. m - 1 + 1 = m /\ \A i \in 1 .. m : 1 + i - 1 = i
    BY <2>1
  <2> QED
    BY <2>2, <2>3 DEF m
<1>3. one \in Seq(S) /\ Len(one) = 1 /\ one[1] = s[n]
  <2> HIDE DEF n
  <2> QED
    BY <1>1
<1> HIDE DEF front, one, n
<1>4. front \o one \in Seq(S) /\ Len(front \o one) = (n - 1) + 1
      /\ \A i \in 1 .. (n - 1) + 1 : (front \o one)[i] = IF i <= n - 1 THEN front[i] ELSE one[i - (n - 1)]
  <2>1. front \o one \in Seq(S) /\ Len(front \o one) = Len(front) + Len(one)
        /\ \A i \in 1 .. Len(front) + Len(one) :
             (front \o one)[i] = IF i <= Len(front) THEN front[i] ELSE one[i - Len(front)]
    BY <1>2, <1>3, ConcatProperties
  <2> QED
    BY <1>2, <1>3, <2>1
<1>5. ASSUME NEW i \in 1 .. n
      PROVE  s[i] = (front \o one)[i]
  <2>1. (n - 1) + 1 = n /\ (i <= n - 1 => i \in 1 .. n - 1) /\ (~(i <= n - 1) => i = n /\ i - (n - 1) = 1)
    BY <1>1
  <2> QED
    BY <1>2, <1>3, <1>4, <2>1
<1>6. s = front \o one
  <2>1. (n - 1) + 1 = n /\ Len(s) = n
    BY <1>1 DEF n
  <2>2. Len(s) = Len(front \o one) /\ \A i \in 1 .. Len(s) : s[i] = (front \o one)[i]
    BY <1>4, <1>5, <2>1
  <2> QED
    BY <1>4, <2>2, SeqEqual
<1> QED
  BY <1>1, <1>2, <1>6 DEF one, n

LEMMA HeadOff ==
  ASSUME NEW S, NEW s \in Seq(S), s # <<>>
  PROVE  s[1] \in S /\ Tail(s) \in Seq(S) /\ s = <<s[1]>> \o Tail(s)
<1> DEFINE n == Len(s)
           t == Tail(s)
           one == <<s[1]>>
<1>1. n \in Nat \ {0} /\ s[1] \in S
  <2>1. n \in Nat /\ n # 0
    BY LenProperties, EmptySeq
  <2>2. 1 \in 1 .. n
    BY <2>1
  <2> QED
    BY <2>1, <2>2, ElementOfSeq
<1>2. t \in Seq(S) /\ Len(t) = n - 1 /\ \A i \in 1 .. n - 1 : t[i] = s[i + 1]
  <2>1. t \in Seq(S) /\ Len(t) = n - 1 /\ \A i \in 1 .. Len(t) : t[i] = s[i + 1]
    BY HeadTailProperties
  <2> QED
    BY <2>1
<1>3. one \in Seq(S) /\ Len(one) = 1 /\ one[1] = s[1]
  BY <1>1
<1> HIDE DEF t, one, n
<1>4. one \o t \in Seq(S) /\ Len(one \o t) = 1 + (n - 1)
      /\ \A i \in 1 .. 1 + (n - 1) : (one \o t)[i] = IF i <= 1 THEN one[i] ELSE t[i - 1]
  <2>1. one \o t \in Seq(S) /\ Len(one \o t) = Len(one) + Len(t)
        /\ \A i \in 1 .. Len(one) + Len(t) :
             (one \o t)[i] = IF i <= Len(one) THEN one[i] ELSE t[i - Len(one)]
    <3>1. one \in Seq(S) /\ t \in Seq(S)
      BY <1>2, <1>3
    <3> QED
      BY <3>1, ConcatProperties, Zenon
  <2> QED
    BY <1>2, <1>3, <2>1
<1>5. ASSUME NEW i \in 1 .. n
      PROVE  s[i] = (one \o t)[i]
  <2>1. 1 + (n - 1) = n /\ (i <= 1 => i = 1) /\ (~(i <= 1) => i - 1 \in 1 .. n - 1 /\ (i - 1) + 1 = i)
    BY <1>1
  <2> QED
    BY <1>2, <1>3, <1>4, <2>1
<1>6. s = one \o t
  <2>1. 1 + (n - 1) = n /\ Len(s) = n
    BY <1>1 DEF n
  <2>2. Len(s) = Len(one \o t) /\ \A i \in 1 .. Len(s) : s[i] = (one \o t)[i]
    BY <1>4, <1>5, <2>1
  <2> QED
    BY <1>4, <2>2, SeqEqual
<1> QED
  BY <1>1, <1>2, <1>6 DEF one, t

(* A run that flows into the next.                                         *)
LEMMA RepJoined ==
  ASSUME NEW x \in Run, NEW y \in Run, x.colour = y.colour, NEW z \in Run,
         z.colour = x.colour, z.len = x.len + y.len
  PROVE  Rep(z) = Rep(x) \o Rep(y)
<1> DEFINE n == x.len
           m == y.len
           a == Rep(x)
           b == Rep(y)
           c == Rep(z)
<1>1. n \in Nat /\ m \in Nat
  BY DEF Run
<1>2. /\ a \in Seq(Rgb) /\ Len(a) = n /\ \A j \in 1 .. n : a[j] = x.colour
      /\ b \in Seq(Rgb) /\ Len(b) = m /\ \A j \in 1 .. m : b[j] = x.colour
      /\ c \in Seq(Rgb) /\ Len(c) = n + m /\ \A j \in 1 .. n + m : c[j] = x.colour
  BY RepIs
<1> HIDE DEF n, m, a, b, c
<1>3. a \o b \in Seq(Rgb) /\ Len(a \o b) = n + m
      /\ \A i \in 1 .. n + m : (a \o b)[i] = IF i <= n THEN a[i] ELSE b[i - n]
  BY <1>2, ConcatProperties
<1>4. ASSUME NEW i \in 1 .. n + m
      PROVE  c[i] = (a \o b)[i]
  <2>1. (i <= n => i \in 1 .. n) /\ (~(i <= n) => i - n \in 1 .. m)
    BY <1>1
  <2> QED
    BY <1>2, <1>3, <2>1
<1>5. c = a \o b
  <2>1. Len(c) = Len(a \o b) /\ \A i \in 1 .. Len(c) : c[i] = (a \o b)[i]
    BY <1>2, <1>3, <1>4
  <2> QED
    BY <1>2, <1>3, <2>1, SeqEqual
<1> QED
  BY <1>5 DEF a, b, c

LEMMA JoinedIs ==
  ASSUME NEW runs \in Seq(Run), NEW more \in Seq(Run)
  PROVE  /\ Joined(runs, more) \in Seq(Run) /\ Expand(Joined(runs, more)) = Expand(runs) \o Expand(more)
         /\ Expand(runs) \in Seq(Rgb) /\ Expand(more) \in Seq(Rgb)
<1> DEFINE L == Len(runs)
           x == runs[L]
           y == more[1]
           new == [runs EXCEPT ![L].len = @ + y.len]
           flows == runs # <<>> /\ more # <<>> /\ x.colour = y.colour
<1>1. CASE ~flows
  <2>1. Joined(runs, more) = runs \o more
    BY <1>1 DEF Joined
  <2> QED
    BY <2>1, ExpandBoth
<1>2. CASE flows
  <2>1. Joined(runs, more) = new \o Tail(more)
    BY <1>2 DEF Joined
  <2>2. PICK front \in Seq(Run) : runs = front \o <<x>> /\ Len(front) = L - 1 /\ x \in Run
    BY <1>2, LastOff
  <2>3. y \in Run /\ Tail(more) \in Seq(Run) /\ more = <<y>> \o Tail(more)
    BY <1>2, HeadOff
  <2> DEFINE z == [x EXCEPT !.len = @ + y.len]
             t == Tail(more)
  <2>4. z \in Run /\ z.colour = x.colour /\ z.len = x.len + y.len
    <3> HIDE DEF x, y
    <3> QED
      BY <2>2, <2>3 DEF Run
  <2>5. L \in Nat \ {0} /\ DOMAIN runs = 1 .. L
    BY <1>2, LenProperties, EmptySeq
  <2>6. new = [i \in 1 .. L |-> IF i = L THEN z ELSE runs[i]]
    BY <2>5
  <2>7. new = front \o <<z>> /\ new \in Seq(Run)
    <3> HIDE DEF z, x, y, L, new
    <3>1. <<z>> \in Seq(Run) /\ Len(<<z>>) = 1 /\ <<z>>[1] = z /\ <<x>> \in Seq(Run) /\ Len(<<x>>) = 1
      BY <2>2, <2>4
    <3>2. \A i \in 1 .. L : runs[i] \in Run
      BY <2>5, ElementOfSeq DEF L
    <3>3. new \in [1 .. L -> Run]
      BY <2>4, <2>6, <3>2
    <3>4. new \in Seq(Run) /\ Len(new) = L
      BY <2>5, <3>3, AsSeq
    <3>5. front \o <<z>> \in Seq(Run) /\ Len(front \o <<z>>) = (L - 1) + 1
          /\ \A i \in 1 .. (L - 1) + 1 : (front \o <<z>>)[i] = IF i <= L - 1 THEN front[i] ELSE <<z>>[i - (L - 1)]
      BY <2>2, <3>1, ConcatProperties
    <3>6. \A i \in 1 .. (L - 1) + 1 : (front \o <<x>>)[i] = IF i <= L - 1 THEN front[i] ELSE <<x>>[i - (L - 1)]
      BY <2>2, <3>1, ConcatProperties
    <3>7. ASSUME NEW i \in 1 .. L
          PROVE  new[i] = (front \o <<z>>)[i]
      <4>1. (L - 1) + 1 = L /\ (i <= L - 1 <=> i # L) /\ (i = L => i - (L - 1) = 1)
        BY <2>5
      <4>2. CASE i = L
        BY <2>6, <3>1, <3>5, <4>1, <4>2
      <4>3. CASE i # L
        <5>1. runs[i] = front[i]
          BY <2>2, <3>6, <4>1, <4>3
        <5> QED
          BY <2>6, <3>5, <4>1, <4>3, <5>1
      <4> QED
        BY <4>2, <4>3
    <3>8. Len(new) = Len(front \o <<z>>) /\ \A i \in 1 .. Len(new) : new[i] = (front \o <<z>>)[i]
      BY <2>5, <3>4, <3>5, <3>7
    <3> QED
      BY <3>4, <3>5, <3>8, SeqEqual
  <2> HIDE DEF new, z, x, y, t, L
  <2>8. Rep(z) = Rep(x) \o Rep(y) /\ Rep(x) \in Seq(Rgb) /\ Rep(y) \in Seq(Rgb)
    BY <1>2, <2>2, <2>3, <2>4, RepJoined, RepIs DEF x, y
  <2>9. Expand(<<z>>) = Rep(z) /\ Expand(<<x>>) = Rep(x) /\ Expand(<<y>>) = Rep(y)
        /\ <<z>> \in Seq(Run) /\ <<x>> \in Seq(Run) /\ <<y>> \in Seq(Run)
    BY <2>2, <2>3, <2>4, ExpandOne
  <2>10. /\ Expand(new) = Expand(front) \o Rep(z) /\ Expand(runs) = Expand(front) \o Rep(x)
         /\ Expand(front) \in Seq(Rgb) /\ Expand(runs) \in Seq(Rgb)
    <3> DEFINE u == <<z>>
               v == <<x>>
    <3>1. u \in Seq(Run) /\ v \in Seq(Run) /\ front \in Seq(Run) /\ Expand(u) = Rep(z) /\ Expand(v) = Rep(x)
          /\ new = front \o u /\ runs = front \o v
      BY <2>2, <2>7, <2>9
    <3> HIDE DEF u, v
    <3>2. /\ Expand(front \o u) = Expand(front) \o Expand(u) /\ Expand(front) \in Seq(Rgb)
          /\ Expand(front \o v) = Expand(front) \o Expand(v)
      BY <3>1, ExpandBoth
    <3>3. Expand(runs) \in Seq(Rgb)
      BY ExpandBoth
    <3> QED
      BY <3>1, <3>2, <3>3, Zenon
  <2>11. Expand(more) = Rep(y) \o Expand(t) /\ Expand(t) \in Seq(Rgb) /\ Expand(more) \in Seq(Rgb)
    BY <2>3, <2>9, ExpandBoth, ZenonT(60) DEF t
  <2>12. Expand(new \o t) = Expand(new) \o Expand(t) /\ new \o t \in Seq(Run)
    BY <2>3, <2>7, ExpandBoth DEF t
  <2>13. (Expand(front) \o (Rep(x) \o Rep(y))) \o Expand(t) = (Expand(front) \o Rep(x)) \o (Rep(y) \o Expand(t))
    <3> DEFINE a == Expand(front)
               b == Rep(x)
               c == Rep(y)
               d == Expand(t)
    <3>1. a \in Seq(Rgb) /\ b \in Seq(Rgb) /\ c \in Seq(Rgb) /\ d \in Seq(Rgb)
      BY <2>8, <2>10, <2>11
    <3> HIDE DEF a, b, c, d
    <3> DEFINE ab == a \o b
               bc == b \o c
               cd == c \o d
    <3>2. ab = a \o b /\ bc = b \o c /\ cd = c \o d
      OBVIOUS
    <3> HIDE DEF ab, bc, cd
    <3>3. (a \o bc) \o d = ab \o cd
      <4>1. a \o bc = ab \o c
        <5>1. a \o (b \o c) = (a \o b) \o c
          BY <3>1, ConcatAssociative, SMTT(60)
        <5> QED
          BY <3>2, <5>1, Zenon
      <4>2. (ab \o c) \o d = ab \o (c \o d)
        <5>1. ab \in Seq(Rgb)
          BY <3>1, <3>2, ConcatProperties
        <5> QED
          BY <3>1, <5>1, ConcatAssociative, SMTT(60)
      <4> QED
        BY <3>2, <4>1, <4>2, Zenon
    <3> QED
      BY <3>3 DEF a, b, c, d, ab, bc, cd
  <2> QED
    BY <2>1, <2>8, <2>10, <2>11, <2>12, <2>13 DEF t
<1> QED
  BY <1>1, <1>2

----------------------------------------------------------------------------
(* Runs of one line after those of the lines before.                       *)

(* Runs that are joined one line after the other.                          *)
Joins(met, M, n) == met = [k \in 0 .. n |-> IF k = 0 THEN <<>> ELSE Joined(met[k - 1], M[k])]

LEMMA JoinsExist ==
  ASSUME NEW n \in Nat, NEW M \in [1 .. n -> Seq(Run)]
  PROVE  \E met : Joins(met, M, n)
<1> DEFINE D == Seq(Run)
           G == [x \in D \X (1 .. n) |-> Joined(x[1], M[x[2]])]
<1>1. \A v \in D, k \in 1 .. n : Joined(v, M[k]) \in D
  BY JoinedIs
<1>2. <<>> \in D
  OBVIOUS
<1> HIDE DEF D
<1>3. G \in [D \X (1 .. n) -> D]
  BY <1>1
<1>4. \A v \in D, k \in 1 .. n : G[<<v, k>>] = Joined(v, M[k])
  OBVIOUS
<1> HIDE DEF G
<1>5. PICK g \in [0 .. n -> D] : Chain(g, <<>>, G, n)
  BY <1>2, <1>3, Recursion
<1>6. g[0] = <<>> /\ \A k \in 1 .. n : g[k] = Joined(g[k - 1], M[k])
  <2>1. g[0] = <<>> /\ \A k \in 1 .. n : g[k] = G[<<g[k - 1], k>>]
    BY <1>5, Zenon DEF Chain
  <2>2. \A k \in 1 .. n : g[k - 1] \in D
    OBVIOUS
  <2> QED
    BY <1>4, <2>1, <2>2
<1> DEFINE h == [k \in 0 .. n |-> IF k = 0 THEN <<>> ELSE Joined(g[k - 1], M[k])]
<1>7. g = h
  <2>1. ASSUME NEW k \in 0 .. n
        PROVE  g[k] = h[k]
    <3>1. k = 0 \/ k \in 1 .. n
      OBVIOUS
    <3> QED
      BY <1>6, <3>1
  <2> QED
    BY <2>1
<1>8. Joins(g, M, n)
  BY <1>7, Zenon DEF Joins, h
<1> QED
  BY <1>8, Zenon

LEMMA JoinsAre ==
  ASSUME NEW n \in Nat, NEW M \in [1 .. n -> Seq(Run)], NEW met, Joins(met, M, n)
  PROVE  /\ Expand(met[0]) = <<>>
         /\ \A k \in 0 .. n : met[k] \in Seq(Run)
         /\ \A k \in 1 .. n : /\ Expand(met[k]) = Expand(met[k - 1]) \o Expand(M[k])
                              /\ Expand(met[k - 1]) \in Seq(Rgb) /\ Expand(M[k]) \in Seq(Rgb)
<1>1. met[0] = <<>> /\ \A k \in 1 .. n : met[k] = Joined(met[k - 1], M[k])
  <2>1. 0 \in 0 .. n /\ \A k \in 1 .. n : k \in 0 .. n /\ k # 0
    OBVIOUS
  <2> QED
    BY <2>1 DEF Joins
<1> DEFINE T == {k \in Nat : met[k] \in Seq(Run)}
<1>2. 0 \in T
  <2>1. met[0] = <<>> /\ <<>> \in Seq(Run)
    BY <1>1
  <2> QED
    BY <2>1
<1>3. ASSUME NEW k \in 1 .. n, k - 1 \in T PROVE k \in T
  <2>1. met[k - 1] \in Seq(Run) /\ M[k] \in Seq(Run) /\ met[k] = Joined(met[k - 1], M[k]) /\ k \in Nat
    BY <1>1, <1>3
  <2>2. met[k] \in Seq(Run)
    BY <2>1, JoinedIs
  <2> QED
    BY <2>1, <2>2
<1>4. \A k \in 0 .. n : k \in T
  <2> HIDE DEF T
  <2> QED
    BY <1>2, <1>3, Climb
<1>5. \A k \in 1 .. n : /\ Expand(met[k]) = Expand(met[k - 1]) \o Expand(M[k])
                        /\ Expand(met[k - 1]) \in Seq(Rgb) /\ Expand(M[k]) \in Seq(Rgb)
  <2> SUFFICES ASSUME NEW k \in 1 .. n
               PROVE  /\ Expand(met[k]) = Expand(met[k - 1]) \o Expand(M[k])
                      /\ Expand(met[k - 1]) \in Seq(Rgb) /\ Expand(M[k]) \in Seq(Rgb)
    OBVIOUS
  <2>1. k - 1 \in 0 .. n
    OBVIOUS
  <2>2. met[k - 1] \in Seq(Run) /\ M[k] \in Seq(Run) /\ met[k] = Joined(met[k - 1], M[k])
    BY <1>1, <1>4, <2>1
  <2> QED
    BY <2>2, JoinedIs
<1>6. Expand(<<>>) = <<>>
  <2> DEFINE e == Reps(<<>>)
  <2>0. <<>> \in Seq(Run) /\ Len(<<>>) = 0
    OBVIOUS
  <2>1. e \in Seq(Seq(Rgb)) /\ Len(e) = 0
    BY <2>0, RepsAre
  <2> HIDE DEF e
  <2>2. PICK f \in [0 .. Len(e) -> Seq(Rgb)] : f[0] = <<>> /\ FlattenSeq(e) = f[Len(e)]
    BY <2>1, FlatChain
  <2> QED
    BY <2>1, <2>2 DEF Expand, e
<1> QED
  BY <1>1, <1>4, <1>5, <1>6

LEMMA LineRunsIs ==
  ASSUME NEW s \in Seq(Rgb)
  PROVE  LineRuns(s) \in Seq(Run) /\ Expand(LineRuns(s)) = s
<1> DEFINE n == Len(s)
           one(k) == [colour |-> s[k], len |-> 1]
           M == [k \in 1 .. n |-> <<one(k)>>]
<1>1. n \in Nat /\ \A k \in 1 .. n : s[k] \in Rgb
  BY LenProperties, ElementOfSeq
<1> DEFINE met == CHOOSE f : f = [k \in 0 .. n |-> IF k = 0 THEN <<>> ELSE Joined(f[k - 1], <<one(k)>>)]
<1>2. LineRuns(s) = met[n]
  BY DEF LineRuns
<1> HIDE DEF n
<1>3. M \in [1 .. n -> Seq(Run)] /\ \A k \in 1 .. n : M[k] = <<one(k)>> /\ Expand(M[k]) = Rep(one(k)) /\ one(k) \in Run
  <2>1. \A k \in 1 .. n : one(k) \in Run
    BY <1>1 DEF Run
  <2>2. \A k \in 1 .. n : <<one(k)>> \in Seq(Run) /\ Expand(<<one(k)>>) = Rep(one(k))
    <3> HIDE DEF one
    <3> QED
      BY <2>1, ExpandOne
  <2> HIDE DEF one
  <2> QED
    BY <2>1, <2>2
<1>4. \A k \in 1 .. n : Len(Rep(one(k))) = 1 /\ Rep(one(k))[1] = s[k]
  <2> SUFFICES ASSUME NEW k \in 1 .. n PROVE Len(Rep(one(k))) = 1 /\ Rep(one(k))[1] = s[k]
    OBVIOUS
  <2>1. one(k) \in Run /\ one(k).len = 1 /\ one(k).colour = s[k]
    BY <1>3
  <2> HIDE DEF one
  <2>2. Len(Rep(one(k))) = one(k).len /\ \A j \in 1 .. one(k).len : Rep(one(k))[j] = one(k).colour
    BY <2>1, RepIs
  <2> QED
    BY <2>1, <2>2
<1>5. Joins(met, M, n)
  <2> HIDE DEF one
  <2>1. PICK f : Joins(f, M, n)
    BY <1>1, <1>3, JoinsExist
  <2>2. f = [k \in 0 .. n |-> IF k = 0 THEN <<>> ELSE Joined(f[k - 1], <<one(k)>>)]
    <3>1. f = [k \in 0 .. n |-> IF k = 0 THEN <<>> ELSE Joined(f[k - 1], M[k])]
      BY <2>1 DEF Joins
    <3>2. [k \in 0 .. n |-> IF k = 0 THEN <<>> ELSE Joined(f[k - 1], M[k])]
            = [k \in 0 .. n |-> IF k = 0 THEN <<>> ELSE Joined(f[k - 1], <<one(k)>>)]
      <4>1. \A k \in 0 .. n : k # 0 => k \in 1 .. n
        BY <1>1
      <4> QED
        BY <1>3, <4>1
    <3> QED
      BY <3>1, <3>2, Zenon
  <2>3. met = [k \in 0 .. n |-> IF k = 0 THEN <<>> ELSE Joined(met[k - 1], <<one(k)>>)]
    BY <2>2
  <2> HIDE DEF met
  <2>4. [k \in 0 .. n |-> IF k = 0 THEN <<>> ELSE Joined(met[k - 1], M[k])]
          = [k \in 0 .. n |-> IF k = 0 THEN <<>> ELSE Joined(met[k - 1], <<one(k)>>)]
    <3>1. \A k \in 0 .. n : k # 0 => k \in 1 .. n
      BY <1>1
    <3> QED
      BY <1>3, <3>1
  <2> QED
    BY <2>3, <2>4, Zenon DEF Joins
<1> HIDE DEF met, M, one
<1>6. /\ Expand(met[0]) = <<>> /\ \A k \in 0 .. n : met[k] \in Seq(Run)
      /\ \A k \in 1 .. n : /\ Expand(met[k]) = Expand(met[k - 1]) \o Expand(M[k])
                           /\ Expand(met[k - 1]) \in Seq(Rgb) /\ Expand(M[k]) \in Seq(Rgb)
  BY <1>1, <1>3, <1>5, JoinsAre
<1> DEFINE E(k) == Expand(met[k])
           T == {k \in Nat : /\ E(k) \in Seq(Rgb) /\ Len(E(k)) = k /\ \A j \in 1 .. k : E(k)[j] = s[j]}
<1>7. 0 \in T
  <2>1. E(0) = <<>>
    BY <1>6
  <2>2. <<>> \in Seq(Rgb) /\ Len(<<>>) = 0
    OBVIOUS
  <2>3. \A j \in 1 .. 0 : E(0)[j] = s[j]
    OBVIOUS
  <2> HIDE DEF E
  <2>4. E(0) \in Seq(Rgb) /\ Len(E(0)) = 0
    BY <2>1, <2>2
  <2> QED
    BY <2>3, <2>4
<1>8. ASSUME NEW k \in 1 .. n, k - 1 \in T
      PROVE  k \in T
  <2> DEFINE a == E(k - 1)
             b == Expand(M[k])
             c == E(k)
  <2>1. a \in Seq(Rgb) /\ Len(a) = k - 1 /\ \A j \in 1 .. k - 1 : a[j] = s[j]
    BY <1>8
  <2>2. b \in Seq(Rgb) /\ Len(b) = 1 /\ b[1] = s[k] /\ c = a \o b
    BY <1>3, <1>4, <1>6
  <2> HIDE DEF a, b, c
  <2>3. c \in Seq(Rgb) /\ Len(c) = Len(a) + Len(b)
        /\ \A j \in 1 .. Len(a) + Len(b) : c[j] = IF j <= Len(a) THEN a[j] ELSE b[j - Len(a)]
    BY <2>1, <2>2, ConcatProperties
  <2>4. \A j \in 1 .. k : c[j] = IF j <= k - 1 THEN a[j] ELSE b[j - (k - 1)]
    BY <2>1, <2>2, <2>3
  <2>5. \A j \in 1 .. k : c[j] = s[j]
    <3> SUFFICES ASSUME NEW j \in 1 .. k PROVE c[j] = s[j]
      OBVIOUS
    <3>1. CASE j <= k - 1
      <4>1. j \in 1 .. k - 1
        BY <3>1
      <4> QED
        BY <2>1, <2>4, <3>1, <4>1
    <3>2. CASE ~(j <= k - 1)
      <4>1. j - (k - 1) = 1 /\ j = k
        BY <3>2
      <4> QED
        BY <2>2, <2>4, <3>2, <4>1
    <3> QED
      BY <3>1, <3>2
  <2>6. Len(c) = k /\ k \in Nat
    BY <2>1, <2>2, <2>3
  <2> QED
    BY <2>3, <2>5, <2>6 DEF c
<1>9. \A k \in 0 .. n : k \in T
  <2> HIDE DEF T
  <2> QED
    BY <1>1, <1>7, <1>8, Climb
<1>10. n \in T
  BY <1>1, <1>9
<1>11. E(n) = s
  <2>1. E(n) \in Seq(Rgb) /\ Len(E(n)) = Len(s) /\ \A j \in 1 .. Len(E(n)) : E(n)[j] = s[j]
    BY <1>10 DEF n
  <2> HIDE DEF E
  <2> QED
    BY <2>1, SeqEqual
<1>12. met[n] \in Seq(Run)
  BY <1>1, <1>6
<1> QED
  BY <1>2, <1>11, <1>12

LEMMA RunsIs ==
  ASSUME NEW w \in Nat \ {0}, NEW h \in Nat, NEW px \in [1 .. w * h -> Rgb]
  PROVE  Runs(px, w, h) \in Seq(Run) /\ Expand(Runs(px, w, h)) = px
<1> DEFINE line(k) == Line(px, w, k)
           M == [k \in 1 .. h |-> LineRuns(line(k))]
           met == CHOOSE f : f = [k \in 0 .. h |-> IF k = 0 THEN <<>> ELSE Joined(f[k - 1], LineRuns(line(k)))]
<1>1. \A k \in 1 .. h : /\ line(k) \in Seq(Rgb) /\ Len(line(k)) = w
                       /\ \A j \in 1 .. w : line(k)[j] = px[(k - 1) * w + j]
  BY LineIs
<1>2. Runs(px, w, h) = met[h]
  BY DEF Runs
<1> HIDE DEF line
<1>3. M \in [1 .. h -> Seq(Run)] /\ \A k \in 1 .. h : M[k] = LineRuns(line(k)) /\ Expand(M[k]) = line(k)
  <2>1. \A k \in 1 .. h : LineRuns(line(k)) \in Seq(Run) /\ Expand(LineRuns(line(k))) = line(k)
    BY <1>1, LineRunsIs
  <2> QED
    BY <2>1
<1>4. Joins(met, M, h)
  <2>1. PICK f : Joins(f, M, h)
    BY <1>3, JoinsExist
  <2>2. f = [k \in 0 .. h |-> IF k = 0 THEN <<>> ELSE Joined(f[k - 1], LineRuns(line(k)))]
    <3>1. f = [k \in 0 .. h |-> IF k = 0 THEN <<>> ELSE Joined(f[k - 1], M[k])]
      BY <2>1 DEF Joins
    <3>2. [k \in 0 .. h |-> IF k = 0 THEN <<>> ELSE Joined(f[k - 1], M[k])]
            = [k \in 0 .. h |-> IF k = 0 THEN <<>> ELSE Joined(f[k - 1], LineRuns(line(k)))]
      <4>1. \A k \in 0 .. h : k # 0 => k \in 1 .. h
        OBVIOUS
      <4> QED
        BY <1>3, <4>1
    <3> QED
      BY <3>1, <3>2, Zenon
  <2>3. met = [k \in 0 .. h |-> IF k = 0 THEN <<>> ELSE Joined(met[k - 1], LineRuns(line(k)))]
    BY <2>2
  <2> HIDE DEF met
  <2>4. [k \in 0 .. h |-> IF k = 0 THEN <<>> ELSE Joined(met[k - 1], M[k])]
          = [k \in 0 .. h |-> IF k = 0 THEN <<>> ELSE Joined(met[k - 1], LineRuns(line(k)))]
    <3>1. \A k \in 0 .. h : k # 0 => k \in 1 .. h
      OBVIOUS
    <3> QED
      BY <1>3, <3>1
  <2> QED
    BY <2>3, <2>4, Zenon DEF Joins
<1> HIDE DEF met, M
<1>5. /\ Expand(met[0]) = <<>> /\ \A k \in 0 .. h : met[k] \in Seq(Run)
      /\ \A k \in 1 .. h : /\ Expand(met[k]) = Expand(met[k - 1]) \o Expand(M[k])
                           /\ Expand(met[k - 1]) \in Seq(Rgb) /\ Expand(M[k]) \in Seq(Rgb)
  BY <1>3, <1>4, JoinsAre
<1> DEFINE E(k) == Expand(met[k])
           T == {k \in Nat : /\ E(k) \in Seq(Rgb) /\ Len(E(k)) = k * w /\ \A j \in 1 .. k * w : E(k)[j] = px[j]}
<1>6. 0 \in T
  BY <1>5
<1>7. ASSUME NEW k \in 1 .. h, k - 1 \in T
      PROVE  k \in T
  <2> DEFINE a == E(k - 1)
             b == line(k)
             c == E(k)
             x == (k - 1) * w
             y == k * w
  <2>1. a \in Seq(Rgb) /\ Len(a) = x /\ \A j \in 1 .. x : a[j] = px[j]
    BY <1>7
  <2>2. b \in Seq(Rgb) /\ Len(b) = w /\ (\A j \in 1 .. w : b[j] = px[x + j]) /\ c = a \o b
    BY <1>1, <1>3, <1>5
  <2>3. x \in Nat /\ y = x + w
    BY Stretch
  <2> HIDE DEF a, b, c, x, y
  <2>4. c \in Seq(Rgb) /\ Len(c) = Len(a) + Len(b)
        /\ \A j \in 1 .. Len(a) + Len(b) : c[j] = IF j <= Len(a) THEN a[j] ELSE b[j - Len(a)]
    BY <2>1, <2>2, ConcatProperties
  <2>5. \A j \in 1 .. y : c[j] = IF j <= x THEN a[j] ELSE b[j - x]
    BY <2>1, <2>2, <2>3, <2>4
  <2>6. \A j \in 1 .. y : c[j] = px[j]
    <3> SUFFICES ASSUME NEW j \in 1 .. y PROVE c[j] = px[j]
      OBVIOUS
    <3>1. CASE j <= x
      <4>1. j \in 1 .. x
        BY <2>3, <3>1
      <4> QED
        BY <2>1, <2>5, <3>1, <4>1
    <3>2. CASE ~(j <= x)
      <4>1. j - x \in 1 .. w /\ x + (j - x) = j
        BY <2>3, <3>2
      <4> QED
        BY <2>2, <2>5, <3>2, <4>1
    <3> QED
      BY <3>1, <3>2
  <2>7. Len(c) = y /\ k \in Nat
    BY <2>1, <2>2, <2>3, <2>4
  <2> QED
    BY <2>4, <2>6, <2>7 DEF c, y
<1>8. \A k \in 0 .. h : k \in T
  <2> HIDE DEF T
  <2> QED
    BY <1>6, <1>7, Climb
<1>9. h \in T
  BY <1>8
<1>10. E(h) = px
  <2> DEFINE n == w * h
             e == E(h)
  <2>1. n \in Nat /\ h * w = n
    OBVIOUS
  <2>2. px \in [1 .. n -> Rgb]
    OBVIOUS
  <2>3. e \in Seq(Rgb) /\ Len(e) = n /\ \A j \in 1 .. n : e[j] = px[j]
    BY <1>9, <2>1
  <2> HIDE DEF n, e
  <2>4. px \in Seq(Rgb) /\ Len(px) = n
    BY <2>1, <2>2, AsSeq
  <2>5. e = px
    BY <2>3, <2>4, SeqEqual
  <2> QED
    BY <2>5 DEF e
<1>11. met[h] \in Seq(Run)
  BY <1>5
<1> QED
  BY <1>2, <1>10, <1>11

----------------------------------------------------------------------------
(* Run lengths.                                                            *)

LEMMA MinIs ==
  ASSUME NEW T \in SUBSET Nat, NEW x \in T, \A y \in T : x <= y
  PROVE  Min(T) = x
<1> DEFINE m == CHOOSE z \in T : \A y \in T : z <= y
<1>1. m \in T /\ \A y \in T : m <= y
  <2>1. \E z \in T : \A y \in T : z <= y
    OBVIOUS
  <2> QED
    BY <2>1, Zenon
<1>2. Min(T) = m
  BY DEF Min
<1> HIDE DEF m
<1>3. m <= x /\ x <= m /\ m \in Nat /\ x \in Nat
  BY <1>1
<1>4. m = x
  BY <1>3
<1> QED
  BY <1>2, <1>4

(* The length of a run: as many bytes as were counted, and it is read back.*)
LEMMA WriteRunIs ==
  ASSUME NEW len \in Nat \ {0}
  PROVE  /\ WriteRun(len) \in Seq(Byte) /\ Len(WriteRun(len)) = RunBytes(len)
         /\ RunBytes(len) \in Nat \ {0}
         /\ \A k \in 1 .. RunBytes(len) - 1 : WriteRun(len)[k] = 255
         /\ WriteRun(len)[RunBytes(len)] # 255
         /\ 1 + 255 * (RunBytes(len) - 1) + WriteRun(len)[RunBytes(len)] = len
<1> DEFINE q == (len - 1) \div 255
           m == (len - 1) % 255
           a == [k \in 1 .. q |-> 255]
           z == <<m>>
<1>1. q \in Nat /\ m \in 0 .. 254 /\ len - 1 = 255 * q + m
  <2>1. len - 1 \in Nat
    OBVIOUS
  <2> QED
    BY <2>1
<1> HIDE DEF q, m
<1>2. 255 \in Byte /\ m \in Byte
  BY <1>1 DEF Byte
<1>3. a \in [1 .. q -> Byte]
  BY <1>2
<1>4. a \in Seq(Byte) /\ Len(a) = q
  <2> HIDE DEF a
  <2> QED
    BY <1>1, <1>3, AsSeq
<1>5. z \in Seq(Byte) /\ Len(z) = 1 /\ z[1] = m
  BY <1>2
<1>6. \A k \in 1 .. q : a[k] = 255
  OBVIOUS
<1> HIDE DEF a, z
<1>7. /\ a \o z \in Seq(Byte) /\ Len(a \o z) = q + 1
      /\ \A k \in 1 .. q + 1 : (a \o z)[k] = IF k <= q THEN a[k] ELSE z[k - q]
  <2>1. /\ a \o z \in Seq(Byte) /\ Len(a \o z) = Len(a) + Len(z)
        /\ \A k \in 1 .. Len(a) + Len(z) : (a \o z)[k] = IF k <= Len(a) THEN a[k] ELSE z[k - Len(a)]
    BY <1>4, <1>5, ConcatProperties
  <2> QED
    BY <1>4, <1>5, <2>1
<1>8. WriteRun(len) = a \o z /\ RunBytes(len) = q + 1
  <2>1. RunBytes(len) = q + 1
    BY <1>1 DEF RunBytes, q
  <2> QED
    BY <2>1 DEF WriteRun, a, z, q, m
<1>9. /\ \A k \in 1 .. q : (a \o z)[k] = 255
      /\ (a \o z)[q + 1] = m
  <2>1. \A k \in 1 .. q : k \in 1 .. q + 1 /\ k <= q
    BY <1>1
  <2>2. q + 1 \in 1 .. q + 1 /\ ~(q + 1 <= q) /\ (q + 1) - q = 1
    BY <1>1
  <2> QED
    BY <1>5, <1>6, <1>7, <2>1, <2>2
<1>10. (q + 1) - 1 = q /\ q + 1 \in Nat \ {0} /\ m # 255 /\ 1 + 255 * q + m = len
  BY <1>1
<1> DEFINE s == a \o z
           n == q + 1
<1>11. /\ s \in Seq(Byte) /\ Len(s) = n /\ n \in Nat \ {0} /\ n - 1 = q
       /\ (\A k \in 1 .. q : s[k] = 255) /\ s[n] # 255 /\ 1 + 255 * q + s[n] = len
  BY <1>7, <1>9, <1>10
<1>12. WriteRun(len) = s /\ RunBytes(len) = n
  BY <1>8
<1> HIDE DEF s, n
<1> QED
  BY <1>11, <1>12

LEMMA RunBack ==
  ASSUME NEW len \in Nat \ {0}, NEW b \in Seq(Byte), NEW i \in Nat \ {0}, Holds(b, i, WriteRun(len))
  PROVE  RunLen(b, i) = [ok |-> TRUE, len |-> len, next |-> i + RunBytes(len)]
<1> DEFINE s == WriteRun(len)
           n == RunBytes(len)
           ends == {j \in i .. Len(b) : b[j] # 255}
           last == i + n - 1
<1>1. /\ s \in Seq(Byte) /\ Len(s) = n /\ n \in Nat \ {0} /\ (\A k \in 1 .. n - 1 : s[k] = 255)
      /\ s[n] # 255 /\ 1 + 255 * (n - 1) + s[n] = len
  BY WriteRunIs
<1>2. Len(b) \in Nat
  BY LenProperties
<1> HIDE DEF s, n
<1>3. i + n - 1 <= Len(b) /\ \A k \in 1 .. n : b[i + k - 1] = s[k]
  BY <1>1 DEF Holds, s
<1>4. last \in i .. Len(b) /\ b[last] = s[n] /\ last \in Nat
  BY <1>1, <1>2, <1>3
<1>5. \A j \in i .. last - 1 : b[j] = 255
  <2> SUFFICES ASSUME NEW j \in i .. last - 1 PROVE b[j] = 255
    OBVIOUS
  <2>1. j - i + 1 \in 1 .. n - 1 /\ j - i + 1 \in 1 .. n /\ i + (j - i + 1) - 1 = j
    BY <1>1
  <2>2. b[i + (j - i + 1) - 1] = s[j - i + 1] /\ s[j - i + 1] = 255
    BY <1>1, <1>3, <2>1
  <2> QED
    BY <2>1, <2>2
<1>6. ends \in SUBSET Nat /\ last \in ends /\ \A y \in ends : last <= y
  <2>1. ends \in SUBSET Nat
    BY <1>2
  <2>2. last \in ends
    BY <1>1, <1>4
  <2>3. ASSUME NEW y \in ends PROVE last <= y
    <3>1. y \in i .. Len(b) /\ b[y] # 255
      OBVIOUS
    <3>2. ~(y \in i .. last - 1)
      BY <1>5, <3>1
    <3> QED
      BY <1>1, <1>2, <3>1, <3>2
  <2> QED
    BY <2>1, <2>2, <2>3
<1>7. Min(ends) = last /\ ends # {}
  <2> HIDE DEF ends, last
  <2> QED
    BY <1>6, MinIs
<1>8. RunLen(b, i) = [ok |-> TRUE, len |-> 1 + 255 * (last - i) + b[last], next |-> last + 1]
  <2> HIDE DEF last
  <2> QED
    BY <1>7 DEF RunLen
<1>9. last - i = n - 1 /\ last + 1 = i + n
  BY <1>1
<1>10. 1 + 255 * (last - i) + b[last] = len
  BY <1>1, <1>4, <1>9
<1> HIDE DEF last
<1> QED
  BY <1>8, <1>9, <1>10 DEF n

----------------------------------------------------------------------------
(* Spans read one after the other.                                         *)

(* Sequences joined one by one only grow.                                  *)
LEMMA ChainGrows ==
  ASSUME NEW S, NEW n \in Nat, NEW q \in [1 .. n -> Seq(S)], NEW e \in [0 .. n -> Seq(S)],
         e[0] = <<>>, \A k \in 1 .. n : e[k] = e[k - 1] \o q[k], \A k \in 1 .. n : q[k] # <<>>
  PROVE  \A k \in 0 .. n : /\ Len(e[k]) \in Nat /\ k <= Len(e[k])
                           /\ (k < n => Len(e[k]) < Len(e[n]))
<1>1. \A k \in 0 .. n : Len(e[k]) \in Nat
  BY LenProperties
<1>2. \A k \in 1 .. n : Len(e[k - 1]) + 1 <= Len(e[k])
  <2> SUFFICES ASSUME NEW k \in 1 .. n PROVE Len(e[k - 1]) + 1 <= Len(e[k])
    OBVIOUS
  <2> DEFINE a == e[k - 1]
             b == q[k]
  <2>1. a \in Seq(S) /\ b \in Seq(S) /\ b # <<>> /\ e[k] = a \o b
    <3>1. k - 1 \in 0 .. n
      OBVIOUS
    <3> QED
      BY <3>1
  <2> HIDE DEF a, b
  <2>2. Len(a \o b) = Len(a) + Len(b) /\ Len(a) \in Nat /\ Len(b) \in Nat /\ Len(b) # 0
    BY <2>1, ConcatProperties, LenProperties, EmptySeq
  <2> QED
    BY <2>1, <2>2 DEF a
<1> DEFINE T == {k \in Nat : k <= n => k <= Len(e[k])}
<1>3. 0 \in T
  BY <1>1
<1>4. ASSUME NEW k \in 1 .. n, k - 1 \in T PROVE k \in T
  BY <1>1, <1>2, <1>4
<1>5. \A k \in 0 .. n : k \in T
  <2> HIDE DEF T
  <2> QED
    BY <1>3, <1>4, Climb
<1> DEFINE U == {m \in Nat : m <= n => \A k \in 0 .. n : k < m => Len(e[k]) < Len(e[m])}
<1>6. 0 \in U
  OBVIOUS
<1>7. ASSUME NEW m \in 1 .. n, m - 1 \in U PROVE m \in U
  <2>1. \A k \in 0 .. n : k < m - 1 => Len(e[k]) < Len(e[m - 1])
    BY <1>7
  <2>2. ASSUME NEW k \in 0 .. n, k < m PROVE Len(e[k]) < Len(e[m])
    <3>1. Len(e[m - 1]) < Len(e[m]) /\ Len(e[m - 1]) \in Nat /\ Len(e[m]) \in Nat
      <4>1. m - 1 \in 0 .. n /\ m \in 0 .. n
        OBVIOUS
      <4>2. Len(e[m - 1]) \in Nat /\ Len(e[m]) \in Nat /\ Len(e[m - 1]) + 1 <= Len(e[m])
        BY <1>1, <1>2, <4>1
      <4> QED
        BY <4>2
    <3>2. k = m - 1 \/ k < m - 1
      BY <2>2
    <3>3. Len(e[k]) \in Nat
      BY <1>1
    <3> QED
      <4>1. Len(e[k]) < Len(e[m - 1]) \/ Len(e[k]) = Len(e[m - 1])
        BY <2>1, <3>2
      <4> QED
        BY <3>1, <3>3, <4>1
  <2> QED
    BY <2>2
<1>8. \A m \in 0 .. n : m \in U
  <2> HIDE DEF U
  <2> QED
    BY <1>6, <1>7, Climb
<1>9. n \in U
  BY <1>8
<1> QED
  BY <1>1, <1>5, <1>9

Told(r, next) == [ok |-> TRUE, colour |-> r.colour, len |-> r.len, next |-> next]

(* Each of the q is what one of the runs is read from.                     *)
Spelt(f, pal, runs, q) ==
  /\ q \in Seq(Seq(Byte)) /\ Len(q) = Len(runs)
  /\ \A k \in 1 .. Len(q) : q[k] # <<>>
  /\ \A k \in 1 .. Len(q), b \in Seq(Byte), j \in Nat \ {0} :
       Holds(b, j, q[k]) => Span(f, b, j, pal) = Told(runs[k], j + Len(q[k]))

(* What is written of the runs is read span by span.                       *)
LEMMA SpansBack ==
  ASSUME NEW f, NEW pal, NEW runs \in Seq(Run), NEW q, Spelt(f, pal, runs, q),
         NEW b \in Seq(Byte), NEW i \in Nat \ {0}, Holds(b, i, FlattenSeq(q))
  PROVE  Spans(f, b, i, pal, Len(Expand(runs))) =
           [ok |-> TRUE, px |-> Expand(runs), next |-> i + Len(FlattenSeq(q))]
<1> DEFINE n == Len(runs)
<1>0. /\ q \in Seq(Seq(Byte)) /\ Len(q) = Len(runs) /\ \A k \in 1 .. Len(q) : q[k] # <<>>
      /\ \A k \in 1 .. Len(q), j \in Nat \ {0} :
           Holds(b, j, q[k]) => Span(f, b, j, pal) = Told(runs[k], j + Len(q[k]))
  BY DEF Spelt
<1>1. /\ Reps(runs) \in Seq(Seq(Rgb)) /\ Len(Reps(runs)) = n
      /\ \A k \in 1 .. n : Reps(runs)[k] = Rep(runs[k]) /\ runs[k] \in Run
  BY RepsAre, LenProperties, ElementOfSeq
<1>2. PICK g \in [0 .. n -> Seq(Byte)] :
        g[0] = <<>> /\ (\A k \in 1 .. n : g[k] = g[k - 1] \o q[k]) /\ FlattenSeq(q) = g[n]
  <2>1. PICK g \in [0 .. Len(q) -> Seq(Byte)] :
          g[0] = <<>> /\ (\A k \in 1 .. Len(q) : g[k] = g[k - 1] \o q[k]) /\ FlattenSeq(q) = g[Len(q)]
    BY <1>0, FlatChain
  <2>2. Len(q) = n
    BY <1>0
  <2> QED
    BY <2>1, <2>2
<1>3. PICK e \in [0 .. n -> Seq(Rgb)] :
        e[0] = <<>> /\ (\A k \in 1 .. n : e[k] = e[k - 1] \o Rep(runs[k])) /\ Expand(runs) = e[n]
  <2>1. PICK e \in [0 .. n -> Seq(Rgb)] :
          e[0] = <<>> /\ (\A k \in 1 .. n : e[k] = e[k - 1] \o Reps(runs)[k]) /\ FlattenSeq(Reps(runs)) = e[n]
    <3> DEFINE s == Reps(runs)
    <3>1. s \in Seq(Seq(Rgb)) /\ Len(s) = n
      BY <1>1
    <3> HIDE DEF s
    <3>2. PICK e \in [0 .. Len(s) -> Seq(Rgb)] :
            e[0] = <<>> /\ (\A k \in 1 .. Len(s) : e[k] = e[k - 1] \o s[k]) /\ FlattenSeq(s) = e[Len(s)]
      BY <3>1, FlatChain
    <3> QED
      BY <3>1, <3>2 DEF s
  <2> QED
    BY <1>1, <2>1 DEF Expand
<1>4. n \in Nat
  BY LenProperties
<1> HIDE DEF n
<1>5. \A k \in 1 .. n :
        /\ Len(g[k - 1]) \in Nat /\ Len(g[k]) \in Nat /\ Len(q[k]) \in Nat
        /\ Holds(b, i + Len(g[k - 1]), q[k]) /\ Len(g[k]) = Len(g[k - 1]) + Len(q[k])
  <2>1. Len(q) = n
    BY <1>0 DEF n
  <2>2. g \in [0 .. Len(q) -> Seq(Byte)] /\ (\A k \in 1 .. Len(q) : g[k] = g[k - 1] \o q[k]) /\ Holds(b, i, g[Len(q)])
    BY <1>2, <2>1
  <2>3. \A k \in 1 .. Len(q) :
           /\ Len(g[k - 1]) \in Nat /\ Len(g[k]) \in Nat /\ Len(q[k]) \in Nat
           /\ Holds(b, i + Len(g[k - 1]), q[k])
    BY <1>0, <1>2, <2>2, FlatHolds
  <2>4. ASSUME NEW k \in 1 .. n PROVE Len(g[k]) = Len(g[k - 1]) + Len(q[k])
    <3> DEFINE x == g[k - 1]
               y == q[k]
    <3>1. x \in Seq(Byte) /\ y \in Seq(Byte) /\ g[k] = x \o y
      <4>1. k - 1 \in 0 .. n /\ k \in 1 .. Len(q)
        BY <1>4, <2>1
      <4> QED
        BY <1>0, <1>2, <4>1, ElementOfSeq
    <3> HIDE DEF x, y
    <3>2. Len(x \o y) = Len(x) + Len(y)
      BY <3>1, ConcatProperties
    <3> QED
      BY <3>1, <3>2 DEF x, y
  <2> QED
    BY <2>1, <2>3, <2>4
<1> DEFINE need == Len(Expand(runs))
           At(k) == [ok |-> TRUE, px |-> e[k], next |-> i + Len(g[k])]
           Upto(k) == IF k <= n THEN k ELSE n
           full(r) == ~r.ok \/ Len(r.px) = need
           more(r) ==
             LET span == Span(f, b, r.next, pal)
             IN  IF ~Has(b, r.next, 1) \/ ~span.ok \/ span.len > need - Len(r.px) THEN Refused
                 ELSE [ok |-> TRUE, px |-> r.px \o [k \in 1..span.len |-> span.colour],
                       next |-> span.next]
           Step(h, k) ==
             IF k = 0 THEN [ok |-> TRUE, px |-> <<>>, next |-> i]
             ELSE LET r == h[k - 1] IN IF full(r) THEN r ELSE more(r)
           R == [k \in 0 .. need |-> At(Upto(k))]
<1>6. \A k \in 0 .. n : /\ Len(e[k]) \in Nat /\ k <= Len(e[k]) /\ (k < n => Len(e[k]) < Len(e[n]))
  <2> DEFINE rq == [k \in 1 .. n |-> Rep(runs[k])]
  <2>1. \A k \in 1 .. n : Rep(runs[k]) \in Seq(Rgb) /\ Rep(runs[k]) # <<>>
    <3> SUFFICES ASSUME NEW k \in 1 .. n PROVE Rep(runs[k]) \in Seq(Rgb) /\ Rep(runs[k]) # <<>>
      OBVIOUS
    <3>1. Rep(runs[k]) \in Seq(Rgb) /\ Len(Rep(runs[k])) = runs[k].len /\ runs[k].len \in Nat \ {0}
      BY <1>1, RepIs DEF Run
    <3> QED
      BY <3>1, EmptySeq
  <2>2. rq \in [1 .. n -> Seq(Rgb)] /\ \A k \in 1 .. n : e[k] = e[k - 1] \o rq[k] /\ rq[k] # <<>>
    BY <1>3, <2>1
  <2> HIDE DEF rq
  <2> QED
    BY <1>3, <1>4, <2>2, ChainGrows
<1>7. need = Len(e[n]) /\ need \in Nat /\ n <= need
  BY <1>3, <1>4, <1>6
<1> HIDE DEF need
<1>8. \A k \in 0 .. n : full(At(k)) <=> k = n
  BY <1>4, <1>6, <1>7
<1>9. \A k \in 1 .. n : more(At(k - 1)) = At(k)
  <2> SUFFICES ASSUME NEW k \in 1 .. n PROVE more(At(k - 1)) = At(k)
    OBVIOUS
  <2> DEFINE j == i + Len(g[k - 1])
             t == Told(runs[k], j + Len(q[k]))
  <2>1. j \in Nat \ {0} /\ Holds(b, j, q[k]) /\ Len(q[k]) \in Nat /\ j + Len(q[k]) = i + Len(g[k])
    <3> DEFINE x == Len(g[k - 1])
               y == Len(q[k])
    <3>1. x \in Nat /\ y \in Nat /\ Len(g[k]) = x + y /\ Holds(b, i + x, q[k])
      BY <1>5
    <3> HIDE DEF x, y
    <3>2. i + x \in Nat \ {0} /\ (i + x) + y = i + (x + y)
      BY <3>1
    <3> QED
      BY <3>1, <3>2 DEF x, y
  <2>2. k \in 1 .. Len(q)
    BY <1>0 DEF n
  <2> HIDE DEF j
  <2>3. Span(f, b, j, pal) = t
    BY <1>0, <2>1, <2>2
  <2>4. Has(b, j, 1)
    <3>1. Len(q[k]) # 0
      <4>1. q[k] \in Seq(Byte) /\ q[k] # <<>>
        BY <1>0, <2>2, ElementOfSeq
      <4> QED
        BY <4>1, EmptySeq
    <3>2. Len(b) \in Nat
      BY LenProperties
    <3> QED
      BY <2>1, <3>1, <3>2 DEF Holds, Has
  <2>5. t.ok /\ t.len = runs[k].len /\ t.colour = runs[k].colour /\ t.next = i + Len(g[k])
    BY <2>1 DEF Told
  <2>6. e[k] = e[k - 1] \o [m \in 1 .. t.len |-> t.colour]
    BY <1>3, <2>5 DEF Rep
  <2>7. t.len \in Nat /\ t.len <= need - Len(e[k - 1])
    <3> DEFINE x == e[k - 1]
               y == Rep(runs[k])
    <3>1. k - 1 \in 0 .. n /\ k \in 0 .. n
      BY <1>4
    <3>2. x \in Seq(Rgb) /\ y \in Seq(Rgb) /\ e[k] = x \o y /\ Len(y) = t.len /\ t.len \in Nat
      BY <1>1, <1>3, <2>5, <3>1, RepIs DEF Run
    <3> HIDE DEF x, y, t
    <3>3. Len(e[k]) = Len(x) + Len(y) /\ Len(x) \in Nat
      BY <3>2, ConcatProperties, LenProperties
    <3>4. Len(e[k]) <= need /\ Len(e[k]) \in Nat
      <4>1. Len(e[k]) \in Nat /\ (k < n => Len(e[k]) < Len(e[n])) /\ need = Len(e[n]) /\ need \in Nat
        BY <1>6, <1>7, <3>1
      <4>2. k < n \/ k = n
        BY <1>4
      <4> QED
        BY <4>1, <4>2
    <3>5. t.len <= need - Len(x)
      BY <1>7, <3>2, <3>3, <3>4
    <3> QED
      BY <3>2, <3>5 DEF x
  <2> DEFINE r == At(k - 1)
  <2>8. r.ok /\ r.px = e[k - 1] /\ r.next = j
    BY DEF j
  <2> HIDE DEF r, t
  <2>9. more(r) = [ok |-> TRUE, px |-> r.px \o [m \in 1 .. t.len |-> t.colour], next |-> t.next]
    <3>1. ~(~Has(b, r.next, 1) \/ ~t.ok \/ t.len > need - Len(r.px))
      <4>1. Len(e[k - 1]) \in Nat
        <5>1. k - 1 \in 0 .. n
          BY <1>4
        <5> QED
          BY <1>6, <5>1
      <4>2. ~(t.len > need - Len(r.px))
        <5> DEFINE x == Len(e[k - 1])
                   y == t.len
        <5>1. x \in Nat /\ y \in Nat /\ y <= need - x /\ Len(r.px) = x
          BY <2>7, <2>8, <4>1
        <5> HIDE DEF x, y
        <5>2. ~(y > need - x)
          BY <1>7, <5>1
        <5> QED
          BY <5>1, <5>2 DEF y
      <4> QED
        BY <2>4, <2>5, <2>8, <4>2
    <3>2. Span(f, b, r.next, pal) = t
      BY <2>3, <2>8
    <3> QED
      BY <3>1, <3>2
  <2> QED
    BY <2>5, <2>6, <2>8, <2>9 DEF r
<1>10. \A k \in 0 .. need : Upto(k) \in 0 .. n /\ (Upto(k) = n <=> k >= n)
  BY <1>4, <1>7
<1>11. \A k \in 0 .. need : Step(R, k) = At(Upto(k))
  <2> SUFFICES ASSUME NEW k \in 0 .. need PROVE Step(R, k) = At(Upto(k))
    OBVIOUS
  <2>1. CASE k = 0
    <3>1. Upto(0) = 0 /\ Len(<<>>) = 0 /\ i + 0 = i
      BY <1>4
    <3>2. At(0) = [ok |-> TRUE, px |-> <<>>, next |-> i]
      BY <1>2, <1>3, <3>1
    <3> HIDE DEF At, Upto
    <3> QED
      BY <2>1, <3>1, <3>2
  <2>2. CASE k # 0
    <3>1. k - 1 \in 0 .. need
      BY <1>7, <2>2
    <3>2. R[k - 1] = At(Upto(k - 1))
      BY <3>1
    <3>3. Upto(k - 1) \in 0 .. n
      BY <1>10, <3>1
    <3> HIDE DEF R
    <3>4. Step(R, k) = IF full(At(Upto(k - 1))) THEN At(Upto(k - 1)) ELSE more(At(Upto(k - 1)))
      <4> HIDE DEF At, Upto, full, more
      <4> QED
        BY <2>2, <3>2
    <3>5. full(At(Upto(k - 1))) <=> Upto(k - 1) = n
      <4> HIDE DEF At, Upto, full
      <4> QED
        BY <1>8, <3>3
    <3>6. CASE Upto(k - 1) = n
      <4>1. Upto(k) = n
        BY <1>4, <1>7, <2>2, <3>6
      <4> HIDE DEF At, Upto, full, more, Step
      <4> QED
        BY <3>4, <3>5, <3>6, <4>1
    <3>7. CASE Upto(k - 1) # n
      <4>1. Upto(k - 1) = k - 1 /\ k \in 1 .. n /\ Upto(k) = k
        BY <1>4, <1>7, <2>2, <3>7
      <4> HIDE DEF At, Upto, full, more, Step
      <4> QED
        BY <1>9, <3>4, <3>5, <3>7, <4>1
    <3> QED
      BY <3>6, <3>7
  <2> QED
    BY <2>1, <2>2
<1> DEFINE read == CHOOSE h : h = [k \in 0 .. need |-> Step(h, k)]
<1>12. read = [k \in 0 .. need |-> Step(read, k)]
  <2>1. R = [k \in 0 .. need |-> Step(R, k)]
    <3> HIDE DEF At, Upto, Step
    <3> QED
      BY <1>11
  <2> HIDE DEF R, Step
  <2> QED
    BY <2>1
<1>13. Spans(f, b, i, pal, need) = read[CHOOSE k \in 0 .. need : full(read[k])]
  BY DEF Spans
<1> HIDE DEF read
<1> DEFINE T == {k \in Nat : k <= need => read[k] = R[k]}
<1>14. 0 \in T
  <2>1. 0 \in 0 .. need
    BY <1>7
  <2>2. read[0] = Step(read, 0)
    <3> HIDE DEF Step
    <3> QED
      BY <1>12, <2>1
  <2>3. R[0] = Step(R, 0)
    <3> HIDE DEF At, Upto, Step
    <3> QED
      BY <1>11, <2>1
  <2>4. Step(read, 0) = Step(R, 0)
    OBVIOUS
  <2> HIDE DEF R, Step
  <2> QED
    BY <2>2, <2>3, <2>4
<1>15. ASSUME NEW k \in 1 .. need, k - 1 \in T PROVE k \in T
  <2>1. k \in 0 .. need /\ k # 0 /\ k - 1 <= need /\ k \in Nat
    BY <1>7
  <2>2. read[k] = Step(read, k)
    <3> HIDE DEF Step
    <3> QED
      BY <1>12, <2>1
  <2>3. R[k] = Step(R, k)
    <3> HIDE DEF At, Upto, Step
    <3> QED
      BY <1>11, <2>1
  <2>4. read[k - 1] = R[k - 1]
    <3> HIDE DEF R
    <3> QED
      BY <1>15, <2>1
  <2>5. Step(read, k) = Step(R, k)
    <3> HIDE DEF R, full, more
    <3> QED
      BY <2>4
  <2> HIDE DEF R, Step
  <2> QED
    BY <2>1, <2>2, <2>3, <2>5
<1>16. \A k \in 0 .. need : k \in T
  <2> HIDE DEF T
  <2> QED
    BY <1>7, <1>14, <1>15, Climb
<1>17. \A k \in 0 .. need : read[k] = At(Upto(k)) /\ (full(read[k]) <=> Upto(k) = n)
  <2> SUFFICES ASSUME NEW k \in 0 .. need PROVE read[k] = At(Upto(k)) /\ (full(read[k]) <=> Upto(k) = n)
    OBVIOUS
  <2>1. read[k] = R[k]
    <3> HIDE DEF R
    <3> QED
      BY <1>7, <1>16
  <2>2. R[k] = At(Upto(k))
    <3> HIDE DEF At, Upto
    <3> QED
      OBVIOUS
  <2> HIDE DEF R, At, Upto, full
  <2> QED
    BY <1>8, <1>10, <2>1, <2>2
<1> DEFINE c == CHOOSE k \in 0 .. need : full(read[k])
<1>18. c \in 0 .. need /\ full(read[c])
  <2>1. n \in 0 .. need /\ Upto(n) = n
    BY <1>4, <1>7
  <2>2. full(read[n])
    <3> HIDE DEF full, Upto
    <3> QED
      BY <1>17, <2>1
  <2> HIDE DEF full
  <2> QED
    BY <2>1, <2>2
<1>19. read[c] = At(n)
  <2> HIDE DEF c, full, At, Upto
  <2> QED
    BY <1>17, <1>18
<1> QED
  BY <1>2, <1>3, <1>13, <1>19 DEF need

----------------------------------------------------------------------------
(* Spans as they are written.                                              *)

(* A run with its colour, and a run of a palette.                          *)
Plain(f, r) == Cpixel(f, r.colour) \o WriteRun(r.len)
Place(pal, c) == (CHOOSE k \in DOMAIN pal : pal[k] = c) - 1
Short(pal, r) == IF r.len = 1 THEN <<Place(pal, r.colour)>>
                 ELSE <<Place(pal, r.colour) + 128>> \o WriteRun(r.len)

LEMMA HeadBack ==
  ASSUME NEW x \in Byte, NEW r \in Seq(Byte), NEW s, s = <<x>> \o r
  PROVE  /\ s \in Seq(Byte) /\ Len(s) = 1 + Len(r) /\ Len(r) \in Nat /\ s # <<>>
         /\ \A b \in Seq(Byte), i \in Nat \ {0} :
              Holds(b, i, s) => b[i] = x /\ Has(b, i, 1) /\ Holds(b, i + 1, r)
<1> DEFINE one == <<x>>
<1>1. one \in Seq(Byte) /\ Len(one) = 1 /\ one[1] = x /\ Len(r) \in Nat
  BY LenProperties
<1>2. s = one \o r
  OBVIOUS
<1> HIDE DEF one
<1>3. s \in Seq(Byte) /\ Len(s) = 1 + Len(r)
  BY <1>1, <1>2, ConcatProperties
<1>4. s # <<>>
  BY <1>1, <1>3, EmptySeq
<1>5. ASSUME NEW b \in Seq(Byte), NEW i \in Nat \ {0}, Holds(b, i, s)
      PROVE  b[i] = x /\ Has(b, i, 1) /\ Holds(b, i + 1, r)
  <2>0. Holds(b, i, one \o r)
    BY <1>2, <1>5
  <2>1. Holds(b, i, one) /\ Holds(b, i + Len(one), r)
    BY <1>1, <2>0, HoldsBoth
  <2>2. i + 1 - 1 <= Len(b) /\ b[i + 1 - 1] = one[1]
    BY <1>1, <2>1 DEF Holds
  <2>3. i + 1 - 1 = i
    OBVIOUS
  <2> QED
    BY <1>1, <2>1, <2>2, <2>3 DEF Has
<1> QED
  BY <1>1, <1>3, <1>4, <1>5

LEMMA PlainBack ==
  ASSUME NEW f \in PixFmts, HasCpixel(f), NEW r \in Run
  PROVE  /\ Plain(f, r) \in Seq(Byte) /\ Len(Plain(f, r)) = 3 + RunBytes(r.len) /\ Plain(f, r) # <<>>
         /\ \A b \in Seq(Byte), j \in Nat \ {0} :
              Holds(b, j, Plain(f, r)) => Span(f, b, j, <<>>) = Told(r, j + Len(Plain(f, r)))
<1> DEFINE c == Cpixel(f, r.colour)
           t == WriteRun(r.len)
           n == RunBytes(r.len)
           s == Plain(f, r)
<1>1. r.colour \in Rgb /\ r.len \in Nat \ {0}
  BY DEF Run
<1>2. c \in Seq(Byte) /\ Len(c) = 3 /\ ReadCpixel(f, c) = r.colour
  BY <1>1, CpixelBack
<1>3. t \in Seq(Byte) /\ Len(t) = n /\ n \in Nat \ {0}
  BY <1>1, WriteRunIs
<1>4. s = c \o t
  BY DEF Plain
<1>5. \A b \in Seq(Byte), j \in Nat \ {0} :
        Holds(b, j, t) => RunLen(b, j) = [ok |-> TRUE, len |-> r.len, next |-> j + n]
  BY <1>1, RunBack
<1> HIDE DEF c, t, n, s
<1>6. s \in Seq(Byte) /\ Len(s) = 3 + n
  BY <1>2, <1>3, <1>4, ConcatProperties, SMTT(60)
<1>7. s # <<>>
  BY <1>3, <1>6, EmptySeq
<1>8. ASSUME NEW b \in Seq(Byte), NEW j \in Nat \ {0}, Holds(b, j, s)
      PROVE  Span(f, b, j, <<>>) = Told(r, j + Len(s))
  <2>0. Holds(b, j, c \o t)
    BY <1>4, <1>8
  <2>1. Holds(b, j, c) /\ Holds(b, j + Len(c), t)
    BY <1>2, <1>3, <2>0, HoldsBoth
  <2>2. SubSeq(b, j, j + Len(c) - 1) = c /\ j + Len(c) - 1 <= Len(b)
    BY <1>2, <2>1, HoldsThere DEF Holds
  <2>3. Has(b, j, 3)
    BY <1>2, <2>2 DEF Has
  <2>4. ReadColours(f, b, j, 1)[1] = r.colour
    <3>1. j + 3 * (1 - 1) = j /\ j + 3 * 1 - 1 = j + 3 - 1 /\ 1 \in 1 .. 1
      OBVIOUS
    <3>2. ReadColours(f, b, j, 1)[1] = ReadCpixel(f, SubSeq(b, j + 3 * (1 - 1), j + 3 * 1 - 1))
      BY <3>1 DEF ReadColours
    <3> QED
      BY <1>2, <2>2, <3>1, <3>2
  <2>5. RunLen(b, j + 3) = [ok |-> TRUE, len |-> r.len, next |-> (j + 3) + n]
    <3>1. j + 3 \in Nat \ {0} /\ Holds(b, j + 3, t)
      BY <1>2, <2>1
    <3> QED
      BY <1>5, <3>1
  <2>6. (j + 3) + n = j + Len(s)
    BY <1>3, <1>6
  <2> DEFINE run == RunLen(b, j + 3)
             col == ReadColours(f, b, j, 1)[1]
  <2>7. Span(f, b, j, <<>>) = IF ~Has(b, j, 3) \/ ~run.ok
                              THEN [ok |-> FALSE, colour |-> <<>>, len |-> 0, next |-> 0]
                              ELSE [ok |-> TRUE, colour |-> col, len |-> run.len, next |-> run.next]
    BY DEF Span
  <2>8. run.ok /\ run.len = r.len /\ run.next = j + Len(s)
    BY <2>5, <2>6
  <2> HIDE DEF run, col
  <2>9. Span(f, b, j, <<>>) = [ok |-> TRUE, colour |-> col, len |-> run.len, next |-> run.next]
    BY <2>3, <2>7, <2>8
  <2> QED
    BY <2>4, <2>8, <2>9 DEF Told, col
<1> QED
  BY <1>6, <1>7, <1>8 DEF s, n

LEMMA PlaceIs ==
  ASSUME NEW pal \in Seq(Rgb), Len(pal) <= 127, NEW c \in Elems(pal)
  PROVE  /\ Place(pal, c) \in 0 .. Len(pal) - 1 /\ pal[Place(pal, c) + 1] = c
         /\ Place(pal, c) \in Nat /\ Place(pal, c) <= 126
<1> DEFINE k == CHOOSE k \in DOMAIN pal : pal[k] = c
<1>1. k \in DOMAIN pal /\ pal[k] = c
  <2>1. \E x \in DOMAIN pal : pal[x] = c
    BY DEF Elems
  <2> QED
    BY <2>1, Zenon
<1>2. DOMAIN pal = 1 .. Len(pal)
  BY LenProperties
<1>3. Place(pal, c) = k - 1
  BY DEF Place
<1> DEFINE n == Len(pal)
<1>4. k \in 1 .. n /\ n \in Nat /\ n <= 127
  BY <1>1, <1>2, LenProperties
<1> HIDE DEF k, n
<1>5. k - 1 \in 0 .. n - 1 /\ k - 1 \in Nat /\ k - 1 <= 126 /\ (k - 1) + 1 = k
  BY <1>4
<1> QED
  BY <1>1, <1>3, <1>5 DEF n

LEMMA ShortBack ==
  ASSUME NEW f, NEW pal \in Seq(Rgb), pal # <<>>, Len(pal) <= 127,
         NEW r \in Run, r.colour \in Elems(pal)
  PROVE  /\ Short(pal, r) \in Seq(Byte) /\ Short(pal, r) # <<>>
         /\ Len(Short(pal, r)) = IF r.len = 1 THEN 1 ELSE 1 + RunBytes(r.len)
         /\ \A b \in Seq(Byte), j \in Nat \ {0} :
              Holds(b, j, Short(pal, r)) => Span(f, b, j, pal) = Told(r, j + Len(Short(pal, r)))
<1> DEFINE p == Place(pal, r.colour)
           t == WriteRun(r.len)
           n == RunBytes(r.len)
           s == Short(pal, r)
<1>1. r.colour \in Rgb /\ r.len \in Nat \ {0}
  BY DEF Run
<1>2. p \in 0 .. Len(pal) - 1 /\ pal[p + 1] = r.colour /\ p \in Nat /\ p <= 126
  BY PlaceIs
<1>3. t \in Seq(Byte) /\ Len(t) = n /\ n \in Nat \ {0}
  BY <1>1, WriteRunIs
<1>4. s = IF r.len = 1 THEN <<p>> ELSE <<p + 128>> \o t
  BY DEF Short
<1>5. \A b \in Seq(Byte), j \in Nat \ {0} :
        Holds(b, j, t) => RunLen(b, j) = [ok |-> TRUE, len |-> r.len, next |-> j + n]
  BY <1>1, RunBack
<1>6. pal # <<>>
  OBVIOUS
<1> DEFINE np == Len(pal)
<1>0. p \in 0 .. np - 1 /\ np \in Nat
  BY <1>2, LenProperties
<1> HIDE DEF p, t, n, s, np
<1>9. /\ ~(p >= 128) /\ (p % 128) + 1 = p + 1 /\ ~((p % 128) + 1 > np)
      /\ p + 128 >= 128 /\ ((p + 128) % 128) + 1 = p + 1 /\ ~(((p + 128) % 128) + 1 > np)
  <2>1. p \in Nat /\ p <= 126 /\ p % 128 = p /\ (p + 128) % 128 = p
    BY <1>2
  <2>2. p + 1 <= np
    BY <1>0
  <2> QED
    BY <1>0, <2>1, <2>2
<1>7. CASE r.len = 1
  <2>1. p \in Byte
    BY <1>2 DEF Byte
  <2>2. s = <<p>>
    BY <1>4, <1>7
  <2>3. s \in Seq(Byte) /\ Len(s) = 1 /\ s # <<>> /\ s[1] = p
    BY <2>1, <2>2
  <2>4. ASSUME NEW b \in Seq(Byte), NEW j \in Nat \ {0}, Holds(b, j, s)
        PROVE  Span(f, b, j, pal) = Told(r, j + Len(s))
    <3>1. j + 1 - 1 <= Len(b) /\ b[j + 1 - 1] = s[1] /\ j + 1 - 1 = j
      BY <2>3, <2>4 DEF Holds
    <3>2. b[j] = p /\ Has(b, j, 1)
      BY <2>3, <3>1 DEF Has
    <3>3. ~(b[j] >= 128) /\ (b[j] % 128) + 1 = p + 1 /\ ~((b[j] % 128) + 1 > Len(pal))
      BY <1>9, <3>2 DEF np
    <3> QED
      BY <1>2, <1>6, <1>7, <2>3, <3>2, <3>3 DEF Span, Told
  <2> QED
    BY <1>7, <2>3, <2>4 DEF s
<1>8. CASE r.len # 1
  <2>1. p + 128 \in Byte
    BY <1>2 DEF Byte
  <2>2. s = <<p + 128>> \o t
    BY <1>4, <1>8
  <2> DEFINE x == p + 128
  <2>3. x \in Byte /\ s = <<x>> \o t
    BY <2>1, <2>2
  <2> HIDE DEF x
  <2>4. /\ s \in Seq(Byte) /\ Len(s) = 1 + Len(t) /\ s # <<>>
        /\ \A b \in Seq(Byte), j \in Nat \ {0} :
             Holds(b, j, s) => b[j] = x /\ Has(b, j, 1) /\ Holds(b, j + 1, t)
    BY <1>3, <2>3, HeadBack
  <2>5. ASSUME NEW b \in Seq(Byte), NEW j \in Nat \ {0}, Holds(b, j, s)
        PROVE  Span(f, b, j, pal) = Told(r, j + Len(s))
    <3>1. b[j] = x /\ Has(b, j, 1) /\ Holds(b, j + 1, t)
      BY <2>4, <2>5
    <3>2. b[j] >= 128 /\ (b[j] % 128) + 1 = p + 1 /\ ~((b[j] % 128) + 1 > Len(pal))
      BY <1>9, <3>1 DEF x, np
    <3>3. RunLen(b, j + 1) = [ok |-> TRUE, len |-> r.len, next |-> (j + 1) + n]
      <4>1. j + 1 \in Nat \ {0}
        OBVIOUS
      <4> QED
        BY <1>5, <3>1, <4>1
    <3>4. (j + 1) + n = j + Len(s)
      BY <1>3, <2>4
    <3> DEFINE run == RunLen(b, j + 1)
               at == (b[j] % 128) + 1
    <3>5. Span(f, b, j, pal) = IF ~Has(b, j, 1) \/ at > np \/ ~run.ok
                               THEN [ok |-> FALSE, colour |-> <<>>, len |-> 0, next |-> 0]
                               ELSE [ok |-> TRUE, colour |-> pal[at], len |-> run.len, next |-> run.next]
      BY <1>6, <3>2 DEF Span, np
    <3>6. run.ok /\ run.len = r.len /\ run.next = j + Len(s)
      BY <3>3, <3>4
    <3>7. ~(at > np) /\ pal[at] = r.colour
      BY <1>2, <3>2 DEF np
    <3> HIDE DEF run, at
    <3>8. Span(f, b, j, pal) = [ok |-> TRUE, colour |-> pal[at], len |-> run.len, next |-> run.next]
      BY <3>1, <3>5, <3>6, <3>7
    <3> QED
      BY <3>6, <3>7, <3>8 DEF Told
  <2> QED
    BY <1>3, <1>8, <2>4, <2>5 DEF s, n
<1> QED
  BY <1>7, <1>8

(* The head of a tile with a palette.                                      *)
Headed(f, x, pal, rest) == (<<x>> \o Colours(f, pal)) \o rest

LEMMA PalBack ==
  ASSUME NEW f \in PixFmts, HasCpixel(f), NEW x \in Byte, NEW pal \in Seq(Rgb), NEW rest \in Seq(Byte)
  PROVE  LET s == Headed(f, x, pal, rest) IN
         /\ s \in Seq(Byte) /\ Len(s) = 1 + 3 * Len(pal) + Len(rest) /\ Len(pal) \in Nat /\ Len(rest) \in Nat
         /\ \A b \in Seq(Byte), i \in Nat \ {0} : Holds(b, i, s) =>
              /\ b[i] = x /\ Has(b, i, 1) /\ Has(b, i + 1, 3 * Len(pal))
              /\ ReadColours(f, b, i + 1, Len(pal)) = pal
              /\ Holds(b, i + 1 + 3 * Len(pal), rest)
<1> DEFINE c == Colours(f, pal)
           n == Len(pal)
           q == <<x>> \o c
           s == Headed(f, x, pal, rest)
<1>1. /\ c \in Seq(Byte) /\ Len(c) = 3 * n /\ n \in Nat /\ Len(rest) \in Nat
      /\ \A b \in Seq(Byte), i \in Nat \ {0} : Holds(b, i, c) => ReadColours(f, b, i, n) = pal
  BY ColoursBack, LenProperties
<1>2. s = q \o rest
  BY DEF Headed
<1> HIDE DEF c, n
<1>3. /\ q \in Seq(Byte) /\ Len(q) = 1 + Len(c)
      /\ \A b \in Seq(Byte), i \in Nat \ {0} : Holds(b, i, q) => b[i] = x /\ Has(b, i, 1) /\ Holds(b, i + 1, c)
  BY <1>1, HeadBack
<1> HIDE DEF q, s
<1>4. Len(q) = 1 + 3 * n /\ Len(q) \in Nat
  BY <1>1, <1>3
<1>5. s \in Seq(Byte) /\ Len(s) = 1 + 3 * n + Len(rest)
  <2>1. s \in Seq(Byte) /\ Len(s) = Len(q) + Len(rest)
    BY <1>2, <1>3, ConcatProperties
  <2> QED
    BY <1>1, <1>4, <2>1
<1>6. ASSUME NEW b \in Seq(Byte), NEW i \in Nat \ {0}, Holds(b, i, s)
      PROVE  /\ b[i] = x /\ Has(b, i, 1) /\ Has(b, i + 1, 3 * n)
             /\ ReadColours(f, b, i + 1, n) = pal /\ Holds(b, i + 1 + 3 * n, rest)
  <2>1. Holds(b, i, q \o rest)
    BY <1>2, <1>6
  <2>2. Holds(b, i, q) /\ Holds(b, i + Len(q), rest)
    BY <1>3, <2>1, HoldsBoth
  <2>3. b[i] = x /\ Has(b, i, 1) /\ Holds(b, i + 1, c)
    BY <1>3, <2>2
  <2>4. Has(b, i + 1, 3 * n)
    BY <1>1, <2>3 DEF Holds, Has
  <2>5. i + Len(q) = i + 1 + 3 * n
    BY <1>1, <1>4
  <2>6. i + 1 \in Nat \ {0}
    OBVIOUS
  <2> QED
    BY <1>1, <2>2, <2>3, <2>4, <2>5, <2>6
<1> QED
  BY <1>1, <1>5, <1>6 DEF n, s

----------------------------------------------------------------------------
(* Tiles of runs.                                                          *)

LEMMA FlatLen ==
  ASSUME NEW S, NEW seqs \in Seq(Seq(S)), NEW c, DOMAIN c = 1 .. Len(seqs),
         \A k \in 1 .. Len(seqs) : c[k] = Len(seqs[k])
  PROVE  Len(FlattenSeq(seqs)) = SumFunction(c) /\ Len(FlattenSeq(seqs)) \in Nat
<1> DEFINE n == Len(seqs)
<1>1. n \in Nat /\ \A k \in 1 .. n : seqs[k] \in Seq(S) /\ c[k] \in Nat /\ c[k] \in Int
  <2>1. n \in Nat /\ \A k \in 1 .. n : seqs[k] \in Seq(S)
    BY LenProperties, ElementOfSeq
  <2>2. \A k \in 1 .. n : Len(seqs[k]) \in Nat
    BY <2>1, LenProperties
  <2> QED
    BY <2>1, <2>2
<1>2. PICK g \in [0 .. n -> Seq(S)] :
        g[0] = <<>> /\ (\A k \in 1 .. n : g[k] = g[k - 1] \o seqs[k]) /\ FlattenSeq(seqs) = g[n]
  BY FlatChain
<1>3. \A k \in 1 .. n : c[k] = Len(seqs[k])
  OBVIOUS
<1>4. SumFunction(c) = SumOn(c, 1 .. n)
  BY SumIs
<1> HIDE DEF n
<1>5. /\ SumOn(c, 1 .. 0) = 0
      /\ \A k \in 1 .. n : /\ SumOn(c, 1 .. k) \in Int /\ SumOn(c, 1 .. k - 1) \in Int
                          /\ SumOn(c, 1 .. k) = SumOn(c, 1 .. k - 1) + c[k]
  BY <1>1, SumLast
<1> DEFINE T == {k \in Nat : k <= n => Len(g[k]) = SumOn(c, 1 .. k)}
<1>6. 0 \in T
  BY <1>2, <1>5
<1>7. ASSUME NEW k \in 1 .. n, k - 1 \in T PROVE k \in T
  <2> DEFINE a == g[k - 1]
             b == seqs[k]
  <2>0. k - 1 \in 0 .. n /\ k \in Nat /\ k - 1 <= n
    BY <1>1
  <2>1. a \in Seq(S) /\ b \in Seq(S) /\ g[k] = a \o b
    BY <1>1, <1>2, <2>0
  <2>2. Len(a) = SumOn(c, 1 .. k - 1) /\ Len(b) = c[k]
    BY <1>3, <1>7, <2>0
  <2> HIDE DEF a, b
  <2>3. Len(g[k]) = Len(a) + Len(b)
    BY <2>1, ConcatProperties
  <2> QED
    BY <1>5, <2>0, <2>2, <2>3
<1>8. \A k \in 0 .. n : k \in T
  <2> HIDE DEF T
  <2> QED
    BY <1>1, <1>6, <1>7, Climb
<1>9. n \in T
  BY <1>1, <1>8
<1>10. g[n] \in Seq(S)
  BY <1>1, <1>2
<1> QED
  BY <1>1, <1>2, <1>4, <1>9, <1>10, LenProperties

Given(f, px, w, h) ==
  f \in PixFmts /\ HasCpixel(f) /\ w \in Nat \ {0} /\ h \in Nat \ {0} /\ px \in [1 .. w * h -> Rgb]

Back(s, f, px, w, h) ==
  /\ s \in Seq(Byte)
  /\ \A b \in Seq(Byte), i \in Nat \ {0} : Holds(b, i, s) =>
       ZrleTile(f, b, i, w, h) = [ok |-> TRUE, px |-> px, next |-> i + Len(s)]

LEMMA Area ==
  ASSUME NEW f, NEW px, NEW w, NEW h, Given(f, px, w, h)
  PROVE  w * h \in Nat \ {0} /\ 3 * w * h = 3 * (w * h) /\ px \in Seq(Rgb) /\ Len(px) = w * h
<1> DEFINE n == w * h
<1>1. w \in Nat \ {0} /\ h \in Nat \ {0} /\ px \in [1 .. n -> Rgb]
  BY DEF Given
<1>2. n \in Nat /\ 3 * w * h = 3 * n
  BY <1>1
<1>3. n # 0
  <2>1. 1 * h <= w * h
    BY <1>1, TimesUp
  <2> QED
    BY <1>1, <1>2, <2>1
<1> HIDE DEF n
<1>4. px \in Seq(Rgb) /\ Len(px) = n
  BY <1>1, <1>2, AsSeq
<1> QED
  BY <1>2, <1>3, <1>4 DEF n

LEMMA NoColours ==
  ASSUME NEW f, NEW b, NEW i
  PROVE  ReadColours(f, b, i, 0) = <<>>
BY DEF ReadColours

(* What the client makes of a tile, by the byte that names its form.       *)
LEMMA TileRead ==
  ASSUME NEW f, NEW b, NEW i, NEW w, NEW h, Has(b, i, 1), NEW n, n = b[i] % 128, Has(b, i + 1, 3 * n),
         NEW pal, pal = ReadColours(f, b, i + 1, n), NEW body, body = i + 1 + 3 * n
  PROVE  /\ ~(b[i] >= 128) /\ n = 0 /\ Has(b, body, 3 * w * h) =>
              ZrleTile(f, b, i, w, h) = [ok |-> TRUE, px |-> ReadColours(f, b, body, w * h), next |-> body + 3 * w * h]
         /\ ~(b[i] >= 128) /\ n = 1 =>
              ZrleTile(f, b, i, w, h) = [ok |-> TRUE, px |-> [k \in 1 .. w * h |-> pal[1]], next |-> body]
         /\ ~(b[i] >= 128) /\ n \in 2..16 => ZrleTile(f, b, i, w, h) = Packed(b, body, pal, w, h)
         /\ b[i] >= 128 /\ n # 1 => ZrleTile(f, b, i, w, h) = Spans(f, b, body, pal, w * h)
<1>1. n = 0 => ~(n \in 2..16) /\ n # 1
  OBVIOUS
<1>2. n = 1 => ~(n \in 2..16) /\ n # 0
  OBVIOUS
<1>3. n \in 2..16 => n # 1 /\ n # 0
  OBVIOUS
<1> DEFINE rle == b[i] >= 128
           Whole == CASE ~rle /\ n = 0 ->
                           IF ~Has(b, body, 3 * w * h) THEN Refused
                           ELSE [ok |-> TRUE, px |-> ReadColours(f, b, body, w * h), next |-> body + 3 * w * h]
                      [] ~rle /\ n = 1 -> [ok |-> TRUE, px |-> [k \in 1 .. w * h |-> pal[1]], next |-> body]
                      [] ~rle /\ n \in 2..16 -> Packed(b, body, pal, w, h)
                      [] rle /\ n # 1 -> Spans(f, b, body, pal, w * h)
                      [] OTHER -> Refused
<1>4. ZrleTile(f, b, i, w, h) = Whole
  BY Zenon DEF ZrleTile
<1> HIDE DEF rle
<1>5. /\ ~rle /\ n = 0 /\ Has(b, body, 3 * w * h) =>
           Whole = [ok |-> TRUE, px |-> ReadColours(f, b, body, w * h), next |-> body + 3 * w * h]
      /\ ~rle /\ n = 1 => Whole = [ok |-> TRUE, px |-> [k \in 1 .. w * h |-> pal[1]], next |-> body]
      /\ ~rle /\ n \in 2..16 => Whole = Packed(b, body, pal, w, h)
      /\ rle /\ n # 1 => Whole = Spans(f, b, body, pal, w * h)
  BY <1>1, <1>2, <1>3
<1> QED
  BY <1>4, <1>5 DEF rle

LEMMA RawForm ==
  ASSUME NEW f, NEW px, NEW w, NEW h, Given(f, px, w, h)
  PROVE  LET s == Written("raw", f, px, w, h) IN Back(s, f, px, w, h) /\ Len(s) = 1 + 3 * w * h
<1> DEFINE c == Colours(f, px)
           s == Written("raw", f, px, w, h)
           n == w * h
<1>1. /\ n \in Nat \ {0} /\ 3 * w * h = 3 * n /\ px \in Seq(Rgb) /\ Len(px) = n
      /\ f \in PixFmts /\ HasCpixel(f)
  BY Area DEF Given
<1>2. /\ c \in Seq(Byte) /\ Len(c) = 3 * n
      /\ \A b \in Seq(Byte), i \in Nat \ {0} : Holds(b, i, c) => ReadColours(f, b, i, n) = px
  BY <1>1, ColoursBack
<1>3. s = <<0>> \o c
  BY DEF Written
<1>4. 0 \in Byte
  BY DEF Byte
<1> HIDE DEF c, s, n
<1>5. /\ s \in Seq(Byte) /\ Len(s) = 1 + Len(c)
      /\ \A b \in Seq(Byte), i \in Nat \ {0} : Holds(b, i, s) => b[i] = 0 /\ Has(b, i, 1) /\ Holds(b, i + 1, c)
  BY <1>2, <1>3, <1>4, HeadBack
<1>6. ASSUME NEW b \in Seq(Byte), NEW i \in Nat \ {0}, Holds(b, i, s)
      PROVE  ZrleTile(f, b, i, w, h) = [ok |-> TRUE, px |-> px, next |-> i + Len(s)]
  <2>1. b[i] = 0 /\ Has(b, i, 1) /\ Holds(b, i + 1, c) /\ i + 1 \in Nat \ {0}
    BY <1>5, <1>6
  <2>2. ReadColours(f, b, i + 1, n) = px /\ Has(b, i + 1, 3 * n)
    BY <1>2, <2>1 DEF Holds, Has
  <2>3. b[i] % 128 = 0 /\ ~(b[i] >= 128) /\ i + 1 + 3 * 0 = i + 1 /\ i + 1 + 3 * n = i + (1 + 3 * n)
    BY <1>1, <2>1
  <2>4. Has(b, i + 1, 3 * 0)
    BY <1>1, <2>2 DEF Has
  <2>5. ZrleTile(f, b, i, w, h) = [ok |-> TRUE, px |-> ReadColours(f, b, i + 1, n), next |-> i + 1 + 3 * n]
    <3> DEFINE m == b[i] % 128
               body == i + 1 + 3 * m
               pal == ReadColours(f, b, i + 1, m)
    <3>1. m = 0 /\ body = i + 1 /\ Has(b, i + 1, 3 * m) /\ Has(b, body, 3 * w * h)
      BY <1>1, <2>2, <2>3, <2>4
    <3>2. m = b[i] % 128 /\ body = i + 1 + 3 * m /\ pal = ReadColours(f, b, i + 1, m)
      OBVIOUS
    <3> HIDE DEF m, body, pal
    <3>3. ZrleTile(f, b, i, w, h) = [ok |-> TRUE, px |-> ReadColours(f, b, body, w * h), next |-> body + 3 * w * h]
      BY <2>1, <2>3, <3>1, <3>2, TileRead
    <3> QED
      BY <1>1, <3>1, <3>3 DEF n
  <2> QED
    BY <1>2, <1>5, <2>2, <2>3, <2>5
<1> QED
  BY <1>1, <1>2, <1>5, <1>6 DEF Back, s

LEMMA PlainForm ==
  ASSUME NEW f, NEW px, NEW w, NEW h, Given(f, px, w, h)
  PROVE  LET s == Written("plain", f, px, w, h)
         IN  Back(s, f, px, w, h) /\ Len(s) = 1 + Cost(px, w, h).plain /\ Cost(px, w, h).plain \in Nat
<1> DEFINE runs == Runs(px, w, h)
           m == Len(runs)
           q == [k \in 1 .. m |-> Plain(f, runs[k])]
           c == [k \in 1 .. m |-> 3 + RunBytes(runs[k].len)]
           t == FlattenSeq(q)
           s == Written("plain", f, px, w, h)
           n == w * h
<1>1. n \in Nat \ {0} /\ Len(px) = n /\ f \in PixFmts /\ HasCpixel(f)
  BY Area DEF Given
<1>2. runs \in Seq(Run) /\ Expand(runs) = px
  BY RunsIs DEF Given
<1>3. m \in Nat /\ DOMAIN runs = 1 .. m /\ \A k \in 1 .. m : runs[k] \in Run
  BY <1>2, LenProperties, ElementOfSeq
<1>4. s = <<128>> \o t
  BY <1>3 DEF Written, Plain
<1>5. Cost(px, w, h).plain = SumFunction(c)
  BY <1>3 DEF Cost
<1> HIDE DEF runs, m
<1>6. \A k \in 1 .. m : Plain(f, runs[k]) \in Seq(Byte) /\ Len(Plain(f, runs[k])) = 3 + RunBytes(runs[k].len)
                      /\ Plain(f, runs[k]) # <<>>
  BY <1>1, <1>3, PlainBack
<1>7. /\ q \in [1 .. m -> Seq(Byte)] /\ \A k \in 1 .. m : q[k] = Plain(f, runs[k])
      /\ DOMAIN c = 1 .. m /\ \A k \in 1 .. m : c[k] = Len(q[k])
  BY <1>6
<1> HIDE DEF q, c
<1>8. q \in Seq(Seq(Byte)) /\ Len(q) = m
  BY <1>3, <1>7, AsSeq
<1>9. Len(t) = SumFunction(c) /\ Len(t) \in Nat /\ t \in Seq(Byte)
  BY <1>7, <1>8, FlatLen, Flat
<1>10. 128 \in Byte
  BY DEF Byte
<1>11. ASSUME NEW b \in Seq(Byte), NEW i \in Nat \ {0}, Holds(b, i, t)
       PROVE  Spans(f, b, i, <<>>, n) = [ok |-> TRUE, px |-> px, next |-> i + Len(t)]
  <2>1. Len(q) = Len(runs) /\ \A k \in 1 .. Len(q) : q[k] # <<>>
    BY <1>6, <1>7, <1>8 DEF m
  <2>2. ASSUME NEW k \in 1 .. Len(q), NEW d \in Seq(Byte), NEW j \in Nat \ {0}, Holds(d, j, q[k])
        PROVE  Span(f, d, j, <<>>) = Told(runs[k], j + Len(q[k]))
    <3> DEFINE r == runs[k]
    <3>1. r \in Run /\ q[k] = Plain(f, r) /\ Holds(d, j, Plain(f, r))
      <4>1. k \in 1 .. m
        BY <1>8
      <4> QED
        BY <1>3, <1>7, <2>2, <4>1
    <3> HIDE DEF r
    <3>2. Span(f, d, j, <<>>) = Told(r, j + Len(Plain(f, r)))
      BY <1>1, <3>1, PlainBack
    <3> QED
      BY <3>1, <3>2 DEF r
  <2>3. Spelt(f, <<>>, runs, q)
    BY <1>8, <2>1, <2>2 DEF Spelt
  <2>4. Spans(f, b, i, <<>>, Len(Expand(runs))) =
          [ok |-> TRUE, px |-> Expand(runs), next |-> i + Len(FlattenSeq(q))]
    BY <1>2, <1>11, <2>3, SpansBack
  <2> QED
    BY <1>1, <1>2, <2>4
<1> HIDE DEF t, s, n
<1> DEFINE x == 128
<1>14. x \in Byte /\ s = <<x>> \o t
  BY <1>4, <1>10
<1> HIDE DEF x
<1>15. /\ s \in Seq(Byte) /\ Len(s) = 1 + Len(t)
       /\ \A b \in Seq(Byte), i \in Nat \ {0} : Holds(b, i, s) => b[i] = x /\ Has(b, i, 1) /\ Holds(b, i + 1, t)
  BY <1>9, <1>14, HeadBack
<1>12. /\ s \in Seq(Byte) /\ Len(s) = 1 + Len(t)
       /\ \A b \in Seq(Byte), i \in Nat \ {0} : Holds(b, i, s) => b[i] = 128 /\ Has(b, i, 1) /\ Holds(b, i + 1, t)
  BY <1>15 DEF x
<1>13. ASSUME NEW b \in Seq(Byte), NEW i \in Nat \ {0}, Holds(b, i, s)
       PROVE  ZrleTile(f, b, i, w, h) = [ok |-> TRUE, px |-> px, next |-> i + Len(s)]
  <2>1. b[i] = 128 /\ Has(b, i, 1) /\ Holds(b, i + 1, t) /\ i + 1 \in Nat \ {0}
    BY <1>12, <1>13
  <2>2. b[i] % 128 = 0 /\ b[i] >= 128 /\ i + 1 + 3 * 0 = i + 1 /\ (i + 1) + Len(t) = i + Len(s)
    BY <1>9, <1>12, <2>1
  <2>3. Has(b, i + 1, 3 * 0)
    BY <2>1 DEF Has
  <2>4. ReadColours(f, b, i + 1, 0) = <<>>
    BY NoColours
  <2>5. ZrleTile(f, b, i, w, h) = Spans(f, b, i + 1, <<>>, n)
    <3> DEFINE z == b[i] % 128
               body == i + 1 + 3 * z
               pal == ReadColours(f, b, i + 1, z)
    <3>1. z = 0 /\ body = i + 1 /\ Has(b, i + 1, 3 * z) /\ pal = <<>> /\ z # 1
      BY <2>2, <2>3, <2>4
    <3>2. z = b[i] % 128 /\ body = i + 1 + 3 * z /\ pal = ReadColours(f, b, i + 1, z)
      OBVIOUS
    <3> HIDE DEF z, body, pal
    <3>3. ZrleTile(f, b, i, w, h) = Spans(f, b, body, pal, w * h)
      BY <2>1, <2>2, <3>1, <3>2, TileRead
    <3> QED
      BY <3>1, <3>3 DEF n
  <2>6. Spans(f, b, i + 1, <<>>, n) = [ok |-> TRUE, px |-> px, next |-> (i + 1) + Len(t)]
    <3> DEFINE j == i + 1
    <3>1. j \in Nat \ {0} /\ Holds(b, j, t)
      BY <2>1
    <3> HIDE DEF j
    <3>2. Spans(f, b, j, <<>>, n) = [ok |-> TRUE, px |-> px, next |-> j + Len(t)]
      BY <1>11, <3>1
    <3> QED
      BY <3>2 DEF j
  <2> QED
    BY <2>2, <2>5, <2>6
<1> QED
  BY <1>5, <1>9, <1>12, <1>13 DEF Back, s

----------------------------------------------------------------------------
(* Tiles of runs, come back.                                               *)

(* The runs have no colours but those of the pixels.                       *)
LEMMA RunColours ==
  ASSUME NEW runs \in Seq(Run), NEW k \in 1 .. Len(runs)
  PROVE  runs[k].colour \in Elems(Expand(runs))
<1> DEFINE m == Len(runs)
           e == Reps(runs)
<1>1. e \in Seq(Seq(Rgb)) /\ Len(e) = m /\ (\A j \in 1 .. m : e[j] = Rep(runs[j])) /\ runs[k] \in Run /\ m \in Nat
  BY RepsAre, LenProperties, ElementOfSeq
<1>2. Elems(Expand(runs)) = UNION {Elems(e[j]) : j \in DOMAIN e}
  BY <1>1, Flat DEF Expand
<1>3. DOMAIN e = 1 .. m
  BY <1>1, LenProperties
<1>4. Rep(runs[k]) \in Seq(Rgb) /\ Len(Rep(runs[k])) = runs[k].len /\ runs[k].len \in Nat \ {0}
      /\ \A j \in 1 .. runs[k].len : Rep(runs[k])[j] = runs[k].colour
  BY <1>1, RepIs DEF Run
<1> DEFINE r == Rep(runs[k])
<1>5. runs[k].colour \in Elems(r)
  <2>1. 1 \in DOMAIN r /\ r[1] = runs[k].colour
    <3>1. 1 \in 1 .. runs[k].len
      BY <1>4
    <3> HIDE DEF r
    <3>2. DOMAIN r = 1 .. Len(r)
      BY <1>4, LenProperties DEF r
    <3> QED
      BY <1>4, <3>1, <3>2 DEF r
  <2> HIDE DEF r
  <2> QED
    BY <2>1 DEF Elems
<1> HIDE DEF e, m
<1>6. e[k] = r /\ k \in DOMAIN e
  BY <1>1, <1>3 DEF m
<1> HIDE DEF r
<1> QED
  BY <1>2, <1>5, <1>6

LEMMA PaletteHas ==
  ASSUME NEW f, NEW px, NEW w, NEW h, Given(f, px, w, h), Palette(px, w, h) # <<>>
  PROVE  /\ \A k \in 1 .. w * h : px[k] \in Elems(Palette(px, w, h))
         /\ Palette(px, w, h) \in Seq(Rgb) /\ Len(Palette(px, w, h)) \in Nat /\ Len(Palette(px, w, h)) <= 127
<1>1. w \in Nat \ {0} /\ h \in Nat /\ px \in [1 .. w * h -> Rgb]
  BY DEF Given
<1> DEFINE pal == Palette(px, w, h)
<1>2. /\ pal \in Seq(Rgb) /\ Len(pal) \in Nat /\ Len(pal) <= 127
      /\ pal = <<>> \/ \A k \in 1 .. w * h : px[k] \in Elems(pal)
  BY <1>1, PaletteIs
<1> QED
  BY <1>2

LEMMA IndexedForm ==
  ASSUME NEW f, NEW px, NEW w, NEW h, Given(f, px, w, h),
         Len(Palette(px, w, h)) >= 2, Palette(px, w, h) # <<>>
  PROVE  LET s == Written("indexed", f, px, w, h)
         IN  Back(s, f, px, w, h) /\ Len(s) = 1 + Cost(px, w, h).indexed /\ Cost(px, w, h).indexed \in Nat
<1> DEFINE runs == Runs(px, w, h)
           pal == Palette(px, w, h)
           np == Len(pal)
           m == Len(runs)
           q == [k \in 1 .. m |-> Short(pal, runs[k])]
           c == [k \in 1 .. m |-> IF runs[k].len = 1 THEN 1 ELSE 1 + RunBytes(runs[k].len)]
           t == FlattenSeq(q)
           s == Written("indexed", f, px, w, h)
           n == w * h
           x == 128 + np
<1>1. n \in Nat \ {0} /\ Len(px) = n /\ f \in PixFmts /\ HasCpixel(f) /\ px \in Seq(Rgb)
  BY Area DEF Given
<1>2. runs \in Seq(Run) /\ Expand(runs) = px
  BY RunsIs DEF Given
<1>3. m \in Nat /\ DOMAIN runs = 1 .. m /\ \A k \in 1 .. m : runs[k] \in Run
  BY <1>2, LenProperties, ElementOfSeq
<1>4. /\ \A k \in 1 .. n : px[k] \in Elems(pal)
      /\ pal \in Seq(Rgb) /\ np \in Nat /\ np <= 127 /\ np >= 2 /\ pal # <<>>
  BY PaletteHas
<1>5. s = Headed(f, x, pal, t)
  BY <1>3 DEF Written, Short, Headed, Place
<1>6. Cost(px, w, h).indexed = 3 * np + SumFunction(c)
  <2>1. np \in 2 .. 127
    <3> HIDE DEF np
    <3> QED
      BY <1>4
  <2> QED
    BY <1>3, <2>1 DEF Cost
<1>7. x \in Byte /\ x % 128 = np /\ x >= 128 /\ np # 1
  <2> HIDE DEF np
  <2> QED
    BY <1>4 DEF Byte
<1>8. \A k \in 1 .. m : runs[k].colour \in Elems(pal)
  <2> SUFFICES ASSUME NEW k \in 1 .. m PROVE runs[k].colour \in Elems(pal)
    OBVIOUS
  <2>1. runs[k].colour \in Elems(px)
    BY <1>2, RunColours
  <2>2. PICK j \in DOMAIN px : px[j] = runs[k].colour
    BY <2>1 DEF Elems
  <2>3. j \in 1 .. n
    BY <1>1, LenProperties
  <2> QED
    BY <1>4, <2>2, <2>3
<1> HIDE DEF runs, m, pal, x, np
<1>9. \A k \in 1 .. m : /\ Short(pal, runs[k]) \in Seq(Byte) /\ Short(pal, runs[k]) # <<>>
                       /\ Len(Short(pal, runs[k])) = IF runs[k].len = 1 THEN 1 ELSE 1 + RunBytes(runs[k].len)
  BY <1>3, <1>4, <1>8, ShortBack DEF np
<1>10. /\ q \in [1 .. m -> Seq(Byte)] /\ \A k \in 1 .. m : q[k] = Short(pal, runs[k])
       /\ DOMAIN c = 1 .. m /\ \A k \in 1 .. m : c[k] = Len(q[k])
  BY <1>9
<1> HIDE DEF q, c
<1>11. q \in Seq(Seq(Byte)) /\ Len(q) = m
  BY <1>3, <1>10, AsSeq
<1>12. Len(t) = SumFunction(c) /\ Len(t) \in Nat /\ t \in Seq(Byte)
  BY <1>10, <1>11, FlatLen, Flat
<1>13. Spelt(f, pal, runs, q)
  <2>1. Len(q) = Len(runs) /\ \A k \in 1 .. Len(q) : q[k] # <<>>
    BY <1>9, <1>10, <1>11 DEF m
  <2>2. ASSUME NEW k \in 1 .. Len(q), NEW d \in Seq(Byte), NEW j \in Nat \ {0}, Holds(d, j, q[k])
        PROVE  Span(f, d, j, pal) = Told(runs[k], j + Len(q[k]))
    <3> DEFINE r == runs[k]
    <3>1. r \in Run /\ q[k] = Short(pal, r) /\ Holds(d, j, Short(pal, r)) /\ r.colour \in Elems(pal)
      <4>1. k \in 1 .. m
        BY <1>11
      <4> QED
        BY <1>3, <1>8, <1>10, <2>2, <4>1
    <3> HIDE DEF r
    <3>2. Span(f, d, j, pal) = Told(r, j + Len(Short(pal, r)))
      BY <1>4, <3>1, ShortBack DEF np
    <3> QED
      BY <3>1, <3>2 DEF r
  <2> QED
    BY <1>11, <2>1, <2>2 DEF Spelt
<1>14. ASSUME NEW b \in Seq(Byte), NEW i \in Nat \ {0}, Holds(b, i, t)
       PROVE  Spans(f, b, i, pal, n) = [ok |-> TRUE, px |-> px, next |-> i + Len(t)]
  <2>1. Spans(f, b, i, pal, Len(Expand(runs))) =
          [ok |-> TRUE, px |-> Expand(runs), next |-> i + Len(FlattenSeq(q))]
    BY <1>2, <1>13, <1>14, SpansBack
  <2> QED
    BY <1>1, <1>2, <2>1
<1> HIDE DEF t, s, n
<1>15. /\ s \in Seq(Byte) /\ Len(s) = 1 + 3 * np + Len(t)
       /\ \A b \in Seq(Byte), i \in Nat \ {0} : Holds(b, i, s) =>
            /\ b[i] = x /\ Has(b, i, 1) /\ Has(b, i + 1, 3 * np)
            /\ ReadColours(f, b, i + 1, np) = pal
            /\ Holds(b, i + 1 + 3 * np, t)
  <2> DEFINE z == Headed(f, x, pal, t)
  <2>1. /\ z \in Seq(Byte) /\ Len(z) = 1 + 3 * Len(pal) + Len(t)
        /\ \A b \in Seq(Byte), i \in Nat \ {0} : Holds(b, i, z) =>
             /\ b[i] = x /\ Has(b, i, 1) /\ Has(b, i + 1, 3 * Len(pal))
             /\ ReadColours(f, b, i + 1, Len(pal)) = pal
             /\ Holds(b, i + 1 + 3 * Len(pal), t)
    <3>1. f \in PixFmts /\ HasCpixel(f) /\ x \in Byte /\ pal \in Seq(Rgb) /\ t \in Seq(Byte)
      BY <1>1, <1>4, <1>7, <1>12
    <3> QED
      BY <3>1, PalBack, Zenon
  <2> HIDE DEF z
  <2>2. s = z
    BY <1>5 DEF z
  <2> QED
    BY <2>1, <2>2 DEF np
<1>16. ASSUME NEW b \in Seq(Byte), NEW i \in Nat \ {0}, Holds(b, i, s)
       PROVE  ZrleTile(f, b, i, w, h) = [ok |-> TRUE, px |-> px, next |-> i + Len(s)]
  <2> DEFINE body == i + 1 + 3 * np
  <2>1. /\ b[i] = x /\ Has(b, i, 1) /\ Has(b, i + 1, 3 * np) /\ ReadColours(f, b, i + 1, np) = pal
        /\ Holds(b, body, t)
    BY <1>15, <1>16
  <2>2. b[i] % 128 = np /\ b[i] >= 128
    BY <1>7, <2>1
  <2>3. body \in Nat \ {0} /\ body + Len(t) = i + Len(s)
    BY <1>4, <1>12, <1>15
  <2>4. body = i + 1 + 3 * np
    OBVIOUS
  <2> HIDE DEF body
  <2>5. ZrleTile(f, b, i, w, h) = Spans(f, b, body, pal, w * h)
    BY <1>7, <2>1, <2>2, <2>4, TileRead
  <2>6. Spans(f, b, body, pal, n) = [ok |-> TRUE, px |-> px, next |-> body + Len(t)]
    BY <1>14, <2>1, <2>3
  <2> QED
    BY <2>3, <2>5, <2>6 DEF n
<1>17. Len(s) = 1 + (3 * np + SumFunction(c)) /\ 3 * np + SumFunction(c) \in Nat
  BY <1>4, <1>12, <1>15
<1> QED
  BY <1>6, <1>15, <1>16, <1>17 DEF Back, s

LEMMA SolidForm ==
  ASSUME NEW f, NEW px, NEW w, NEW h, Given(f, px, w, h),
         Len(Palette(px, w, h)) = 1, Palette(px, w, h) # <<>>
  PROVE  LET s == Written("solid", f, px, w, h) IN Back(s, f, px, w, h) /\ Len(s) = 4
<1> DEFINE pal == Palette(px, w, h)
           q == Cpixel(f, pal[1])
           s == Written("solid", f, px, w, h)
           n == w * h
           x == 1
<1>1. n \in Nat \ {0} /\ f \in PixFmts /\ HasCpixel(f) /\ px \in [1 .. n -> Rgb]
  BY Area DEF Given
<1>2. pal \in Seq(Rgb) /\ Len(pal) = 1 /\ \A k \in 1 .. n : px[k] \in Elems(pal)
  BY PaletteHas
<1>3. s = <<x>> \o q
  BY DEF Written
<1>4. x \in Byte
  BY DEF Byte
<1> HIDE DEF pal, n, x
<1>5. pal[1] \in Rgb /\ DOMAIN pal = 1 .. 1
  BY <1>2, ElementOfSeq, LenProperties
<1>6. q \in Seq(Byte) /\ Len(q) = 3 /\ ReadCpixel(f, q) = pal[1]
  BY <1>1, <1>5, CpixelBack
<1>7. px = [k \in 1 .. n |-> pal[1]]
  <2>1. \A k \in 1 .. n : px[k] = pal[1]
    BY <1>2, <1>5 DEF Elems
  <2> QED
    BY <1>1, <2>1
<1> HIDE DEF q, s
<1>8. /\ s \in Seq(Byte) /\ Len(s) = 1 + Len(q)
      /\ \A b \in Seq(Byte), i \in Nat \ {0} : Holds(b, i, s) => b[i] = x /\ Has(b, i, 1) /\ Holds(b, i + 1, q)
  BY <1>3, <1>4, <1>6, HeadBack, ZenonT(60)
<1>9. ASSUME NEW b \in Seq(Byte), NEW i \in Nat \ {0}, Holds(b, i, s)
      PROVE  ZrleTile(f, b, i, w, h) = [ok |-> TRUE, px |-> px, next |-> i + Len(s)]
  <2> DEFINE j == i + 1
             m == b[i] % 128
             body == i + 1 + 3 * m
             p == ReadColours(f, b, i + 1, m)
  <2>1. b[i] = x /\ Has(b, i, 1) /\ Holds(b, j, q) /\ j \in Nat \ {0}
    BY <1>8, <1>9
  <2>2. m = 1 /\ ~(b[i] >= 128) /\ body = i + Len(s)
    BY <1>6, <1>8, <2>1 DEF x
  <2>3. Has(b, i + 1, 3 * m)
    BY <1>6, <2>1, <2>2 DEF Holds, Has
  <2>4. p[1] = pal[1]
    <3> HIDE DEF j
    <3>1. SubSeq(b, j, j + Len(q) - 1) = q
      BY <1>6, <2>1, HoldsThere
    <3>2. ReadColours(f, b, j, 1)[1] = ReadCpixel(f, SubSeq(b, j + 3 * (1 - 1), j + 3 * 1 - 1))
      <4>1. 1 \in 1 .. 1
        OBVIOUS
      <4> QED
        BY <4>1 DEF ReadColours
    <3>3. j + 3 * (1 - 1) = j /\ j + 3 * 1 - 1 = j + Len(q) - 1
      BY <1>6, <2>1
    <3>4. ReadColours(f, b, j, 1)[1] = pal[1]
      BY <1>6, <3>1, <3>2, <3>3
    <3>5. p = ReadColours(f, b, j, 1)
      BY <2>2 DEF j
    <3> QED
      BY <3>4, <3>5
  <2>5. m = b[i] % 128 /\ body = i + 1 + 3 * m /\ p = ReadColours(f, b, i + 1, m)
    OBVIOUS
  <2> HIDE DEF m, body, p
  <2>6. ZrleTile(f, b, i, w, h) = [ok |-> TRUE, px |-> [k \in 1 .. w * h |-> p[1]], next |-> body]
    BY <2>1, <2>2, <2>3, <2>5, TileRead
  <2> QED
    BY <1>7, <2>2, <2>4, <2>6 DEF n
<1>10. Len(s) = 4
  BY <1>6, <1>8
<1> QED
  BY <1>8, <1>9, <1>10 DEF Back, s

----------------------------------------------------------------------------
(* Bytes of indices.                                                       *)

LEMMA SumNext ==
  ASSUME NEW n \in Nat, NEW f, \A c \in 0 .. n : f[c] \in Int
  PROVE  /\ SumOn(f, 0 .. n - 1) \in Int /\ SumOn(f, 0 .. n) = f[n] + SumOn(f, 0 .. n - 1)
         /\ SumOn(f, {}) = 0
<1>1. n \in 0 .. n /\ (0 .. n) \ {n} = 0 .. n - 1
  OBVIOUS
<1>2. IsFiniteSet(0 .. n)
  BY FS_Interval
<1>3. /\ SumOn(f, {}) = 0
      /\ SumOn(f, (0 .. n) \ {n}) \in Int /\ SumOn(f, 0 .. n) = f[n] + SumOn(f, (0 .. n) \ {n})
  BY <1>1, <1>2, SumStep
<1> QED
  BY <1>1, <1>3

LEMMA SumOfTwo ==
  ASSUME NEW f, f[0] \in Int, f[1] \in Int
  PROVE  SumOn(f, 0 .. 1) = f[0] + f[1]
<1>1. \A c \in 0 .. 1 : f[c] \in Int
  <2>1. \A c \in 0 .. 1 : c = 0 \/ c = 1
    OBVIOUS
  <2> QED
    BY <2>1
<1>2. SumOn(f, 0 .. 1 - 1) \in Int /\ SumOn(f, 0 .. 1) = f[1] + SumOn(f, 0 .. 1 - 1)
  <2> DEFINE n == 1
  <2>1. n \in Nat /\ \A c \in 0 .. n : f[c] \in Int
    BY <1>1
  <2> HIDE DEF n
  <2>2. SumOn(f, 0 .. n - 1) \in Int /\ SumOn(f, 0 .. n) = f[n] + SumOn(f, 0 .. n - 1)
    BY <2>1, SumNext
  <2> QED
    BY <2>2 DEF n
<1>3. SumOn(f, 0 .. 0) = f[0]
  <2> DEFINE n == 0
  <2>1. n \in Nat /\ \A c \in 0 .. n : f[c] \in Int
    BY <1>1
  <2> HIDE DEF n
  <2>2. SumOn(f, 0 .. n) = f[n] + SumOn(f, 0 .. n - 1) /\ SumOn(f, {}) = 0
    BY <2>1, SumNext
  <2>3. n = 0 /\ 0 .. n - 1 = {}
    BY DEF n
  <2> QED
    BY <2>2, <2>3
<1>4. 1 - 1 = 0
  OBVIOUS
<1> QED
  BY <1>2, <1>3, <1>4

LEMMA SumOfFour ==
  ASSUME NEW f, f[0] \in Int, f[1] \in Int, f[2] \in Int, f[3] \in Int
  PROVE  SumOn(f, 0 .. 3) = f[0] + f[1] + f[2] + f[3]
<1>1. \A c \in 0 .. 3 : f[c] \in Int
  <2>1. \A c \in 0 .. 3 : c = 0 \/ c = 1 \/ c = 2 \/ c = 3
    OBVIOUS
  <2> QED
    BY <2>1
<1>2. ASSUME NEW n \in Nat, n <= 3
      PROVE  SumOn(f, 0 .. n - 1) \in Int /\ SumOn(f, 0 .. n) = f[n] + SumOn(f, 0 .. n - 1)
  <2>1. \A c \in 0 .. n : f[c] \in Int
    BY <1>1, <1>2
  <2> QED
    BY <2>1, SumNext
<1>3. SumOn(f, 0 .. 1) = f[0] + f[1]
  BY SumOfTwo
<1>4. SumOn(f, 0 .. 2) = f[2] + SumOn(f, 0 .. 1)
  <2>1. 2 \in Nat /\ 2 <= 3 /\ 2 - 1 = 1
    OBVIOUS
  <2>2. SumOn(f, 0 .. 2) = f[2] + SumOn(f, 0 .. 2 - 1)
    BY <1>2, <2>1
  <2> QED
    BY <2>1, <2>2
<1>5. SumOn(f, 0 .. 3) = f[3] + SumOn(f, 0 .. 2)
  <2>1. 3 \in Nat /\ 3 <= 3 /\ 3 - 1 = 2
    OBVIOUS
  <2>2. SumOn(f, 0 .. 3) = f[3] + SumOn(f, 0 .. 3 - 1)
    BY <1>2, <2>1
  <2> QED
    BY <2>1, <2>2
<1> QED
  BY <1>3, <1>4, <1>5

Composed(b, hi, base, d, p, lo) == b = (hi * base + d) * p + lo

LEMMA DigitOf ==
  ASSUME NEW base \in Nat \ {0}, NEW hi \in Nat, NEW d \in 0 .. base - 1, NEW p \in Nat \ {0},
         NEW lo \in 0 .. p - 1, NEW b, Composed(b, hi, base, d, p, lo)
  PROVE  (b \div p) % base = d
<1> DEFINE x == hi * base + d
<1>1. x \in Int /\ x % base = d
  BY DivMod
<1>2. b = x * p + lo
  BY DEF Composed
<1> HIDE DEF x
<1>3. b \div p = x
  BY <1>1, <1>2, DivMod
<1> QED
  BY <1>1, <1>3

(* The digits of a byte, of 1, 2 or 4 bits.                                *)
Digits(f, d, bits) ==
  \A c \in 0 .. (8 \div bits) - 1 :
    /\ d[c] \in Nat /\ d[c] < 2^bits
    /\ (d[c] = 0 /\ f[c] = 0) \/ f[c] = d[c] * 2^(8 - bits - c * bits)

Shown(b, d, bits) ==
  /\ b \in Byte
  /\ \A c \in 0 .. (8 \div bits) - 1 : (b \div 2^(8 - bits - c * bits)) % 2^bits = d[c]

LEMMA HalfBytes ==
  ASSUME NEW f, NEW d, DOMAIN f = 0 .. 1, Digits(f, d, 4)
  PROVE  Shown(SumFunction(f), d, 4)
<1> DEFINE b == SumFunction(f)
<1>1. 2^4 = 16 /\ 2^0 = 1 /\ 8 \div 4 = 2 /\ 8 - 4 - 0 * 4 = 4 /\ 8 - 4 - 1 * 4 = 0 /\ 2 - 1 = 1
  OBVIOUS
<1>2. 0 \in 0 .. 1 /\ 1 \in 0 .. 1
  OBVIOUS
<1>3. \A c \in 0 .. 1 : /\ d[c] \in Nat /\ d[c] < 16
                        /\ (d[c] = 0 /\ f[c] = 0) \/ f[c] = d[c] * 2^(8 - 4 - c * 4)
  BY <1>1 DEF Digits
<1> DEFINE x == d[0]
           y == d[1]
<1>4. x \in Nat /\ x < 16 /\ y \in Nat /\ y < 16 /\ f[0] = x * 16 /\ f[1] = y
  <2>1. d[0] \in Nat /\ d[0] < 16 /\ ((d[0] = 0 /\ f[0] = 0) \/ f[0] = d[0] * 2^(8 - 4 - 0 * 4))
    BY <1>2, <1>3
  <2>2. d[1] \in Nat /\ d[1] < 16 /\ ((d[1] = 0 /\ f[1] = 0) \/ f[1] = d[1] * 2^(8 - 4 - 1 * 4))
    BY <1>2, <1>3
  <2> QED
    BY <1>1, <2>1, <2>2
<1>5. b = x * 16 + y
  <2>1. b = SumOn(f, 0 .. 1)
    BY SumIs
  <2>2. f[0] \in Int /\ f[1] \in Int
    BY <1>4
  <2> QED
    BY <1>4, <2>1, <2>2, SumOfTwo
<1> HIDE DEF b, x, y
<1>6. b \in Byte
  BY <1>4, <1>5 DEF Byte
<1>7. (b \div 16) % 16 = x /\ (b \div 1) % 16 = y
  BY <1>4, <1>5
<1>8. \A c \in 0 .. 1 : (b \div 2^(8 - 4 - c * 4)) % 2^4 = d[c]
  <2>1. \A c \in 0 .. 1 : c = 0 \/ c = 1
    OBVIOUS
  <2>2. (b \div 2^(8 - 4 - 0 * 4)) % 2^4 = d[0] /\ (b \div 2^(8 - 4 - 1 * 4)) % 2^4 = d[1]
    BY <1>1, <1>7 DEF x, y
  <2> QED
    BY <2>1, <2>2
<1> QED
  BY <1>1, <1>6, <1>8 DEF Shown, b

LEMMA Quarters ==
  ASSUME NEW f, NEW d, DOMAIN f = 0 .. 3, Digits(f, d, 2)
  PROVE  Shown(SumFunction(f), d, 2)
<1> DEFINE b == SumFunction(f)
<1>1. /\ 2^0 = 1 /\ 2^2 = 4 /\ 2^4 = 16 /\ 2^6 = 64 /\ 8 \div 2 = 4 /\ 4 - 1 = 3
      /\ 8 - 2 - 0 * 2 = 6 /\ 8 - 2 - 1 * 2 = 4 /\ 8 - 2 - 2 * 2 = 2 /\ 8 - 2 - 3 * 2 = 0
  OBVIOUS
<1>2. 0 \in 0 .. 3 /\ 1 \in 0 .. 3 /\ 2 \in 0 .. 3 /\ 3 \in 0 .. 3
  OBVIOUS
<1>3. \A c \in 0 .. 3 : /\ d[c] \in Nat /\ d[c] < 4
                        /\ (d[c] = 0 /\ f[c] = 0) \/ f[c] = d[c] * 2^(8 - 2 - c * 2)
  BY <1>1 DEF Digits
<1> DEFINE x == d[0]
           y == d[1]
           z == d[2]
           u == d[3]
<1>4. /\ x \in Nat /\ x < 4 /\ y \in Nat /\ y < 4 /\ z \in Nat /\ z < 4 /\ u \in Nat /\ u < 4
      /\ f[0] = x * 64 /\ f[1] = y * 16 /\ f[2] = z * 4 /\ f[3] = u
  <2>1. d[0] \in Nat /\ d[0] < 4 /\ ((d[0] = 0 /\ f[0] = 0) \/ f[0] = d[0] * 2^(8 - 2 - 0 * 2))
    BY <1>2, <1>3
  <2>2. d[1] \in Nat /\ d[1] < 4 /\ ((d[1] = 0 /\ f[1] = 0) \/ f[1] = d[1] * 2^(8 - 2 - 1 * 2))
    BY <1>2, <1>3
  <2>3. d[2] \in Nat /\ d[2] < 4 /\ ((d[2] = 0 /\ f[2] = 0) \/ f[2] = d[2] * 2^(8 - 2 - 2 * 2))
    BY <1>2, <1>3
  <2>4. d[3] \in Nat /\ d[3] < 4 /\ ((d[3] = 0 /\ f[3] = 0) \/ f[3] = d[3] * 2^(8 - 2 - 3 * 2))
    BY <1>2, <1>3
  <2> QED
    BY <1>1, <2>1, <2>2, <2>3, <2>4
<1>5. b = x * 64 + y * 16 + z * 4 + u
  <2>1. b = SumOn(f, 0 .. 3)
    BY SumIs
  <2>2. f[0] \in Int /\ f[1] \in Int /\ f[2] \in Int /\ f[3] \in Int
    BY <1>4
  <2>3. SumOn(f, 0 .. 3) = f[0] + f[1] + f[2] + f[3]
    BY <2>2, SumOfFour
  <2> HIDE DEF b, x, y, z, u
  <2> QED
    BY <1>4, <2>1, <2>3
<1> HIDE DEF b, x, y, z, u
<1>6. b \in Byte
  BY <1>4, <1>5 DEF Byte
<1>7. (b \div 64) % 4 = x /\ (b \div 16) % 4 = y /\ (b \div 4) % 4 = z /\ (b \div 1) % 4 = u
  BY <1>4, <1>5
<1>8. \A c \in 0 .. 3 : (b \div 2^(8 - 2 - c * 2)) % 2^2 = d[c]
  <2>1. \A c \in 0 .. 3 : c = 0 \/ c = 1 \/ c = 2 \/ c = 3
    OBVIOUS
  <2>2. (b \div 2^(8 - 2 - 0 * 2)) % 2^2 = d[0] /\ (b \div 2^(8 - 2 - 1 * 2)) % 2^2 = d[1]
    BY <1>1, <1>7 DEF x, y
  <2>3. (b \div 2^(8 - 2 - 2 * 2)) % 2^2 = d[2] /\ (b \div 2^(8 - 2 - 3 * 2)) % 2^2 = d[3]
    BY <1>1, <1>7 DEF z, u
  <2> QED
    BY <2>1, <2>2, <2>3
<1> QED
  BY <1>1, <1>6, <1>8 DEF Shown, b

LEMMA Eighths ==
  ASSUME NEW f, NEW d, DOMAIN f = 0 .. 7, Digits(f, d, 1)
  PROVE  Shown(SumFunction(f), d, 1)
<1> DEFINE P == {c \in 0 .. 7 : d[c] = 1}
           g == BitsOf(P)
           b == SumFunction(f)
<1>1. /\ 2^0 = 1 /\ 2^1 = 2 /\ 8 \div 1 = 8 /\ 8 - 1 = 7 /\ \A c \in 0 .. 7 : 8 - 1 - c * 1 = 7 - c
  OBVIOUS
<1>2. \A c \in 0 .. 7 : /\ d[c] \in Nat /\ d[c] < 2
                        /\ (d[c] = 0 /\ f[c] = 0) \/ f[c] = d[c] * 2^(7 - c)
  <2>1. \A c \in 0 .. 7 : /\ d[c] \in Nat /\ d[c] < 2
                          /\ (d[c] = 0 /\ f[c] = 0) \/ f[c] = d[c] * 2^(8 - 1 - c * 1)
    BY <1>1 DEF Digits
  <2> SUFFICES ASSUME NEW c \in 0 .. 7
               PROVE  d[c] \in Nat /\ d[c] < 2 /\ ((d[c] = 0 /\ f[c] = 0) \/ f[c] = d[c] * 2^(7 - c))
    OBVIOUS
  <2>2. 8 - 1 - c * 1 = 7 - c
    BY <1>1
  <2> QED
    BY <2>1, <2>2
<1>3. \A c \in 0 .. 7 : 2^(7 - c) \in Nat
  <2>1. \A c \in 0 .. 7 : c = 0 \/ c = 1 \/ c = 2 \/ c = 3 \/ c = 4 \/ c = 5 \/ c = 6 \/ c = 7
    OBVIOUS
  <2>2. /\ 7 - 0 = 7 /\ 7 - 1 = 6 /\ 7 - 2 = 5 /\ 7 - 3 = 4 /\ 7 - 4 = 3 /\ 7 - 5 = 2 /\ 7 - 6 = 1 /\ 7 - 7 = 0
    OBVIOUS
  <2>3. 2^0 = 1 /\ 2^1 = 2 /\ 2^2 = 4 /\ 2^3 = 8 /\ 2^4 = 16 /\ 2^5 = 32 /\ 2^6 = 64 /\ 2^7 = 128
    OBVIOUS
  <2>4. /\ 2^(7 - 0) \in Nat /\ 2^(7 - 1) \in Nat /\ 2^(7 - 2) \in Nat /\ 2^(7 - 3) \in Nat
        /\ 2^(7 - 4) \in Nat /\ 2^(7 - 5) \in Nat /\ 2^(7 - 6) \in Nat /\ 2^(7 - 7) \in Nat
    BY <2>2, <2>3
  <2> QED
    BY <2>1, <2>4, Zenon
<1>4. \A c \in 0 .. 7 : f[c] \in Int /\ f[c] = g[c]
  <2> SUFFICES ASSUME NEW c \in 0 .. 7 PROVE f[c] \in Int /\ f[c] = g[c]
    OBVIOUS
  <2> DEFINE p == 2^(7 - c)
  <2>1. p \in Nat
    BY <1>3
  <2>2. d[c] = 0 \/ d[c] = 1
    BY <1>2
  <2>3. g[c] = IF d[c] = 1 THEN p ELSE 0
    BY DEF BitsOf
  <2>4. (d[c] = 0 /\ f[c] = 0) \/ f[c] = d[c] * p
    BY <1>2
  <2> HIDE DEF p, g
  <2>5. CASE d[c] = 0
    BY <2>1, <2>3, <2>4, <2>5
  <2>6. CASE d[c] = 1
    BY <2>1, <2>3, <2>4, <2>6
  <2> QED
    BY <2>2, <2>5, <2>6
<1>5. b = SumFunction(g)
  <2>1. DOMAIN g = 0 .. 7
    BY DEF BitsOf
  <2> HIDE DEF g
  <2>2. IsFiniteSet(0 .. 7)
    <3> DEFINE n == 7
    <3>1. n \in Int
      OBVIOUS
    <3> HIDE DEF n
    <3>2. IsFiniteSet(0 .. n)
      BY <3>1, FS_Interval
    <3> QED
      BY <3>2 DEF n
  <2>3. SumOn(f, 0 .. 7) = SumOn(g, 0 .. 7)
    <3> DEFINE S == 0 .. 7
    <3>1. IsFiniteSet(S) /\ \A x \in S : f[x] \in Int /\ f[x] = g[x]
      BY <1>4, <2>2
    <3> HIDE DEF S
    <3>2. SumOn(f, S) = SumOn(g, S)
      BY <3>1, SumAgree
    <3> QED
      BY <3>2 DEF S
  <2> QED
    BY <2>1, <2>3, SumIs
<1>6. b \in 0 .. 255 /\ \A c \in 0 .. 7 : (b \div 2^(7 - c)) % 2 = IF c \in P THEN 1 ELSE 0
  <2> HIDE DEF b
  <2>1. /\ SumFunction(g) \in 0 .. 255
        /\ \A c \in 0 .. 7 : (SumFunction(g) \div 2^(7 - c)) % 2 = IF c \in P THEN 1 ELSE 0
    <3> HIDE DEF P
    <3> QED
      BY EightBits
  <2> QED
    BY <1>5, <2>1
<1> HIDE DEF b, g
<1>7. \A c \in 0 .. 7 : (b \div 2^(8 - 1 - c * 1)) % 2^1 = d[c]
  <2> SUFFICES ASSUME NEW c \in 0 .. 7 PROVE (b \div 2^(8 - 1 - c * 1)) % 2^1 = d[c]
    OBVIOUS
  <2>1. 8 - 1 - c * 1 = 7 - c /\ 2^1 = 2
    BY <1>1
  <2>2. d[c] = IF c \in P THEN 1 ELSE 0
    BY <1>2
  <2> HIDE DEF P
  <2> QED
    BY <1>6, <2>1, <2>2
<1> QED
  BY <1>1, <1>6, <1>7 DEF Shown, b, Byte

----------------------------------------------------------------------------
(* Lines of bytes.                                                         *)

(* Sequences of one length after each other.                               *)
LEMMA FlatUniform ==
  ASSUME NEW S, NEW seqs \in Seq(Seq(S)), NEW m \in Nat, \A k \in 1 .. Len(seqs) : Len(seqs[k]) = m
  PROVE  /\ FlattenSeq(seqs) \in Seq(S) /\ Len(FlattenSeq(seqs)) = Len(seqs) * m
         /\ \A k \in 1 .. Len(seqs), j \in 1 .. m :
              /\ (k - 1) * m + j \in 1 .. Len(seqs) * m
              /\ FlattenSeq(seqs)[(k - 1) * m + j] = seqs[k][j]
<1> DEFINE n == Len(seqs)
<1>1. n \in Nat /\ \A k \in 1 .. n : seqs[k] \in Seq(S) /\ Len(seqs[k]) = m
  BY LenProperties, ElementOfSeq
<1>2. PICK g \in [0 .. n -> Seq(S)] :
        g[0] = <<>> /\ (\A k \in 1 .. n : g[k] = g[k - 1] \o seqs[k]) /\ FlattenSeq(seqs) = g[n]
  BY FlatChain
<1> DEFINE t == g[n]
<1>3. t \in Seq(S)
  BY <1>1, <1>2
<1>4. \A k \in 1 .. n : Holds(t, 1 + Len(g[k - 1]), seqs[k])
  <2>1. Holds(t, 1, g[Len(seqs)])
    BY <1>3, HoldsItself
  <2>2. g \in [0 .. Len(seqs) -> Seq(S)] /\ g[0] = <<>> /\ \A k \in 1 .. Len(seqs) : g[k] = g[k - 1] \o seqs[k]
    BY <1>2
  <2> DEFINE one == 1
  <2>3. one \in Nat \ {0} /\ Holds(t, one, g[Len(seqs)])
    BY <2>1
  <2> HIDE DEF one, t
  <2>4. \A k \in 1 .. Len(seqs) :
           /\ Len(g[k - 1]) \in Nat /\ Len(g[k]) \in Nat /\ Len(seqs[k]) \in Nat
           /\ Holds(t, one + Len(g[k - 1]), seqs[k])
    BY <1>3, <2>2, <2>3, FlatHolds
  <2> QED
    BY <2>4 DEF one
<1> HIDE DEF n, t
<1> DEFINE T == {k \in Nat : k <= n => Len(g[k]) = k * m}
<1>5. 0 \in T
  BY <1>2
<1>6. ASSUME NEW k \in 1 .. n, k - 1 \in T PROVE k \in T
  <2> DEFINE a == g[k - 1]
             b == seqs[k]
  <2>0. k - 1 \in 0 .. n /\ k \in Nat /\ k - 1 <= n
    BY <1>1
  <2>1. a \in Seq(S) /\ b \in Seq(S) /\ g[k] = a \o b
    BY <1>1, <1>2, <2>0
  <2>2. Len(a) = (k - 1) * m /\ Len(b) = m
    BY <1>1, <1>6, <2>0
  <2> HIDE DEF a, b
  <2>3. Len(g[k]) = Len(a) + Len(b)
    BY <2>1, ConcatProperties
  <2>4. k * m = (k - 1) * m + m
    BY <2>0
  <2> QED
    BY <2>0, <2>2, <2>3, <2>4
<1>7. \A k \in 0 .. n : k \in T
  <2> HIDE DEF T
  <2> QED
    BY <1>1, <1>5, <1>6, Climb
<1>8. \A k \in 0 .. n : Len(g[k]) = k * m
  BY <1>1, <1>7
<1>9. ASSUME NEW k \in 1 .. n, NEW j \in 1 .. m
      PROVE  (k - 1) * m + j \in 1 .. n * m /\ t[(k - 1) * m + j] = seqs[k][j]
  <2> DEFINE x == (k - 1) * m
             y == k * m
             z == n * m
  <2>1. x \in Nat /\ y = x + m /\ y <= z /\ z \in Nat
    <3>1. k * m <= n * m
      BY <1>1, TimesUp
    <3> QED
      BY <1>1, <3>1
  <2>2. k - 1 \in 0 .. n
    BY <1>1
  <2>3. Len(g[k - 1]) = x
    BY <1>8, <2>2
  <2> HIDE DEF x, y, z
  <2>4. Holds(t, 1 + x, seqs[k])
    BY <1>4, <2>3
  <2>5. t[(1 + x) + j - 1] = seqs[k][j]
    BY <1>1, <2>4 DEF Holds
  <2>6. (1 + x) + j - 1 = x + j /\ x + j \in 1 .. z
    BY <2>1
  <2> QED
    BY <2>5, <2>6 DEF x, z
<1>10. Len(t) = n * m
  BY <1>1, <1>8 DEF t
<1> QED
  BY <1>2, <1>3, <1>9, <1>10 DEF n, t

(* Indices of 1, 2 or 4 bits: which byte of a line, and where in it.       *)
LEMMA PackGeometry ==
  ASSUME NEW bits \in {1, 2, 4}, NEW w \in Nat \ {0}, NEW col \in 0 .. w - 1
  PROVE  LET per == 8 \div bits IN
         /\ per \in Nat \ {0} /\ DivCeil(w * bits, 8) = DivCeil(w, per) /\ DivCeil(w, per) \in Nat
         /\ col \div per \in 0 .. DivCeil(w, per) - 1 /\ col % per \in 0 .. per - 1
         /\ (col * bits) \div 8 = col \div per /\ (col * bits) % 8 = (col % per) * bits
         /\ (col \div per) * per + (col % per) = col
<1>1. CASE bits = 1
  <2>1. 8 \div bits = 8 /\ col * bits = col /\ w * bits = w /\ (col % 8) * bits = col % 8
    BY <1>1
  <2>2. /\ DivCeil(w, 8) \in Nat /\ col \div 8 \in 0 .. DivCeil(w, 8) - 1 /\ col % 8 \in 0 .. 8 - 1
        /\ (col \div 8) * 8 + (col % 8) = col
    BY DEF DivCeil
  <2> QED
    BY <2>1, <2>2
<1>2. CASE bits = 2
  <2>1. 8 \div bits = 4 /\ col * bits = 2 * col /\ w * bits = 2 * w /\ (col % 4) * bits = 2 * (col % 4)
    BY <1>2
  <2>2. /\ DivCeil(w, 4) \in Nat /\ col \div 4 \in 0 .. DivCeil(w, 4) - 1 /\ col % 4 \in 0 .. 4 - 1
        /\ (col \div 4) * 4 + (col % 4) = col
    BY DEF DivCeil
  <2>3. DivCeil(2 * w, 8) = DivCeil(w, 4)
    BY DEF DivCeil
  <2>4. (2 * col) \div 8 = col \div 4 /\ (2 * col) % 8 = 2 * (col % 4)
    OBVIOUS
  <2> QED
    BY <2>1, <2>2, <2>3, <2>4
<1>3. CASE bits = 4
  <2>1. 8 \div bits = 2 /\ col * bits = 4 * col /\ w * bits = 4 * w /\ (col % 2) * bits = 4 * (col % 2)
    BY <1>3
  <2>2. /\ DivCeil(w, 2) \in Nat /\ col \div 2 \in 0 .. DivCeil(w, 2) - 1 /\ col % 2 \in 0 .. 2 - 1
        /\ (col \div 2) * 2 + (col % 2) = col
    BY DEF DivCeil
  <2>3. DivCeil(4 * w, 8) = DivCeil(w, 2)
    BY DEF DivCeil
  <2>4. (4 * col) \div 8 = col \div 2 /\ (4 * col) % 8 = 4 * (col % 2)
    OBVIOUS
  <2> QED
    BY <2>1, <2>2, <2>3, <2>4
<1> QED
  BY <1>1, <1>2, <1>3

LEMMA DigitsBack ==
  ASSUME NEW bits \in {1, 2, 4}, NEW f, NEW d, DOMAIN f = 0 .. (8 \div bits) - 1, Digits(f, d, bits)
  PROVE  Shown(SumFunction(f), d, bits)
<1>1. 8 \div 1 = 8 /\ 8 - 1 = 7 /\ 8 \div 2 = 4 /\ 4 - 1 = 3 /\ 8 \div 4 = 2 /\ 2 - 1 = 1
  OBVIOUS
<1>2. CASE bits = 1
  BY <1>1, <1>2, Eighths
<1>3. CASE bits = 2
  BY <1>1, <1>3, Quarters
<1>4. CASE bits = 4
  BY <1>1, <1>4, HalfBytes
<1> QED
  BY <1>2, <1>3, <1>4

LEMMA BitsAre ==
  ASSUME NEW n \in Nat, n >= 2, n <= 16
  PROVE  Bits(n) \in {1, 2, 4} /\ \A x \in 0 .. n - 1 : x < 2^Bits(n)
<1>1. CASE n = 2
  <2>1. Bits(n) = 1
    BY <1>1 DEF Bits
  <2>2. 2^Bits(n) = 2
    BY <2>1
  <2> QED
    BY <1>1, <2>1, <2>2
<1>2. CASE n = 3 \/ n = 4
  <2>1. Bits(n) = 2
    BY <1>2 DEF Bits
  <2>2. 2^Bits(n) = 4
    BY <2>1
  <2> DEFINE p == 2^Bits(n)
  <2>3. p = 4
    BY <2>2
  <2> HIDE DEF p
  <2>4. \A x \in 0 .. n - 1 : x < p
    BY <1>2, <2>3
  <2> QED
    BY <2>1, <2>4 DEF p
<1>3. CASE n > 4
  <2>1. Bits(n) = 4
    BY <1>3 DEF Bits
  <2>2. 2^Bits(n) = 16
    BY <2>1
  <2> DEFINE p == 2^Bits(n)
  <2>3. p = 16
    BY <2>2
  <2> HIDE DEF p
  <2>4. \A x \in 0 .. n - 1 : x < p
    BY <2>3
  <2> QED
    BY <2>1, <2>4 DEF p
<1> QED
  BY <1>1, <1>2, <1>3

----------------------------------------------------------------------------
(* Packed lines.                                                           *)

(* A byte of a packed line, and the line.                                  *)
Kept(pal, px, w, per, row, kk) ==
  [c \in 0 .. per - 1 |-> IF kk * per + c >= w THEN 0
                          ELSE Place(pal, px[row * w + kk * per + c + 1])]
Part(pal, px, w, bits, per, row, kk) ==
  [c \in 0 .. per - 1 |-> IF kk * per + c >= w THEN 0
                          ELSE Place(pal, px[row * w + kk * per + c + 1]) * 2^(8 - bits - c * bits)]
PackedByte(pal, px, w, bits, per, row, kk) == SumFunction(Part(pal, px, w, bits, per, row, kk))
PackedLine(pal, px, w, bits, per, row) ==
  [k \in 1 .. DivCeil(w, per) |-> PackedByte(pal, px, w, bits, per, row, k - 1)]
PackedLines(pal, px, w, h, bits, per) == [row \in 1..h |-> PackedLine(pal, px, w, bits, per, row - 1)]

LEMMA PackedByteIs ==
  ASSUME NEW f, NEW px, NEW w, NEW h, Given(f, px, w, h),
         Palette(px, w, h) # <<>>, Len(Palette(px, w, h)) >= 2, Len(Palette(px, w, h)) <= 16,
         NEW row \in 0 .. h - 1, NEW kk \in 0 .. DivCeil(w, 8 \div Bits(Len(Palette(px, w, h)))) - 1
  PROVE  LET pal == Palette(px, w, h)
             bits == Bits(Len(pal))
             per == 8 \div bits
         IN  /\ PackedByte(pal, px, w, bits, per, row, kk) \in Byte
             /\ \A c \in 0 .. per - 1 : kk * per + c < w =>
                  (PackedByte(pal, px, w, bits, per, row, kk) \div 2^(8 - bits - c * bits)) % 2^bits
                     = Place(pal, px[row * w + kk * per + c + 1])
<1> DEFINE pal == Palette(px, w, h)
           np == Len(pal)
           bits == Bits(np)
           per == 8 \div bits
           d == Kept(pal, px, w, per, row, kk)
           g == Part(pal, px, w, bits, per, row, kk)
           b == PackedByte(pal, px, w, bits, per, row, kk)
           p(c) == Place(pal, px[row * w + kk * per + c + 1])
<1>1. w \in Nat \ {0} /\ h \in Nat \ {0}
  BY DEF Given
<1>2. pal \in Seq(Rgb) /\ np \in Nat /\ np <= 127 /\ np >= 2 /\ np <= 16
      /\ \A k \in 1 .. w * h : px[k] \in Elems(pal)
  BY PaletteHas
<1> HIDE DEF pal, np
<1>3. bits \in {1, 2, 4} /\ \A x \in 0 .. np - 1 : x < 2^bits
  BY <1>2, BitsAre
<1> HIDE DEF bits
<1>4. per \in Nat \ {0} /\ kk \in Nat
  <2>1. per \in Nat \ {0}
    BY <1>3
  <2>2. kk \in 0 .. DivCeil(w, per) - 1
    BY DEF per, bits, np, pal
  <2> QED
    BY <2>1, <2>2
<1> HIDE DEF per
<1>5. ASSUME NEW c \in 0 .. per - 1, kk * per + c < w
      PROVE  p(c) \in 0 .. np - 1 /\ p(c) < 2^bits
  <2> DEFINE x == kk * per
             y == row * w
             z == y + x + c + 1
  <2>1. x \in Nat /\ y \in Nat
    BY <1>1, <1>4
  <2>2. z \in 1 .. w * h
    <3> DEFINE n == w * h
    <3>1. y + w <= n /\ n \in Nat
      <4>1. (row + 1) * w <= h * w
        BY <1>1, TimesUp
      <4>2. (row + 1) * w = y + w /\ h * w = n /\ n \in Nat
        BY <1>1
      <4> QED
        BY <4>1, <4>2
    <3>2. x + c < w
      BY <1>5
    <3>3. c \in Nat
      BY <1>4
    <3>4. z = y + x + c + 1 /\ w * h = n
      OBVIOUS
    <3> HIDE DEF x, y, n, z
    <3>5. z \in Nat /\ 1 <= z /\ z <= n
      <4>1. w \in Nat
        BY <1>1
      <4> QED
        BY ONLY <4>1, <2>1, <3>1, <3>2, <3>3, <3>4, SMT
    <3> QED
      BY <3>1, <3>4, <3>5
  <2>3. px[z] \in Elems(pal)
    BY <1>2, <2>2
  <2>4. p(c) = Place(pal, px[z])
    OBVIOUS
  <2> HIDE DEF z
  <2>5. Place(pal, px[z]) \in 0 .. np - 1
    BY <1>2, <2>3, PlaceIs DEF np
  <2> QED
    BY <1>3, <2>4, <2>5
<1>6. Digits(g, d, bits)
  <2> SUFFICES ASSUME NEW c \in 0 .. per - 1
               PROVE  /\ d[c] \in Nat /\ d[c] < 2^bits
                      /\ (d[c] = 0 /\ g[c] = 0) \/ g[c] = d[c] * 2^(8 - bits - c * bits)
    BY DEF Digits, per
  <2>1. d[c] = IF kk * per + c >= w THEN 0 ELSE p(c)
    BY DEF Kept
  <2>2. g[c] = IF kk * per + c >= w THEN 0 ELSE p(c) * 2^(8 - bits - c * bits)
    BY DEF Part
  <2>3. CASE kk * per + c >= w
    <3>1. 0 < 2^bits
      <4>1. 0 \in 0 .. np - 1
        BY <1>2
      <4> QED
        BY <1>3, <4>1
    <3> QED
      BY <2>1, <2>2, <2>3, <3>1
  <2>4. CASE ~(kk * per + c >= w)
    <3>1. kk * per + c < w
      BY <1>1, <1>4, <2>4
    <3>2. p(c) \in 0 .. np - 1 /\ p(c) < 2^bits
      BY <1>5, <3>1
    <3>3. p(c) \in Nat
      BY <1>2, <3>2
    <3> HIDE DEF d, g, p
    <3> QED
      BY <2>1, <2>2, <2>4, <3>2, <3>3
  <2> QED
    BY <2>3, <2>4
<1>7. DOMAIN g = 0 .. (8 \div bits) - 1 /\ b = SumFunction(g)
  BY DEF Part, per, PackedByte
<1> HIDE DEF g, b
<1>8. b \in Byte /\ \A c \in 0 .. per - 1 : (b \div 2^(8 - bits - c * bits)) % 2^bits = d[c]
  <2>1. Shown(SumFunction(g), d, bits)
    <3> HIDE DEF d
    <3> QED
      BY <1>3, <1>6, <1>7, DigitsBack
  <2> QED
    BY <1>7, <2>1 DEF Shown, per
<1>9. ASSUME NEW c \in 0 .. per - 1, kk * per + c < w
      PROVE  (b \div 2^(8 - bits - c * bits)) % 2^bits = p(c)
  <2>1. ~(kk * per + c >= w)
    BY <1>1, <1>4, <1>9
  <2>2. d[c] = p(c)
    BY <2>1 DEF Kept
  <2> QED
    BY <1>8, <2>2
<1> QED
  BY <1>8, <1>9 DEF b, bits, per, np, pal

----------------------------------------------------------------------------
(* Packed tiles.                                                           *)

(* What the reader takes for the index of the pixel k.                     *)
IndexAt(b, i, w, bits, stride, k) ==
  (b[i + (k \div w) * stride + (((k % w) * bits) \div 8)]
     \div 2^(8 - bits - (((k % w) * bits) % 8))) % 2^bits

(* The bytes of all the lines, and each where the reader looks for it.     *)
LEMMA PackedLinesAre ==
  ASSUME NEW f, NEW px, NEW w, NEW h, Given(f, px, w, h),
         Palette(px, w, h) # <<>>, Len(Palette(px, w, h)) >= 2, Len(Palette(px, w, h)) <= 16
  PROVE  LET pal == Palette(px, w, h)
             bits == Bits(Len(pal))
             per == 8 \div bits
             m == DivCeil(w, per)
             t == FlattenSeq(PackedLines(pal, px, w, h, bits, per))
         IN  /\ t \in Seq(Byte) /\ Len(t) = h * m /\ m \in Nat
             /\ \A row \in 0 .. h - 1, kk \in 0 .. m - 1 :
                  /\ row * m + kk + 1 \in 1 .. h * m
                  /\ t[row * m + kk + 1] = PackedByte(pal, px, w, bits, per, row, kk)
<1> DEFINE pal == Palette(px, w, h)
           np == Len(pal)
           bits == Bits(np)
           per == 8 \div bits
           m == DivCeil(w, per)
           q == PackedLines(pal, px, w, h, bits, per)
           t == FlattenSeq(q)
           byte(row, kk) == PackedByte(pal, px, w, bits, per, row, kk)
<1>1. w \in Nat \ {0} /\ h \in Nat \ {0}
  BY DEF Given
<1>2. np \in Nat /\ np >= 2 /\ np <= 16
  BY PaletteHas
<1>3. m \in Nat
  <2>1. bits \in {1, 2, 4}
    BY <1>2, BitsAre
  <2>2. 0 \in 0 .. w - 1
    BY <1>1
  <2> HIDE DEF bits
  <2> QED
    BY <1>1, <2>1, <2>2, PackGeometry
<1>4. \A row \in 0 .. h - 1, kk \in 0 .. m - 1 : byte(row, kk) \in Byte
  BY PackedByteIs
<1> HIDE DEF byte
<1>5. q = [row \in 1 .. h |-> [k \in 1 .. m |-> byte(row - 1, k - 1)]]
  BY DEF PackedLines, PackedLine, byte
<1> HIDE DEF q, m
<1>6. \A row \in 1 .. h : q[row] \in [1 .. m -> Byte] /\ \A k \in 1 .. m : q[row][k] = byte(row - 1, k - 1)
  <2> SUFFICES ASSUME NEW row \in 1 .. h
               PROVE  q[row] \in [1 .. m -> Byte] /\ \A k \in 1 .. m : q[row][k] = byte(row - 1, k - 1)
    OBVIOUS
  <2>1. row - 1 \in 0 .. h - 1 /\ \A k \in 1 .. m : k - 1 \in 0 .. m - 1
    BY <1>1, <1>3
  <2>2. q[row] = [k \in 1 .. m |-> byte(row - 1, k - 1)]
    BY <1>5
  <2> QED
    BY <1>4, <2>1, <2>2
<1>7. \A row \in 1 .. h : q[row] \in Seq(Byte) /\ Len(q[row]) = m
  BY <1>3, <1>6, AsSeq
<1>8. q \in Seq(Seq(Byte)) /\ Len(q) = h
  <2>1. q \in [1 .. h -> Seq(Byte)]
    BY <1>5, <1>7
  <2> QED
    BY <1>1, <2>1, AsSeq
<1>9. /\ t \in Seq(Byte) /\ Len(t) = Len(q) * m
      /\ \A k \in 1 .. Len(q), j \in 1 .. m : (k - 1) * m + j \in 1 .. Len(q) * m /\ t[(k - 1) * m + j] = q[k][j]
  BY <1>3, <1>7, <1>8, FlatUniform
<1> HIDE DEF t
<1>10. ASSUME NEW row \in 0 .. h - 1, NEW kk \in 0 .. m - 1
       PROVE  row * m + kk + 1 \in 1 .. h * m /\ t[row * m + kk + 1] = byte(row, kk)
  <2> DEFINE x == row + 1
             y == kk + 1
  <2>1. x \in 1 .. h /\ y \in 1 .. m /\ x - 1 = row /\ y - 1 = kk
    BY <1>1, <1>3
  <2> HIDE DEF x, y
  <2>2. (x - 1) * m + y \in 1 .. h * m /\ t[(x - 1) * m + y] = q[x][y] /\ q[x][y] = byte(x - 1, y - 1)
    BY <1>6, <1>8, <1>9, <2>1
  <2>3. (x - 1) * m + y = row * m + kk + 1
    BY <1>3, <2>1 DEF y
  <2> QED
    BY <2>1, <2>2, <2>3
<1> QED
  BY <1>3, <1>8, <1>9, <1>10 DEF byte, m, q, t

LEMMA PackedRead ==
  ASSUME NEW f, NEW px, NEW w, NEW h, Given(f, px, w, h),
         Palette(px, w, h) # <<>>, Len(Palette(px, w, h)) >= 2, Len(Palette(px, w, h)) <= 16,
         NEW t, t = FlattenSeq(PackedLines(Palette(px, w, h), px, w, h, Bits(Len(Palette(px, w, h))),
                                           8 \div Bits(Len(Palette(px, w, h))))),
         NEW b \in Seq(Byte), NEW i \in Nat \ {0}, Holds(b, i, t)
  PROVE  Packed(b, i, Palette(px, w, h), w, h) = [ok |-> TRUE, px |-> px, next |-> i + Len(t)]
<1> DEFINE pal == Palette(px, w, h)
           np == Len(pal)
           bits == Bits(np)
           per == 8 \div bits
           m == DivCeil(w, per)
           n == w * h
<1>1. w \in Nat \ {0} /\ h \in Nat \ {0} /\ px \in [1 .. n -> Rgb] /\ n \in Nat \ {0}
  BY Area DEF Given
<1>2. pal \in Seq(Rgb) /\ np \in Nat /\ np <= 127 /\ np >= 2 /\ np <= 16
      /\ \A k \in 1 .. n : px[k] \in Elems(pal)
  BY PaletteHas
<1>3. /\ t \in Seq(Byte) /\ Len(t) = h * m /\ m \in Nat
      /\ \A row \in 0 .. h - 1, kk \in 0 .. m - 1 :
           /\ row * m + kk + 1 \in 1 .. h * m
           /\ t[row * m + kk + 1] = PackedByte(pal, px, w, bits, per, row, kk)
  BY PackedLinesAre
<1>4. bits \in {1, 2, 4}
  <2> HIDE DEF np
  <2> QED
    BY <1>2, BitsAre
<1>5. \A row \in 0 .. h - 1, kk \in 0 .. m - 1 : \A c \in 0 .. per - 1 : kk * per + c < w =>
        (PackedByte(pal, px, w, bits, per, row, kk) \div 2^(8 - bits - c * bits)) % 2^bits
           = Place(pal, px[row * w + kk * per + c + 1])
  BY PackedByteIs
<1>6. ASSUME NEW k \in 0 .. n - 1
      PROVE  IndexAt(b, i, w, bits, m, k) = Place(pal, px[k + 1])
  <2> DEFINE row == k \div w
             col == k % w
             kk == col \div per
             c == col % per
  <2>1. row \in 0 .. h - 1 /\ col \in 0 .. w - 1 /\ k = row * w + col
    <3>1. h \in Nat /\ k \in 0 .. w * h - 1
      BY <1>1
    <3> QED
      BY <1>1, <3>1, RowCol
  <2> HIDE DEF row, col, bits
  <2>2. /\ per \in Nat \ {0} /\ kk \in 0 .. m - 1 /\ c \in 0 .. per - 1
        /\ (col * bits) \div 8 = kk /\ (col * bits) % 8 = c * bits /\ kk * per + c = col
    BY <1>1, <1>4, <2>1, PackGeometry
  <2> DEFINE B == PackedByte(pal, px, w, bits, per, row, kk)
  <2>3. IndexAt(b, i, w, bits, m, k) = (b[i + row * m + kk] \div 2^(8 - bits - c * bits)) % 2^bits
    <3> HIDE DEF kk, c, m, per
    <3> QED
      BY <2>2, Zenon DEF IndexAt, row, col
  <2> HIDE DEF kk, c, m, per
  <2>4. b[i + row * m + kk] = B
    <3> DEFINE a == row * m
               j == a + kk + 1
    <3>1. a \in Nat /\ kk \in Nat
      BY <1>1, <1>3, <2>1, <2>2
    <3>2. j \in 1 .. h * m /\ t[j] = B
      BY <1>3, <2>1, <2>2
    <3>3. i + j - 1 = i + row * m + kk
      BY <3>1
    <3> HIDE DEF j
    <3>4. j \in 1 .. Len(t)
      BY <1>3, <3>2
    <3>5. b[i + j - 1] = t[j]
      BY <3>4 DEF Holds
    <3> QED
      BY <3>2, <3>3, <3>5
  <2>5. (B \div 2^(8 - bits - c * bits)) % 2^bits = Place(pal, px[row * w + kk * per + c + 1])
    <3>1. kk * per + c < w
      BY <1>1, <2>1, <2>2
    <3> QED
      BY <1>5, <2>1, <2>2, <3>1
  <2>6. row * w + kk * per + c + 1 = k + 1
    <3> DEFINE a == row * w
               e == kk * per
    <3>1. a \in Nat /\ e \in Nat /\ c \in Nat /\ k = a + col /\ e + c = col
      BY <1>1, <2>1, <2>2
    <3> HIDE DEF a, e
    <3>2. a + e + c + 1 = k + 1
      BY <3>1
    <3> QED
      BY <3>2 DEF a, e
  <2> QED
    BY <2>3, <2>4, <2>5, <2>6
<1>7. \A k \in 0 .. n - 1 : Place(pal, px[k + 1]) \in 0 .. np - 1 /\ pal[Place(pal, px[k + 1]) + 1] = px[k + 1]
  <2> SUFFICES ASSUME NEW k \in 0 .. n - 1
               PROVE  Place(pal, px[k + 1]) \in 0 .. np - 1 /\ pal[Place(pal, px[k + 1]) + 1] = px[k + 1]
    OBVIOUS
  <2>1. k + 1 \in 1 .. n
    BY <1>1
  <2>2. px[k + 1] \in Elems(pal)
    BY <1>2, <2>1
  <2> QED
    BY <1>2, <2>2, PlaceIs
<1>8. Has(b, i, m * h) /\ m * h = Len(t)
  <2> DEFINE a == m * h
  <2>1. a = Len(t)
    BY <1>1, <1>3
  <2> HIDE DEF a
  <2> QED
    BY <2>1 DEF Holds, Has, a
<1>9. bits = CASE np = 2 -> 1 [] np \in 3..4 -> 2 [] OTHER -> 4
  <2> HIDE DEF np
  <2> QED
    BY <1>2 DEF Bits
<1>10. DivCeil(w * bits, 8) = m
  <2>1. 0 \in 0 .. w - 1
    BY <1>1
  <2> HIDE DEF bits
  <2> QED
    BY <1>1, <1>4, <2>1, PackGeometry
<1>11. Packed(b, i, pal, w, h) =
         IF ~Has(b, i, m * h) \/ \E k \in 0 .. n - 1 : IndexAt(b, i, w, bits, m, k) >= np THEN Refused
         ELSE [ok |-> TRUE, px |-> [k \in 1 .. n |-> pal[IndexAt(b, i, w, bits, m, k - 1) + 1]], next |-> i + m * h]
  <2> DEFINE bb == CASE Len(pal) = 2 -> 1 [] Len(pal) \in 3..4 -> 2 [] OTHER -> 4
             mm == DivCeil(w * bb, 8)
  <2>1. bb = bits /\ mm = m
    BY <1>9, <1>10
  <2>2. Packed(b, i, pal, w, h) =
          IF ~Has(b, i, mm * h) \/ \E k \in 0 .. n - 1 : IndexAt(b, i, w, bb, mm, k) >= np THEN Refused
          ELSE [ok |-> TRUE, px |-> [k \in 1 .. n |-> pal[IndexAt(b, i, w, bb, mm, k - 1) + 1]], next |-> i + mm * h]
    BY Zenon DEF Packed, IndexAt
  <2> HIDE DEF bb, mm, bits, m, n, np, pal
  <2> QED
    BY <2>1, <2>2
<1> HIDE DEF pal, bits, m, n, np
<1>12. ~ \E k \in 0 .. n - 1 : IndexAt(b, i, w, bits, m, k) >= np
  BY <1>2, <1>6, <1>7, SMTT(60)
<1>13. [k \in 1 .. n |-> pal[IndexAt(b, i, w, bits, m, k - 1) + 1]] = px
  <2>1. ASSUME NEW k \in 1 .. n
        PROVE  pal[IndexAt(b, i, w, bits, m, k - 1) + 1] = px[k]
    <3> DEFINE j == k - 1
    <3>1. j \in 0 .. n - 1 /\ j + 1 = k
      BY <1>1
    <3> HIDE DEF j
    <3>2. IndexAt(b, i, w, bits, m, j) = Place(pal, px[j + 1]) /\ pal[Place(pal, px[j + 1]) + 1] = px[j + 1]
      BY <1>6, <1>7, <3>1
    <3>3. pal[IndexAt(b, i, w, bits, m, j) + 1] = px[k]
      BY <3>1, <3>2
    <3> QED
      BY <3>3 DEF j
  <2> QED
    BY <1>1, <2>1
<1>14. Packed(b, i, pal, w, h) = [ok |-> TRUE, px |-> px, next |-> i + m * h]
  BY <1>8, <1>11, <1>12, <1>13
<1> QED
  BY <1>8, <1>14 DEF pal

----------------------------------------------------------------------------
(* Packed tiles, come back.                                                *)

LEMMA PackedForm ==
  ASSUME NEW f, NEW px, NEW w, NEW h, Given(f, px, w, h),
         Palette(px, w, h) # <<>>, Len(Palette(px, w, h)) >= 2, Len(Palette(px, w, h)) <= 16
  PROVE  LET s == Written("packed", f, px, w, h)
         IN  Back(s, f, px, w, h) /\ Len(s) = 1 + Cost(px, w, h).packed /\ Cost(px, w, h).packed \in Nat
<1> DEFINE pal == Palette(px, w, h)
           np == Len(pal)
           bits == Bits(np)
           per == 8 \div bits
           m == DivCeil(w, per)
           t == FlattenSeq(PackedLines(pal, px, w, h, bits, per))
           s == Written("packed", f, px, w, h)
           n == w * h
<1>1. w \in Nat \ {0} /\ h \in Nat \ {0} /\ f \in PixFmts /\ HasCpixel(f)
  BY DEF Given
<1>2. pal \in Seq(Rgb) /\ np \in Nat /\ np <= 127 /\ np >= 2 /\ np <= 16
  BY PaletteHas
<1>3. t \in Seq(Byte) /\ Len(t) = h * m /\ m \in Nat
  BY PackedLinesAre
<1>4. DivCeil(w * bits, 8) = m
  <2>1. bits \in {1, 2, 4}
    <3> HIDE DEF np
    <3> QED
      BY <1>2, BitsAre
  <2>2. 0 \in 0 .. w - 1
    BY <1>1
  <2> HIDE DEF bits
  <2> QED
    BY <1>1, <2>1, <2>2, PackGeometry
<1>5. s = Headed(f, np, pal, t)
  BY DEF Written, Headed, PackedLines, PackedLine, PackedByte, Part, Place
<1>6. Cost(px, w, h).packed = 3 * np + h * m
  <2>1. np \in 2 .. 16
    <3> HIDE DEF np
    <3> QED
      BY <1>2
  <2>2. Cost(px, w, h).packed = 3 * np + h * DivCeil(w * bits, 8)
    BY <2>1 DEF Cost
  <2> QED
    BY <1>4, <2>2
<1>7. np \in Byte /\ np % 128 = np /\ ~(np >= 128) /\ np \in 2 .. 16
  <2> HIDE DEF np
  <2> QED
    BY <1>2 DEF Byte
<1>8. /\ s \in Seq(Byte) /\ Len(s) = 1 + 3 * np + Len(t)
      /\ \A b \in Seq(Byte), i \in Nat \ {0} : Holds(b, i, s) =>
           /\ b[i] = np /\ Has(b, i, 1) /\ Has(b, i + 1, 3 * np)
           /\ ReadColours(f, b, i + 1, np) = pal
           /\ Holds(b, i + 1 + 3 * np, t)
  <2> DEFINE x == np
             z == Headed(f, x, pal, t)
  <2>0. x \in Byte
    BY <1>7
  <2> HIDE DEF pal, t, x
  <2>1. /\ z \in Seq(Byte) /\ Len(z) = 1 + 3 * Len(pal) + Len(t)
        /\ \A b \in Seq(Byte), i \in Nat \ {0} : Holds(b, i, z) =>
             /\ b[i] = x /\ Has(b, i, 1) /\ Has(b, i + 1, 3 * Len(pal))
             /\ ReadColours(f, b, i + 1, Len(pal)) = pal
             /\ Holds(b, i + 1 + 3 * Len(pal), t)
    <3>1. f \in PixFmts /\ HasCpixel(f) /\ x \in Byte /\ pal \in Seq(Rgb) /\ t \in Seq(Byte)
      BY <1>1, <1>2, <1>3, <2>0
    <3> QED
      BY <3>1, PalBack, Zenon
  <2> HIDE DEF z
  <2>2. s = z
    BY <1>5 DEF z, x
  <2> QED
    BY <2>1, <2>2 DEF x
<1>9. \A b \in Seq(Byte), i \in Nat \ {0} : Holds(b, i, t) =>
        Packed(b, i, pal, w, h) = [ok |-> TRUE, px |-> px, next |-> i + Len(t)]
  BY PackedRead
<1> HIDE DEF pal, np, bits, per, m, t, s, n
<1>10. ASSUME NEW b \in Seq(Byte), NEW i \in Nat \ {0}, Holds(b, i, s)
       PROVE  ZrleTile(f, b, i, w, h) = [ok |-> TRUE, px |-> px, next |-> i + Len(s)]
  <2> DEFINE body == i + 1 + 3 * np
  <2>1. /\ b[i] = np /\ Has(b, i, 1) /\ Has(b, i + 1, 3 * np) /\ ReadColours(f, b, i + 1, np) = pal
        /\ Holds(b, body, t)
    BY <1>8, <1>10
  <2>2. b[i] % 128 = np /\ ~(b[i] >= 128)
    BY <1>7, <2>1
  <2>3. body \in Nat \ {0} /\ body + Len(t) = i + Len(s)
    BY <1>1, <1>2, <1>3, <1>8
  <2>4. body = i + 1 + 3 * np
    OBVIOUS
  <2> HIDE DEF body
  <2>5. ZrleTile(f, b, i, w, h) = Packed(b, body, pal, w, h)
    BY <1>7, <2>1, <2>2, <2>4, TileRead
  <2>6. Packed(b, body, pal, w, h) = [ok |-> TRUE, px |-> px, next |-> body + Len(t)]
    BY <1>9, <2>1, <2>3
  <2> QED
    BY <2>3, <2>5, <2>6
<1>11. Len(s) = 1 + (3 * np + h * m) /\ 3 * np + h * m \in Nat
  <2> DEFINE a == h * m
  <2>1. a \in Nat /\ Len(t) = a
    BY <1>1, <1>3
  <2> HIDE DEF a
  <2>2. Len(s) = 1 + (3 * np + a) /\ 3 * np + a \in Nat
    BY <1>2, <1>8, <2>1
  <2> QED
    BY <2>2 DEF a
<1> QED
  BY <1>6, <1>8, <1>10, <1>11 DEF Back, s

----------------------------------------------------------------------------
(* Every form of a tile.                                                   *)

LEMMA SumAtLeast ==
  ASSUME NEW n \in Nat \ {0}, NEW c, \A x \in 1 .. n : c[x] \in Nat
  PROVE  SumOn(c, 1 .. n) >= c[1]
<1>1. /\ SumOn(c, 1 .. 0) = 0
      /\ \A k \in 1 .. n : /\ SumOn(c, 1 .. k) \in Int /\ SumOn(c, 1 .. k - 1) \in Int
                          /\ SumOn(c, 1 .. k) = SumOn(c, 1 .. k - 1) + c[k]
  <2>1. \A x \in 1 .. n : c[x] \in Int
    OBVIOUS
  <2> QED
    BY <2>1, SumLast
<1> DEFINE s == [k \in Nat |-> SumOn(c, 1 .. k)]
           T == {k \in Nat : k \in 1 .. n => s[k] >= c[1]}
<1>2. s[0] = 0 /\ \A k \in 1 .. n : s[k] \in Int /\ s[k - 1] \in Int /\ s[k] = s[k - 1] + c[k]
  BY <1>1
<1> HIDE DEF s
<1>3. 0 \in T
  OBVIOUS
<1>4. ASSUME NEW k \in 1 .. n, k - 1 \in T PROVE k \in T
  <2>1. CASE k = 1
    BY <1>2, <2>1
  <2>2. CASE k # 1
    <3>1. k - 1 \in 1 .. n /\ s[k - 1] >= c[1]
      BY <1>4, <2>2
    <3> QED
      BY <1>2, <3>1
  <2> QED
    BY <2>1, <2>2
<1>5. \A k \in 0 .. n : k \in T
  <2> HIDE DEF T
  <2> QED
    BY <1>3, <1>4, Climb
<1>6. s[n] >= c[1]
  BY <1>5
<1> QED
  BY <1>6 DEF s

(* With a colour and a length a run takes four bytes at least.             *)
LEMMA PlainAtLeast ==
  ASSUME NEW f, NEW px, NEW w, NEW h, Given(f, px, w, h)
  PROVE  Cost(px, w, h).plain >= 4
<1> DEFINE runs == Runs(px, w, h)
           m == Len(runs)
           c == [k \in 1 .. m |-> 3 + RunBytes(runs[k].len)]
<1>1. w * h \in Nat \ {0} /\ Len(px) = w * h
  BY Area
<1>2. runs \in Seq(Run) /\ Expand(runs) = px
  BY RunsIs DEF Given
<1>3. m \in Nat /\ DOMAIN runs = 1 .. m /\ \A k \in 1 .. m : runs[k] \in Run
  BY <1>2, LenProperties, ElementOfSeq
<1>4. Cost(px, w, h).plain = SumFunction(c)
  BY <1>3 DEF Cost
<1>5. m # 0
  <2>1. SUFFICES ASSUME m = 0 PROVE FALSE
    OBVIOUS
  <2>2. Reps(runs) = <<>>
    <3> HIDE DEF runs
    <3>1. Reps(runs) \in Seq(Seq(Rgb)) /\ Len(Reps(runs)) = Len(runs)
      BY <1>2, RepsAre
    <3> QED
      BY <2>1, <3>1, EmptySeq
  <2>3. Expand(runs) = <<>>
    BY <2>2 DEF Expand, FlattenSeq
  <2> QED
    BY <1>1, <1>2, <2>3
<1> HIDE DEF runs, m
<1>6. \A k \in 1 .. m : RunBytes(runs[k].len) \in Nat \ {0}
  <2> SUFFICES ASSUME NEW k \in 1 .. m PROVE RunBytes(runs[k].len) \in Nat \ {0}
    OBVIOUS
  <2>1. runs[k].len \in Nat \ {0}
    BY <1>3 DEF Run
  <2> QED
    BY <2>1, WriteRunIs
<1>7. DOMAIN c = 1 .. m /\ (\A k \in 1 .. m : c[k] \in Nat) /\ c[1] >= 4 /\ m \in Nat \ {0}
  BY <1>3, <1>5, <1>6
<1>8. SumFunction(c) = SumOn(c, 1 .. m)
  BY <1>7, SumIs
<1> HIDE DEF c
<1>9. SumOn(c, 1 .. m) >= c[1]
  BY <1>7, SumAtLeast
<1>10. SumOn(c, 1 .. m) \in Int /\ c[1] \in Int
  <2>1. \A x \in 1 .. m : c[x] \in Int
    BY <1>7
  <2>2. 1 \in 1 .. m
    BY <1>7
  <2> QED
    BY <1>7, <2>1, <2>2, SumLast
<1> QED
  BY <1>4, <1>7, <1>8, <1>9, <1>10

Forms == {"solid", "packed", "indexed", "plain", "raw"}

(* Every form the tile may have is read back and costs what is said.       *)
LEMMA FormsBack ==
  ASSUME NEW f, NEW px, NEW w, NEW h, Given(f, px, w, h), w * h <= 4096
  PROVE  LET n == Len(Palette(px, w, h))
             cost == Cost(px, w, h)
             s(form) == Written(form, f, px, w, h)
         IN  /\ n \in Nat /\ n <= 127
             /\ cost.raw \in Nat /\ cost.plain \in Nat /\ cost.indexed \in Nat /\ cost.packed \in Nat
             /\ cost.raw < Never /\ cost.raw >= 3 /\ cost.plain >= 4
             /\ Back(s("raw"), f, px, w, h) /\ Len(s("raw")) = 1 + cost.raw
             /\ Back(s("plain"), f, px, w, h) /\ Len(s("plain")) = 1 + cost.plain
             /\ IF n >= 2 THEN Back(s("indexed"), f, px, w, h) /\ Len(s("indexed")) = 1 + cost.indexed
                ELSE cost.indexed = Never
             /\ IF n >= 2 /\ n <= 16 THEN Back(s("packed"), f, px, w, h) /\ Len(s("packed")) = 1 + cost.packed
                ELSE cost.packed = Never
             /\ n = 1 => Back(s("solid"), f, px, w, h) /\ Len(s("solid")) = 4
<1> DEFINE pal == Palette(px, w, h)
           n == Len(pal)
<1>1. n \in Nat /\ n <= 127 /\ pal \in Seq(Rgb)
  BY PaletteIs DEF Given
<1>2. n # 0 => pal # <<>>
  OBVIOUS
<1>3. w * h \in Nat \ {0} /\ 3 * w * h = 3 * (w * h)
  BY Area
<1>4. Cost(px, w, h).raw = 3 * w * h
  BY DEF Cost
<1>5. 3 * w * h \in Nat /\ 3 * w * h < Never /\ 3 * w * h >= 3
  <2> DEFINE a == w * h
  <2>1. a \in Nat \ {0} /\ a <= 4096 /\ 3 * w * h = 3 * a
    BY <1>3
  <2> HIDE DEF a
  <2> QED
    BY <2>1 DEF Never
<1>6. /\ n < 2 => Cost(px, w, h).indexed = Never
      /\ ~(n >= 2 /\ n <= 16) => Cost(px, w, h).packed = Never
  <2> DEFINE x == n
  <2>1. x \in Nat
    BY <1>1
  <2> HIDE DEF x
  <2>2. (x < 2 => x \notin 2 .. 127) /\ (~(x >= 2 /\ x <= 16) => x \notin 2 .. 16)
    BY <2>1
  <2> QED
    BY <2>2 DEF Cost, x
<1>7. Never \in Nat
  BY DEF Never
<1> HIDE DEF pal, n
<1>8. n >= 2 => n # 0
  BY <1>1
<1>9. n >= 2 => LET s == Written("indexed", f, px, w, h)
                IN  Back(s, f, px, w, h) /\ Len(s) = 1 + Cost(px, w, h).indexed /\ Cost(px, w, h).indexed \in Nat
  BY <1>2, <1>8, IndexedForm DEF pal, n
<1>10. n >= 2 /\ n <= 16 =>
         LET s == Written("packed", f, px, w, h)
         IN  Back(s, f, px, w, h) /\ Len(s) = 1 + Cost(px, w, h).packed /\ Cost(px, w, h).packed \in Nat
  BY <1>2, <1>8, PackedForm DEF pal, n
<1>11. n = 1 => LET s == Written("solid", f, px, w, h) IN Back(s, f, px, w, h) /\ Len(s) = 4
  BY <1>2, SolidForm DEF pal, n
<1>12. LET s == Written("plain", f, px, w, h)
       IN  Back(s, f, px, w, h) /\ Len(s) = 1 + Cost(px, w, h).plain /\ Cost(px, w, h).plain \in Nat
  BY PlainForm
<1>13. LET s == Written("raw", f, px, w, h) IN Back(s, f, px, w, h) /\ Len(s) = 1 + 3 * w * h
  BY RawForm
<1>14. Cost(px, w, h).plain >= 4
  BY PlainAtLeast
<1>15. n >= 2 \/ n < 2
  BY <1>1
<1> DEFINE cost == Cost(px, w, h)
<1>16. cost.raw \in Nat /\ cost.plain \in Nat /\ cost.indexed \in Nat /\ cost.packed \in Nat
  BY <1>4, <1>5, <1>6, <1>7, <1>9, <1>10, <1>12, <1>15
<1> QED
  BY <1>1, <1>4, <1>5, <1>6, <1>9, <1>10, <1>11, <1>12, <1>13, <1>14, <1>15, <1>16 DEF pal, n

----------------------------------------------------------------------------
(* The form that is chosen, and raw pixels.                                *)

LEMMA MinOfFour ==
  ASSUME NEW a \in Nat, NEW b \in Nat, NEW c \in Nat, NEW d \in Nat
  PROVE  LET m == Min({a, b, c, d})
         IN  m \in {a, b, c, d} /\ m \in Nat /\ m <= a /\ m <= b /\ m <= c /\ m <= d
<1> DEFINE T == {a, b, c, d}
<1>1. T \in SUBSET Nat /\ T # {}
  OBVIOUS
<1>2. PICK x \in T : \A y \in T : x <= y
  BY <1>1, LeastExists
<1>3. Min(T) = x
  BY <1>1, <1>2, MinIs
<1> HIDE DEF T
<1>4. Min(T) \in T /\ \A y \in T : Min(T) <= y
  BY <1>2, <1>3
<1> QED
  BY <1>4 DEF T

(* The form that is chosen can be had, is read back, and no other form the *)
(* tile can have is shorter.                                               *)
LEMMA ChoiceIs ==
  ASSUME NEW f, NEW px, NEW w, NEW h, Given(f, px, w, h), w * h <= 4096
  PROVE  LET s == EncodeTile(f, px, w, h)
         IN  /\ Back(s, f, px, w, h)
             /\ \A form \in Forms : Legal(form, Len(Palette(px, w, h))) =>
                  Len(s) <= Len(Written(form, f, px, w, h))
<1> DEFINE n == Len(Palette(px, w, h))
           raw == Cost(px, w, h).raw
           plain == Cost(px, w, h).plain
           indexed == Cost(px, w, h).indexed
           packed == Cost(px, w, h).packed
           best == Min({raw, plain, indexed, packed})
           s(form) == Written(form, f, px, w, h)
           Chosen(form) == /\ Back(s(form), f, px, w, h)
                           /\ \A g \in Forms : Legal(g, n) => Len(s(form)) <= Len(s(g))
<1>1. /\ n \in Nat /\ n <= 127
      /\ raw \in Nat /\ plain \in Nat /\ indexed \in Nat /\ packed \in Nat
      /\ raw < Never /\ raw >= 3 /\ plain >= 4
      /\ Back(s("raw"), f, px, w, h) /\ Len(s("raw")) = 1 + raw
      /\ Back(s("plain"), f, px, w, h) /\ Len(s("plain")) = 1 + plain
      /\ IF n >= 2 THEN Back(s("indexed"), f, px, w, h) /\ Len(s("indexed")) = 1 + indexed
         ELSE indexed = Never
      /\ IF n >= 2 /\ n <= 16 THEN Back(s("packed"), f, px, w, h) /\ Len(s("packed")) = 1 + packed
         ELSE packed = Never
      /\ n = 1 => Back(s("solid"), f, px, w, h) /\ Len(s("solid")) = 4
  BY FormsBack
<1>2. /\ EncodeTile(f, px, w, h) = Written(Choice(px, w, h), f, px, w, h)
      /\ Choice(px, w, h) = IF n = 1 THEN "solid"
                            ELSE IF best = packed THEN "packed"
                            ELSE IF best = indexed THEN "indexed"
                            ELSE IF best = plain THEN "plain"
                            ELSE "raw"
  BY DEF EncodeTile, Choice
<1>3. best \in {raw, plain, indexed, packed} /\ best \in Nat
      /\ best <= raw /\ best <= plain /\ best <= indexed /\ best <= packed
  <2> HIDE DEF raw, plain, indexed, packed
  <2> QED
    BY <1>1, MinOfFour, SMTT(60)
<1> HIDE DEF n, raw, plain, indexed, packed, best
<1>4. Never \in Nat
  BY DEF Never
<1> HIDE DEF s
<1>5. /\ Legal("solid", n) => n = 1
      /\ Legal("packed", n) => n >= 2 /\ n <= 16
      /\ Legal("indexed", n) => n >= 2
  <2>1. \A z \in 2 .. 16 : z >= 2 /\ z <= 16
    OBVIOUS
  <2>2. \A z \in 2 .. 127 : z >= 2
    OBVIOUS
  <2> QED
    BY <2>1, <2>2 DEF Legal
<1>6. ASSUME n # 1, NEW form, Back(s(form), f, px, w, h), Len(s(form)) = 1 + best
      PROVE  Chosen(form)
  <2>1. 1 + best <= 1 + raw /\ 1 + best <= 1 + plain /\ 1 + best <= 1 + indexed /\ 1 + best <= 1 + packed
    BY <1>1, <1>3
  <2>2. Legal("packed", n) => Len(s("packed")) = 1 + packed
    BY <1>1, <1>5
  <2>3. Legal("indexed", n) => Len(s("indexed")) = 1 + indexed
    BY <1>1, <1>5
  <2>4. ASSUME NEW g \in Forms, Legal(g, n) PROVE Len(s(form)) <= Len(s(g))
    <3>1. CASE g = "solid"
      BY <1>5, <1>6, <2>4, <3>1
    <3>2. CASE g = "packed"
      BY <1>6, <2>1, <2>2, <2>4, <3>2
    <3>3. CASE g = "indexed"
      BY <1>6, <2>1, <2>3, <2>4, <3>3
    <3>4. CASE g = "plain"
      BY <1>1, <1>6, <2>1, <3>4
    <3>5. CASE g = "raw"
      BY <1>1, <1>6, <2>1, <3>5
    <3> QED
      BY <2>4, <3>1, <3>2, <3>3, <3>4, <3>5 DEF Forms
  <2> QED
    BY <1>6, <2>4
<1>7. CASE n = 1
  <2>1. Len(s("solid")) = 4 /\ Back(s("solid"), f, px, w, h)
    BY <1>1, <1>7
  <2>2. Len(s("solid")) <= Len(s("solid")) /\ Len(s("solid")) <= Len(s("raw")) /\ Len(s("solid")) <= Len(s("plain"))
    <3>1. 4 <= 1 + raw /\ 4 <= 1 + plain /\ raw \in Nat /\ plain \in Nat
      BY <1>1
    <3>2. Len(s("raw")) = 1 + raw /\ Len(s("plain")) = 1 + plain
      BY <1>1
    <3> DEFINE ls == Len(s("solid"))
               lr == Len(s("raw"))
               lp == Len(s("plain"))
    <3>3. ls = 4 /\ lr = 1 + raw /\ lp = 1 + plain
      BY <2>1, <3>2
    <3> HIDE DEF ls, lr, lp
    <3>4. ls <= ls /\ ls <= lr /\ ls <= lp
      BY <3>1, <3>3
    <3> QED
      BY <3>4 DEF ls, lr, lp
  <2>3. ASSUME NEW g \in Forms, Legal(g, n) PROVE Len(s("solid")) <= Len(s(g))
    <3>1. CASE g = "solid"
      <4>1. 4 <= 4
        OBVIOUS
      <4> QED
        BY <2>1, <3>1, <4>1
    <3>2. CASE g \in {"packed", "indexed"}
      BY <1>5, <1>7, <2>3, <3>2
    <3>3. CASE g = "plain"
      BY <2>2, <3>3
    <3>4. CASE g = "raw"
      BY <2>2, <3>4
    <3> QED
      BY <2>3, <3>1, <3>2, <3>3, <3>4 DEF Forms
  <2>4. Chosen("solid")
    BY <2>1, <2>3
  <2> QED
    BY <1>2, <1>7, <2>4 DEF s, n
<1>8. CASE n # 1
  <2> DEFINE form == Choice(px, w, h)
  <2>1. Back(s(form), f, px, w, h) /\ Len(s(form)) = 1 + best
    <3>1. CASE best = packed
      <4>1. n >= 2 /\ n <= 16
        BY <1>1, <1>3, <1>4, <3>1
      <4> QED
        BY <1>1, <1>2, <1>8, <3>1, <4>1
    <3>2. CASE best # packed /\ best = indexed
      <4>1. n >= 2
        BY <1>1, <1>3, <1>4, <3>2
      <4> QED
        BY <1>1, <1>2, <1>8, <3>2, <4>1
    <3>3. CASE best # packed /\ best # indexed /\ best = plain
      BY <1>1, <1>2, <1>8, <3>3
    <3>4. CASE best # packed /\ best # indexed /\ best # plain
      BY <1>1, <1>2, <1>3, <1>8, <3>4
    <3> QED
      BY <3>1, <3>2, <3>3, <3>4
  <2>2. Chosen(form)
    BY <1>6, <1>8, <2>1
  <2> QED
    BY <1>2, <2>2 DEF s, n
<1> QED
  BY <1>7, <1>8

(* Raw pixels, four bytes each.                                            *)
LEMMA RawBack ==
  ASSUME NEW f \in PixFmts, NEW n \in Nat, NEW px \in [1 .. n -> Rgb]
  PROVE  LET s == FlattenSeq([i \in DOMAIN px |-> Pixel(f, px[i])])
         IN  /\ s \in Seq(Byte) /\ Len(s) = 4 * n
             /\ Raw(f, s, n) = [ok |-> TRUE, next |-> Len(s) + 1, px |-> px]
<1> DEFINE q == [i \in DOMAIN px |-> Pixel(f, px[i])]
           s == FlattenSeq(q)
           m == 4
<1>1. \A i \in 1 .. n : px[i] \in Rgb
  OBVIOUS
<1>2. /\ q \in [1 .. n -> Seq(Byte)]
      /\ \A i \in 1 .. n : q[i] = Pixel(f, px[i]) /\ Len(q[i]) = m /\ ReadPixel(f, q[i]) = px[i]
  BY <1>1, PixelBack
<1> HIDE DEF q
<1>3. q \in Seq(Seq(Byte)) /\ Len(q) = n
  BY <1>2, AsSeq
<1>4. m \in Nat /\ \A k \in 1 .. Len(q) : Len(q[k]) = m
  BY <1>2, <1>3
<1> HIDE DEF m, s
<1>5. /\ s \in Seq(Byte) /\ Len(s) = Len(q) * m
      /\ \A k \in 1 .. Len(q), j \in 1 .. m :
           (k - 1) * m + j \in 1 .. Len(q) * m /\ s[(k - 1) * m + j] = q[k][j]
  BY <1>3, <1>4, FlatUniform DEF s
<1>6. ASSUME NEW k \in 1 .. n
      PROVE  SubSeq(s, 4 * k - 3, 4 * k) = q[k]
  <2> DEFINE a == 4 * k - 3
             z == 4 * k
  <2>1. a \in 1 .. Len(s) /\ z \in 1 .. Len(s) /\ z - a + 1 = 4 /\ a \in Int /\ z \in Int
    BY <1>3, <1>5 DEF m
  <2>2. SubSeq(s, a, z) \in Seq(Byte) /\ Len(SubSeq(s, a, z)) = 4
        /\ \A j \in 1 .. 4 : SubSeq(s, a, z)[j] = s[a + j - 1]
    BY <1>5, <2>1, SubSeqProperties
  <2>3. q[k] \in Seq(Byte) /\ Len(q[k]) = 4
    BY <1>2 DEF m
  <2>4. \A j \in 1 .. 4 : s[a + j - 1] = q[k][j]
    <3> SUFFICES ASSUME NEW j \in 1 .. 4 PROVE s[a + j - 1] = q[k][j]
      OBVIOUS
    <3>1. (k - 1) * m + j = a + j - 1
      BY DEF m
    <3>2. s[(k - 1) * m + j] = q[k][j]
      BY <1>3, <1>5 DEF m
    <3> QED
      BY <3>1, <3>2
  <2> DEFINE r == SubSeq(s, a, z)
  <2>5. \A j \in 1 .. 4 : r[j] = q[k][j]
    BY <2>2, <2>4
  <2>6. r \in Seq(Byte) /\ Len(r) = 4
    BY <2>2
  <2> HIDE DEF r
  <2>7. r = q[k]
    BY <2>3, <2>5, <2>6, SeqEqual
  <2> QED
    BY <2>7 DEF r, a, z
<1>7. [k \in 1 .. n |-> ReadPixel(f, SubSeq(s, 4 * k - 3, 4 * k))] = px
  BY <1>2, <1>6
<1>8. Len(s) = 4 * n
  BY <1>3, <1>5 DEF m
<1> QED
  BY <1>5, <1>7, <1>8 DEF Raw, s, q
=============================================================================
