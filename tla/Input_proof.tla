---------------------------- MODULE Input_proof ----------------------------
(***************************************************************************)
(* What is down on the server's machine is what the client holds, proved   *)
(* for any keys, any clipboard and any number of threads that type it.     *)
(* The argument is one of debts: every symbol that is down for the server  *)
(* is paid for, by a key that the client holds, or by an up that some      *)
(* thread has still to send; a frame moves debts from the one to the other *)
(* and loses none.                                                         *)
(***************************************************************************)
EXTENDS Input, WellFoundedInduction, FiniteSetTheorems, FunctionTheorems, SequenceTheorems, TLAPS

(* What a key can be held as, and what the two kinds of threads send.      *)
Own(k) == IF k = "altgr" THEN {"alt"} ELSE IF k \in Letters THEN {k, Upper[k]} ELSE {k}
Strokes == {"a", "A", "v", "V", "at"}
Pasted == {"x", "X", "shift"}
PumpMessage == {Key(s, d) : s \in Syms \ {"x", "X"}, d \in BOOLEAN} \cup {Paste}
TypeMessage == {Key(s, d) : s \in Pasted, d \in BOOLEAN}
Sorts == /\ TypeOK
         /\ \A k \in Keys : held[k] \in Own(k) \cup {Free, Swallowed}
         /\ todo \in Seq(PumpMessage) /\ typing \in [Typists -> Seq(TypeMessage)]
         /\ chars \in Seq(Strokes)

(* The window reports a key as pressed only if it is not held.             *)
Real(h, k) == h[k] \notin {Free, Swallowed}
Seen == /\ fresh \subseteq phys \cup gone
        /\ \A k \in Keys : Real(held, k) => k \in (phys \cup gone) \ fresh

(* The up of t lets go of s: as long as no key was repeated (n = 0) only   *)
(* its own does, later that of the same virtual key.                       *)
Alike(n, t, s) == t = s \/ (n # 0 /\ Vk(t) = Vk(s))
(* A symbol is paid for by a key that is held, or by an up after i.        *)
Keeps(n, h, s) == \E k \in Keys : Real(h, k) /\ Alike(n, h[k], s)
Lets(n, q, i, s) == \E j \in DOMAIN q : j > i /\ ~q[j].down /\ Alike(n, q[j].sym, s)
Paired(n, h, q) == \A i \in DOMAIN q : q[i].do = "key" /\ q[i].down =>
                     Keeps(n, h, q[i].sym) \/ Lets(n, q, i, q[i].sym)
Even(q) == \A i \in DOMAIN q : q[i].down => Lets(0, q, i, q[i].sym)
Owed(s) == \/ Keeps(repeats, held, s) \/ Lets(repeats, todo, 0, s)
           \/ \E i \in Typists : Lets(0, typing[i], 0, s)
(* After a repeat a letter may stay behind, but its key is up.             *)
Stale(s) == repeats # 0 /\ s \in Strokes /\ Vk(s) \notin vks

Paid == /\ Paired(repeats, held, todo) /\ \A i \in Typists : Even(typing[i])
        /\ linked => \A s \in syms : Owed(s) \/ Stale(s)
Explained == vks \subseteq left \cup UNION {Vks(s) : s \in syms}
ShiftTold == shiftHeld <=> "shift" \in syms
Linkage == /\ linked => online
           /\ ~linked => vks \subseteq left
           /\ ~running => ~linked
           /\ drops = 0 => online /\ linked /\ left = {}

IInv == Sorts /\ Seen /\ Paid /\ Explained /\ ShiftTold /\ Linkage

(* AltGr.  Nothing of it is held once the frame that saw it go down is     *)
(* over, and its characters come after the ups of what was held before.    *)
Unmodified == \A k \in Keys \cap Modifiers : ~Real(held, k)
HasAt(q) == \E i \in DOMAIN q : q[i] = Key("at", TRUE)
Cleared(q) == \A m \in {"ctrl", "alt"} :
                /\ \A j \in DOMAIN q : q[j] # Key(m, TRUE)
                /\ Vk(m) \in vks => \E j \in DOMAIN q : /\ q[j] = Key(m, FALSE)
                                                        /\ \A i \in DOMAIN q : q[i] = Key("at", TRUE) => j < i
Downs == fresh \cap Modifiers \subseteq phys
Away == ~active => phys = {} /\ fresh = {}
Bare == active /\ "altgr" \in (phys \cup gone) \ fresh => Unmodified
Ats == (\E i \in DOMAIN chars : chars[i] = "at") => "altgr" \in phys \/ ~active \/ Unmodified
Clear == drops = 0 /\ HasAt(todo) => Cleared(todo)

AInv == Downs /\ Away /\ Bare /\ Ats /\ Clear
----------------------------------------------------------------------------
(* Least elements, and functions defined step by step.                     *)

LEMMA LeastExists ==
  ASSUME NEW T \in SUBSET Nat, T # {}
  PROVE  \E x \in T : \A y \in T : x <= y
<1> DEFINE R == {ss \in Nat \X Nat : ss[1] < ss[2]}
<1>1. IsWellFoundedOn(R, Nat)
  BY NatLessThanWellFounded DEF OpToRel
<1>2. \A x, y \in Nat : <<y, x>> \in R <=> y < x
  OBVIOUS
<1> HIDE DEF R
<1>3. PICK x \in T : \A y \in T : ~ (<<y, x>> \in R)
  BY <1>1, WFMin
<1>4. \A y \in T : ~(y < x)
  BY <1>2, <1>3
<1> QED
  BY <1>3, <1>4

Chain(f, z, G, n) == f[0] = z /\ \A j \in 1 .. n : f[j] = G[<<f[j - 1], j>>]

LEMMA Recursion ==
  ASSUME NEW S, NEW z \in S, NEW N \in Nat, NEW G \in [S \X (1 .. N) -> S]
  PROVE  \E f \in [0 .. N -> S] : Chain(f, z, G, N)
<1> DEFINE Bad == {n \in Nat : n <= N /\ ~ \E f \in [0 .. n -> S] : Chain(f, z, G, n)}
<1>1. CASE Bad = {}
  BY <1>1
<1>2. CASE Bad # {}
  <2>1. PICK n \in Bad : \A m \in Bad : n <= m
    BY <1>2, LeastExists
  <2>2. n \in Nat /\ n <= N /\ ~ \E f \in [0 .. n -> S] : Chain(f, z, G, n)
    BY <2>1
  <2>3. CASE n = 0
    <3>1. [j \in 0 .. 0 |-> z] \in [0 .. 0 -> S] /\ Chain([j \in 0 .. 0 |-> z], z, G, 0)
      BY DEF Chain
    <3> QED
      BY <2>2, <2>3, <3>1
  <2>4. CASE n # 0
    <3>1. n - 1 \in Nat /\ n - 1 < n /\ n - 1 <= N /\ n \in 1 .. N
      BY <2>2, <2>4
    <3>2. n - 1 \notin Bad
      BY <2>1, <2>2, <3>1
    <3>3. PICK g \in [0 .. n - 1 -> S] : Chain(g, z, G, n - 1)
      BY <3>1, <3>2
    <3>4. g[0] = z /\ \A j \in 1 .. n - 1 : g[j] = G[<<g[j - 1], j>>]
      BY <3>3, Zenon DEF Chain
    <3>5. g[n - 1] \in S /\ G[<<g[n - 1], n>>] \in S
      BY <3>1
    <3> DEFINE f == [j \in 0 .. n |-> IF j = n THEN G[<<g[n - 1], n>>] ELSE g[j]]
    <3>6. f \in [0 .. n -> S]
      BY <3>1, <3>5
    <3>7. f[0] = z
      BY <2>4, <3>1, <3>4
    <3>8. ASSUME NEW j \in 1 .. n
          PROVE  f[j] = G[<<f[j - 1], j>>]
      <4>1. CASE j = n
        <5>1. n - 1 \in 0 .. n /\ n - 1 # n /\ n \in 0 .. n
          BY <3>1
        <5>2. f[n] = G[<<g[n - 1], n>>] /\ f[n - 1] = g[n - 1]
          BY <5>1
        <5> QED
          BY <4>1, <5>2
      <4>2. CASE j # n
        <5>1. j - 1 \in 0 .. n /\ j - 1 # n /\ j \in 0 .. n /\ j \in 1 .. n - 1
          BY <4>2, <3>1
        <5>2. f[j] = g[j] /\ f[j - 1] = g[j - 1]
          BY <4>2, <5>1
        <5> QED
          BY <5>1, <5>2, <3>4
      <4> QED
        BY <4>1, <4>2
    <3>9. Chain(f, z, G, n)
      BY <3>7, <3>8, Zenon DEF Chain
    <3> QED
      BY <2>2, <3>6, <3>9
  <2> QED
    BY <2>3, <2>4
<1> QED
  BY <1>1, <1>2

(* FlattenSeq, one sequence after the other.                               *)
LEMMA FlatSteps ==
  ASSUME NEW S, NEW seqs \in Seq(Seq(S)), seqs # <<>>
  PROVE  \E f \in [1 .. Len(seqs) -> Seq(S)] :
            /\ f[1] = seqs[1]
            /\ \A i \in 2 .. Len(seqs) : f[i] = f[i - 1] \o seqs[i]
            /\ FlattenSeq(seqs) = f[Len(seqs)]
<1> DEFINE n == Len(seqs)
           G == [x \in Seq(S) \X (1 .. n - 1) |-> x[1] \o seqs[x[2] + 1]]
<1>1. n \in Nat /\ n >= 1 /\ n - 1 \in Nat /\ seqs[1] \in Seq(S)
  BY EmptySeq, LenProperties
<1>2. \A v \in Seq(S), j \in 1 .. n - 1 : v \o seqs[j + 1] \in Seq(S)
  BY <1>1
<1>3. G \in [Seq(S) \X (1 .. n - 1) -> Seq(S)]
  BY <1>2
<1>4. \A v \in Seq(S), j \in 1 .. n - 1 : G[<<v, j>>] = v \o seqs[j + 1]
  OBVIOUS
<1> HIDE DEF G, n
<1>5. PICK g \in [0 .. n - 1 -> Seq(S)] : Chain(g, seqs[1], G, n - 1)
  BY <1>1, <1>3, Recursion
<1>6. g[0] = seqs[1] /\ \A j \in 1 .. n - 1 : g[j] = G[<<g[j - 1], j>>]
  BY <1>5, Zenon DEF Chain
<1>7. \A j \in 1 .. n - 1 : g[j] = g[j - 1] \o seqs[j + 1]
  <2>1. \A j \in 1 .. n - 1 : g[j - 1] \in Seq(S)
    BY <1>1
  <2> QED
    BY <1>4, <1>6, <2>1
<1> DEFINE Step(f, i) == IF i = 1 THEN seqs[i] ELSE f[i - 1] \o seqs[i]
           f0 == [i \in 1 .. n |-> g[i - 1]]
           h0 == [i \in 1 .. n |-> Step(f0, i)]
<1>8. ASSUME NEW i \in 1 .. n
      PROVE  f0[i] = h0[i]
  <2>1. CASE i = 1
    BY <1>1, <1>6, <2>1
  <2>2. CASE i # 1
    <3>1. i - 1 \in 1 .. n - 1 /\ i - 1 \in 1 .. n /\ (i - 1) + 1 = i
      BY <1>1, <2>2
    <3>2. f0[i] = g[i - 1] /\ f0[i - 1] = g[(i - 1) - 1]
      BY <3>1
    <3>3. g[i - 1] = g[(i - 1) - 1] \o seqs[(i - 1) + 1]
      BY <1>7, <3>1
    <3> QED
      BY <2>2, <3>1, <3>2, <3>3
  <2> QED
    BY <2>1, <2>2
<1>9. f0 = h0
  BY <1>8
<1> DEFINE flatten == CHOOSE f : f = [i \in 1 .. n |-> Step(f, i)]
<1>10. flatten = [i \in 1 .. n |-> Step(flatten, i)]
  BY <1>9
<1>11. FlattenSeq(seqs) = flatten[n]
  BY <1>1 DEF FlattenSeq, n
<1> HIDE DEF flatten
<1>12. \A i \in 1 .. n : flatten[i] = IF i = 1 THEN seqs[i] ELSE flatten[i - 1] \o seqs[i]
  BY <1>10
<1> DEFINE Bad == {i \in Nat : i \in 1 .. n /\ flatten[i] \notin Seq(S)}
<1>13. Bad = {}
  <2>1. SUFFICES ASSUME Bad # {} PROVE FALSE
    OBVIOUS
  <2>2. PICK i \in Bad : \A j \in Bad : i <= j
    BY <2>1, LeastExists
  <2>3. i \in 1 .. n /\ flatten[i] \notin Seq(S) /\ seqs[i] \in Seq(S)
    BY <1>1, <2>2 DEF n
  <2>4. i # 1
    BY <1>12, <2>3
  <2>5. i - 1 \in 1 .. n /\ i - 1 \notin Bad
    BY <1>1, <2>2, <2>3, <2>4
  <2>6. flatten[i - 1] \in Seq(S)
    BY <2>5
  <2>7. flatten[i] = flatten[i - 1] \o seqs[i]
    BY <1>12, <2>3, <2>4
  <2> QED
    BY <2>3, <2>6, <2>7
<1>14. flatten \in [1 .. n -> Seq(S)]
  <2>1. ASSUME NEW i \in 1 .. n
        PROVE  flatten[i] \in Seq(S)
    <3> HIDE DEF Bad
    <3>1. i \notin Bad
      BY <1>13, Zenon
    <3>2. i \in Nat
      BY <1>1
    <3> QED
      BY <3>1, <3>2 DEF Bad
  <2> QED
    BY <1>10, <2>1
<1>15. flatten[1] = seqs[1] /\ \A i \in 2 .. n : flatten[i] = flatten[i - 1] \o seqs[i]
  <2>1. 1 \in 1 .. n /\ \A i \in 2 .. n : i \in 1 .. n /\ i # 1
    BY <1>1
  <2> QED
    BY <1>12, <2>1
<1> QED
  BY <1>11, <1>14, <1>15 DEF n

(* Ups that follow.                                                        *)
LEMMA Concat ==
  ASSUME NEW S, NEW q \in Seq(S), NEW r \in Seq(S)
  PROVE  /\ q \o r \in Seq(S) /\ Len(q) \in Nat
         /\ DOMAIN q = 1 .. Len(q) /\ DOMAIN r = 1 .. Len(r) /\ DOMAIN (q \o r) = 1 .. Len(q) + Len(r)
         /\ \A i \in DOMAIN q : i \in DOMAIN (q \o r) /\ (q \o r)[i] = q[i]
         /\ \A i \in DOMAIN r : Len(q) + i \in DOMAIN (q \o r) /\ (q \o r)[Len(q) + i] = r[i]
         /\ \A i \in DOMAIN (q \o r) : i \in DOMAIN q \/ \E j \in DOMAIN r : i = Len(q) + j
<1>1. /\ Len(q) \in Nat /\ Len(r) \in Nat /\ DOMAIN q = 1 .. Len(q) /\ DOMAIN r = 1 .. Len(r)
  BY LenProperties
<1>2. /\ q \o r \in Seq(S) /\ Len(q \o r) = Len(q) + Len(r)
      /\ \A i \in 1 .. Len(q) + Len(r) : (q \o r)[i] = IF i <= Len(q) THEN q[i] ELSE r[i - Len(q)]
  BY ConcatProperties
<1>3. DOMAIN (q \o r) = 1 .. Len(q) + Len(r)
  BY <1>2, LenProperties
<1>4. ASSUME NEW i \in DOMAIN r
      PROVE  Len(q) + i \in DOMAIN (q \o r) /\ (q \o r)[Len(q) + i] = r[i]
  <2>1. i \in 1 .. Len(r) /\ Len(q) + i \in 1 .. Len(q) + Len(r) /\ ~ (Len(q) + i <= Len(q))
        /\ (Len(q) + i) - Len(q) = i
    BY <1>1
  <2> QED
    BY <1>2, <1>3, <2>1
<1>5. ASSUME NEW i \in DOMAIN (q \o r)
      PROVE  i \in DOMAIN q \/ \E j \in DOMAIN r : i = Len(q) + j
  <2>1. i \in 1 .. Len(q) + Len(r)
    BY <1>3
  <2>2. CASE i <= Len(q)
    BY <1>1, <2>1, <2>2
  <2>3. CASE ~(i <= Len(q))
    <3>1. i - Len(q) \in 1 .. Len(r) /\ i = Len(q) + (i - Len(q))
      BY <1>1, <2>1, <2>3
    <3> QED
      BY <1>1, <3>1
  <2> QED
    BY <2>2, <2>3
<1>6. \A i \in DOMAIN q : i \in DOMAIN (q \o r) /\ (q \o r)[i] = q[i]
  BY <1>1, <1>2, <1>3
<1> QED
  BY <1>1, <1>2, <1>3, <1>4, <1>5, <1>6

LEMMA OneIsSeq ==
  ASSUME NEW S, NEW m \in S
  PROVE  <<m>> \in Seq(S)
  OBVIOUS

LEMMA ShortSeqs ==
  ASSUME NEW S, NEW a \in S, NEW b \in S, NEW c \in S, NEW d \in S
  PROVE  /\ <<a, b>> \in Seq(S) /\ <<a, b, c, d>> \in Seq(S)
         /\ <<a>> \o <<b, c>> \o <<d>> = <<a, b, c, d>>
<1>1. /\ <<a>> \in Seq(S) /\ <<b, c>> \in Seq(S) /\ <<d>> \in Seq(S)
      /\ <<a, b, c>> \in Seq(S) /\ <<a, b>> \in Seq(S) /\ <<a, b, c, d>> \in Seq(S)
  OBVIOUS
<1>2. <<a>> \o <<b, c>> = <<a, b, c>>
  <2>1. /\ <<a>> \o <<b, c>> \in Seq(S) /\ Len(<<a>> \o <<b, c>>) = 3
        /\ \A i \in 1 .. 3 : (<<a>> \o <<b, c>>)[i] = IF i <= 1 THEN <<a>>[i] ELSE <<b, c>>[i - 1]
    BY <1>1, ConcatProperties
  <2>2. \A i \in 1 .. 3 : (<<a>> \o <<b, c>>)[i] = <<a, b, c>>[i]
    BY <2>1
  <2> QED
    BY <1>1, <2>1, <2>2, SeqEqual
<1>3. <<a, b, c>> \o <<d>> = <<a, b, c, d>>
  <2>1. /\ <<a, b, c>> \o <<d>> \in Seq(S) /\ Len(<<a, b, c>> \o <<d>>) = 4
        /\ \A i \in 1 .. 4 : (<<a, b, c>> \o <<d>>)[i] = IF i <= 3 THEN <<a, b, c>>[i] ELSE <<d>>[i - 3]
    BY <1>1, ConcatProperties
  <2>2. \A i \in 1 .. 4 : (<<a, b, c>> \o <<d>>)[i] = <<a, b, c, d>>[i]
    BY <2>1
  <2> QED
    BY <1>1, <2>1, <2>2, SeqEqual
<1> QED
  BY <1>1, <1>2, <1>3

LEMMA LetsBefore ==
  ASSUME NEW S, NEW q \in Seq(S), NEW r \in Seq(S), NEW n, NEW i, NEW s, Lets(n, q, i, s)
  PROVE  Lets(n, q \o r, i, s)
<1>1. PICK j \in DOMAIN q : j > i /\ ~q[j].down /\ Alike(n, q[j].sym, s)
  BY DEF Lets
<1>2. j \in DOMAIN (q \o r) /\ (q \o r)[j] = q[j]
  BY Concat
<1> QED
  BY <1>1, <1>2, Zenon DEF Lets

LEMMA LetsAfter ==
  ASSUME NEW S, NEW q \in Seq(S), NEW r \in Seq(S), NEW n, NEW s, NEW k \in Nat, NEW i \in Nat,
         Lets(n, r, k, s), i <= Len(q) + k
  PROVE  Lets(n, q \o r, i, s)
<1>1. PICK j \in DOMAIN r : j > k /\ ~r[j].down /\ Alike(n, r[j].sym, s)
  BY DEF Lets
<1>2. Len(q) + j \in DOMAIN (q \o r) /\ (q \o r)[Len(q) + j] = r[j]
  BY Concat
<1>3. Len(q) + j > i
  <2>1. Len(q) \in Nat /\ j \in Nat
    BY LenProperties
  <2> QED
    BY <1>1, <2>1
<1>4. ~(q \o r)[Len(q) + j].down /\ Alike(n, (q \o r)[Len(q) + j].sym, s)
  BY <1>1, <1>2
<1> QED
  BY <1>2, <1>3, <1>4, Zenon DEF Lets

LEMMA EvenConcat ==
  ASSUME NEW S, NEW q \in Seq(S), NEW r \in Seq(S), Even(q), Even(r)
  PROVE  Even(q \o r)
<1>1. SUFFICES ASSUME NEW i \in DOMAIN (q \o r), (q \o r)[i].down
               PROVE  Lets(0, q \o r, i, (q \o r)[i].sym)
  BY DEF Even
<1>2. CASE i \in DOMAIN q
  <2>1. (q \o r)[i] = q[i]
    BY <1>2, Concat
  <2>2. Lets(0, q, i, q[i].sym)
    BY <1>1, <1>2, <2>1 DEF Even
  <2> QED
    BY <2>1, <2>2, LetsBefore
<1>3. ASSUME NEW j \in DOMAIN r, i = Len(q) + j
      PROVE  Lets(0, q \o r, i, (q \o r)[i].sym)
  <2>1. (q \o r)[i] = r[j] /\ j \in Nat /\ i \in Nat /\ i <= Len(q) + j
    BY <1>3, Concat, LenProperties
  <2>2. Lets(0, r, j, r[j].sym)
    BY <1>1, <2>1 DEF Even
  <2> QED
    BY <2>1, <2>2, LetsAfter
<1> QED
  BY <1>2, <1>3, Concat

LEMMA FlatEven ==
  ASSUME NEW S, NEW seqs \in Seq(Seq(S)), \A i \in DOMAIN seqs : Even(seqs[i])
  PROVE  FlattenSeq(seqs) \in Seq(S) /\ Even(FlattenSeq(seqs))
<1>1. CASE seqs = <<>>
  <2>1. FlattenSeq(seqs) = <<>>
    BY <1>1, EmptySeq DEF FlattenSeq
  <2> QED
    BY <2>1, EmptySeq DEF Even
<1>2. CASE seqs # <<>>
  <2>1. PICK f \in [1 .. Len(seqs) -> Seq(S)] :
          /\ f[1] = seqs[1]
          /\ \A i \in 2 .. Len(seqs) : f[i] = f[i - 1] \o seqs[i]
          /\ FlattenSeq(seqs) = f[Len(seqs)]
    BY <1>2, FlatSteps
  <2>2. Len(seqs) \in Nat /\ Len(seqs) >= 1 /\ DOMAIN seqs = 1 .. Len(seqs)
    BY <1>2, EmptySeq, LenProperties
  <2> DEFINE Bad == {i \in Nat : i \in 1 .. Len(seqs) /\ ~ Even(f[i])}
  <2>3. Bad = {}
    <3>1. SUFFICES ASSUME Bad # {} PROVE FALSE
      OBVIOUS
    <3>2. PICK i \in Bad : \A j \in Bad : i <= j
      BY <3>1, LeastExists
    <3>3. i \in 1 .. Len(seqs) /\ ~ Even(f[i])
      BY <3>2
    <3>4. seqs[i] \in Seq(S) /\ i \in DOMAIN seqs
      BY <2>2, <3>3
    <3>5. i \in 1 .. Len(seqs) /\ ~ Even(f[i]) /\ seqs[i] \in Seq(S) /\ Even(seqs[i])
      BY <3>3, <3>4
    <3>6. i # 1
      BY <2>1, <3>5
    <3>7. i - 1 \in 1 .. Len(seqs) /\ i - 1 < i /\ i - 1 \in Nat
      BY <2>2, <3>5, <3>6
    <3>8. i - 1 \notin Bad
      BY <3>2, <3>5, <3>7
    <3>9. Even(f[i - 1]) /\ f[i - 1] \in Seq(S)
      BY <3>7, <3>8
    <3>10. i \in 2 .. Len(seqs)
      BY <2>2, <3>5, <3>6
    <3>11. f[i] = f[i - 1] \o seqs[i]
      BY <2>1, <3>10, Zenon
    <3> QED
      BY <3>5, <3>9, <3>11, EvenConcat
  <2>4. Even(f[Len(seqs)])
    <3> HIDE DEF Bad
    <3>1. Len(seqs) \notin Bad
      BY <2>3, Zenon
    <3> QED
      BY <2>2, <3>1 DEF Bad
  <2>5. FlattenSeq(seqs) = f[Len(seqs)] /\ Len(seqs) \in 1 .. Len(seqs)
    BY <2>1, <2>2
  <2> QED
    BY <2>4, <2>5
<1> QED
  BY <1>1, <1>2
----------------------------------------------------------------------------
(* Symbols, and the ups that let go of them.                               *)

LEMMA VkOne ==
  ASSUME NEW s \in Syms, NEW t \in Syms, s # t, Vk(s) = Vk(t), t \notin {"x", "X"}
  PROVE  s \in Strokes /\ s # "at"
  BY DEF Syms, Vk, Strokes

LEMMA AlikeOn ==
  ASSUME NEW n, NEW r, NEW s, NEW t, Alike(n, r, s), Alike(n, s, t)
  PROVE  Alike(n, r, t)
  BY DEF Alike

LEMMA KeepsOn ==
  ASSUME NEW n, NEW h, NEW s, NEW t, Keeps(n, h, s), Alike(n, s, t)
  PROVE  Keeps(n, h, t)
  BY AlikeOn DEF Keeps

LEMMA LetsOn ==
  ASSUME NEW n, NEW q, NEW i, NEW s, NEW t, Lets(n, q, i, s), Alike(n, s, t)
  PROVE  Lets(n, q, i, t)
  BY AlikeOn DEF Lets

LEMMA Pumping ==
  ASSUME NEW m \in PumpMessage
  PROVE  \/ /\ m.do = "key" /\ m.sym \in Syms \ {"x", "X"} /\ m.down \in BOOLEAN
            /\ m = Key(m.sym, m.down)
         \/ m = Paste /\ m.do = "paste" /\ m.down
<1>1. CASE m = Paste
  BY <1>1 DEF Paste
<1>2. CASE m # Paste
  <2>1. PICK s \in Syms \ {"x", "X"}, d \in BOOLEAN : m = Key(s, d)
    BY <1>2 DEF PumpMessage
  <2>2. m.do = "key" /\ m.sym = s /\ m.down = d
    BY <2>1 DEF Key
  <2> QED
    BY <2>1, <2>2
<1> QED
  BY <1>1, <1>2

LEMMA PumpKeys ==
  ASSUME NEW s \in Syms \ {"x", "X"}, NEW d \in BOOLEAN
  PROVE  Key(s, d) \in PumpMessage
  BY DEF PumpMessage

LEMMA Pasting ==
  ASSUME NEW m \in TypeMessage
  PROVE  /\ m.do = "key" /\ m.sym \in Pasted /\ m.down \in BOOLEAN
         /\ m = Key(m.sym, m.down)
<1>1. PICK s \in Pasted, d \in BOOLEAN : m = Key(s, d)
  BY DEF TypeMessage
<1>2. m.do = "key" /\ m.sym = s /\ m.down = d
  BY <1>1 DEF Key
<1> QED
  BY <1>1, <1>2

----------------------------------------------------------------------------
(* A frame is a series of moves: from what is held to what is held then,   *)
(* with what is sent meanwhile.  No debt is lost on the way.               *)
Holding(h) == /\ h \in [Keys -> Syms \cup {Free, Swallowed}]
              /\ \A k \in Keys : h[k] \in Own(k) \cup {Free, Swallowed}
Carries(n, h, g, q) == \A s \in Syms : Keeps(n, h, s) => Keeps(n, g, s) \/ Lets(n, q, 0, s)
Moves(n, h, g, q) == /\ Holding(g) /\ q \in Seq(PumpMessage)
                     /\ Paired(n, g, q) /\ Carries(n, h, g, q)

LEMMA MovesNot ==
  ASSUME NEW n, NEW h, Holding(h)
  PROVE  Moves(n, h, h, <<>>)
<1>1. <<>> \in Seq(PumpMessage) /\ DOMAIN <<>> = {}
  BY EmptySeq
<1> QED
  BY <1>1 DEF Moves, Paired, Carries

LEMMA MovesOn ==
  ASSUME NEW n, NEW h0, NEW h, NEW g, NEW q, NEW r, Moves(n, h0, h, q), Moves(n, h, g, r)
  PROVE  Moves(n, h0, g, q \o r)
<1>1. q \in Seq(PumpMessage) /\ r \in Seq(PumpMessage) /\ Holding(g)
  BY DEF Moves
<1>2. q \o r \in Seq(PumpMessage) /\ Len(q) \in Nat
  BY <1>1, Concat
<1>3. Paired(n, g, q \o r)
  <2>1. SUFFICES ASSUME NEW i \in DOMAIN (q \o r), (q \o r)[i].do = "key", (q \o r)[i].down
                 PROVE  Keeps(n, g, (q \o r)[i].sym) \/ Lets(n, q \o r, i, (q \o r)[i].sym)
    BY DEF Paired
  <2>2. CASE i \in DOMAIN q
    <3>1. (q \o r)[i] = q[i] /\ i \in Nat /\ i <= Len(q) + 0
      BY <1>1, <1>2, <2>2, Concat
    <3>2. Keeps(n, h, q[i].sym) \/ Lets(n, q, i, q[i].sym)
      BY <2>1, <2>2, <3>1 DEF Moves, Paired
    <3>3. q[i].sym \in Syms
      BY <1>1, <2>1, <2>2, <3>1, Pumping, ElementOfSeq, LenProperties
    <3>4. CASE Keeps(n, h, q[i].sym)
      <4>1. Keeps(n, g, q[i].sym) \/ Lets(n, r, 0, q[i].sym)
        BY <3>3, <3>4 DEF Moves, Carries
      <4> QED
        BY <1>1, <3>1, <4>1, LetsAfter
    <3>5. CASE Lets(n, q, i, q[i].sym)
      BY <1>1, <3>1, <3>5, LetsBefore
    <3> QED
      BY <3>2, <3>4, <3>5
  <2>3. ASSUME NEW j \in DOMAIN r, i = Len(q) + j
        PROVE  Keeps(n, g, (q \o r)[i].sym) \/ Lets(n, q \o r, i, (q \o r)[i].sym)
    <3>1. (q \o r)[i] = r[j] /\ j \in Nat /\ i \in Nat /\ i <= Len(q) + j
      BY <1>1, <1>2, <2>3, Concat
    <3>2. Keeps(n, g, r[j].sym) \/ Lets(n, r, j, r[j].sym)
      BY <2>1, <3>1 DEF Moves, Paired
    <3> QED
      BY <1>1, <3>1, <3>2, LetsAfter
  <2> QED
    BY <1>1, <2>2, <2>3, Concat
<1>4. Carries(n, h0, g, q \o r)
  <2>1. SUFFICES ASSUME NEW s \in Syms, Keeps(n, h0, s)
                 PROVE  Keeps(n, g, s) \/ Lets(n, q \o r, 0, s)
    BY DEF Carries
  <2>2. Keeps(n, h, s) \/ Lets(n, q, 0, s)
    BY <2>1 DEF Moves, Carries
  <2>3. CASE Keeps(n, h, s)
    <3>1. Keeps(n, g, s) \/ Lets(n, r, 0, s)
      BY <2>3 DEF Moves, Carries
    <3>2. 0 <= Len(q) + 0
      BY <1>2
    <3> QED
      BY <1>1, <3>1, <3>2, LetsAfter
  <2>4. CASE Lets(n, q, 0, s)
    BY <1>1, <2>4, LetsBefore
  <2> QED
    BY <2>2, <2>3, <2>4
<1> QED
  BY <1>1, <1>2, <1>3, <1>4 DEF Moves

(* Every key that is let go of gets its up, and only such keys do.         *)
LEMMA AllOfThem ==
  ASSUME NEW S, IsFiniteSet(S)
  PROVE  /\ SetToSeq(S) \in [1 .. Cardinality(S) -> S] /\ Cardinality(S) \in Nat
         /\ \A x \in S : \E i \in 1 .. Cardinality(S) : SetToSeq(S)[i] = x
<1> DEFINE n == Cardinality(S)
<1>1. n \in Nat /\ ExistsBijection(1 .. n, S)
  BY FS_CardinalityType
<1>2. \E f \in [1 .. n -> S] : IsInjective(f)
  BY <1>1 DEF ExistsBijection, Bijection, Injection
<1>3. SetToSeq(S) \in [1 .. n -> S] /\ IsInjective(SetToSeq(S))
  BY <1>2 DEF SetToSeq
<1>4. SetToSeq(S) \in Injection(1 .. n, S)
  BY <1>3 DEF Injection
<1>5. IsFiniteSet(1 .. n) /\ Cardinality(1 .. n) = n
  BY <1>1, FS_Interval
<1>6. SetToSeq(S) \in Surjection(1 .. n, S)
  BY <1>4, <1>5, FS_Injection
<1> QED
  BY <1>1, <1>3, <1>6 DEF Surjection

LEMMA FewKeys == IsFiniteSet(Keys) /\ Keys \subseteq AllKeys
<1>1. IsFiniteSet(AllKeys)
  <2>1. IsFiniteSet({"ctrl"})
    BY FS_Singleton
  <2>2. IsFiniteSet({"ctrl"} \cup {"shift"})
    BY <2>1, FS_AddElement
  <2>3. IsFiniteSet(({"ctrl"} \cup {"shift"}) \cup {"altgr"})
    BY <2>2, FS_AddElement
  <2>4. IsFiniteSet((({"ctrl"} \cup {"shift"}) \cup {"altgr"}) \cup {"a"})
    BY <2>3, FS_AddElement
  <2>5. IsFiniteSet(((({"ctrl"} \cup {"shift"}) \cup {"altgr"}) \cup {"a"}) \cup {"v"})
    BY <2>4, FS_AddElement
  <2>6. AllKeys = ((({"ctrl"} \cup {"shift"}) \cup {"altgr"}) \cup {"a"}) \cup {"v"}
    BY DEF AllKeys
  <2> QED
    BY <2>5, <2>6
<1> QED
  BY <1>1, InputAssumption, FS_Subset

LEMMA UpSays ==
  ASSUME NEW h, Holding(h), NEW K \in SUBSET Keys
  PROVE  /\ Up(h, K) \in Seq(PumpMessage)
         /\ \A i \in DOMAIN Up(h, K) : \E k \in K : Real(h, k) /\ Up(h, K)[i] = Key(h[k], FALSE)
         /\ \A k \in K : Real(h, k) => \E i \in DOMAIN Up(h, K) : i > 0 /\ Up(h, K)[i] = Key(h[k], FALSE)
<1> DEFINE S == {k \in K : h[k] \notin {Free, Swallowed}}
           n == Cardinality(S)
           ks == SetToSeq(S)
<1>1. IsFiniteSet(S)
  BY FewKeys, FS_Subset
<1>2. /\ ks \in [1 .. n -> S] /\ n \in Nat
      /\ \A x \in S : \E i \in 1 .. n : ks[i] = x
  BY <1>1, AllOfThem
<1>3. \A k \in S : h[k] \in Syms \ {"x", "X"}
  BY FewKeys DEF Holding, Own, Letters, Upper, Syms, AllKeys
<1>4. Up(h, K) = [i \in DOMAIN ks |-> Key(h[ks[i]], FALSE)]
  BY DEF Up
<1> HIDE DEF ks, n, S
<1>5. DOMAIN Up(h, K) = 1 .. n /\ \A i \in 1 .. n : Up(h, K)[i] = Key(h[ks[i]], FALSE)
  BY <1>2, <1>4
<1>6. ASSUME NEW i \in 1 .. n
      PROVE  ks[i] \in S /\ Up(h, K)[i] \in PumpMessage
  <2>1. ks[i] \in S
    BY <1>2
  <2>2. Key(h[ks[i]], FALSE) \in PumpMessage
    BY <1>3, <2>1, PumpKeys
  <2> QED
    BY <1>5, <2>1, <2>2
<1>7. Up(h, K) \in Seq(PumpMessage)
  <2>1. DOMAIN ks = 1 .. n
    BY <1>2
  <2>2. Up(h, K) \in [1 .. n -> PumpMessage]
    BY <1>4, <1>5, <1>6, <2>1
  <2> QED
    BY <1>2, <2>2, SeqDef
<1>8. \A i \in DOMAIN Up(h, K) : \E k \in K : Real(h, k) /\ Up(h, K)[i] = Key(h[k], FALSE)
  BY <1>5, <1>6 DEF S, Real
<1>9. ASSUME NEW k \in K, Real(h, k)
      PROVE  \E i \in DOMAIN Up(h, K) : i > 0 /\ Up(h, K)[i] = Key(h[k], FALSE)
  <2>1. k \in S
    BY <1>9 DEF S, Real
  <2>2. PICK i \in 1 .. n : ks[i] = k
    BY <1>2, <2>1
  <2>3. i > 0
    BY <1>2
  <2>4. i \in DOMAIN Up(h, K) /\ Up(h, K)[i] = Key(h[ks[i]], FALSE)
    BY <1>5, Zenon
  <2>5. Up(h, K)[i] = Key(h[k], FALSE)
    BY <2>2, <2>4, Zenon
  <2> QED
    BY <2>3, <2>4, <2>5, Zenon
<1> QED
  BY <1>7, <1>8, <1>9
LEMMA OwnSyms ==
  ASSUME NEW k \in Keys
  PROVE  /\ Own(k) \subseteq Syms \ {"x", "X", "at"} /\ Free \notin Own(k) /\ Swallowed \notin Own(k)
         /\ \A s, t \in Own(k) : Vk(s) = Vk(t)
         /\ k \notin Modifiers => \A s \in Own(k) : s \notin {"ctrl", "alt"}
  BY FewKeys DEF Own, Letters, Upper, Syms, AllKeys, Free, Swallowed, Vk, Modifiers

LEMMA KeysymOwn ==
  ASSUME NEW k \in Keys
  PROVE  Keysym(k) \in Own(k)
  BY FewKeys DEF Own, Letters, Upper, AllKeys, Keysym

LEMMA FreedMoves ==
  ASSUME NEW n, NEW h, Holding(h), NEW K \in SUBSET Keys
  PROVE  Moves(n, h, Freed(h, K), Up(h, K)) /\ \A k \in K : ~Real(Freed(h, K), k)
<1>1. /\ Freed(h, K) \in [Keys -> Syms \cup {Free, Swallowed}]
      /\ \A k \in Keys : Freed(h, K)[k] = IF k \in K THEN Free ELSE h[k]
  BY DEF Holding, Freed
<1>2. Holding(Freed(h, K))
  BY <1>1 DEF Holding
<1>3. Paired(n, Freed(h, K), Up(h, K))
  <2>1. ASSUME NEW i \in DOMAIN Up(h, K)
        PROVE  ~Up(h, K)[i].down
    BY UpSays DEF Key
  <2> QED
    BY <2>1 DEF Paired
<1>4. Carries(n, h, Freed(h, K), Up(h, K))
  <2>1. SUFFICES ASSUME NEW s \in Syms, Keeps(n, h, s)
                 PROVE  Keeps(n, Freed(h, K), s) \/ Lets(n, Up(h, K), 0, s)
    BY DEF Carries
  <2>2. PICK k \in Keys : Real(h, k) /\ Alike(n, h[k], s)
    BY <2>1 DEF Keeps
  <2>3. CASE k \in K
    <3>1. PICK i \in DOMAIN Up(h, K) : i > 0 /\ Up(h, K)[i] = Key(h[k], FALSE)
      BY <2>2, <2>3, UpSays
    <3>2. ~Up(h, K)[i].down /\ Up(h, K)[i].sym = h[k]
      BY <3>1 DEF Key
    <3> QED
      BY <2>2, <3>1, <3>2, Zenon DEF Lets
  <2>4. CASE k \notin K
    <3>1. Freed(h, K)[k] = h[k]
      BY <1>1, <2>4
    <3> QED
      BY <2>2, <3>1 DEF Keeps, Real
  <2> QED
    BY <2>3, <2>4
<1>5. \A k \in K : ~Real(Freed(h, K), k)
  BY <1>1 DEF Real
<1> QED
  BY <1>2, <1>3, <1>4, <1>5, UpSays DEF Moves

LEMMA PressMoves ==
  ASSUME NEW n, NEW h, Holding(h), NEW k \in Keys, NEW s \in Own(k), n # 0 \/ ~Real(h, k)
  PROVE  Moves(n, h, [h EXCEPT ![k] = s], <<Key(s, TRUE)>>)
<1> DEFINE g == [h EXCEPT ![k] = s]
<1>1. s \in Syms \ {"x", "X"} /\ s \notin {Free, Swallowed}
  BY OwnSyms
<1>2. /\ g \in [Keys -> Syms \cup {Free, Swallowed}]
      /\ g[k] = s /\ \A j \in Keys : j # k => g[j] = h[j]
  BY <1>1 DEF Holding
<1>3. Holding(g)
  BY <1>2 DEF Holding
<1>4. Real(g, k) /\ \A j \in Keys : j # k => (Real(g, j) <=> Real(h, j))
  BY <1>1, <1>2 DEF Real
<1> HIDE DEF g
<1>5. <<Key(s, TRUE)>> \in Seq(PumpMessage)
  BY <1>1, PumpKeys, OneIsSeq
<1>6. Paired(n, g, <<Key(s, TRUE)>>)
  <2>1. \A i \in DOMAIN <<Key(s, TRUE)>> : <<Key(s, TRUE)>>[i].sym = s
    BY DEF Key
  <2>2. Keeps(n, g, s)
    BY <1>2, <1>4 DEF Keeps, Alike
  <2> QED
    BY <2>1, <2>2 DEF Paired
<1>7. Carries(n, h, g, <<Key(s, TRUE)>>)
  <2>1. SUFFICES ASSUME NEW t \in Syms, Keeps(n, h, t)
                 PROVE  Keeps(n, g, t)
    BY DEF Carries
  <2>2. PICK j \in Keys : Real(h, j) /\ Alike(n, h[j], t)
    BY <2>1 DEF Keeps
  <2>3. CASE j # k
    BY <1>2, <1>4, <2>2, <2>3 DEF Keeps
  <2>4. CASE j = k
    <3>1. n # 0 /\ h[k] \in Own(k)
      BY <2>2, <2>4 DEF Holding, Real
    <3>2. Vk(s) = Vk(h[k])
      BY <3>1, OwnSyms
    <3>3. Alike(n, s, t)
      BY <2>2, <2>4, <3>1, <3>2 DEF Alike
    <3> QED
      BY <1>2, <1>4, <3>3 DEF Keeps
  <2> QED
    BY <2>3, <2>4
<1> QED
  BY <1>3, <1>5, <1>6, <1>7 DEF Moves, g

LEMMA SwallowMoves ==
  ASSUME NEW n, NEW h, Holding(h), NEW k \in Keys, ~Real(h, k)
  PROVE  Moves(n, h, [h EXCEPT ![k] = Swallowed], <<Paste>>)
<1> DEFINE g == [h EXCEPT ![k] = Swallowed]
<1>1. /\ g \in [Keys -> Syms \cup {Free, Swallowed}]
      /\ g[k] = Swallowed /\ \A j \in Keys : j # k => g[j] = h[j]
  BY DEF Holding
<1>2. Holding(g)
  BY <1>1 DEF Holding
<1> HIDE DEF g
<1>3. <<Paste>> \in Seq(PumpMessage)
  BY OneIsSeq DEF PumpMessage
<1>4. Paired(n, g, <<Paste>>)
  BY DEF Paired, Paste
<1>5. Carries(n, h, g, <<Paste>>)
  <2>1. \A j \in Keys : Real(h, j) => Real(g, j) /\ g[j] = h[j]
    BY <1>1 DEF Real
  <2> QED
    BY <2>1 DEF Carries, Keeps
<1> QED
  BY <1>2, <1>3, <1>4, <1>5 DEF Moves, g

LEMMA StrokesMove ==
  ASSUME NEW n, NEW h, Holding(h), NEW q \in Seq(PumpMessage), Even(q)
  PROVE  Moves(n, h, h, q)
<1>1. Paired(n, h, q)
  BY DEF Even, Paired, Lets, Alike
<1> QED
  BY <1>1 DEF Moves, Carries
(* The presses, one after the other, from frame b: what else comes of      *)
(* those of M, with the characters and the modifiers of AltGr in mind.     *)
Frames == {f \in [held : [Keys -> Syms \cup {Free, Swallowed}], todo : Seq(PumpMessage)] : Holding(f.held)}
NoMods(q) == \A i \in DOMAIN q : q[i] \notin {Key("ctrl", TRUE), Key("alt", TRUE)}
Gentle(M) == altgr \/ M \cap Modifiers = {}
Goes(n, h, b, f, M) ==
  /\ f \in Frames /\ Moves(n, h, f.held, f.todo)
  /\ \A k \in Keys : Real(f.held, k) => Real(b.held, k) \/ k \in M
  /\ HasAt(f.todo) => HasAt(b.todo)
  /\ Gentle(M) => /\ \A k \in Keys \cap Modifiers : Real(f.held, k) => Real(b.held, k)
                  /\ Cleared(b.todo) => Cleared(f.todo)

LEMMA ClearedOn ==
  ASSUME NEW q \in Seq(PumpMessage), NEW r \in Seq(PumpMessage), Cleared(q), NoMods(r)
  PROVE  Cleared(q \o r)
<1>1. SUFFICES ASSUME NEW m \in {"ctrl", "alt"}
               PROVE  /\ \A j \in DOMAIN (q \o r) : (q \o r)[j] # Key(m, TRUE)
                      /\ Vk(m) \in vks =>
                           \E j \in DOMAIN (q \o r) :
                             /\ (q \o r)[j] = Key(m, FALSE)
                             /\ \A i \in DOMAIN (q \o r) : (q \o r)[i] = Key("at", TRUE) => j < i
  BY DEF Cleared
<1>2. ASSUME NEW j \in DOMAIN (q \o r)
      PROVE  (q \o r)[j] # Key(m, TRUE)
  <2>1. CASE j \in DOMAIN q
    <3>1. (q \o r)[j] = q[j]
      BY <2>1, Concat
    <3>2. q[j] # Key(m, TRUE)
      BY <2>1, Zenon DEF Cleared
    <3> QED
      BY <3>1, <3>2
  <2>2. ASSUME NEW i \in DOMAIN r, j = Len(q) + i
        PROVE  (q \o r)[j] # Key(m, TRUE)
    <3>1. (q \o r)[Len(q) + i] = r[i]
      BY Concat
    <3>2. (q \o r)[j] = r[i] /\ r[i] # Key(m, TRUE)
      BY <2>2, <3>1 DEF NoMods
    <3> QED
      BY <3>2
  <2> QED
    BY <2>1, <2>2, Concat
<1>3. ASSUME Vk(m) \in vks
      PROVE  \E j \in DOMAIN (q \o r) :
               /\ (q \o r)[j] = Key(m, FALSE)
               /\ \A i \in DOMAIN (q \o r) : (q \o r)[i] = Key("at", TRUE) => j < i
  <2>1. PICK j \in DOMAIN q : /\ q[j] = Key(m, FALSE)
                              /\ \A i \in DOMAIN q : q[i] = Key("at", TRUE) => j < i
    BY <1>3 DEF Cleared
  <2>2. j \in DOMAIN (q \o r) /\ (q \o r)[j] = q[j] /\ j \in 1 .. Len(q) /\ Len(q) \in Nat
    BY Concat
  <2>3. ASSUME NEW i \in DOMAIN (q \o r), (q \o r)[i] = Key("at", TRUE)
        PROVE  j < i
    <3>1. CASE i \in DOMAIN q
      <4>1. q[i] = Key("at", TRUE)
        BY <2>3, <3>1, Concat
      <4> QED
        BY <2>1, <3>1, <4>1
    <3>2. ASSUME NEW l \in DOMAIN r, i = Len(q) + l
          PROVE  j < i
      <4>1. l \in 1 .. Len(r) /\ Len(r) \in Nat
        BY LenProperties
      <4>2. l \in Nat /\ l >= 1 /\ j \in Nat /\ j <= Len(q) /\ Len(q) \in Nat
        BY <2>2, <4>1
      <4>3. j < Len(q) + l
        BY <4>2
      <4> QED
        BY <3>2, <4>3
    <3> QED
      BY <3>1, <3>2, Concat
  <2> QED
    BY <2>1, <2>2, <2>3
<1> QED
  BY <1>2, <1>3

LEMMA HasAtOn ==
  ASSUME NEW q \in Seq(PumpMessage), NEW r \in Seq(PumpMessage), HasAt(q \o r)
  PROVE  HasAt(q) \/ HasAt(r)
<1>1. PICK i \in DOMAIN (q \o r) : (q \o r)[i] = Key("at", TRUE)
  BY DEF HasAt
<1>2. CASE i \in DOMAIN q
  BY <1>1, <1>2, Concat DEF HasAt
<1>3. ASSUME NEW j \in DOMAIN r, i = Len(q) + j
      PROVE  HasAt(r)
  <2>1. (q \o r)[Len(q) + j] = r[j]
    BY Concat
  <2>2. r[j] = Key("at", TRUE)
    BY <1>1, <1>3, <2>1
  <2> QED
    BY <2>2 DEF HasAt
<1> QED
  BY <1>2, <1>3, Concat

LEMMA UpQuiet ==
  ASSUME NEW h, Holding(h), NEW K \in SUBSET Keys
  PROVE  ~HasAt(Up(h, K)) /\ NoMods(Up(h, K))
<1>1. ASSUME NEW i \in DOMAIN Up(h, K)
      PROVE  \A s : Up(h, K)[i] # Key(s, TRUE)
  BY UpSays DEF Key
<1> QED
  BY <1>1 DEF HasAt, NoMods

(* Any further move that presses no modifier, or does so openly.           *)
LEMMA GoesOn ==
  ASSUME NEW n, NEW h, NEW b, NEW f, NEW M, NEW L, NEW g, NEW r,
         Goes(n, h, b, f, M), Moves(n, f.held, g, r), ~HasAt(r),
         \A k \in Keys : Real(g, k) => Real(f.held, k) \/ k \in L,
         Gentle(L) => NoMods(r) /\ \A k \in Keys \cap Modifiers : Real(g, k) => Real(f.held, k)
  PROVE  Goes(n, h, b, Sofar(g, f.todo \o r), M \cup L)
<1> DEFINE e == Sofar(g, f.todo \o r)
<1>1. e.held = g /\ e.todo = f.todo \o r
  BY DEF Sofar
<1>2. Moves(n, h, g, f.todo \o r)
  BY MovesOn DEF Goes
<1>3. r \in Seq(PumpMessage) /\ f.todo \in Seq(PumpMessage) /\ Holding(g)
  BY DEF Goes, Moves
<1>4. e \in Frames
  BY <1>2 DEF Moves, Holding, Frames, Sofar
<1>5. \A k \in Keys : Real(g, k) => Real(b.held, k) \/ k \in M \cup L
  BY DEF Goes
<1>6. HasAt(f.todo \o r) => HasAt(b.todo)
  BY <1>3, HasAtOn DEF Goes
<1>7. ASSUME Gentle(M \cup L)
      PROVE  /\ \A k \in Keys \cap Modifiers : Real(g, k) => Real(b.held, k)
             /\ Cleared(b.todo) => Cleared(f.todo \o r)
  <2>1. Gentle(M) /\ Gentle(L)
    BY <1>7 DEF Gentle
  <2> QED
    BY <1>3, <2>1, ClearedOn DEF Goes
<1> HIDE DEF e
<1> QED
  BY <1>1, <1>2, <1>4, <1>5, <1>6, <1>7 DEF Goes, e
LEMMA SofarIs ==
  ASSUME NEW h, NEW q
  PROVE  Sofar(h, q).held = h /\ Sofar(h, q).todo = q
  BY DEF Sofar

LEMMA SofarFrame ==
  ASSUME NEW h, Holding(h), NEW q \in Seq(PumpMessage)
  PROVE  Sofar(h, q) \in Frames
  BY DEF Sofar, Frames, Holding

LEMMA DownFrame ==
  ASSUME NEW f \in Frames, NEW k \in Keys
  PROVE  Down(f, k) \in Frames
<1>1. f.todo \in Seq(PumpMessage) /\ Holding(f.held)
  BY DEF Frames
<1>2. /\ Holding(Freed(f.held, Keys)) /\ Up(f.held, Keys) \in Seq(PumpMessage)
      /\ ~Real(Freed(f.held, Keys), k)
  BY <1>1, FreedMoves DEF Moves
<1>3. CASE k = "v" /\ "ctrl" \in phys /\ "shift" \in phys
  <2>1. Holding([Freed(f.held, Keys) EXCEPT ![k] = Swallowed])
    BY <1>2, SwallowMoves DEF Moves
  <2>2. Append(f.todo \o Up(f.held, Keys), Paste) \in Seq(PumpMessage)
    <3>1. f.todo \o Up(f.held, Keys) \in Seq(PumpMessage) /\ Paste \in PumpMessage
      BY <1>1, <1>2, Concat DEF PumpMessage
    <3> QED
      BY <3>1, AppendProperties
  <2> QED
    BY <1>3, <2>1, <2>2, SofarFrame DEF Down
<1>4. CASE ~(k = "v" /\ "ctrl" \in phys /\ "shift" \in phys)
  <2>1. CASE (altgr /\ k \in Modifiers) \/ (k \in Letters /\ ~shortcut)
    <3>1. Down(f, k) = f
      BY <1>4, <2>1, Zenon DEF Down
    <3> QED
      BY <3>1
  <2>2. CASE ~((altgr /\ k \in Modifiers) \/ (k \in Letters /\ ~shortcut))
    <3>1. Down(f, k) = Sofar([f.held EXCEPT ![k] = Keysym(k)], Append(f.todo, Key(Keysym(k), TRUE)))
      BY <1>4, <2>2, Zenon DEF Down
    <3>2. Keysym(k) \in Syms \ {"x", "X"}
      BY KeysymOwn, OwnSyms
    <3>3. Append(f.todo, Key(Keysym(k), TRUE)) \in Seq(PumpMessage)
      BY <1>1, <3>2, PumpKeys, AppendProperties
    <3>4. Holding([f.held EXCEPT ![k] = Keysym(k)])
      BY <1>1, <3>2, KeysymOwn DEF Holding
    <3> QED
      BY <3>1, <3>3, <3>4, SofarFrame
  <2> QED
    BY <2>1, <2>2
<1> QED
  BY <1>3, <1>4

LEMMA DownGoes ==
  ASSUME NEW n, NEW h, NEW b, NEW f, NEW M, NEW k \in Keys, Goes(n, h, b, f, M),
         n # 0 \/ ~Real(f.held, k)
  PROVE  Goes(n, h, b, Down(f, k), M \cup {k})
<1>1. f \in Frames /\ f.todo \in Seq(PumpMessage) /\ Holding(f.held)
  BY DEF Frames, Goes
<1>2. CASE k = "v" /\ "ctrl" \in phys /\ "shift" \in phys
  <2> DEFINE g == Freed(f.held, Keys)
             u == Up(f.held, Keys)
             e == Sofar(g, f.todo \o u)
  <2>1. Moves(n, f.held, g, u) /\ \A j \in Keys : ~Real(g, j)
    BY <1>1, FreedMoves
  <2>2. ~HasAt(u) /\ NoMods(u) /\ Holding(g) /\ u \in Seq(PumpMessage)
    BY <1>1, <2>1, UpQuiet DEF Moves
  <2> HIDE DEF g, u
  <2>3. Goes(n, h, b, e, M \cup {})
    BY <2>1, <2>2, GoesOn
  <2>4. Moves(n, g, [g EXCEPT ![k] = Swallowed], <<Paste>>)
    BY <2>1, <2>2, SwallowMoves
  <2>5. e.held = g /\ e.todo = f.todo \o u
    BY SofarIs
  <2>6. ~HasAt(<<Paste>>) /\ NoMods(<<Paste>>)
    BY DEF HasAt, NoMods, Paste, Key
  <2>7. \A j \in Keys : ~Real([g EXCEPT ![k] = Swallowed], j)
    BY <2>1, <2>2 DEF Real, Holding
  <2>8. Goes(n, h, b, Sofar([g EXCEPT ![k] = Swallowed], e.todo \o <<Paste>>), (M \cup {}) \cup {k})
    <3> HIDE DEF e
    <3>1. Moves(n, e.held, [g EXCEPT ![k] = Swallowed], <<Paste>>)
      BY <2>4, <2>5
    <3> QED
      BY <2>3, <2>6, <2>7, <3>1, GoesOn
  <2>9. Append(f.todo \o u, Paste) = (f.todo \o u) \o <<Paste>>
    <3>1. f.todo \o u \in Seq(PumpMessage) /\ Paste \in PumpMessage
      BY <1>1, <2>2, Concat DEF PumpMessage
    <3> QED
      BY <3>1, AppendIsConcat
  <2>10. Down(f, k) = Sofar([g EXCEPT ![k] = Swallowed], Append(f.todo \o u, Paste))
    BY <1>2 DEF Down, g, u
  <2>11. (M \cup {}) \cup {k} = M \cup {k}
    OBVIOUS
  <2> QED
    BY <2>5, <2>8, <2>9, <2>10, <2>11
<1>3. CASE ~(k = "v" /\ "ctrl" \in phys /\ "shift" \in phys)
  <2>1. CASE (altgr /\ k \in Modifiers) \/ (k \in Letters /\ ~shortcut)
    <3>1. Down(f, k) = f
      BY <1>3, <2>1, Zenon DEF Down
    <3>2. Gentle(M \cup {k}) => Gentle(M)
      BY DEF Gentle
    <3> QED
      BY <3>1, <3>2 DEF Goes
  <2>2. CASE ~((altgr /\ k \in Modifiers) \/ (k \in Letters /\ ~shortcut))
    <3> DEFINE s == Keysym(k)
    <3>1. Down(f, k) = Sofar([f.held EXCEPT ![k] = s], Append(f.todo, Key(s, TRUE)))
      BY <1>3, <2>2, Zenon DEF Down
    <3>2. s \in Own(k) /\ s \in Syms \ {"x", "X", "at"}
      BY KeysymOwn, OwnSyms
    <3> HIDE DEF s
    <3>3. Moves(n, f.held, [f.held EXCEPT ![k] = s], <<Key(s, TRUE)>>)
      BY <1>1, <3>2, PressMoves
    <3>4. Append(f.todo, Key(s, TRUE)) = f.todo \o <<Key(s, TRUE)>>
      BY <1>1, <3>2, PumpKeys, AppendIsConcat
    <3>5. ~HasAt(<<Key(s, TRUE)>>)
      BY <3>2 DEF HasAt, Key
    <3>6. \A j \in Keys : j # k => (Real([f.held EXCEPT ![k] = s], j) <=> Real(f.held, j))
      BY <1>1 DEF Holding, Real
    <3>7. ASSUME Gentle({k})
          PROVE  NoMods(<<Key(s, TRUE)>>) /\ k \notin Modifiers
      <4>1. k \notin Modifiers
        BY <2>2, <3>7 DEF Gentle
      <4>2. s \notin {"ctrl", "alt"}
        BY <3>2, <4>1, OwnSyms
      <4> QED
        BY <4>1, <4>2 DEF NoMods, Key
    <3>8. Goes(n, h, b, Sofar([f.held EXCEPT ![k] = s], f.todo \o <<Key(s, TRUE)>>), M \cup {k})
      <4>1. \A j \in Keys : Real([f.held EXCEPT ![k] = s], j) => Real(f.held, j) \/ j \in {k}
        BY <3>6
      <4>2. Gentle({k}) => /\ NoMods(<<Key(s, TRUE)>>)
                           /\ \A j \in Keys \cap Modifiers :
                                Real([f.held EXCEPT ![k] = s], j) => Real(f.held, j)
        BY <3>6, <3>7
      <4> QED
        BY <3>3, <3>5, <4>1, <4>2, GoesOn
    <3> QED
      BY <3>1, <3>4, <3>8
  <2> QED
    BY <2>1, <2>2
<1> QED
  BY <1>2, <1>3
LEMMA DownSteps ==
  ASSUME NEW b \in Frames, NEW ps \in Seq(Keys)
  PROVE  \E g \in [0 .. Len(ps) -> Frames] :
            /\ g[0] = b /\ \A j \in 1 .. Len(ps) : g[j] = Down(g[j - 1], ps[j])
            /\ DownAll(b, ps) = g[Len(ps)]
<1> DEFINE n == Len(ps)
           G == [x \in Frames \X (1 .. n) |-> Down(x[1], ps[x[2]])]
<1>1. n \in Nat
  BY LenProperties
<1>2. \A f \in Frames, j \in 1 .. n : Down(f, ps[j]) \in Frames
  BY DownFrame, ElementOfSeq
<1>3. G \in [Frames \X (1 .. n) -> Frames]
  BY <1>2
<1>4. \A f \in Frames, j \in 1 .. n : G[<<f, j>>] = Down(f, ps[j])
  OBVIOUS
<1> HIDE DEF G, n
<1>5. PICK g \in [0 .. n -> Frames] : Chain(g, b, G, n)
  BY <1>1, <1>3, Recursion
<1>6. g[0] = b /\ \A j \in 1 .. n : g[j] = G[<<g[j - 1], j>>]
  BY <1>5, Zenon DEF Chain
<1>7. \A j \in 1 .. n : g[j] = Down(g[j - 1], ps[j])
  <2>1. \A j \in 1 .. n : g[j - 1] \in Frames
    BY <1>1
  <2> QED
    BY <1>4, <1>6, <2>1
<1> DEFINE Step(f, j) == IF j = 0 THEN b ELSE Down(f[j - 1], ps[j])
           h == [j \in 0 .. n |-> Step(g, j)]
<1>8. ASSUME NEW j \in 0 .. n
      PROVE  g[j] = h[j]
  <2>1. CASE j = 0
    BY <1>6, <2>1
  <2>2. CASE j # 0
    <3>1. j \in 1 .. n
      BY <1>1, <2>2
    <3> QED
      BY <1>7, <2>2, <3>1
  <2> QED
    BY <2>1, <2>2
<1>9. g = h
  BY <1>8
<1> DEFINE after == CHOOSE f : f = [j \in 0 .. n |-> Step(f, j)]
<1>10. after = [j \in 0 .. n |-> Step(after, j)]
  BY <1>9
<1>11. DownAll(b, ps) = after[n]
  BY DEF DownAll, n
<1> HIDE DEF after
<1>12. \A j \in 0 .. n : after[j] = IF j = 0 THEN b ELSE Down(after[j - 1], ps[j])
  BY <1>10
<1>13. after[0] = b /\ \A j \in 1 .. n : after[j] = Down(after[j - 1], ps[j])
  <2>1. 0 \in 0 .. n /\ \A j \in 1 .. n : j \in 0 .. n /\ j # 0
    BY <1>1
  <2> QED
    BY <1>12, <2>1
<1> DEFINE Bad == {j \in Nat : j \in 0 .. n /\ after[j] \notin Frames}
<1>14. Bad = {}
  <2>1. SUFFICES ASSUME Bad # {} PROVE FALSE
    OBVIOUS
  <2>2. PICK j \in Bad : \A i \in Bad : j <= i
    BY <2>1, LeastExists
  <2>3. j \in 0 .. n /\ after[j] \notin Frames
    BY <1>1, <2>2
  <2>4. j # 0
    BY <1>13, <2>3
  <2>5. j \in 1 .. n /\ j - 1 \in 0 .. n /\ j - 1 \in Nat /\ j - 1 < j
    BY <1>1, <2>3, <2>4
  <2>6. j - 1 \notin Bad
    BY <2>2, <2>3, <2>5
  <2>7. after[j - 1] \in Frames
    BY <2>5, <2>6
  <2>8. after[j] = Down(after[j - 1], ps[j])
    BY <1>13, <2>5
  <2> QED
    BY <1>2, <2>3, <2>5, <2>7, <2>8
<1>15. after \in [0 .. n -> Frames]
  <2>1. ASSUME NEW j \in 0 .. n
        PROVE  after[j] \in Frames
    <3> HIDE DEF Bad
    <3>1. j \notin Bad
      BY <1>14, Zenon
    <3>2. j \in Nat
      BY <1>1
    <3> QED
      BY <3>1, <3>2 DEF Bad
  <2> QED
    BY <1>10, <2>1
<1> QED
  BY <1>11, <1>13, <1>15 DEF n

LEMMA DownAllGoes ==
  ASSUME NEW n, NEW h, NEW b, b \in Frames, Moves(n, h, b.held, b.todo),
         NEW S \in SUBSET Keys, NEW ps \in SetToSeqs(S),
         n # 0 \/ \A k \in S : ~Real(b.held, k)
  PROVE  Goes(n, h, b, DownAll(b, ps), S)
<1> DEFINE N == Cardinality(S)
           M(j) == {ps[i] : i \in 1 .. j}
<1>1. N \in Nat
  BY FewKeys, FS_Subset, FS_CardinalityType
<1>2. ps \in [1 .. N -> S] /\ \A i, j \in 1 .. N : i # j => ps[i] # ps[j]
  BY DEF SetToSeqs
<1>3. ps \in Seq(Keys) /\ Len(ps) = N
  <2>1. ps \in [1 .. N -> Keys]
    BY <1>2
  <2>2. ps \in Seq(Keys)
    BY <1>1, <2>1, SeqDef
  <2>3. DOMAIN ps = 1 .. Len(ps) /\ DOMAIN ps = 1 .. N /\ Len(ps) \in Nat
    BY <1>2, <2>2, LenProperties
  <2> QED
    BY <1>1, <2>2, <2>3
<1> HIDE DEF N
<1>4. PICK g \in [0 .. N -> Frames] :
        /\ g[0] = b /\ \A j \in 1 .. N : g[j] = Down(g[j - 1], ps[j])
        /\ DownAll(b, ps) = g[N]
  BY <1>3, DownSteps
<1> DEFINE Bad == {j \in Nat : j \in 0 .. N /\ ~Goes(n, h, b, g[j], M(j))}
<1>5. Bad = {}
  <2>1. SUFFICES ASSUME Bad # {} PROVE FALSE
    OBVIOUS
  <2>2. PICK j \in Bad : \A i \in Bad : j <= i
    BY <2>1, LeastExists
  <2>3. j \in 0 .. N /\ ~Goes(n, h, b, g[j], M(j))
    BY <1>1, <2>2
  <2>4. CASE j = 0
    <3>1. g[j] = b
      BY <1>4, <2>4
    <3>2. Goes(n, h, b, b, M(j))
      BY DEF Goes
    <3> QED
      BY <2>3, <3>1, <3>2
  <2>5. CASE j # 0
    <3>1. j \in 1 .. N /\ j - 1 \in 0 .. N /\ j - 1 \in Nat /\ j - 1 < j
      BY <1>1, <2>3, <2>5
    <3>2. j - 1 \notin Bad
      BY <2>2, <2>3, <3>1
    <3>3. Goes(n, h, b, g[j - 1], M(j - 1))
      BY <3>1, <3>2
    <3>4. ps[j] \in S /\ ps[j] \notin M(j - 1)
      <4>1. \A i \in 1 .. j - 1 : i \in 1 .. N /\ i # j
        BY <1>1, <3>1
      <4> QED
        BY <1>2, <3>1, <4>1
    <3> HIDE DEF M
    <3>5. n # 0 \/ ~Real(g[j - 1].held, ps[j])
      BY <3>3, <3>4 DEF Goes
    <3>6. Goes(n, h, b, Down(g[j - 1], ps[j]), M(j - 1) \cup {ps[j]})
      BY <3>3, <3>4, <3>5, DownGoes
    <3>7. M(j - 1) \cup {ps[j]} = M(j)
      <4>1. 1 .. j = (1 .. j - 1) \cup {j}
        BY <1>1, <3>1
      <4> QED
        BY <4>1 DEF M
    <3>8. g[j] = Down(g[j - 1], ps[j])
      BY <1>4, <3>1
    <3> QED
      BY <2>3, <3>6, <3>7, <3>8
  <2> QED
    BY <2>4, <2>5
<1>6. Goes(n, h, b, g[N], M(N))
  <2> HIDE DEF Bad
  <2>1. N \notin Bad
    BY <1>5, Zenon
  <2>2. N \in Nat /\ N \in 0 .. N
    BY <1>1
  <2> QED
    BY <2>1, <2>2 DEF Bad
<1>7. M(N) \subseteq S
  BY <1>2
<1>8. S \subseteq M(N)
  <2>1. IsFiniteSet(S)
    BY FewKeys, FS_Subset
  <2>2. IsFiniteSet(1 .. N) /\ Cardinality(1 .. N) = N
    BY <1>1, FS_Interval
  <2>3. ps \in Injection(1 .. N, S)
    BY <1>2 DEF Injection, IsInjective
  <2>4. ps \in Surjection(1 .. N, S)
    BY <2>1, <2>2, <2>3, FS_Injection DEF N
  <2> QED
    BY <2>4 DEF Surjection
<1> QED
  BY <1>4, <1>6, <1>7, <1>8
----------------------------------------------------------------------------
(* Characters, and the clipboard's.                                        *)

LEMMA StrokeEven ==
  ASSUME NEW S, NEW s, Key(s, TRUE) \in S, Key(s, FALSE) \in S
  PROVE  Stroke(s) \in Seq(S) /\ Even(Stroke(s))
<1> DEFINE q == <<Key(s, TRUE), Key(s, FALSE)>>
<1>1. q[1].down /\ ~q[2].down /\ q[1].sym = s /\ q[2].sym = s /\ DOMAIN q = {1, 2}
  BY DEF Key
<1>2. q \in Seq(S)
  BY ShortSeqs
<1>3. Stroke(s) = q
  BY DEF Stroke
<1> HIDE DEF q
<1>4. Lets(0, q, 1, s)
  BY <1>1 DEF Lets, Alike
<1>5. Even(q)
  BY <1>1, <1>4 DEF Even
<1> QED
  BY <1>2, <1>3, <1>5

LEMMA NestEven ==
  ASSUME NEW S, NEW a \in S, NEW b \in S, NEW c \in S, NEW d \in S,
         a.down, b.down, ~c.down, ~d.down, a.sym = d.sym, b.sym = c.sym
  PROVE  <<a>> \o <<b, c>> \o <<d>> \in Seq(S) /\ Even(<<a>> \o <<b, c>> \o <<d>>)
<1> DEFINE q == <<a, b, c, d>>
<1>1. q \in Seq(S) /\ <<a>> \o <<b, c>> \o <<d>> = q
  BY ShortSeqs
<1>2. DOMAIN q = {1, 2, 3, 4} /\ q[1] = a /\ q[2] = b /\ q[3] = c /\ q[4] = d
  OBVIOUS
<1> HIDE DEF q
<1>3. Lets(0, q, 1, a.sym)
  BY <1>2 DEF Lets, Alike
<1>4. Lets(0, q, 2, b.sym)
  BY <1>2 DEF Lets, Alike
<1>5. Even(q)
  BY <1>2, <1>3, <1>4 DEF Even
<1> QED
  BY <1>1, <1>5

LEMMA ShiftedEven ==
  ASSUME NEW S, NEW s, Key(s, TRUE) \in S, Key(s, FALSE) \in S,
         Key("shift", TRUE) \in S, Key("shift", FALSE) \in S
  PROVE  /\ <<Key("shift", TRUE)>> \o Stroke(s) \o <<Key("shift", FALSE)>> \in Seq(S)
         /\ Even(<<Key("shift", TRUE)>> \o Stroke(s) \o <<Key("shift", FALSE)>>)
<1>1. PICK a \in S : a = Key("shift", TRUE)
  OBVIOUS
<1>2. PICK b \in S : b = Key(s, TRUE)
  OBVIOUS
<1>3. PICK c \in S : c = Key(s, FALSE)
  OBVIOUS
<1>4. PICK d \in S : d = Key("shift", FALSE)
  OBVIOUS
<1>5. a.down /\ b.down /\ ~c.down /\ ~d.down /\ a.sym = d.sym /\ b.sym = c.sym
  BY <1>1, <1>2, <1>3, <1>4 DEF Key
<1>6. <<a>> \o <<b, c>> \o <<d>> \in Seq(S) /\ Even(<<a>> \o <<b, c>> \o <<d>>)
  BY <1>5, NestEven
<1> QED
  BY <1>1, <1>2, <1>3, <1>4, <1>6 DEF Stroke

LEMMA CharsFlat ==
  ASSUME chars \in Seq(Strokes)
  PROVE  LET q == FlattenSeq([i \in DOMAIN chars |-> Stroke(chars[i])])
         IN  /\ q \in Seq(PumpMessage) /\ Even(q) /\ NoMods(q)
             /\ HasAt(q) => \E i \in DOMAIN chars : chars[i] = "at"
<1> DEFINE T == {Key(chars[i], d) : i \in DOMAIN chars, d \in BOOLEAN}
           seqs == [i \in DOMAIN chars |-> Stroke(chars[i])]
           q == FlattenSeq(seqs)
<1>1. Len(chars) \in Nat /\ DOMAIN chars = 1 .. Len(chars)
  BY LenProperties
<1>2. ASSUME NEW i \in DOMAIN chars
      PROVE  Stroke(chars[i]) \in Seq(T) /\ Even(Stroke(chars[i])) /\ chars[i] \in Strokes
  <2>1. ASSUME NEW d \in BOOLEAN
        PROVE  Key(chars[i], d) \in T
    OBVIOUS
  <2> HIDE DEF T
  <2>2. Key(chars[i], TRUE) \in T /\ Key(chars[i], FALSE) \in T
    BY <2>1
  <2>3. Stroke(chars[i]) \in Seq(T) /\ Even(Stroke(chars[i]))
    BY <2>2, StrokeEven
  <2> QED
    BY <1>1, <2>3, ElementOfSeq
<1>3. T \subseteq PumpMessage
  BY <1>2 DEF PumpMessage, Strokes, Syms
<1>4. ASSUME NEW m \in T
      PROVE  \E i \in DOMAIN chars : m.sym = chars[i]
  BY DEF Key
<1> HIDE DEF T
<1>5. seqs \in Seq(Seq(T)) /\ DOMAIN seqs = DOMAIN chars
  <2>1. seqs \in [1 .. Len(chars) -> Seq(T)]
    BY <1>1, <1>2
  <2> QED
    BY <1>1, <2>1, SeqDef
<1>6. \A i \in DOMAIN seqs : Even(seqs[i])
  BY <1>2
<1> HIDE DEF seqs
<1>7. q \in Seq(T) /\ Even(q)
  BY <1>5, <1>6, FlatEven
<1> HIDE DEF q
<1>8. q \in Seq(PumpMessage)
  BY <1>3, <1>7, SeqMonotonic
<1>9. ASSUME NEW j \in DOMAIN q
      PROVE  \E i \in DOMAIN chars : q[j].sym = chars[i]
  <2>1. q[j] \in T
    BY <1>7, ElementOfSeq, LenProperties
  <2> QED
    BY <1>4, <2>1
<1>10. NoMods(q)
  <2>1. \A j \in DOMAIN q : q[j].sym \in Strokes
    BY <1>2, <1>9
  <2> QED
    BY <2>1 DEF NoMods, Key, Strokes
<1>11. HasAt(q) => \E i \in DOMAIN chars : chars[i] = "at"
  BY <1>9 DEF HasAt, Key
<1> QED
  BY <1>7, <1>8, <1>10, <1>11 DEF q, seqs

LEMMA TypingEven == Typing \in Seq(TypeMessage) /\ Even(Typing)
<1> DEFINE Block(i) == IF Text[i][2]
                         THEN <<Key("shift", TRUE)>> \o Stroke(Text[i][1]) \o <<Key("shift", FALSE)>>
                         ELSE Stroke(Text[i][1])
           seqs == [i \in DOMAIN Text |-> Block(i)]
<1>1. Len(Text) \in Nat /\ DOMAIN Text = 1 .. Len(Text) /\ Text \in Seq({"x", "X"} \X BOOLEAN)
  BY InputAssumption, LenProperties
<1>2. ASSUME NEW i \in DOMAIN Text
      PROVE  Block(i) \in Seq(TypeMessage) /\ Even(Block(i))
  <2>1. Text[i][1] \in {"x", "X"}
    BY <1>1, ElementOfSeq
  <2>2. \A s \in Pasted, d \in BOOLEAN : Key(s, d) \in TypeMessage
    BY DEF TypeMessage
  <2>3. /\ Key(Text[i][1], TRUE) \in TypeMessage /\ Key(Text[i][1], FALSE) \in TypeMessage
        /\ Key("shift", TRUE) \in TypeMessage /\ Key("shift", FALSE) \in TypeMessage
    BY <2>1, <2>2 DEF Pasted
  <2> QED
    BY <2>3, StrokeEven, ShiftedEven
<1>3. Typing = FlattenSeq(seqs)
  BY DEF Typing
<1> HIDE DEF Block
<1>4. seqs \in Seq(Seq(TypeMessage)) /\ DOMAIN seqs = DOMAIN Text
  <2>1. seqs \in [1 .. Len(Text) -> Seq(TypeMessage)]
    BY <1>1, <1>2
  <2> QED
    BY <1>1, <2>1, SeqDef
<1>5. \A i \in DOMAIN seqs : Even(seqs[i])
  BY <1>2
<1> HIDE DEF seqs
<1> QED
  BY <1>3, <1>4, <1>5, FlatEven
----------------------------------------------------------------------------
(* A whole frame.  What AltGr's virtual keys are down for, at its start.   *)
Traced == \A m \in {"ctrl", "alt"} : Vk(m) \in vks =>
            \E k \in Keys \cap Modifiers : Real(held, k) /\ held[k] = m

LEMMA HeldBack ==
  ASSUME NEW n, Holding(held), NEW b, b = HoldBack(Sofar(held, <<>>))
  PROVE  /\ b \in Frames /\ Moves(n, held, b.held, b.todo) /\ ~HasAt(b.todo)
         /\ \A k \in Keys : Real(b.held, k) => Real(held, k)
         /\ altgr => \A k \in Keys \cap Modifiers : ~Real(b.held, k)
         /\ Traced /\ (altgr \/ Unmodified) => Cleared(b.todo)
<1> DEFINE K == Modifiers \cap Keys
<1>1. /\ Moves(n, held, Freed(held, K), Up(held, K))
      /\ \A k \in K : ~Real(Freed(held, K), k)
  BY FreedMoves
<1>2. Freed(held, Modifiers) = Freed(held, K)
  BY DEF Freed
<1>3. \A k \in Keys : Real(Freed(held, K), k) => Real(held, k)
  BY DEF Freed, Real
<1>4. <<>> \in Seq(PumpMessage) /\ DOMAIN <<>> = {}
  BY EmptySeq
<1>5. CASE altgr
  <2>1. b = Sofar(Freed(held, K), <<>> \o Up(held, K))
    BY <1>2, <1>5, SofarIs DEF HoldBack
  <2>2. <<>> \o Up(held, K) = Up(held, K)
    BY <1>1, ConcatEmptySeq DEF Moves
  <2>3. b = Sofar(Freed(held, K), Up(held, K))
    BY <2>1, <2>2
  <2>4. b.held = Freed(held, K) /\ b.todo = Up(held, K) /\ b \in Frames
    BY <1>1, <2>3, SofarIs, SofarFrame DEF Moves
  <2>5. ~HasAt(Up(held, K)) /\ NoMods(Up(held, K))
    BY UpQuiet
  <2>6. ASSUME Traced PROVE Cleared(Up(held, K))
    <3>1. SUFFICES ASSUME NEW m \in {"ctrl", "alt"}
                   PROVE  /\ \A j \in DOMAIN Up(held, K) : Up(held, K)[j] # Key(m, TRUE)
                          /\ Vk(m) \in vks => \E j \in DOMAIN Up(held, K) : Up(held, K)[j] = Key(m, FALSE)
      BY <2>5 DEF Cleared, HasAt
    <3>2. \A j \in DOMAIN Up(held, K) : Up(held, K)[j] # Key(m, TRUE)
      BY <2>5 DEF NoMods
    <3>3. ASSUME Vk(m) \in vks
          PROVE  \E j \in DOMAIN Up(held, K) : Up(held, K)[j] = Key(m, FALSE)
      <4>1. PICK k \in Keys \cap Modifiers : Real(held, k) /\ held[k] = m
        BY <2>6, <3>3 DEF Traced
      <4>2. PICK j \in DOMAIN Up(held, K) : Up(held, K)[j] = Key(held[k], FALSE)
        <5>1. k \in K /\ K \in SUBSET Keys
          BY <4>1
        <5> QED
          BY <4>1, <5>1, UpSays
      <4> QED
        BY <4>1, <4>2
    <3> QED
      BY <3>2, <3>3
  <2> QED
    BY <1>1, <1>3, <2>4, <2>5, <2>6
<1>6. CASE ~altgr
  <2>1. b = Sofar(held, <<>>)
    BY <1>6 DEF HoldBack
  <2>2. b.held = held /\ b.todo = <<>> /\ b \in Frames
    BY <1>4, <2>1, SofarIs, SofarFrame
  <2>3. Moves(n, held, held, <<>>)
    BY MovesNot
  <2>4. ~HasAt(<<>>)
    BY <1>4 DEF HasAt
  <2>5. Traced /\ Unmodified => Cleared(<<>>)
    BY <1>4 DEF Traced, Unmodified, Cleared
  <2> QED
    BY <1>6, <2>2, <2>3, <2>4, <2>5
<1> QED
  BY <1>5, <1>6

(* ps are the keys S in some order, f what pump makes of them.             *)
Pumps(n, S, ps, f) ==
  /\ Holding(held) /\ gone \subseteq Keys /\ chars \in Seq(Strokes)
  /\ S \in SUBSET Keys /\ ps \in SetToSeqs(S) /\ (n # 0 \/ \A k \in S : ~Real(held, k))
  /\ f = Pumped(ps)

LEMMA PumpedMoves ==
  ASSUME NEW n, NEW S, NEW ps, NEW f, Pumps(n, S, ps, f)
  PROVE  /\ Moves(n, held, f.held, f.todo)
         /\ \A k \in Keys : Real(f.held, k) => (Real(held, k) \/ k \in S) /\ k \notin gone
         /\ altgr => \A k \in Keys \cap Modifiers : ~Real(f.held, k)
         /\ HasAt(f.todo) => ~shortcut /\ \E i \in DOMAIN chars : chars[i] = "at"
         /\ Traced /\ (altgr \/ (S \cap Modifiers = {} /\ Unmodified)) => Cleared(f.todo)
<1> USE DEF Pumps
<1>1. PICK b : b = HoldBack(Sofar(held, <<>>))
  OBVIOUS
<1>2. PICK d : d = DownAll(b, ps)
  OBVIOUS
<1>3. PICK e : e = Typed(d)
  OBVIOUS
<1>4. f = LetGo(e)
  BY <1>1, <1>2, <1>3 DEF Pumped
<1>5. /\ b \in Frames /\ Moves(n, held, b.held, b.todo) /\ ~HasAt(b.todo)
      /\ \A k \in Keys : Real(b.held, k) => Real(held, k)
      /\ altgr => \A k \in Keys \cap Modifiers : ~Real(b.held, k)
      /\ Traced /\ (altgr \/ Unmodified) => Cleared(b.todo)
  BY <1>1, HeldBack
<1>6. Goes(n, held, b, d, S)
  <2>1. n # 0 \/ \A k \in S : ~Real(b.held, k)
    BY <1>5
  <2> QED
    BY <1>2, <1>5, <2>1, DownAllGoes
<1>7. /\ d \in Frames /\ Moves(n, held, d.held, d.todo)
      /\ \A k \in Keys : Real(d.held, k) => Real(held, k) \/ k \in S
      /\ ~HasAt(d.todo)
      /\ altgr => \A k \in Keys \cap Modifiers : ~Real(d.held, k)
      /\ Traced /\ (altgr \/ (S \cap Modifiers = {} /\ Unmodified)) => Cleared(d.todo)
  BY <1>5, <1>6 DEF Goes, Gentle
<1>8. Holding(d.held) /\ d.todo \in Seq(PumpMessage)
  BY <1>7 DEF Frames
<1>9. /\ e.held = d.held /\ Moves(n, held, e.held, e.todo) /\ e.todo \in Seq(PumpMessage)
      /\ HasAt(e.todo) => ~shortcut /\ \E i \in DOMAIN chars : chars[i] = "at"
      /\ Cleared(d.todo) => Cleared(e.todo)
  <2>1. CASE shortcut
    <3>1. e = d
      BY <1>3, <2>1 DEF Typed
    <3> QED
      BY <1>7, <1>8, <3>1
  <2>2. CASE ~shortcut
    <3>1. PICK q : q = FlattenSeq([i \in DOMAIN chars |-> Stroke(chars[i])])
      OBVIOUS
    <3>2. /\ q \in Seq(PumpMessage) /\ Even(q) /\ NoMods(q)
          /\ HasAt(q) => \E i \in DOMAIN chars : chars[i] = "at"
      BY <3>1, CharsFlat
    <3>3. e = Sofar(d.held, d.todo \o q)
      BY <1>3, <2>2, <3>1 DEF Typed
    <3>4. e.held = d.held /\ e.todo = d.todo \o q
      BY <3>3, SofarIs
    <3>5. Moves(n, d.held, d.held, q)
      BY <1>8, <3>2, StrokesMove
    <3>6. Moves(n, held, e.held, e.todo) /\ e.todo \in Seq(PumpMessage)
      BY <1>7, <1>8, <3>2, <3>4, <3>5, MovesOn, Concat
    <3>7. HasAt(e.todo) => \E i \in DOMAIN chars : chars[i] = "at"
      BY <1>7, <1>8, <3>2, <3>4, HasAtOn
    <3>8. Cleared(d.todo) => Cleared(e.todo)
      BY <1>8, <3>2, <3>4, ClearedOn
    <3> QED
      BY <2>2, <3>4, <3>6, <3>7, <3>8
  <2> QED
    BY <2>1, <2>2
<1>10. /\ Moves(n, e.held, Freed(e.held, gone), Up(e.held, gone))
       /\ \A k \in gone : ~Real(Freed(e.held, gone), k)
       /\ ~HasAt(Up(e.held, gone)) /\ NoMods(Up(e.held, gone))
  BY <1>8, <1>9, FreedMoves, UpQuiet
<1>11. f.held = Freed(e.held, gone) /\ f.todo = e.todo \o Up(e.held, gone)
  <2>1. f = Sofar(Freed(e.held, gone), e.todo \o Up(e.held, gone))
    BY <1>4 DEF LetGo
  <2>2. PICK g : g = Freed(e.held, gone)
    OBVIOUS
  <2>3. PICK q : q = e.todo \o Up(e.held, gone)
    OBVIOUS
  <2>4. f = Sofar(g, q)
    BY <2>1, <2>2, <2>3
  <2>5. f.held = g
    BY <2>4, SofarIs
  <2>6. f.todo = q
    BY <2>4, SofarIs
  <2> QED
    BY <2>2, <2>3, <2>5, <2>6
<1>12. Moves(n, held, f.held, f.todo)
  BY <1>9, <1>10, <1>11, MovesOn
<1>13. \A k \in Keys : Real(f.held, k) => Real(d.held, k)
  BY <1>9, <1>11 DEF Freed, Real
<1>14. HasAt(f.todo) => HasAt(e.todo)
  BY <1>9, <1>10, <1>11, HasAtOn DEF Moves
<1>15. Cleared(e.todo) => Cleared(f.todo)
  BY <1>9, <1>10, <1>11, ClearedOn DEF Moves
<1> QED
  BY <1>7, <1>9, <1>10, <1>11, <1>12, <1>13, <1>14, <1>15

LEMMA ReleasedMoves ==
  ASSUME Holding(held), NEW n, NEW f, f = Released
  PROVE  /\ Moves(n, held, f.held, f.todo) /\ ~HasAt(f.todo)
         /\ \A k \in Keys : ~Real(f.held, k)
<1>1. f.held = Freed(held, Keys) /\ f.todo = Up(held, Keys)
  BY SofarIs DEF Released
<1> QED
  BY <1>1, FreedMoves, UpQuiet
----------------------------------------------------------------------------
(* A message at the server.                                                *)

LEMMA ArrivesTyped ==
  ASSUME TypeOK, NEW m, m.sym \in Syms, m.down \in BOOLEAN, Arrives(m)
  PROVE  /\ syms' \subseteq Syms /\ shiftHeld' \in BOOLEAN /\ vks' \subseteq {Vk(s) : s \in Syms}
         /\ m.down => /\ syms' = syms \cup {m.sym}
                      /\ vks' \subseteq vks \cup {Vk(m.sym), "VK_LSHIFT"}
         /\ ~m.down => /\ syms' = syms \ {m.sym}
                       /\ vks' \subseteq vks /\ Vk(m.sym) \notin vks'
<1>1. Vk("shift") = "VK_LSHIFT" /\ "shift" \in Syms
  BY DEF Vk, Syms
<1>2. CASE m.down
  <2>1. syms' = syms \cup {m.sym} /\ vks' \subseteq vks \cup {Vk(m.sym), "VK_LSHIFT"}
    BY <1>2 DEF Arrives, Inject
  <2>2. vks' \subseteq {Vk(s) : s \in Syms}
    BY <1>1, <2>1 DEF TypeOK
  <2> QED
    BY <1>2, <2>1, <2>2 DEF TypeOK, Arrives
<1>3. CASE ~m.down
  <2>1. syms' = syms \ {m.sym} /\ vks' \subseteq vks /\ Vk(m.sym) \notin vks'
    BY <1>3 DEF Arrives, Inject
  <2> QED
    BY <1>3, <2>1 DEF TypeOK, Arrives
<1> QED
  BY <1>2, <1>3

LEMMA ShiftOnly ==
  ASSUME NEW s \in Syms
  PROVE  Vk(s) = "VK_LSHIFT" <=> s = "shift"
  BY DEF Syms, Vk

LEMMA ArrivesExplained ==
  ASSUME TypeOK, Explained, ShiftTold, NEW m, m.sym \in Syms, m.down \in BOOLEAN, Arrives(m), left' = left
  PROVE  Explained' /\ ShiftTold'
<1> DEFINE sh == shiftHeld'
<1>1. sh = (IF m.sym = "shift" THEN m.down ELSE shiftHeld) /\ shiftHeld \in BOOLEAN
  BY DEF Arrives, TypeOK
<1>2. syms' = IF m.down THEN syms \cup {m.sym} ELSE syms \ {m.sym}
  BY DEF Arrives
<1>3. ShiftTold'
  BY <1>1, <1>2 DEF ShiftTold
<1>4. ASSUME NEW v \in vks', v \notin left
      PROVE  \E s \in syms' : v \in Vks(s)
  <2>1. CASE m.down
    <3>1. v \in vks \/ v \in Vks(m.sym)
      BY <1>4, <2>1 DEF Arrives, Inject, Vks
    <3>2. CASE v \in vks
      <4>1. PICK s \in syms : v \in Vks(s)
        BY <1>4, <3>2 DEF Explained
      <4> QED
        BY <1>2, <2>1, <4>1
    <3> QED
      BY <1>2, <2>1, <3>1, <3>2
  <2>2. CASE ~m.down
    <3>1. v \in vks /\ v # Vk(m.sym) /\ (m.sym \in Capitals /\ ~sh => v # "VK_LSHIFT")
      BY <2>2 DEF Arrives, Inject
    <3>2. PICK s \in syms : v \in Vks(s)
      BY <1>4, <3>1 DEF Explained
    <3>3. CASE s # m.sym
      BY <1>2, <2>2, <3>2, <3>3
    <3>4. CASE s = m.sym
      <4>1. v = "VK_LSHIFT" /\ m.sym \in Capitals /\ sh
        BY <3>1, <3>2, <3>4 DEF Vks
      <4>2. m.sym # "shift"
        BY <4>1 DEF Capitals
      <4>3. "shift" \in syms' /\ v \in Vks("shift")
        BY <1>1, <1>3, <4>1, <4>2 DEF ShiftTold, Vks, Vk
      <4> QED
        BY <4>3
    <3> QED
      BY <3>3, <3>4
  <2> QED
    BY <2>1, <2>2
<1>5. Explained'
  BY <1>4 DEF Explained
<1> QED
  BY <1>3, <1>5

(* What is sent next.                                                      *)
LEMMA Rest ==
  ASSUME NEW S, NEW q \in Seq(S), q # <<>>
  PROVE  /\ Tail(q) \in Seq(S) /\ 1 \in DOMAIN q /\ q[1] = Head(q) /\ Head(q) \in S
         /\ \A i \in DOMAIN Tail(q) : i \in Nat /\ i >= 1 /\ i + 1 \in DOMAIN q /\ Tail(q)[i] = q[i + 1]
         /\ \A i \in DOMAIN q : i = 1 \/ (i - 1 \in DOMAIN Tail(q) /\ i \in Nat /\ Tail(q)[i - 1] = q[i])
<1>1. Len(q) \in Nat /\ Len(q) >= 1 /\ DOMAIN q = 1 .. Len(q)
  BY EmptySeq, LenProperties
<1>2. /\ Head(q) \in S /\ Tail(q) \in Seq(S) /\ Head(q) = q[1] /\ Len(Tail(q)) = Len(q) - 1
      /\ \A i \in 1 .. Len(Tail(q)) : Tail(q)[i] = q[i + 1]
  BY HeadTailProperties
<1>3. DOMAIN Tail(q) = 1 .. Len(q) - 1
  BY <1>2, LenProperties
<1>4. \A i \in 1 .. Len(q) - 1 : i \in Nat /\ i >= 1 /\ i + 1 \in 1 .. Len(q) /\ Tail(q)[i] = q[i + 1]
  BY <1>1, <1>2, <1>3
<1>5. ASSUME NEW i \in 1 .. Len(q), i # 1
      PROVE  i - 1 \in 1 .. Len(q) - 1 /\ i \in Nat /\ Tail(q)[i - 1] = q[i]
  <2>1. i - 1 \in 1 .. Len(q) - 1 /\ i \in Nat /\ (i - 1) + 1 = i
    BY <1>1, <1>5
  <2>2. Tail(q)[i - 1] = q[(i - 1) + 1]
    BY <1>4, <2>1
  <2> QED
    BY <2>1, <2>2
<1> QED
  BY <1>1, <1>2, <1>3, <1>4, <1>5

(* A debt that the message sent did not pay is still to be paid.           *)
LEMMA LetsRest ==
  ASSUME NEW S, NEW q \in Seq(S), q # <<>>, NEW n, NEW i \in Nat, NEW s, Lets(n, q, i, s)
  PROVE  /\ i >= 1 => Lets(n, Tail(q), i - 1, s)
         /\ i = 0 => Lets(n, Tail(q), 0, s) \/ (~Head(q).down /\ Alike(n, Head(q).sym, s))
<1>1. PICK j \in DOMAIN q : j > i /\ ~q[j].down /\ Alike(n, q[j].sym, s)
  BY DEF Lets
<1>2. CASE j = 1
  <2>1. i = 0
    BY <1>1, <1>2
  <2> QED
    BY <1>1, <1>2, <2>1, Rest
<1>3. CASE j # 1
  <2>1. j - 1 \in DOMAIN Tail(q) /\ j \in Nat /\ Tail(q)[j - 1] = q[j]
    BY <1>3, Rest
  <2>2. j - 1 > 0 /\ (i >= 1 => j - 1 > i - 1)
    <3>1. j - 1 \in Nat /\ j - 1 >= 1
      BY <2>1, Rest
    <3> QED
      BY <1>1, <2>1, <3>1
  <2>3. ~Tail(q)[j - 1].down /\ Alike(n, Tail(q)[j - 1].sym, s)
    BY <1>1, <2>1
  <2> QED
    BY <2>1, <2>2, <2>3 DEF Lets
<1> QED
  BY <1>2, <1>3

LEMMA PairedRest ==
  ASSUME NEW S, NEW q \in Seq(S), q # <<>>, NEW n, NEW h, Paired(n, h, q)
  PROVE  Paired(n, h, Tail(q))
<1>1. SUFFICES ASSUME NEW i \in DOMAIN Tail(q), Tail(q)[i].do = "key", Tail(q)[i].down
               PROVE  Keeps(n, h, Tail(q)[i].sym) \/ Lets(n, Tail(q), i, Tail(q)[i].sym)
  BY DEF Paired
<1>2. i \in Nat /\ i + 1 \in DOMAIN q /\ Tail(q)[i] = q[i + 1] /\ i + 1 >= 1 /\ (i + 1) - 1 = i /\ i + 1 \in Nat
  BY Rest
<1>3. Keeps(n, h, q[i + 1].sym) \/ Lets(n, q, i + 1, q[i + 1].sym)
  BY <1>1, <1>2 DEF Paired
<1>4. Lets(n, q, i + 1, q[i + 1].sym) => Lets(n, Tail(q), (i + 1) - 1, q[i + 1].sym)
  BY <1>2, LetsRest
<1> QED
  BY <1>2, <1>3, <1>4

LEMMA EvenRest ==
  ASSUME NEW S, NEW q \in Seq(S), q # <<>>, Even(q)
  PROVE  Even(Tail(q))
<1>1. SUFFICES ASSUME NEW i \in DOMAIN Tail(q), Tail(q)[i].down
               PROVE  Lets(0, Tail(q), i, Tail(q)[i].sym)
  BY DEF Even
<1>2. i \in Nat /\ i + 1 \in DOMAIN q /\ Tail(q)[i] = q[i + 1] /\ i + 1 >= 1 /\ (i + 1) - 1 = i /\ i + 1 \in Nat
  BY Rest
<1>3. Lets(0, q, i + 1, q[i + 1].sym)
  BY <1>1, <1>2 DEF Even
<1>4. Lets(0, Tail(q), (i + 1) - 1, q[i + 1].sym)
  BY <1>2, <1>3, LetsRest
<1> QED
  BY <1>2, <1>4
----------------------------------------------------------------------------
(* The invariant holds at first, and after every step.                     *)

LEMMA InitInv == Init => IInv
<1>1. SUFFICES ASSUME Init PROVE IInv
  OBVIOUS
<1>2. \A S : <<>> \in Seq(S)
  BY EmptySeq
<1>3. DOMAIN <<>> = {}
  BY EmptySeq
<1>4. Sorts
  <2>1. TypeOK
    <3>1. held \in [Keys -> Syms \cup {Free, Swallowed}] /\ typing \in [Typists -> Seq(Message)]
      BY <1>1, <1>2 DEF Init
    <3>2. {active, online, linked, running, shiftHeld} \subseteq BOOLEAN
      BY <1>1 DEF Init
    <3>3. {presses, repeats, blurs, drops, asks, pastes} \subseteq Nat
      BY <1>1 DEF Init
    <3>4. /\ todo \in Seq(Message) /\ chars \in Seq(Syms) /\ syms \subseteq Syms
          /\ phys \subseteq Keys /\ fresh \subseteq Keys /\ gone \subseteq Keys /\ vks \cup left = {}
      BY <1>1, <1>2 DEF Init
    <3> QED
      BY <3>1, <3>2, <3>3, <3>4 DEF TypeOK
  <2>2. \A k \in Keys : held[k] = Free
    BY <1>1 DEF Init
  <2>3. typing \in [Typists -> Seq(TypeMessage)] /\ todo \in Seq(PumpMessage) /\ chars \in Seq(Strokes)
    BY <1>1, <1>2 DEF Init
  <2> QED
    BY <2>1, <2>2, <2>3 DEF Sorts
<1>5. Seen
  BY <1>1 DEF Init, Seen, Real
<1>6. Paid
  <2>1. Paired(repeats, held, todo)
    BY <1>1, <1>3 DEF Init, Paired
  <2>2. \A i \in Typists : Even(typing[i])
    BY <1>1, <1>3 DEF Init, Even
  <2> QED
    BY <1>1, <2>1, <2>2 DEF Init, Paid
<1>7. Explained /\ ShiftTold /\ Linkage
  BY <1>1 DEF Init, Explained, ShiftTold, Linkage
<1> QED
  BY <1>4, <1>5, <1>6, <1>7 DEF IInv

(* Steps that neither send nor change what is held or to be sent.          *)
LEMMA Apart ==
  ASSUME IInv, UNCHANGED <<held, todo, typing, server, link, repeats>>
  PROVE  Paid' /\ Explained' /\ ShiftTold' /\ Linkage'
<1>1. UNCHANGED <<held, todo, typing, syms, vks, shiftHeld, online, linked, running, drops, left, repeats>>
  BY DEF server, link
<1>2. Paid'
  BY <1>1 DEF IInv, Paid, Owed, Stale
<1> QED
  BY <1>1, <1>2 DEF IInv, Explained, ShiftTold, Linkage

LEMMA WithKeys ==
  ASSUME NEW k \in Keys
  PROVE  With(k) \in SUBSET Keys /\ k \in With(k)
  BY InputAssumption DEF With

LEMMA CharsMade ==
  ASSUME NEW k \in Keys, NEW c \in Chars(k)
  PROVE  c = <<>> \/ \E s \in Strokes : c = <<s>> /\ (s = "at" => altgr)
  BY DEF Chars, Letters, Upper, Strokes, altgr

LEMMA PressInv ==
  ASSUME IInv, NEW k \in Keys, Press(k)
  PROVE  IInv'
<1>1. UNCHANGED <<active, blurs, held, todo, typing, server, link, repeats, pastes>>
  BY DEF Press
<1>2. UNCHANGED <<syms, vks, shiftHeld, online, linked, running, drops, left>>
  BY <1>1 DEF server, link
<1>3. phys \subseteq Keys /\ fresh \subseteq Keys /\ gone \subseteq Keys /\ chars \in Seq(Strokes)
  BY DEF IInv, Sorts, TypeOK
<1>4. With(k) \in SUBSET Keys /\ k \in With(k)
  BY WithKeys
<1>5. /\ phys' = phys \cup With(k)
      /\ fresh' = fresh \cup (With(k) \ (phys \cup gone)) /\ gone' = gone \ With(k)
  BY DEF Press
<1>6. chars' \in Seq(Strokes)
  <2>1. PICK c \in Chars(k) : chars' = chars \o c
    BY DEF Press
  <2>2. c \in Seq(Strokes)
    BY <2>1, CharsMade, EmptySeq, OneIsSeq
  <2> QED
    BY <1>3, <2>1, <2>2, ConcatProperties
<1>7. presses' \in Nat /\ asks' \in Nat
  <2>1. presses \in Nat /\ asks \in Nat
    BY DEF IInv, Sorts, TypeOK
  <2>2. presses' = presses + 1 /\ (asks' = asks + 1 \/ asks' = asks)
    BY DEF Press
  <2> QED
    BY <2>1, <2>2
<1>8. chars' \in Seq(Syms)
  BY <1>6, SeqMonotonic DEF Strokes, Syms
<1>9. Sorts'
  <2>1. TypeOK'
    BY <1>1, <1>2, <1>3, <1>4, <1>5, <1>7, <1>8 DEF IInv, Sorts, TypeOK
  <2> QED
    BY <1>1, <1>6, <2>1 DEF IInv, Sorts
<1>10. Seen'
  <2>1. fresh' \subseteq phys' \cup gone'
    BY <1>5 DEF IInv, Seen
  <2>2. ASSUME NEW j \in Keys, Real(held, j)
        PROVE  j \in (phys' \cup gone') \ fresh'
    <3>1. j \in (phys \cup gone) \ fresh
      BY <2>2 DEF IInv, Seen
    <3> QED
      BY <1>5, <3>1
  <2> QED
    BY <1>1, <2>1, <2>2 DEF Seen
<1> QED
  BY <1>1, <1>9, <1>10, Apart DEF IInv

LEMMA ReleaseInv ==
  ASSUME IInv, NEW k \in Keys, Release(k)
  PROVE  IInv'
<1>1. UNCHANGED <<fresh, chars, active, presses, asks, blurs, held, todo, typing, server, link, repeats, pastes>>
  BY DEF Release
<1>2. UNCHANGED <<syms, vks, shiftHeld, online, linked, running, drops, left>>
  BY <1>1 DEF server, link
<1>3. phys' = phys \ With(k) /\ gone' = gone \cup (phys \cap With(k))
  BY DEF Release
<1>4. Sorts'
  <2>1. TypeOK'
    BY <1>1, <1>2, <1>3 DEF IInv, Sorts, TypeOK
  <2> QED
    BY <1>1, <2>1 DEF IInv, Sorts
<1>5. phys' \cup gone' = phys \cup gone
  BY <1>3
<1>6. Seen'
  BY <1>1, <1>5 DEF IInv, Seen
<1> QED
  BY <1>1, <1>4, <1>6, Apart DEF IInv

LEMMA BlurInv ==
  ASSUME IInv, Blur
  PROVE  IInv'
<1>1. UNCHANGED <<chars, presses, asks, held, todo, typing, server, link, repeats, pastes>>
  BY DEF Blur
<1>2. UNCHANGED <<syms, vks, shiftHeld, online, linked, running, drops, left>>
  BY <1>1 DEF server, link
<1>3. phys' = {} /\ fresh' = {} /\ gone' = gone \cup phys /\ active' = FALSE /\ blurs' = blurs + 1
  BY DEF Blur
<1>4. blurs \in Nat
  BY DEF IInv, Sorts, TypeOK
<1>5. Sorts'
  <2>1. TypeOK'
    <3>1. TypeOK
      BY DEF IInv, Sorts
    <3>2. {active', online', linked', running', shiftHeld'} \subseteq BOOLEAN
      BY <1>1, <1>2, <1>3, <3>1 DEF TypeOK
    <3>3. {presses', repeats', blurs', drops', asks', pastes'} \subseteq Nat
      BY <1>1, <1>2, <1>3, <1>4, <3>1 DEF TypeOK
    <3>4. phys' \subseteq Keys /\ fresh' \subseteq Keys /\ gone' \subseteq Keys
      BY <1>3, <3>1 DEF TypeOK
    <3> QED
      BY <1>1, <1>2, <3>1, <3>2, <3>3, <3>4 DEF TypeOK
  <2> QED
    BY <1>1, <2>1 DEF IInv, Sorts
<1>6. Seen'
  BY <1>1, <1>3 DEF IInv, Seen
<1> QED
  BY <1>1, <1>5, <1>6, Apart DEF IInv

LEMMA FocusInv ==
  ASSUME IInv, Focus
  PROVE  IInv'
<1>1. UNCHANGED <<phys, fresh, gone, chars, presses, asks, blurs, held, todo, typing, server, link, repeats, pastes>>
  BY DEF Focus
<1>2. UNCHANGED <<syms, vks, shiftHeld, online, linked, running, drops, left>> /\ active' = TRUE
  BY <1>1 DEF server, link, Focus
<1>3. Sorts'
  <2>1. TypeOK'
    BY <1>1, <1>2 DEF IInv, Sorts, TypeOK
  <2> QED
    BY <1>1, <2>1 DEF IInv, Sorts
<1>4. Seen'
  BY <1>1 DEF IInv, Seen
<1> QED
  BY <1>1, <1>3, <1>4, Apart DEF IInv

LEMMA InMessage == PumpMessage \subseteq Message /\ TypeMessage \subseteq Message
<1>1. \A s \in Syms, d \in BOOLEAN : Key(s, d) \in Message
  BY DEF Key, Message
<1>2. Paste \in Message
  BY DEF Paste, Message
<1>3. Pasted \subseteq Syms
  BY DEF Pasted, Syms
<1> QED
  BY <1>1, <1>2, <1>3 DEF PumpMessage, TypeMessage

(* A frame is a move, by the keys that went down or stay down.             *)
LEMMA FrameMade ==
  ASSUME IInv, Frame
  PROVE  \E n, S, ps, f :
           /\ n = repeats' /\ n \in Nat /\ (repeats # 0 => n # 0) /\ S \subseteq fresh \cup phys
           /\ held' = f.held /\ todo' = f.todo
           /\ active /\ online => Pumps(n, S, ps, f)
           /\ ~(active /\ online) => f = Released
<1> DEFINE n == repeats'
<1>1. TypeOK /\ Holding(held) /\ gone \subseteq Keys /\ chars \in Seq(Strokes) /\ repeats \in Nat
  BY DEF IInv, Sorts, TypeOK, Holding
<1>2. PICK again \in SUBSET (phys \ fresh) :
        /\ n = repeats + Cardinality(again)
        /\ \E ps \in SetToSeqs(fresh \cup again) :
             LET f == IF active /\ online THEN Pumped(ps) ELSE Released IN
             held' = f.held /\ todo' = f.todo
  BY DEF Frame
<1>3. PICK S : S = fresh \cup again
  OBVIOUS
<1>4. PICK ps \in SetToSeqs(S) :
        LET f == IF active /\ online THEN Pumped(ps) ELSE Released IN
        held' = f.held /\ todo' = f.todo
  BY <1>2, <1>3
<1>5. PICK f : f = IF active /\ online THEN Pumped(ps) ELSE Released
  OBVIOUS
<1>6. held' = f.held /\ todo' = f.todo
  BY <1>4, <1>5
<1>7. S \in SUBSET Keys /\ S \subseteq fresh \cup phys /\ again \subseteq phys
  BY <1>1, <1>3 DEF TypeOK
<1>8. IsFiniteSet(again) /\ Cardinality(again) \in Nat
  <2>1. again \subseteq Keys
    BY <1>1, <1>7 DEF TypeOK
  <2> QED
    BY <2>1, FewKeys, FS_Subset, FS_CardinalityType
<1>9. n \in Nat /\ (repeats # 0 => n # 0) /\ (n = 0 => again = {})
  <2>1. PICK c \in Nat : c = Cardinality(again)
    BY <1>8
  <2>2. n = repeats + c
    BY <1>2, <2>1
  <2>3. c = 0 => again = {}
    BY <1>8, <2>1, FS_EmptySet
  <2> QED
    BY <1>1, <2>2, <2>3
<1>10. n # 0 \/ \A k \in S : ~Real(held, k)
  BY <1>3, <1>7, <1>9 DEF IInv, Seen
<1>11. PICK r : r = n
  OBVIOUS
<1> HIDE DEF n
<1>12. active /\ online => Pumps(r, S, ps, f)
  BY <1>1, <1>4, <1>5, <1>7, <1>10, <1>11 DEF Pumps
<1>13. r = repeats'
  BY <1>11 DEF n
<1> QED
  BY <1>5, <1>6, <1>7, <1>9, <1>11, <1>12, <1>13

LEMMA FrameInv ==
  ASSUME IInv, Frame
  PROVE  IInv'
<1>1. /\ todo = <<>> /\ fresh' = {} /\ gone' = {}
      /\ chars' = IF active /\ online THEN <<>> ELSE chars
      /\ UNCHANGED <<phys, active, presses, asks, blurs, typing, server, link, pastes>>
  BY DEF Frame
<1>2. UNCHANGED <<syms, vks, shiftHeld, online, linked, running, drops, left>>
  BY <1>1 DEF server, link
<1>3. TypeOK /\ Holding(held) /\ chars \in Seq(Strokes)
  BY DEF IInv, Sorts, TypeOK, Holding
<1>4. PICK n, S, ps, f :
        /\ n = repeats' /\ n \in Nat /\ (repeats # 0 => n # 0) /\ S \subseteq fresh \cup phys
        /\ held' = f.held /\ todo' = f.todo
        /\ active /\ online => Pumps(n, S, ps, f)
        /\ ~(active /\ online) => f = Released
  BY FrameMade, Zenon
<1>5. /\ Moves(n, held, f.held, f.todo)
       /\ \A k \in Keys : Real(f.held, k) => (Real(held, k) \/ k \in S) /\ k \notin gone
  <2>1. CASE active /\ online
    <3>1. Pumps(n, S, ps, f)
      BY <1>4, <2>1
    <3> QED
      BY <3>1, PumpedMoves, Zenon
  <2>2. CASE ~(active /\ online)
    <3>1. f = Released
      BY <1>4, <2>2
    <3>2. Moves(n, held, f.held, f.todo) /\ \A k \in Keys : ~Real(f.held, k)
      BY <1>3, <3>1, ReleasedMoves
    <3> QED
      BY <3>2
  <2> QED
    BY <2>1, <2>2
<1>6. /\ Holding(held') /\ todo' \in Seq(PumpMessage)
       /\ Paired(n, held', todo') /\ Carries(n, held, held', todo')
  BY <1>4, <1>5 DEF Moves
<1>7. chars' \in Seq(Strokes)
  BY <1>1, <1>3, EmptySeq
<1>8. Sorts'
  <2>1. todo' \in Seq(Message) /\ chars' \in Seq(Syms)
    BY <1>6, <1>7, InMessage, SeqMonotonic DEF Strokes, Syms
  <2>2. held' \in [Keys -> Syms \cup {Free, Swallowed}]
    BY <1>6 DEF Holding
  <2>3. {presses', repeats', blurs', drops', asks', pastes'} \subseteq Nat
    BY <1>1, <1>2, <1>3, <1>4 DEF TypeOK
  <2>4. TypeOK'
    BY <1>1, <1>2, <1>3, <2>1, <2>2, <2>3 DEF TypeOK
  <2> QED
    BY <1>1, <1>6, <1>7, <2>4 DEF IInv, Sorts, Holding
<1>9. Seen'
  <2>1. ASSUME NEW k \in Keys, Real(held', k)
        PROVE  k \in phys
    <3>1. (Real(held, k) \/ k \in S) /\ k \notin gone
      BY <1>4, <1>5, <2>1
    <3>2. Real(held, k) => k \in phys \cup gone
      BY DEF IInv, Seen
    <3>3. k \in S => k \in phys \cup gone
      BY <1>4 DEF IInv, Seen
    <3> QED
      BY <3>1, <3>2, <3>3
  <2> QED
    BY <1>1, <2>1 DEF Seen
<1>10. ASSUME linked, NEW s \in syms
       PROVE  Owed(s)' \/ Stale(s)'
  <2>1. Owed(s) \/ Stale(s)
    BY <1>10 DEF IInv, Paid
  <2>2. ASSUME Stale(s) PROVE Stale(s)'
    BY <1>2, <1>4, <2>2 DEF Stale
  <2>3. ASSUME Keeps(repeats, held, s) PROVE Owed(s)'
    <3>1. \A t : Alike(repeats, t, s) => Alike(n, t, s)
      BY <1>4 DEF Alike
    <3>2. Keeps(n, held, s)
      BY <2>3, <3>1 DEF Keeps
    <3>3. s \in Syms
      BY <1>3, <1>10 DEF TypeOK
    <3>4. Keeps(n, held', s) \/ Lets(n, todo', 0, s)
      BY <1>6, <3>2, <3>3 DEF Carries
    <3> QED
      BY <1>4, <3>4 DEF Owed
  <2>4. ~Lets(repeats, todo, 0, s)
    <3>1. DOMAIN <<>> = {}
      BY EmptySeq
    <3> QED
      BY <1>1, <3>1 DEF Lets
  <2>5. ASSUME NEW i \in Typists, Lets(0, typing[i], 0, s)
        PROVE  Owed(s)'
    BY <1>1, <2>5 DEF Owed
  <2> QED
    BY <2>1, <2>2, <2>3, <2>4, <2>5 DEF Owed
<1>11. Paid'
  <2>1. \A i \in Typists : Even(typing[i])
    BY DEF IInv, Paid
  <2> QED
    BY <1>1, <1>2, <1>4, <1>6, <1>10, <2>1 DEF Paid
<1>12. Explained' /\ ShiftTold' /\ Linkage'
  BY <1>2 DEF IInv, Explained, ShiftTold, Linkage
<1> QED
  BY <1>8, <1>9, <1>11, <1>12 DEF IInv
(* What a message does, whichever thread sends it.                         *)
LEMMA SentSafely ==
  ASSUME IInv, NEW m, m.sym \in Syms, m.down \in BOOLEAN, Sent(m), UNCHANGED link
  PROVE  /\ syms' \subseteq Syms /\ shiftHeld' \in BOOLEAN /\ vks' \subseteq {Vk(s) : s \in Syms}
         /\ Explained' /\ ShiftTold' /\ Linkage'
         /\ linked => Arrives(m)
<1>1. UNCHANGED <<online, linked, running, drops, left>>
  BY DEF link
<1>2. TypeOK /\ Explained /\ ShiftTold /\ Linkage
  BY DEF IInv, Sorts
<1>3. CASE online /\ linked
  <2>1. Arrives(m)
    BY <1>3 DEF Sent
  <2>2. Explained' /\ ShiftTold'
    BY <1>1, <1>2, <2>1, ArrivesExplained
  <2>3. syms' \subseteq Syms /\ shiftHeld' \in BOOLEAN /\ vks' \subseteq {Vk(s) : s \in Syms}
    BY <1>2, <2>1, ArrivesTyped
  <2>4. Linkage'
    BY <1>1, <1>2, <1>3 DEF Linkage
  <2> QED
    BY <2>1, <2>2, <2>3, <2>4
<1>4. CASE ~(online /\ linked)
  <2>1. UNCHANGED <<syms, vks, shiftHeld>>
    BY <1>4 DEF Sent, server
  <2>2. ~linked
    BY <1>2, <1>4 DEF Linkage
  <2>3. Explained' /\ ShiftTold' /\ Linkage'
    BY <1>1, <1>2, <2>1 DEF Explained, ShiftTold, Linkage
  <2>4. syms' \subseteq Syms /\ shiftHeld' \in BOOLEAN /\ vks' \subseteq {Vk(s) : s \in Syms}
    BY <1>2, <2>1 DEF TypeOK
  <2> QED
    BY <2>2, <2>3, <2>4
<1> QED
  BY <1>3, <1>4

LEMMA SendInv ==
  ASSUME IInv, Send
  PROVE  IInv'
<1>1. /\ todo # <<>> /\ todo' = Tail(todo) /\ Sent(Head(todo)) /\ Head(todo).do = "key"
      /\ UNCHANGED <<person, held, typing, link, repeats, pastes>>
  BY DEF Send
<1>2. /\ UNCHANGED <<phys, fresh, gone, chars, active, presses, asks, blurs>>
      /\ UNCHANGED <<online, linked, running, drops, left>>
  BY <1>1 DEF person, link
<1>3. TypeOK /\ todo \in Seq(PumpMessage)
  BY DEF IInv, Sorts
<1>4. PICK m \in PumpMessage : m = Head(todo)
  BY <1>1, <1>3, Rest
<1>5. m.sym \in Syms \ {"x", "X"} /\ m.down \in BOOLEAN
  BY <1>1, <1>4, Pumping DEF Paste
<1>6. Sent(m)
  BY <1>1, <1>4
<1>7. /\ syms' \subseteq Syms /\ shiftHeld' \in BOOLEAN /\ vks' \subseteq {Vk(s) : s \in Syms}
      /\ Explained' /\ ShiftTold' /\ Linkage'
      /\ linked => Arrives(m)
  BY <1>1, <1>5, <1>6, SentSafely
<1>8. Tail(todo) \in Seq(PumpMessage)
  BY <1>1, <1>3, Rest
<1>9. Sorts'
  <2>1. todo' \in Seq(Message)
    BY <1>1, <1>8, InMessage, SeqMonotonic
  <2>2. TypeOK'
    BY <1>1, <1>2, <1>3, <1>7, <2>1 DEF TypeOK
  <2> QED
    BY <1>1, <1>2, <1>8, <2>2 DEF IInv, Sorts
<1>10. Seen'
  BY <1>1, <1>2 DEF IInv, Seen
<1>11. Paired(repeats, held, Tail(todo))
  BY <1>1, <1>3, PairedRest DEF IInv, Paid
<1>12. ASSUME linked
       PROVE  \A s \in syms' : Owed(s)' \/ Stale(s)'
  <2>1. Arrives(m)
    BY <1>7, <1>12
  <2>2. /\ m.down => /\ syms' = syms \cup {m.sym}
                     /\ vks' \subseteq vks \cup {Vk(m.sym), "VK_LSHIFT"}
        /\ ~m.down => /\ syms' = syms \ {m.sym}
                      /\ vks' \subseteq vks /\ Vk(m.sym) \notin vks'
    BY <1>3, <1>5, <2>1, ArrivesTyped
  <2>3. \A s : Owed(s)' <=> \/ Keeps(repeats, held, s) \/ Lets(repeats, Tail(todo), 0, s)
                            \/ \E i \in Typists : Lets(0, typing[i], 0, s)
    BY <1>1 DEF Owed
  <2>4. ASSUME NEW s \in syms
        PROVE  (Owed(s) \/ Stale(s)) /\ s \in Syms
    BY <1>3, <1>12, <2>4 DEF IInv, Paid, TypeOK
  <2>5. ASSUME NEW s, Owed(s)
        PROVE  Owed(s)' \/ (~m.down /\ Alike(repeats, m.sym, s))
    <3>1. Lets(repeats, todo, 0, s) => Lets(repeats, Tail(todo), 0, s) \/ (~m.down /\ Alike(repeats, m.sym, s))
      BY <1>1, <1>3, <1>4, LetsRest
    <3> QED
      BY <2>3, <2>5, <3>1 DEF Owed
  <2>6. CASE m.down
    <3>1. Keeps(repeats, held, m.sym) \/ Lets(repeats, Tail(todo), 0, m.sym)
      <4>1. 1 \in DOMAIN todo /\ todo[1] = m /\ m.do = "key"
        BY <1>1, <1>3, <1>4, Rest
      <4>2. Keeps(repeats, held, m.sym) \/ Lets(repeats, todo, 1, m.sym)
        BY <2>6, <4>1 DEF IInv, Paid, Paired
      <4>3. Lets(repeats, todo, 1, m.sym) => Lets(repeats, Tail(todo), 1 - 1, m.sym)
        BY <1>1, <1>3, LetsRest
      <4> QED
        BY <4>2, <4>3
    <3>2. ASSUME NEW s, Alike(repeats, m.sym, s)
          PROVE  Owed(s)'
      BY <2>3, <3>1, <3>2, KeepsOn, LetsOn
    <3>3. ASSUME NEW s \in syms, s # m.sym
          PROVE  Owed(s)' \/ Stale(s)'
      <4>1. CASE Owed(s)
        BY <2>5, <2>6, <4>1
      <4>2. CASE Stale(s)
        <5>1. CASE Vk(s) \notin vks'
          BY <1>1, <4>2, <5>1 DEF Stale
        <5>2. CASE Vk(s) \in vks'
          <6>1. s \in Strokes /\ repeats # 0 /\ Vk(s) \notin vks
            BY <4>2 DEF Stale
          <6>2. Vk(s) # "VK_LSHIFT"
            BY <2>4, <3>3, <6>1, ShiftOnly DEF Strokes
          <6>3. Vk(s) = Vk(m.sym)
            BY <2>2, <2>6, <5>2, <6>1, <6>2
          <6> QED
            BY <3>2, <6>1, <6>3 DEF Alike
        <5> QED
          BY <5>1, <5>2
      <4> QED
        BY <2>4, <3>3, <4>1, <4>2
    <3>4. Owed(m.sym)'
      BY <3>2 DEF Alike
    <3> QED
      BY <2>2, <2>6, <3>3, <3>4
  <2>7. CASE ~m.down
    <3>1. SUFFICES ASSUME NEW s \in syms, s # m.sym
                   PROVE  Owed(s)' \/ Stale(s)'
      BY <2>2, <2>7
    <3>2. CASE Owed(s)
      <4>1. Owed(s)' \/ Alike(repeats, m.sym, s)
        BY <2>5, <3>2
      <4>2. ASSUME Alike(repeats, m.sym, s) PROVE Stale(s)'
        <5>1. repeats # 0 /\ Vk(m.sym) = Vk(s)
          BY <3>1, <4>2 DEF Alike
        <5>2. s \in Strokes
          BY <1>5, <2>4, <3>1, <5>1, VkOne
        <5>3. Vk(s) \notin vks'
          BY <2>2, <2>7, <5>1
        <5> QED
          BY <1>1, <5>1, <5>2, <5>3 DEF Stale
      <4> QED
        BY <4>1, <4>2
    <3>3. CASE Stale(s)
      BY <1>1, <2>2, <2>7, <3>3 DEF Stale
    <3> QED
      BY <2>4, <3>1, <3>2, <3>3
  <2> QED
    BY <1>5, <2>6, <2>7
<1>13. Paid'
  <2>1. \A i \in Typists : Even(typing[i])
    BY DEF IInv, Paid
  <2> QED
    BY <1>1, <1>2, <1>11, <1>12, <2>1 DEF Paid
<1> QED
  BY <1>7, <1>9, <1>10, <1>13 DEF IInv
LEMMA TypeInv ==
  ASSUME IInv, NEW i \in Typists, Type(i)
  PROVE  IInv'
<1>1. typing[i] # <<>> /\ UNCHANGED <<person, held, todo, link, repeats, pastes>>
  BY DEF Type
<1>2. /\ UNCHANGED <<phys, fresh, gone, chars, active, presses, asks, blurs>>
      /\ UNCHANGED <<online, linked, running, drops, left>>
  BY <1>1 DEF person, link
<1>3. TypeOK /\ typing \in [Typists -> Seq(TypeMessage)] /\ typing[i] \in Seq(TypeMessage)
  BY DEF IInv, Sorts
<1>4. PICK m \in TypeMessage : m = Head(typing[i])
  BY <1>1, <1>3, Rest
<1>5. m.sym \in Pasted /\ m.down \in BOOLEAN /\ m.sym \in Syms
  BY <1>4, Pasting DEF Pasted, Syms
<1>6. \/ Sent(m) /\ typing' = [typing EXCEPT ![i] = Tail(@)]
      \/ online /\ ~linked /\ typing' = [typing EXCEPT ![i] = <<>>] /\ UNCHANGED server
  BY <1>4 DEF Type
<1>7. /\ syms' \subseteq Syms /\ shiftHeld' \in BOOLEAN /\ vks' \subseteq {Vk(s) : s \in Syms}
      /\ Explained' /\ ShiftTold' /\ Linkage'
      /\ linked => Arrives(m) /\ typing' = [typing EXCEPT ![i] = Tail(@)]
  <2>1. CASE Sent(m) /\ typing' = [typing EXCEPT ![i] = Tail(@)]
    BY <1>1, <1>5, <2>1, SentSafely
  <2>2. CASE online /\ ~linked /\ UNCHANGED server
    <3>1. UNCHANGED <<syms, vks, shiftHeld>>
      BY <2>2 DEF server
    <3>2. Explained' /\ ShiftTold' /\ Linkage'
      BY <1>2, <3>1 DEF IInv, Explained, ShiftTold, Linkage
    <3>3. syms' \subseteq Syms /\ shiftHeld' \in BOOLEAN /\ vks' \subseteq {Vk(s) : s \in Syms}
      BY <1>3, <3>1 DEF TypeOK
    <3> QED
      BY <2>2, <3>2, <3>3
  <2> QED
    BY <1>6, <2>1, <2>2
<1>8. PICK q \in Seq(TypeMessage) : Even(q) /\ typing' = [typing EXCEPT ![i] = q]
  <2>1. Tail(typing[i]) \in Seq(TypeMessage) /\ Even(Tail(typing[i]))
    BY <1>1, <1>3, Rest, EvenRest DEF IInv, Paid
  <2>2. <<>> \in Seq(TypeMessage) /\ Even(<<>>)
    BY EmptySeq DEF Even
  <2> QED
    BY <1>6, <2>1, <2>2
<1>9. typing' \in [Typists -> Seq(TypeMessage)] /\ \A j \in Typists : typing'[j] = IF j = i THEN q ELSE typing[j]
  BY <1>3, <1>8
<1>10. Sorts'
  <2>1. typing' \in [Typists -> Seq(Message)]
    <3>1. ASSUME NEW j \in Typists
          PROVE  typing'[j] \in Seq(Message)
      BY <1>9, InMessage, SeqMonotonic
    <3> QED
      BY <1>9, <3>1
  <2>2. TypeOK'
    BY <1>1, <1>2, <1>3, <1>7, <2>1 DEF TypeOK
  <2> QED
    BY <1>1, <1>2, <1>9, <2>2 DEF IInv, Sorts
<1>11. Seen'
  BY <1>1, <1>2 DEF IInv, Seen
<1>12. ASSUME linked
       PROVE  \A s \in syms' : Owed(s)' \/ Stale(s)'
  <2>1. Arrives(m) /\ q = Tail(typing[i])
    <3>1. typing' = [typing EXCEPT ![i] = Tail(@)]
      BY <1>7, <1>12
    <3> QED
      BY <1>3, <1>7, <1>9, <1>12, <3>1
  <2>2. /\ m.down => /\ syms' = syms \cup {m.sym}
                     /\ vks' \subseteq vks \cup {Vk(m.sym), "VK_LSHIFT"}
        /\ ~m.down => /\ syms' = syms \ {m.sym}
                      /\ vks' \subseteq vks /\ Vk(m.sym) \notin vks'
    BY <1>3, <1>5, <2>1, ArrivesTyped
  <2>3. \A s : Owed(s)' <=> \/ Keeps(repeats, held, s) \/ Lets(repeats, todo, 0, s)
                            \/ \E j \in Typists : Lets(0, typing'[j], 0, s)
    BY <1>1 DEF Owed
  <2>4. ASSUME NEW s \in syms
        PROVE  (Owed(s) \/ Stale(s)) /\ s \in Syms
    BY <1>3, <1>12, <2>4 DEF IInv, Paid, TypeOK
  <2>5. ASSUME NEW s, Owed(s), m.down \/ s # m.sym
        PROVE  Owed(s)'
    <3>1. CASE Keeps(repeats, held, s) \/ Lets(repeats, todo, 0, s)
      BY <2>3, <3>1
    <3>2. CASE \E j \in Typists : Lets(0, typing[j], 0, s)
      <4>1. PICK j \in Typists : Lets(0, typing[j], 0, s)
        BY <3>2
      <4>2. CASE j = i
        <5>1. Lets(0, q, 0, s) \/ (~m.down /\ Alike(0, m.sym, s))
          BY <1>1, <1>3, <1>4, <2>1, <4>1, <4>2, LetsRest
        <5>2. Lets(0, typing'[i], 0, s)
          BY <1>9, <2>5, <5>1 DEF Alike
        <5> QED
          BY <2>3, <5>2
      <4>3. CASE j # i
        BY <1>9, <2>3, <4>1, <4>3
      <4> QED
        BY <4>2, <4>3
    <3> QED
      BY <2>5, <3>1, <3>2 DEF Owed
  <2>6. ASSUME NEW s \in syms, Stale(s)
        PROVE  Stale(s)'
    <3>1. s \in Strokes /\ repeats # 0 /\ Vk(s) \notin vks
      BY <2>6 DEF Stale
    <3>2. Vk(s) \notin {Vk(m.sym), "VK_LSHIFT"}
      BY <1>5, <3>1 DEF Strokes, Pasted, Vk
    <3>3. Vk(s) \notin vks'
      BY <1>5, <2>2, <3>1, <3>2
    <3> QED
      BY <1>1, <3>1, <3>3 DEF Stale
  <2>7. ASSUME m.down
        PROVE  Owed(m.sym)'
    <3>1. 1 \in DOMAIN typing[i] /\ typing[i][1] = m
      BY <1>1, <1>3, <1>4, Rest
    <3>2. Lets(0, typing[i], 1, m.sym)
      BY <2>7, <3>1 DEF IInv, Paid, Even
    <3>3. Lets(0, Tail(typing[i]), 1 - 1, m.sym)
      BY <1>1, <1>3, <3>2, LetsRest
    <3>4. typing'[i] = Tail(typing[i]) /\ 1 - 1 = 0
      BY <1>9, <2>1
    <3>5. Lets(0, typing'[i], 0, m.sym)
      BY <3>3, <3>4
    <3> QED
      BY <2>3, <3>5
  <2>8. \A s \in syms' : (s \in syms /\ (m.down \/ s # m.sym)) \/ (m.down /\ s = m.sym)
    BY <1>5, <2>2
  <2> QED
    BY <2>4, <2>5, <2>6, <2>7, <2>8
<1>13. Paid'
  <2>1. Paired(repeats, held, todo) /\ \A j \in Typists : Even(typing'[j])
    BY <1>8, <1>9 DEF IInv, Paid
  <2> QED
    BY <1>1, <1>2, <1>12, <2>1 DEF Paid
<1> QED
  BY <1>7, <1>10, <1>11, <1>13 DEF IInv

LEMMA FailsInv ==
  ASSUME IInv, Fails
  PROVE  IInv'
<1>1. /\ ~linked /\ running' = FALSE /\ todo' = <<>> /\ typing' = [i \in Typists |-> <<>>]
      /\ UNCHANGED <<person, held, server, online, linked, drops, left, repeats, pastes>>
  BY DEF Fails
<1>2. /\ UNCHANGED <<phys, fresh, gone, chars, active, presses, asks, blurs>>
      /\ UNCHANGED <<syms, vks, shiftHeld>>
  BY <1>1 DEF person, server
<1>3. \A S : <<>> \in Seq(S)
  BY EmptySeq
<1>4. DOMAIN <<>> = {}
  BY EmptySeq
<1>5. Sorts'
  <2>1. TypeOK
    BY DEF IInv, Sorts
  <2>2. typing' \in [Typists -> Seq(Message)] /\ typing' \in [Typists -> Seq(TypeMessage)]
    BY <1>1, <1>3
  <2>3. TypeOK'
    BY <1>1, <1>2, <1>3, <2>1, <2>2 DEF TypeOK
  <2> QED
    BY <1>1, <1>2, <1>3, <2>2, <2>3 DEF IInv, Sorts
<1>6. Seen'
  BY <1>1, <1>2 DEF IInv, Seen
<1>7. Paid'
  <2>1. Paired(repeats, held, <<>>) /\ Even(<<>>)
    BY <1>4 DEF Paired, Even
  <2> QED
    BY <1>1, <2>1 DEF Paid
<1>8. Explained' /\ ShiftTold' /\ Linkage'
  BY <1>1, <1>2 DEF IInv, Explained, ShiftTold, Linkage
<1> QED
  BY <1>5, <1>6, <1>7, <1>8 DEF IInv

LEMMA StartTypingInv ==
  ASSUME IInv, StartTyping
  PROVE  IInv'
<1>1. /\ todo # <<>> /\ Head(todo).do = "paste" /\ todo' = Tail(todo) /\ pastes' = pastes + 1
      /\ UNCHANGED <<person, held, server, link, repeats>>
  BY DEF StartTyping
<1>2. /\ UNCHANGED <<phys, fresh, gone, chars, active, presses, asks, blurs>>
      /\ UNCHANGED <<online, linked, running, drops, left, syms, vks, shiftHeld>>
  BY <1>1 DEF person, link, server
<1>3. TypeOK /\ todo \in Seq(PumpMessage) /\ typing \in [Typists -> Seq(TypeMessage)]
  BY DEF IInv, Sorts
<1>4. Tail(todo) \in Seq(PumpMessage) /\ Head(todo).down
  <2>1. Tail(todo) \in Seq(PumpMessage) /\ Head(todo) \in PumpMessage
    BY <1>1, <1>3, Rest
  <2> QED
    BY <1>1, <2>1, Pumping
<1>5. PICK i \in Typists : typing[i] = <<>> /\ typing' = [typing EXCEPT ![i] = Typing]
  BY DEF StartTyping
<1>6. /\ typing' \in [Typists -> Seq(TypeMessage)]
      /\ \A j \in Typists : typing'[j] = IF j = i THEN Typing ELSE typing[j]
  BY <1>3, <1>5, TypingEven
<1>7. Sorts'
  <2>1. typing' \in [Typists -> Seq(Message)]
    <3>1. ASSUME NEW j \in Typists
          PROVE  typing'[j] \in Seq(Message)
      BY <1>6, InMessage, SeqMonotonic
    <3> QED
      BY <1>6, <3>1
  <2>2. todo' \in Seq(Message)
    BY <1>1, <1>4, InMessage, SeqMonotonic
  <2>3. {presses', repeats', blurs', drops', asks', pastes'} \subseteq Nat
    BY <1>1, <1>2, <1>3 DEF TypeOK
  <2>4. TypeOK'
    BY <1>1, <1>2, <1>3, <2>1, <2>2, <2>3 DEF TypeOK
  <2> QED
    BY <1>1, <1>2, <1>4, <1>6, <2>4 DEF IInv, Sorts
<1>8. Seen'
  BY <1>1, <1>2 DEF IInv, Seen
<1>9. ASSUME NEW s, Owed(s)
      PROVE  Owed(s)'
  <2>1. CASE Keeps(repeats, held, s)
    BY <1>1, <2>1 DEF Owed
  <2>2. CASE Lets(repeats, todo, 0, s)
    <3>1. Lets(repeats, Tail(todo), 0, s)
      BY <1>1, <1>3, <1>4, <2>2, LetsRest
    <3> QED
      BY <1>1, <3>1 DEF Owed
  <2>3. CASE \E j \in Typists : Lets(0, typing[j], 0, s)
    <3>1. PICK j \in Typists : Lets(0, typing[j], 0, s)
      BY <2>3
    <3>2. j # i
      <4>1. DOMAIN <<>> = {}
        BY EmptySeq
      <4> QED
        BY <1>5, <3>1, <4>1 DEF Lets
    <3>3. Lets(0, typing'[j], 0, s)
      BY <1>6, <3>1, <3>2
    <3> QED
      BY <3>3 DEF Owed
  <2> QED
    BY <1>9, <2>1, <2>2, <2>3 DEF Owed
<1>10. Paid'
  <2>1. Paired(repeats, held, Tail(todo))
    BY <1>1, <1>3, PairedRest DEF IInv, Paid
  <2>2. \A j \in Typists : Even(typing'[j])
    BY <1>6, TypingEven DEF IInv, Paid
  <2>3. linked => \A s \in syms : Owed(s)' \/ Stale(s)'
    BY <1>1, <1>2, <1>9 DEF IInv, Paid, Stale
  <2> QED
    BY <1>1, <1>2, <2>1, <2>2, <2>3 DEF Paid
<1>11. Explained' /\ ShiftTold' /\ Linkage'
  BY <1>2 DEF IInv, Explained, ShiftTold, Linkage
<1> QED
  BY <1>7, <1>8, <1>10, <1>11 DEF IInv

LEMMA DropInv ==
  ASSUME IInv, Drop
  PROVE  IInv'
<1>1. /\ linked' = FALSE /\ drops' = drops + 1 /\ left' = left \cup vks
      /\ UNCHANGED <<online, running, person, held, todo, typing, server, repeats, pastes>>
  BY DEF Drop
<1>2. /\ UNCHANGED <<phys, fresh, gone, chars, active, presses, asks, blurs>>
      /\ UNCHANGED <<syms, vks, shiftHeld>>
  BY <1>1 DEF person, server
<1>3. TypeOK
  BY DEF IInv, Sorts
<1>4. drops' \in Nat /\ drops' # 0
  BY <1>1, <1>3 DEF TypeOK
<1>5. Sorts'
  <2>1. {presses', repeats', blurs', drops', asks', pastes'} \subseteq Nat
    BY <1>1, <1>2, <1>3, <1>4 DEF TypeOK
  <2>2. {active', online', linked', running', shiftHeld'} \subseteq BOOLEAN
    BY <1>1, <1>2, <1>3 DEF TypeOK
  <2>3. TypeOK'
    BY <1>1, <1>2, <1>3, <2>1, <2>2 DEF TypeOK
  <2> QED
    BY <1>1, <1>2, <2>3 DEF IInv, Sorts
<1>6. Seen'
  BY <1>1, <1>2 DEF IInv, Seen
<1>7. Paid'
  BY <1>1 DEF IInv, Paid
<1>8. Explained' /\ ShiftTold' /\ Linkage'
  BY <1>1, <1>2, <1>4 DEF IInv, Explained, ShiftTold, Linkage
<1> QED
  BY <1>5, <1>6, <1>7, <1>8 DEF IInv

LEMMA OfflineInv ==
  ASSUME IInv, Offline
  PROVE  IInv'
<1>1. /\ ~linked /\ online' = FALSE
      /\ UNCHANGED <<linked, running, drops, left, person, held, todo, typing, server, repeats, pastes>>
  BY DEF Offline
<1>2. /\ UNCHANGED <<phys, fresh, gone, chars, active, presses, asks, blurs>>
      /\ UNCHANGED <<syms, vks, shiftHeld>>
  BY <1>1 DEF person, server
<1>3. TypeOK
  BY DEF IInv, Sorts
<1>4. Sorts'
  <2>1. {active', online', linked', running', shiftHeld'} \subseteq BOOLEAN
    BY <1>1, <1>2, <1>3 DEF TypeOK
  <2>2. TypeOK'
    BY <1>1, <1>2, <1>3, <2>1 DEF TypeOK
  <2> QED
    BY <1>1, <1>2, <2>2 DEF IInv, Sorts
<1>5. Seen'
  BY <1>1, <1>2 DEF IInv, Seen
<1>6. Paid'
  BY <1>1 DEF IInv, Paid
<1>7. Explained' /\ ShiftTold' /\ Linkage'
  BY <1>1, <1>2 DEF IInv, Explained, ShiftTold, Linkage
<1> QED
  BY <1>4, <1>5, <1>6, <1>7 DEF IInv

LEMMA ReconnectInv ==
  ASSUME IInv, Reconnect
  PROVE  IInv'
<1>1. /\ running /\ ~online /\ ~linked /\ linked' = TRUE /\ online' = TRUE /\ shiftHeld' = FALSE /\ syms' = {}
      /\ UNCHANGED <<vks, running, drops, left, person, held, todo, typing, repeats, pastes>>
  BY DEF Reconnect
<1>2. UNCHANGED <<phys, fresh, gone, chars, active, presses, asks, blurs>>
  BY <1>1 DEF person
<1>3. TypeOK
  BY DEF IInv, Sorts
<1>4. Sorts'
  <2>1. {active', online', linked', running', shiftHeld'} \subseteq BOOLEAN
    BY <1>1, <1>2, <1>3 DEF TypeOK
  <2>2. TypeOK'
    BY <1>1, <1>2, <1>3, <2>1 DEF TypeOK
  <2> QED
    BY <1>1, <1>2, <2>2 DEF IInv, Sorts
<1>5. Seen'
  BY <1>1, <1>2 DEF IInv, Seen
<1>6. Paid'
  BY <1>1 DEF IInv, Paid
<1>7. Explained' /\ ShiftTold' /\ Linkage'
  BY <1>1 DEF IInv, Explained, ShiftTold, Linkage
<1> QED
  BY <1>4, <1>5, <1>6, <1>7 DEF IInv
LEMMA NextInv ==
  ASSUME IInv, [Next]_vars
  PROVE  IInv'
<1>1. CASE UNCHANGED vars
  <2>1. /\ UNCHANGED <<phys, fresh, gone, chars, active, presses, asks, blurs>>
        /\ UNCHANGED <<held, todo, typing, server, link, repeats, pastes>>
        /\ UNCHANGED <<online, linked, running, drops, left, syms, vks, shiftHeld>>
    BY <1>1 DEF vars, person, server, link
  <2>2. TypeOK' /\ Sorts'
    BY <2>1 DEF IInv, Sorts, TypeOK
  <2>3. Seen'
    BY <2>1 DEF IInv, Seen
  <2> QED
    BY <2>1, <2>2, <2>3, Apart DEF IInv
<1>2. CASE Next
  <2>1. CASE Frame
    BY <2>1, FrameInv
  <2>2. CASE Send
    BY <2>2, SendInv
  <2>3. CASE Fails
    BY <2>3, FailsInv
  <2>4. CASE StartTyping
    BY <2>4, StartTypingInv
  <2>5. CASE \E k \in Keys : Press(k) \/ Release(k)
    BY <2>5, PressInv, ReleaseInv
  <2>6. CASE Blur \/ Focus
    BY <2>6, BlurInv, FocusInv
  <2>7. CASE \E i \in Typists : Type(i)
    BY <2>7, TypeInv
  <2>8. CASE Drop \/ Offline \/ Reconnect
    BY <2>8, DropInv, OfflineInv, ReconnectInv
  <2> QED
    BY <1>2, <2>1, <2>2, <2>3, <2>4, <2>5, <2>6, <2>7, <2>8, Zenon DEF Next, Window
<1> QED
  BY <1>1, <1>2

LEMMA Invariance == Spec => []IInv
<1>1. Init => IInv
  BY InitInv
<1>2. IInv /\ [Next]_vars => IInv'
  BY NextInv
<1> QED
  BY <1>1, <1>2, PTL DEF Spec

(* The client's and the server's state keep their types.                   *)
THEOREM TypesKept == Spec => []TypeOK
<1>1. IInv => TypeOK
  BY DEF IInv, Sorts
<1> QED
  BY <1>1, Invariance, PTL

(* What is down for the server, once all is sent, is held.                 *)
LEMMA HeldStill ==
  ASSUME IInv, Quiet, linked, NEW s \in syms
  PROVE  \/ \E w \in Wanted : w \in Syms /\ Alike(repeats, w, s)
         \/ Stale(s)
<1>1. Owed(s) \/ Stale(s)
  BY DEF IInv, Paid
<1>2. DOMAIN <<>> = {}
  BY EmptySeq
<1>3. ~Lets(repeats, todo, 0, s) /\ \A i \in Typists : ~Lets(0, typing[i], 0, s)
  BY <1>2 DEF Quiet, Lets
<1>4. ASSUME Keeps(repeats, held, s)
      PROVE  \E w \in Wanted : w \in Syms /\ Alike(repeats, w, s)
  <2>1. PICK k \in Keys : Real(held, k) /\ Alike(repeats, held[k], s)
    BY <1>4 DEF Keeps
  <2>2. held[k] \in Wanted /\ held[k] \in Syms
    BY <2>1 DEF IInv, Sorts, TypeOK, Real, Wanted
  <2> QED
    BY <2>1, <2>2
<1> QED
  BY <1>1, <1>3, <1>4 DEF Owed

(* No key is down on the server's machine that the client does not hold,   *)
(* once all is sent, but for those that were down when a link broke and    *)
(* the Shift of a symbol that a repeat turned to lower case (inject_key,   *)
(* release_all, read_client).                                              *)
THEOREM NoKeyStuck == Spec => []NothingStuck
<1>1. IInv => NothingStuck
  <2>1. SUFFICES ASSUME IInv, Quiet, NEW v \in vks, v \notin left
                 PROVE  v \in (UNION {Vks(w) : w \in Wanted}) \cup Slipped
    BY DEF NothingStuck
  <2>2. linked
    BY <2>1 DEF IInv, Linkage
  <2>3. PICK s \in syms : v \in Vks(s)
    BY <2>1 DEF IInv, Explained
  <2>4. v = Vk(s) \/ (s \in Capitals /\ v = "VK_LSHIFT")
    BY <2>3 DEF Vks
  <2>5. CASE \E w \in Wanted : w \in Syms /\ Alike(repeats, w, s)
    <3>1. PICK w \in Wanted : Alike(repeats, w, s)
      BY <2>5
    <3>2. Vk(w) \in UNION {Vks(u) : u \in Wanted}
      BY <3>1 DEF Vks
    <3>3. CASE w = s
      BY <2>3, <3>1, <3>3
    <3>4. CASE w # s
      <4>1. repeats # 0 /\ Vk(w) = Vk(s)
        BY <3>1, <3>4 DEF Alike
      <4> QED
        BY <2>4, <3>2, <4>1 DEF Slipped
    <3> QED
      BY <3>3, <3>4
  <2>6. CASE Stale(s)
    <3>1. repeats # 0 /\ Vk(s) \notin vks
      BY <2>6 DEF Stale
    <3> QED
      BY <2>1, <2>4, <3>1 DEF Slipped
  <2> QED
    BY <2>1, <2>2, <2>5, <2>6, HeldStill
<1> QED
  BY <1>1, Invariance, PTL

(* A release repeats the symbol of the press (Input.held): as long as the  *)
(* window repeats no key and the link holds, no symbol stays down at a     *)
(* server that tells 'a' from 'A', whatever Shift did in between.          *)
THEOREM UpRepeatsDown == Spec => []SymbolKept
<1>1. IInv => SymbolKept
  <2>1. SUFFICES ASSUME IInv, repeats = 0, drops = 0, Quiet, NEW s \in syms
                 PROVE  s \in Wanted
    BY DEF SymbolKept, SameSymbol
  <2>2. linked
    BY <2>1 DEF IInv, Linkage
  <2>3. ~Stale(s)
    BY <2>1 DEF Stale
  <2>4. PICK w \in Wanted : Alike(repeats, w, s)
    BY <2>1, <2>2, <2>3, HeldStill
  <2> QED
    BY <2>1, <2>4 DEF Alike
<1> QED
  BY <1>1, Invariance, PTL
----------------------------------------------------------------------------
(* AltGr, for keyboards on which nobody taps it, or Ctrl, within a frame.  *)
Steady == Taps \cap Modifiers = {}

LEMMA Altgr == "altgr" \in Modifiers /\ "ctrl" \in Modifiers
  BY DEF Modifiers

LEMMA ClearApart ==
  ASSUME Clear, UNCHANGED <<todo, server, link>>
  PROVE  Clear'
  BY DEF Clear, HasAt, Cleared, server, link

LEMMA AltGrInit == Init => AInv
<1>1. DOMAIN <<>> = {}
  BY EmptySeq
<1>2. SUFFICES ASSUME Init PROVE AInv
  OBVIOUS
<1>3. ~HasAt(todo)
  BY <1>1, <1>2 DEF Init, HasAt
<1>4. ~ \E i \in DOMAIN chars : chars[i] = "at"
  BY <1>1, <1>2 DEF Init
<1>5. active = TRUE /\ phys = {} /\ fresh = {} /\ gone = {}
  BY <1>2 DEF Init
<1> QED
  BY <1>3, <1>4, <1>5 DEF AInv, Downs, Away, Bare, Ats, Clear

LEMMA AltGrPress ==
  ASSUME IInv, AInv, NEW k \in Keys, Press(k)
  PROVE  AInv'
<1>1. /\ active /\ UNCHANGED <<active, held, todo, server, link>>
      /\ phys' = phys \cup With(k)
      /\ fresh' = fresh \cup (With(k) \ (phys \cup gone)) /\ gone' = gone \ With(k)
  BY DEF Press
<1>2. Downs /\ Away /\ Bare /\ Ats /\ Clear
  BY DEF AInv
<1>3. Unmodified' <=> Unmodified
  BY <1>1 DEF Unmodified, Real
<1>4. Downs' /\ Away'
  BY <1>1, <1>2 DEF Downs, Away
<1>5. Bare'
  BY <1>1, <1>2, <1>3 DEF Bare
<1>6. Ats'
  <2>1. SUFFICES ASSUME NEW i \in DOMAIN chars', chars'[i] = "at"
                 PROVE  "altgr" \in phys' \/ Unmodified
    BY <1>3 DEF Ats
  <2>2. PICK c \in Chars(k) : chars' = chars \o c
    BY DEF Press
  <2>3. c = <<>> \/ \E s \in Strokes : c = <<s>> /\ (s = "at" => altgr)
    BY <2>2, CharsMade
  <2>4. chars \in Seq(Strokes)
    BY DEF IInv, Sorts
  <2>5. CASE c = <<>>
    <3>1. chars' = chars
      BY <2>2, <2>4, <2>5, ConcatEmptySeq
    <3> QED
      BY <1>1, <1>2, <2>1, <3>1 DEF Ats
  <2>6. CASE c # <<>>
    <3>1. PICK s \in Strokes : c = <<s>> /\ (s = "at" => altgr)
      BY <2>3, <2>6
    <3>2. CASE altgr
      BY <1>1, <3>2 DEF altgr
    <3>3. CASE ~altgr
      <4>1. s # "at" /\ c \in Seq(Strokes) /\ DOMAIN c = {1} /\ c[1] = s
        BY <3>1, <3>3
      <4>2. i \in DOMAIN chars \/ \E j \in DOMAIN c : i = Len(chars) + j
        BY <2>1, <2>2, <2>4, <4>1, Concat
      <4>3. i \in DOMAIN chars /\ chars[i] = "at"
        <5>1. CASE i \in DOMAIN chars
          BY <2>1, <2>2, <2>4, <4>1, <5>1, Concat
        <5>2. CASE i \notin DOMAIN chars
          <6>1. PICK j \in DOMAIN c : i = Len(chars) + j
            BY <4>2, <5>2
          <6>2. (chars \o c)[Len(chars) + j] = c[j]
            BY <2>4, <4>1, Concat
          <6> QED
            BY <2>1, <2>2, <4>1, <6>1, <6>2
        <5> QED
          BY <5>1, <5>2
      <4> QED
        BY <1>1, <1>2, <4>3 DEF Ats
    <3> QED
      BY <3>2, <3>3
  <2> QED
    BY <2>5, <2>6
<1>7. Clear'
  BY <1>1, <1>2, ClearApart
<1> QED
  BY <1>4, <1>5, <1>6, <1>7 DEF AInv

LEMMA AltGrRelease ==
  ASSUME IInv, AInv, Steady, NEW k \in Keys, Release(k)
  PROVE  AInv'
<1>1. /\ active /\ UNCHANGED <<fresh, chars, active, held, todo, server, link>>
      /\ phys' = phys \ With(k) /\ gone' = gone \cup (phys \cap With(k))
      /\ k = "ctrl" => "altgr" \notin phys
      /\ With(k) \cap fresh \subseteq Taps
  BY DEF Release
<1>2. Downs /\ Away /\ Bare /\ Ats /\ Clear
  BY DEF AInv
<1>3. Unmodified' <=> Unmodified
  BY <1>1 DEF Unmodified, Real
<1>4. With(k) \cap fresh \cap Modifiers = {}
  BY <1>1 DEF Steady
<1>5. Downs' /\ Away'
  BY <1>1, <1>2, <1>4 DEF Downs, Away
<1>6. Bare'
  BY <1>1, <1>2, <1>3 DEF Bare
<1>7. Ats'
  <2>1. SUFFICES ASSUME \E i \in DOMAIN chars : chars[i] = "at"
                 PROVE  "altgr" \in phys' \/ Unmodified
    BY <1>1, <1>3 DEF Ats
  <2>2. "altgr" \in phys \/ Unmodified
    BY <1>1, <1>2, <2>1 DEF Ats
  <2>3. ASSUME "altgr" \in phys, "altgr" \in With(k) PROVE Unmodified
    <3>1. "altgr" \notin fresh
      BY <1>4, <2>3, Altgr
    <3> QED
      BY <1>1, <1>2, <2>3, <3>1 DEF Bare
  <2> QED
    BY <1>1, <2>2, <2>3
<1>8. Clear'
  BY <1>1, <1>2, ClearApart
<1> QED
  BY <1>5, <1>6, <1>7, <1>8 DEF AInv

LEMMA AltGrBlur ==
  ASSUME AInv, Blur
  PROVE  AInv'
<1>1. /\ UNCHANGED <<chars, held, todo, server, link>>
      /\ phys' = {} /\ fresh' = {} /\ active' = FALSE
  BY DEF Blur
<1>2. Clear'
  BY <1>1, ClearApart DEF AInv
<1> QED
  BY <1>1, <1>2 DEF AInv, Downs, Away, Bare, Ats, Clear

LEMMA AltGrFocus ==
  ASSUME AInv, Focus
  PROVE  AInv'
<1>1. /\ UNCHANGED <<phys, fresh, gone, chars, held, todo, server, link>>
      /\ active' = TRUE /\ held = Freed(held, Keys) /\ ~active
  BY DEF Focus
<1>2. Unmodified'
  <2>1. ASSUME NEW k \in Keys PROVE held[k] = Free
    BY <1>1 DEF Freed
  <2> QED
    BY <1>1, <2>1 DEF Unmodified, Real
<1>3. Clear'
  BY <1>1, ClearApart DEF AInv
<1> QED
  BY <1>1, <1>2, <1>3 DEF AInv, Downs, Away, Bare, Ats, Clear
(* Steps of other threads and of the network: only Clear is in question.   *)
LEMMA AltGrApart ==
  ASSUME AInv, UNCHANGED <<person, held>>, Clear'
  PROVE  AInv'
  BY DEF AInv, Downs, Away, Bare, Ats, Clear, person, Unmodified, Real

(* All that AltGr's virtual keys are down for, at a frame, is held.        *)
LEMMA ModsTraced ==
  ASSUME IInv, todo = <<>>, drops = 0
  PROVE  Traced
<1>1. SUFFICES ASSUME NEW m \in {"ctrl", "alt"}, Vk(m) \in vks
               PROVE  \E k \in Keys \cap Modifiers : Real(held, k) /\ held[k] = m
  BY DEF Traced
<1>2. m \in Syms /\ \A s \in Syms : Vk(s) = Vk(m) => s = m
  BY DEF Syms, Vk
<1>3. linked /\ left = {} /\ syms \subseteq Syms
  BY DEF IInv, Linkage, Sorts, TypeOK
<1>4. m \in syms
  <2>1. PICK s \in syms : Vk(m) \in Vks(s)
    BY <1>1, <1>3 DEF IInv, Explained
  <2>2. Vk(m) # "VK_LSHIFT"
    BY DEF Vk
  <2> QED
    BY <1>2, <1>3, <2>1, <2>2 DEF Vks
<1>5. Owed(m)
  <2>1. m \notin Strokes
    BY DEF Strokes
  <2> QED
    BY <1>3, <1>4, <2>1 DEF IInv, Paid, Stale
<1>6. ~Lets(repeats, todo, 0, m)
  <2>1. DOMAIN <<>> = {}
    BY EmptySeq
  <2> QED
    BY <2>1 DEF Lets
<1>7. ASSUME NEW i \in Typists
      PROVE  ~Lets(0, typing[i], 0, m)
  <2>1. typing[i] \in Seq(TypeMessage)
    BY DEF IInv, Sorts
  <2>2. ASSUME NEW j \in DOMAIN typing[i]
        PROVE  typing[i][j].sym # m
    <3>1. typing[i][j] \in TypeMessage
      BY <2>1, ElementOfSeq, LenProperties
    <3>2. typing[i][j].sym \in Pasted
      BY <3>1, Pasting
    <3> QED
      BY <3>2 DEF Pasted
  <2> QED
    BY <2>2 DEF Lets, Alike
<1>8. PICK k \in Keys : Real(held, k) /\ Alike(repeats, held[k], m)
  BY <1>5, <1>6, <1>7 DEF Owed, Keeps
<1>9. held[k] \in Own(k) /\ held[k] \in Syms
  BY <1>8, OwnSyms DEF IInv, Sorts, Real
<1>10. held[k] = m
  BY <1>2, <1>8, <1>9 DEF Alike
<1>11. k \in Modifiers
  BY <1>9, <1>10, OwnSyms
<1> QED
  BY <1>8, <1>10, <1>11

LEMMA AltGrFrame ==
  ASSUME IInv, AInv, Frame
  PROVE  AInv'
<1>1. /\ todo = <<>> /\ fresh' = {} /\ gone' = {}
      /\ chars' = IF active /\ online THEN <<>> ELSE chars
      /\ UNCHANGED <<phys, active, server, link>>
  BY DEF Frame
<1>2. Downs /\ Away /\ Bare /\ Ats /\ Clear
  BY DEF AInv
<1>3. PICK n, S, ps, f :
        /\ n = repeats' /\ n \in Nat /\ (repeats # 0 => n # 0) /\ S \subseteq fresh \cup phys
        /\ held' = f.held /\ todo' = f.todo
        /\ active /\ online => Pumps(n, S, ps, f)
        /\ ~(active /\ online) => f = Released
  BY FrameMade, Zenon
<1>4. Downs' /\ Away'
  BY <1>1, <1>2 DEF Downs, Away
<1>5. UNCHANGED <<vks, drops>>
  BY <1>1 DEF server, link
<1>6. CASE active /\ online
  <2>1. Pumps(n, S, ps, f)
    BY <1>3, <1>6
  <2>2. /\ altgr => \A k \in Keys \cap Modifiers : ~Real(f.held, k)
        /\ HasAt(f.todo) => ~shortcut /\ \E i \in DOMAIN chars : chars[i] = "at"
        /\ Traced /\ (altgr \/ (S \cap Modifiers = {} /\ Unmodified)) => Cleared(f.todo)
    BY <2>1, PumpedMoves, Zenon
  <2>3. Bare'
    BY <1>1, <1>3, <2>2 DEF Bare, altgr, Unmodified
  <2>4. Ats'
    <3>1. DOMAIN <<>> = {}
      BY EmptySeq
    <3> QED
      BY <1>1, <1>6, <3>1 DEF Ats
  <2>5. ASSUME drops = 0, HasAt(f.todo)
        PROVE  Cleared(f.todo)
    <3>1. Traced
      BY <1>1, <2>5, ModsTraced
    <3>2. ~shortcut /\ (altgr \/ Unmodified)
      BY <1>2, <1>6, <2>2, <2>5 DEF Ats, altgr
    <3>3. ASSUME ~altgr PROVE S \cap Modifiers = {}
      <4>1. "ctrl" \notin phys /\ "altgr" \notin phys
        BY <3>2, <3>3 DEF shortcut, altgr
      <4> QED
        BY <1>2, <1>3, <4>1 DEF Downs, Modifiers
    <3> QED
      BY <2>2, <3>1, <3>2, <3>3
  <2>6. Clear'
    <3>1. HasAt(todo') <=> HasAt(f.todo)
      BY <1>3
    <3>2. Cleared(f.todo) => Cleared(todo)'
      BY <1>3, <1>5 DEF Cleared
    <3> QED
      BY <1>5, <2>5, <3>1, <3>2 DEF Clear, HasAt
  <2> QED
    BY <1>4, <2>3, <2>4, <2>6 DEF AInv
<1>7. CASE ~(active /\ online)
  <2>1. Holding(held) /\ f = Released
    BY <1>3, <1>7 DEF IInv, Sorts, TypeOK, Holding
  <2>2. ~HasAt(f.todo) /\ \A k \in Keys : ~Real(f.held, k)
    BY <2>1, ReleasedMoves
  <2>3. Unmodified'
    BY <1>3, <2>2 DEF Unmodified
  <2>4. Clear'
    BY <1>3, <2>2 DEF Clear, HasAt
  <2> QED
    BY <1>4, <2>3, <2>4 DEF AInv, Downs, Away, Bare, Ats, Clear
<1> QED
  BY <1>6, <1>7

LEMMA ModKeys ==
  ASSUME NEW m \in {"ctrl", "alt"}
  PROVE  /\ Vk(m) # "VK_LSHIFT" /\ m \notin Pasted /\ m \in Syms
         /\ \A s \in Syms : Vk(s) = Vk(m) => s = m
  BY DEF Vk, Syms, Pasted

LEMMA AltGrSend ==
  ASSUME IInv, AInv, Send
  PROVE  AInv'
<1>1. /\ todo # <<>> /\ todo' = Tail(todo) /\ Sent(Head(todo)) /\ Head(todo).do = "key"
      /\ UNCHANGED <<person, held, link>>
  BY DEF Send
<1>2. drops' = drops
  BY <1>1 DEF link
<1>3. TypeOK /\ todo \in Seq(PumpMessage)
  BY DEF IInv, Sorts
<1>4. PICK h \in PumpMessage : h = Head(todo)
  BY <1>1, <1>3, Rest
<1>5. h.sym \in Syms \ {"x", "X"} /\ h.down \in BOOLEAN /\ h = Key(h.sym, h.down)
  BY <1>1, <1>4, Pumping DEF Paste
<1>6. /\ 1 \in DOMAIN todo /\ todo[1] = h
      /\ \A i \in DOMAIN Tail(todo) : i \in Nat /\ i >= 1 /\ i + 1 \in DOMAIN todo /\ Tail(todo)[i] = todo[i + 1]
      /\ \A i \in DOMAIN todo : i = 1 \/ (i - 1 \in DOMAIN Tail(todo) /\ i \in Nat /\ Tail(todo)[i - 1] = todo[i])
  BY <1>1, <1>3, <1>4, Rest
<1>7. PICK q : q = Tail(todo)
  OBVIOUS
<1>8. SUFFICES ASSUME drops = 0, HasAt(q)
               PROVE  Cleared(q)'
  <2>1. todo' = q
    BY <1>1, <1>7
  <2>2. Clear'
    BY <1>2, <1>8, <2>1 DEF Clear, HasAt, Cleared
  <2> QED
    BY <1>1, <2>2, AltGrApart
<1>9. HasAt(todo) /\ Cleared(todo)
  <2>1. HasAt(todo)
    BY <1>6, <1>8, <1>7 DEF HasAt
  <2> QED
    BY <1>8, <2>1 DEF AInv, Clear
<1>10. Arrives(h)
  <2>1. online /\ linked
    BY <1>8 DEF IInv, Linkage
  <2> QED
    BY <1>1, <1>4, <2>1 DEF Sent
<1>11. /\ h.down => vks' \subseteq vks \cup {Vk(h.sym), "VK_LSHIFT"}
       /\ ~h.down => vks' \subseteq vks /\ Vk(h.sym) \notin vks'
  BY <1>3, <1>5, <1>10, ArrivesTyped
<1>12. ASSUME NEW m \in {"ctrl", "alt"}
       PROVE  /\ \A j \in DOMAIN q : q[j] # Key(m, TRUE)
              /\ Vk(m) \in vks' =>
                   \E j \in DOMAIN q :
                      /\ q[j] = Key(m, FALSE)
                      /\ \A i \in DOMAIN q : q[i] = Key("at", TRUE) => j < i
  <2>1. /\ \A j \in DOMAIN todo : todo[j] # Key(m, TRUE)
        /\ Vk(m) \in vks => \E j \in DOMAIN todo :
                              /\ todo[j] = Key(m, FALSE)
                              /\ \A i \in DOMAIN todo : todo[i] = Key("at", TRUE) => j < i
    BY <1>9 DEF Cleared
  <2>2. \A j \in DOMAIN q : q[j] # Key(m, TRUE)
    BY <1>6, <1>7, <2>1
  <2>3. SUFFICES ASSUME Vk(m) \in vks'
                 PROVE  \E j \in DOMAIN q :
                           /\ q[j] = Key(m, FALSE)
                           /\ \A i \in DOMAIN q : q[i] = Key("at", TRUE) => j < i
    BY <2>2
  <2>4. Vk(m) \in vks
    <3>1. CASE h.down
      <4>1. h # Key(m, TRUE)
        BY <1>6, <2>1
      <4>2. h.sym # m
        BY <1>5, <3>1, <4>1
      <4>3. Vk(h.sym) # Vk(m) /\ Vk(m) # "VK_LSHIFT"
        BY <1>5, <4>2, ModKeys
      <4> QED
        BY <1>11, <2>3, <3>1, <4>3
    <3>2. CASE ~h.down
      BY <1>11, <2>3, <3>2
    <3> QED
      BY <3>1, <3>2
  <2>5. PICK j \in DOMAIN todo : /\ todo[j] = Key(m, FALSE)
                                 /\ \A i \in DOMAIN todo : todo[i] = Key("at", TRUE) => j < i
    BY <2>1, <2>4
  <2>6. j # 1
    <3>1. SUFFICES ASSUME h = Key(m, FALSE) PROVE FALSE
      BY <1>6, <2>5
    <3>2. h.sym = m /\ ~h.down
      BY <3>1 DEF Key
    <3> QED
      BY <1>11, <2>3, <3>2
  <2>7. j - 1 \in DOMAIN q /\ j \in Nat /\ q[j - 1] = Key(m, FALSE)
    BY <1>6, <1>7, <2>5, <2>6
  <2>8. ASSUME NEW i \in DOMAIN q, q[i] = Key("at", TRUE)
        PROVE  j - 1 < i
    <3>1. i \in Nat /\ j < i + 1
      BY <1>6, <1>7, <2>5, <2>8
    <3> QED
      BY <2>7, <3>1
  <2> QED
    BY <2>7, <2>8
<1> QED
  BY <1>12 DEF Cleared
LEMMA AltGrPaste ==
  ASSUME IInv, AInv, StartTyping
  PROVE  AInv'
<1>1. /\ todo # <<>> /\ Head(todo).do = "paste" /\ todo' = Tail(todo)
      /\ UNCHANGED <<person, held, server, link>>
  BY DEF StartTyping
<1>2. UNCHANGED <<drops, vks>>
  BY <1>1 DEF server, link
<1>3. todo \in Seq(PumpMessage)
  BY DEF IInv, Sorts
<1>4. /\ todo[1] = Head(todo)
      /\ \A i \in DOMAIN Tail(todo) : i \in Nat /\ i >= 1 /\ i + 1 \in DOMAIN todo /\ Tail(todo)[i] = todo[i + 1]
      /\ \A i \in DOMAIN todo : i = 1 \/ (i - 1 \in DOMAIN Tail(todo) /\ i \in Nat /\ Tail(todo)[i - 1] = todo[i])
  BY <1>1, <1>3, Rest
<1>5. PICK q : q = Tail(todo)
  OBVIOUS
<1>6. SUFFICES ASSUME drops = 0, HasAt(q)
               PROVE  Cleared(q)
  <2>1. todo' = q
    BY <1>1, <1>5
  <2>2. Clear'
    BY <1>2, <1>6, <2>1 DEF Clear, HasAt, Cleared
  <2> QED
    BY <1>1, <2>2, AltGrApart
<1>7. HasAt(todo) /\ Cleared(todo)
  <2>1. HasAt(todo)
    BY <1>4, <1>5, <1>6 DEF HasAt
  <2> QED
    BY <1>6, <2>1 DEF AInv, Clear
<1>8. ASSUME NEW m \in {"ctrl", "alt"}
      PROVE  /\ \A j \in DOMAIN q : q[j] # Key(m, TRUE)
             /\ Vk(m) \in vks =>
                  \E j \in DOMAIN q :
                     /\ q[j] = Key(m, FALSE)
                     /\ \A i \in DOMAIN q : q[i] = Key("at", TRUE) => j < i
  <2>1. /\ \A j \in DOMAIN todo : todo[j] # Key(m, TRUE)
        /\ Vk(m) \in vks => \E j \in DOMAIN todo :
                              /\ todo[j] = Key(m, FALSE)
                              /\ \A i \in DOMAIN todo : todo[i] = Key("at", TRUE) => j < i
    BY <1>7 DEF Cleared
  <2>2. \A j \in DOMAIN q : q[j] # Key(m, TRUE)
    BY <1>4, <1>5, <2>1
  <2>3. SUFFICES ASSUME Vk(m) \in vks
                 PROVE  \E j \in DOMAIN q :
                           /\ q[j] = Key(m, FALSE)
                           /\ \A i \in DOMAIN q : q[i] = Key("at", TRUE) => j < i
    BY <2>2
  <2>4. PICK j \in DOMAIN todo : /\ todo[j] = Key(m, FALSE)
                                 /\ \A i \in DOMAIN todo : todo[i] = Key("at", TRUE) => j < i
    BY <2>1, <2>3
  <2>5. j # 1
    BY <1>1, <1>4, <2>4 DEF Key
  <2>6. j - 1 \in DOMAIN q /\ j \in Nat /\ q[j - 1] = Key(m, FALSE)
    BY <1>4, <1>5, <2>4, <2>5
  <2>7. ASSUME NEW i \in DOMAIN q, q[i] = Key("at", TRUE)
        PROVE  j - 1 < i
    <3>1. i \in Nat /\ j < i + 1
      BY <1>4, <1>5, <2>4, <2>7
    <3> QED
      BY <2>6, <3>1
  <2> QED
    BY <2>6, <2>7
<1> QED
  BY <1>8 DEF Cleared

LEMMA AltGrType ==
  ASSUME IInv, AInv, NEW i \in Typists, Type(i)
  PROVE  AInv'
<1>1. typing[i] # <<>> /\ UNCHANGED <<person, held, todo, link>>
  BY DEF Type
<1>2. drops' = drops /\ UNCHANGED <<online, linked>>
  BY <1>1 DEF link
<1>3. TypeOK /\ typing[i] \in Seq(TypeMessage)
  BY DEF IInv, Sorts
<1>4. PICK h \in TypeMessage : h = Head(typing[i])
  BY <1>1, <1>3, Rest
<1>5. h.sym \in Pasted /\ h.down \in BOOLEAN /\ h.sym \in Syms
  BY <1>4, Pasting DEF Pasted, Syms
<1>6. Arrives(h) \/ UNCHANGED server
  BY <1>4 DEF Type, Sent
<1>7. ASSUME NEW m \in {"ctrl", "alt"}, Vk(m) \in vks'
      PROVE  Vk(m) \in vks
  <2>1. CASE Arrives(h)
    <3>1. vks' \subseteq vks \cup {Vk(h.sym), "VK_LSHIFT"}
      BY <1>3, <1>5, <2>1, ArrivesTyped
    <3>2. Vk(m) # Vk(h.sym) /\ Vk(m) # "VK_LSHIFT"
      BY <1>5, ModKeys
    <3> QED
      BY <1>7, <3>1, <3>2
  <2>2. CASE UNCHANGED server
    BY <1>7, <2>2 DEF server
  <2> QED
    BY <1>6, <2>1, <2>2
<1>8. Clear'
  <2>1. Cleared(todo) => Cleared(todo)'
    BY <1>1, <1>7 DEF Cleared
  <2> QED
    BY <1>1, <1>2, <2>1 DEF AInv, Clear, HasAt
<1> QED
  BY <1>1, <1>8, AltGrApart

LEMMA AltGrBreaks ==
  ASSUME IInv, AInv, Fails \/ Drop \/ Offline \/ Reconnect
  PROVE  AInv'
<1>1. UNCHANGED <<person, held>> /\ vks' = vks
  BY DEF Fails, Drop, Offline, Reconnect, server
<1>2. CASE Fails
  <2>1. todo' = <<>> /\ DOMAIN <<>> = {}
    BY <1>2, EmptySeq DEF Fails
  <2>2. Clear'
    BY <2>1 DEF Clear, HasAt
  <2> QED
    BY <1>1, <2>2, AltGrApart
<1>3. CASE Drop
  <2>1. drops' # 0
    BY <1>3 DEF IInv, Sorts, TypeOK, Drop
  <2> QED
    BY <1>1, <2>1, AltGrApart DEF Clear
<1>4. CASE Offline \/ Reconnect
  <2>1. drops' = drops /\ drops # 0
    BY <1>4 DEF IInv, Linkage, Offline, Reconnect
  <2> QED
    BY <1>1, <2>1, AltGrApart DEF Clear
<1> QED
  BY <1>2, <1>3, <1>4

LEMMA AltGrNext ==
  ASSUME Steady, IInv, AInv, [Next]_vars
  PROVE  AInv'
<1>1. CASE UNCHANGED vars
  <2>1. UNCHANGED <<person, held, todo, server, link>>
    BY <1>1 DEF vars
  <2> QED
    BY <2>1, ClearApart, AltGrApart DEF AInv
<1>2. CASE Next
  <2>1. CASE Frame
    BY <2>1, AltGrFrame
  <2>2. CASE Send
    BY <2>2, AltGrSend
  <2>3. CASE StartTyping
    BY <2>3, AltGrPaste
  <2>4. CASE \E k \in Keys : Press(k) \/ Release(k)
    BY <2>4, AltGrPress, AltGrRelease
  <2>5. CASE Blur \/ Focus
    BY <2>5, AltGrBlur, AltGrFocus
  <2>6. CASE \E i \in Typists : Type(i)
    BY <2>6, AltGrType
  <2>7. CASE Fails \/ Drop \/ Offline \/ Reconnect
    BY <2>7, AltGrBreaks
  <2> QED
    BY <1>2, <2>1, <2>2, <2>3, <2>4, <2>5, <2>6, <2>7, Zenon DEF Next, Window
<1> QED
  BY <1>1, <1>2

(* pump's note on AltGr: its characters do not arrive as Ctrl-Alt          *)
(* shortcuts.  A person who had AltGr down and up again within one frame,  *)
(* with a character in between, could make them do so: Taps has no         *)
(* modifier.                                                               *)
THEOREM AltGrIsPlain ==
  ASSUME Taps \cap Modifiers = {}
  PROVE  Spec => []AltGrPlain
<1>1. Init => IInv /\ AInv
  BY InitInv, AltGrInit
<1>2. IInv /\ AInv /\ [Next]_vars => (IInv /\ AInv)'
  BY NextInv, AltGrNext DEF Steady
<1>3. IInv /\ AInv => AltGrPlain
  <2>1. SUFFICES ASSUME IInv, AInv, drops = 0, todo # <<>>, Head(todo) = Key("at", TRUE),
                        NEW m \in {"ctrl", "alt"}, Vk(m) \in vks
                 PROVE  FALSE
    BY DEF AltGrPlain, Vk
  <2>2. todo \in Seq(PumpMessage)
    BY <2>1 DEF IInv, Sorts
  <2>3. 1 \in DOMAIN todo /\ todo[1] = Key("at", TRUE)
    BY <2>1, <2>2, Rest
  <2>4. Cleared(todo)
    BY <2>1, <2>3 DEF AInv, Clear, HasAt
  <2>5. PICK j \in DOMAIN todo : \A i \in DOMAIN todo : todo[i] = Key("at", TRUE) => j < i
    BY <2>1, <2>4 DEF Cleared
  <2>6. DOMAIN todo = 1 .. Len(todo) /\ Len(todo) \in Nat
    BY <2>2, LenProperties
  <2>7. j \in Nat /\ j >= 1
    BY <2>6
  <2>8. j < 1
    BY <2>3, <2>5
  <2> QED
    BY <2>7, <2>8
<1> QED
  BY <1>1, <1>2, <1>3, PTL DEF Spec
=============================================================================
