--------------------------- MODULE Desktop_proof ---------------------------
(***************************************************************************)
(* What the server says of its desktop. What it compares with is what the  *)
(* client has, proved for any region and desktop and every kind of         *)
(* session, those included in which the pointer is painted into the        *)
(* pictures of Desktop Duplication. What the two ends tell each other of   *)
(* their clipboards, proved for any texts on them at first, any number of  *)
(* copies, overlaps, clipboards that could not be set and lost             *)
(* connections.                                                            *)
(***************************************************************************)
EXTENDS Capture, Clipboard, WellFoundedInduction, SequenceTheorems, FiniteSetTheorems, TLAPS

----------------------------------------------------------------------------
(* The pictures.                                                           *)

(* A client that draws the pointer is never painted one.                   *)
Plain == /\ session.cursor => cursor = Away
         /\ dxgi => session.duplicates
         /\ pc = "paint" /\ report.precise => session.duplicates
         /\ pc = "paint" => report.moves \in Seq(Cells \X Cells) /\ report.dirty \subseteq Cells

(* What Duplication will say leads from the DIB to the desktop, and what   *)
(* it said from the picture before to the DIB, whatever pointers are       *)
(* painted on them.  A DIB that was filled again has none on it yet.       *)
Covers(was, ms, redone, pic) == \A c \in Cells \ redone : pic[c].ink = Moved(was, ms)[c].ink
Bare(pic) == \A c \in Cells : ~pic[c].pointer
Told ==
  /\ Covers(dib, moves, dirty, Clean(desk))
  /\ pc = "paint" /\ report.precise =>
       /\ Covers(cur, report.moves, report.dirty, dib)
       /\ \/ report.moves = <<>> /\ dib = cur
          \/ Bare(dib) /\ (report.dirty = {} => DOMAIN report.moves # {})
  /\ pc = "grab" \/ ~report.changed => dib = cur

(* Pointers: none for a client that draws its own, one where it was        *)
(* painted last.                                                           *)
Pointed == /\ session.cursor => Bare(dib) /\ Bare(cur)
           /\ cursor # Away => cur[cursor].pointer

Synced == ~full => Same(client, prev) /\ prev = cur

Typed == TypeOK /\ Plain
IInv == Typed /\ Told /\ Pointed /\ Synced

----------------------------------------------------------------------------
LEMMA LeastExists ==
  ASSUME NEW T \in SUBSET Nat, T # {}
  PROVE  \E x \in T : \A y \in T : x <= y
<1> DEFINE R == {ss \in Nat \X Nat : ss[1] < ss[2]}
<1>1. IsWellFoundedOn(R, Nat)
  BY NatLessThanWellFounded DEF OpToRel
<1>2. \A x, y \in Nat : <<y, x>> \in R <=> y < x
  OBVIOUS
<1> HIDE DEF R
<1>3. PICK x \in T : \A y \in T : ~ (<<y, x>> \in R)
  BY <1>1, WFMin
<1>4. \A y \in T : ~(y < x)
  BY <1>2, <1>3
<1> QED
  BY <1>3, <1>4

(* What CopyRects do, without the recursion.                               *)
Steps(f, pic, ms, n) ==
  f = [k \in 0 .. n |-> IF k = 0 THEN pic ELSE Slide(f[k - 1], ms[k])]

LEMMA StepByStep ==
  ASSUME NEW f, NEW pic, NEW ms, NEW n \in Nat, Steps(f, pic, ms, n)
  PROVE  /\ f[0] = pic
         /\ \A k \in 1 .. n : k - 1 \in 0 .. n /\ f[k] = Slide(f[k - 1], ms[k])
<1>1. 0 \in 0 .. n
  OBVIOUS
<1>2. \A k \in 1 .. n : k \in 0 .. n /\ k # 0 /\ k - 1 \in 0 .. n
  OBVIOUS
<1>3. \A k \in 0 .. n : f[k] = IF k = 0 THEN pic ELSE Slide(f[k - 1], ms[k])
  BY Zenon DEF Steps
<1> QED
  BY <1>1, <1>2, <1>3

(* There is such a function, and only one.                                 *)
LEMMA StepsExist ==
  ASSUME NEW pic, NEW ms, NEW n \in Nat
  PROVE  \E f : Steps(f, pic, ms, n)
<1> DEFINE Bad == {k \in Nat : ~ \E f : Steps(f, pic, ms, k)}
<1>1. CASE Bad = {}
  BY <1>1
<1>2. CASE Bad # {}
  <2>1. PICK k \in Bad : \A j \in Bad : k <= j
    BY <1>2, LeastExists
  <2>2. k \in Nat /\ ~ \E f : Steps(f, pic, ms, k)
    BY <2>1
  <2>3. CASE k = 0
    <3> DEFINE f == [j \in 0 .. 0 |-> pic]
    <3>1. f = [j \in 0 .. 0 |-> IF j = 0 THEN pic ELSE Slide(f[j - 1], ms[j])]
      OBVIOUS
    <3>2. Steps(f, pic, ms, 0)
      BY <3>1 DEF Steps
    <3> QED
      BY <2>2, <2>3, <3>2
  <2>4. CASE k # 0
    <3>1. k - 1 \in Nat /\ k - 1 < k
      BY <2>2, <2>4
    <3>2. k - 1 \notin Bad
      BY <2>1, <2>2, <3>1
    <3>3. PICK g : Steps(g, pic, ms, k - 1)
      BY <3>1, <3>2
    <3>4. /\ \A j \in 0 .. k - 1 : g[j] = IF j = 0 THEN pic ELSE Slide(g[j - 1], ms[j])
      BY <3>3, Zenon DEF Steps
    <3> DEFINE f == [j \in 0 .. k |-> IF j = k THEN Slide(g[k - 1], ms[k]) ELSE g[j]]
    <3>5. ASSUME NEW j \in 0 .. k
          PROVE  f[j] = IF j = 0 THEN pic ELSE Slide(f[j - 1], ms[j])
      <4>1. CASE j = 0
        BY <4>1, <3>1, <3>4, <2>4
      <4>2. CASE j = k
        <5>1. k - 1 \in 0 .. k /\ k - 1 # k /\ k \in 0 .. k
          BY <3>1
        <5>2. f[k] = Slide(g[k - 1], ms[k]) /\ f[k - 1] = g[k - 1]
          BY <5>1
        <5> QED
          BY <4>2, <5>2, <2>4
      <4>3. CASE j # 0 /\ j # k
        <5>1. j - 1 \in 0 .. k /\ j - 1 # k /\ j \in 0 .. k - 1
          BY <4>3, <3>1
        <5>2. f[j] = g[j] /\ f[j - 1] = g[j - 1]
          BY <4>3, <5>1
        <5> QED
          BY <4>3, <5>1, <5>2, <3>4
      <4> QED
        BY <4>1, <4>2, <4>3
    <3>6. f = [j \in 0 .. k |-> IF j = 0 THEN pic ELSE Slide(f[j - 1], ms[j])]
      <4> DEFINE h == [j \in 0 .. k |-> IF j = 0 THEN pic ELSE Slide(f[j - 1], ms[j])]
      <4>1. \A j \in 0 .. k : f[j] = h[j]
        BY <3>5
      <4>2. f = h
        BY <4>1
      <4> QED
        BY <4>2
    <3>7. Steps(f, pic, ms, k)
      BY <3>6 DEF Steps
    <3> QED
      BY <2>2, <3>7
  <2> QED
    BY <2>3, <2>4
<1> QED
  BY <1>1, <1>2

LEMMA StepsAgree ==
  ASSUME NEW f, NEW g, NEW pic, NEW ms, NEW ns, NEW n \in Nat, NEW m \in Nat, n <= m,
         Steps(f, pic, ms, n), Steps(g, pic, ns, m), \A k \in 1 .. n : ms[k] = ns[k]
  PROVE  f[n] = g[n]
<1> DEFINE Bad == {k \in Nat : k <= n /\ f[k] # g[k]}
<1>1. CASE Bad = {}
  BY <1>1
<1>2. CASE Bad # {}
  <2>1. PICK k \in Bad : \A j \in Bad : k <= j
    BY <1>2, LeastExists
  <2>2. CASE k = 0
    BY <2>1, <2>2, StepByStep
  <2>3. CASE k # 0
    <3>1. k \in 1 .. n /\ k \in 1 .. m /\ k - 1 \in Nat /\ k - 1 < k
      BY <2>1, <2>3
    <3>2. f[k - 1] = g[k - 1]
      BY <2>1, <3>1
    <3>3. f[k] = Slide(f[k - 1], ms[k]) /\ g[k] = Slide(g[k - 1], ns[k])
      BY <3>1, StepByStep
    <3> QED
      BY <2>1, <3>1, <3>2, <3>3
  <2> QED
    BY <2>2, <2>3
<1> QED
  BY <1>1, <1>2

LEMMA MovedSteps ==
  ASSUME NEW pic, NEW ms, Len(ms) \in Nat
  PROVE  \E f : Steps(f, pic, ms, Len(ms)) /\ Moved(pic, ms) = f[Len(ms)]
<1>1. \E f : Steps(f, pic, ms, Len(ms))
  BY StepsExist
<1> QED
  BY <1>1 DEF Moved, Steps

(* No CopyRect, and one more.                                              *)
LEMMA MovedByNone ==
  ASSUME NEW pic
  PROVE  Moved(pic, <<>>) = pic
<1>1. Len(<<>>) = 0
  OBVIOUS
<1>2. PICK f : Steps(f, pic, <<>>, 0) /\ Moved(pic, <<>>) = f[0]
  BY <1>1, MovedSteps
<1> QED
  BY <1>2, StepByStep

LEMMA MovedByMore ==
  ASSUME NEW pic, NEW S, NEW ms \in Seq(S), NEW m \in S
  PROVE  Moved(pic, Append(ms, m)) = Slide(Moved(pic, ms), m)
<1> DEFINE n == Len(ms)
           ns == Append(ms, m)
<1>1. /\ n \in Nat /\ Len(ns) = n + 1
      /\ \A k \in 1 .. n : ms[k] = ns[k]
      /\ ns[n + 1] = m
  BY LenProperties, AppendProperties
<1> HIDE DEF n, ns
<1>2. PICK f : Steps(f, pic, ms, n) /\ Moved(pic, ms) = f[n]
  BY <1>1, MovedSteps DEF n
<1>3. PICK g : Steps(g, pic, ns, n + 1) /\ Moved(pic, ns) = g[n + 1]
  BY <1>1, MovedSteps
<1>4. f[n] = g[n]
  <2>1. PICK more \in Nat : more = n + 1 /\ n <= more
    BY <1>1
  <2>2. Steps(g, pic, ns, more)
    BY <1>3, <2>1
  <2>3. /\ n \in Nat /\ more \in Nat /\ n <= more
        /\ Steps(f, pic, ms, n) /\ Steps(g, pic, ns, more)
        /\ \A k \in 1 .. n : ms[k] = ns[k]
    BY <1>1, <1>2, <2>1, <2>2
  <2> QED
    BY <2>3, StepsAgree, Zenon
<1>5. n + 1 \in 1 .. n + 1 /\ (n + 1) - 1 = n
  BY <1>1
<1>6. g[n + 1] = Slide(g[n], ns[n + 1])
  BY <1>1, <1>3, <1>5, StepByStep
<1> QED
  BY <1>1, <1>2, <1>3, <1>4, <1>6 DEF ns

(* A picture stays one, and what no CopyRect leads to stays as it is.      *)
LEMMA MovedElsewhere ==
  ASSUME NEW pic \in Picture, NEW ms \in Seq(Cells \X Cells)
  PROVE  /\ Moved(pic, ms) \in Picture
         /\ \A c \in Cells : (\A i \in DOMAIN ms : ms[i][2] # c) => Moved(pic, ms)[c] = pic[c]
<1> DEFINE n == Len(ms)
           Rest == {c \in Cells : \A i \in DOMAIN ms : ms[i][2] # c}
<1>1. n \in Nat /\ DOMAIN ms = 1 .. n /\ \A i \in 1 .. n : ms[i] \in Cells \X Cells
  BY LenProperties
<1> HIDE DEF n
<1>2. PICK f : Steps(f, pic, ms, n) /\ Moved(pic, ms) = f[n]
  BY <1>1, MovedSteps DEF n
<1> DEFINE Fine(p) == p \in Picture /\ \A c \in Rest : p[c] = pic[c]
           Bad == {k \in Nat : k <= n /\ ~ Fine(f[k])}
<1>3. CASE Bad = {}
  <2>1. Fine(f[n])
    BY <1>1, <1>3
  <2> QED
    BY <1>2, <2>1
<1>4. CASE Bad # {}
  <2>1. PICK k \in Bad : \A j \in Bad : k <= j
    BY <1>4, LeastExists
  <2>2. CASE k = 0
    <3>1. f[k] = pic
      BY <1>1, <1>2, <2>2, StepByStep
    <3> QED
      BY <2>1, <3>1
  <2>3. CASE k # 0
    <3>1. k \in 1 .. n /\ k - 1 \in Nat /\ k - 1 < k
      BY <1>1, <2>1, <2>3
    <3>2. Fine(f[k - 1])
      BY <1>1, <2>1, <3>1
    <3>3. f[k] = Slide(f[k - 1], ms[k])
      <4>1. n \in Nat /\ Steps(f, pic, ms, n)
        BY <1>1, <1>2
      <4>2. \A j \in 1 .. n : j - 1 \in 0 .. n /\ f[j] = Slide(f[j - 1], ms[j])
        BY <4>1, StepByStep, Zenon
      <4> QED
        BY <3>1, <4>2
    <3>4. ms[k] \in Cells \X Cells /\ \A c \in Rest : ms[k][2] # c
      BY <1>1, <3>1
    <3> DEFINE p == f[k - 1]
               m == ms[k]
    <3> HIDE DEF p, m, Rest
    <3>5. Fine(Slide(p, m))
      BY <3>2, <3>4 DEF Slide, p, m, Picture
    <3>6. Fine(f[k])
      BY <3>3, <3>5 DEF p, m
    <3> QED
      BY <2>1, <3>6
  <2> QED
    BY <2>2, <2>3
<1> QED
  BY <1>3, <1>4

(* CopyRects rearrange a picture, whatever is on it.                       *)
LEMMA MovedRearranges ==
  ASSUME NEW ms \in Seq(Cells \X Cells)
  PROVE  \E g \in [Cells -> Cells] : \A pic \in Picture : \A c \in Cells : Moved(pic, ms)[c] = pic[g[c]]
<1> DEFINE n == Len(ms)
           From(g, k) == \A pic \in Picture : \A f : Steps(f, pic, ms, n) =>
                           f[k] \in Picture /\ \A c \in Cells : f[k][c] = pic[g[c]]
           Bad == {k \in Nat : k <= n /\ ~ \E g \in [Cells -> Cells] : From(g, k)}
<1>1. n \in Nat /\ \A i \in 1 .. n : ms[i] \in Cells \X Cells
  BY LenProperties
<1> HIDE DEF n
<1>2. Bad = {}
  <2>1. SUFFICES ASSUME Bad # {} PROVE FALSE
    OBVIOUS
  <2>2. PICK k \in Bad : \A j \in Bad : k <= j
    BY <2>1, LeastExists
  <2>3. CASE k = 0
    <3> DEFINE g == [c \in Cells |-> c]
    <3>1. g \in [Cells -> Cells]
      OBVIOUS
    <3>2. \A pic : \A f : Steps(f, pic, ms, n) => f[0] = pic
      BY <1>1, StepByStep
    <3>3. From(g, 0)
      BY <3>2
    <3> QED
      BY <2>2, <2>3, <3>1, <3>3
  <2>4. CASE k # 0
    <3>1. k \in 1 .. n /\ k - 1 \in Nat /\ k - 1 < k /\ k - 1 <= n
      BY <1>1, <2>2, <2>4
    <3>2. PICK g \in [Cells -> Cells] : From(g, k - 1)
      BY <2>2, <3>1
    <3>3. ms[k] \in Cells \X Cells
      BY <1>1, <3>1
    <3> DEFINE m == ms[k]
               h == [c \in Cells |-> IF c = m[2] THEN g[m[1]] ELSE g[c]]
    <3>4. m[1] \in Cells /\ m[2] \in Cells
      BY <3>3
    <3>5. h \in [Cells -> Cells]
      BY <3>4
    <3>6. ASSUME NEW pic \in Picture, NEW f, Steps(f, pic, ms, n)
          PROVE  f[k] \in Picture /\ \A c \in Cells : f[k][c] = pic[h[c]]
      <4>1. \A j \in 1 .. n : f[j] = Slide(f[j - 1], ms[j])
        <5>1. n \in Nat /\ Steps(f, pic, ms, n)
          BY <1>1, <3>6
        <5> QED
          BY <5>1, StepByStep
      <4>2. f[k] = Slide(f[k - 1], m)
        BY <3>1, <4>1
      <4>3. f[k - 1] \in Picture /\ \A c \in Cells : f[k - 1][c] = pic[g[c]]
        BY <3>2, <3>6
      <4> DEFINE p == f[k - 1]
      <4> HIDE DEF p, m
      <4>4. f[k] = [p EXCEPT ![m[2]] = p[m[1]]]
        BY <4>2 DEF Slide, p
      <4>5. p \in [Cells -> Pixel] /\ \A c \in Cells : p[c] = pic[g[c]]
        BY <4>3 DEF p, Picture
      <4>6. f[k] \in [Cells -> Pixel]
        BY <3>4, <4>4, <4>5
      <4>7. \A c \in Cells : f[k][c] = IF c = m[2] THEN p[m[1]] ELSE p[c]
        BY <4>4, <4>5
      <4> QED
        BY <3>4, <4>5, <4>6, <4>7 DEF Picture
    <3> HIDE DEF h
    <3>7. From(h, k)
      BY <3>6
    <3> QED
      BY <2>2, <3>5, <3>7
  <2> QED
    BY <2>3, <2>4
<1>3. PICK g \in [Cells -> Cells] : From(g, n)
  BY <1>1, <1>2
<1>4. ASSUME NEW pic \in Picture, NEW c \in Cells PROVE Moved(pic, ms)[c] = pic[g[c]]
  <2>1. PICK f : Steps(f, pic, ms, n) /\ Moved(pic, ms) = f[n]
    BY <1>1, MovedSteps DEF n
  <2> QED
    BY <1>3, <2>1
<1> QED
  BY <1>4

(* So what is drawn ends up where it does whatever pointers are on it.     *)
LEMMA MovedInks ==
  ASSUME NEW pic \in Picture, NEW other \in Picture, NEW ms \in Seq(Cells \X Cells)
  PROVE  /\ (\A c \in Cells : pic[c].ink = other[c].ink)
              => \A c \in Cells : Moved(pic, ms)[c].ink = Moved(other, ms)[c].ink
         /\ Bare(pic) => Bare(Moved(pic, ms))
<1>1. PICK g \in [Cells -> Cells] :
        \A p \in Picture : \A c \in Cells : Moved(p, ms)[c] = p[g[c]]
  BY MovedRearranges
<1>2. \A c \in Cells : g[c] \in Cells
  BY <1>1
<1> QED
  BY <1>1, <1>2 DEF Bare
----------------------------------------------------------------------------
(* Pictures.                                                               *)
LEMMA Pictures ==
  /\ \A d \in [Cells -> Inks] : Clean(d) \in Picture
  /\ \A pic \in Picture : \A c : Paint(pic, c) \in Picture
  /\ \A pic \in Picture : Paint(pic, Away) = pic
  /\ Black \in Picture /\ Black = Clean([c \in Cells |-> Blank]) /\ Blank \in Inks
<1>1. Blank \in Inks
  BY CaptureAssumption DEF Blank
<1>2. \A d \in [Cells -> Inks] : Clean(d) \in Picture
  BY DEF Clean, Picture, Pixel
<1>3. \A pic \in Picture : \A c : Paint(pic, c) \in Picture
  <2> TAKE pic \in Picture
  <2> TAKE c
  <2>1. \A d \in Cells : [pic[d] EXCEPT !.pointer = TRUE] \in Pixel /\ pic[d] \in Pixel
    BY DEF Picture, Pixel
  <2> QED
    BY <2>1 DEF Paint, Picture
<1>4. \A pic \in Picture : Paint(pic, Away) = pic
  BY CaptureAssumption DEF Paint, Picture
<1> QED
  BY <1>1, <1>2, <1>3, <1>4 DEF Black

(* What is drawn and what is painted on it.                                *)
LEMMA Painting ==
  /\ \A d \in [Cells -> Inks] : Bare(Clean(d)) /\ \A c \in Cells : Clean(d)[c].ink = d[c]
  /\ \A pic \in Picture : \A now : \A c \in Cells :
       /\ Paint(pic, now)[c].ink = pic[c].ink
       /\ c # now => Paint(pic, now)[c] = pic[c]
       /\ c = now => Paint(pic, now)[c].pointer
<1>1. \A d \in [Cells -> Inks] : Bare(Clean(d)) /\ \A c \in Cells : Clean(d)[c].ink = d[c]
  BY DEF Clean, Bare
<1>2. ASSUME NEW pic \in Picture, NEW now, NEW c \in Cells
      PROVE  /\ Paint(pic, now)[c].ink = pic[c].ink
             /\ c # now => Paint(pic, now)[c] = pic[c]
             /\ c = now => Paint(pic, now)[c].pointer
  <2>1. pic[c] \in [ink : Inks, pointer : BOOLEAN]
    BY DEF Picture, Pixel
  <2>2. Paint(pic, now)[c] = IF c = now THEN [pic[c] EXCEPT !.pointer = TRUE] ELSE pic[c]
    BY DEF Paint
  <2>3. /\ [pic[c] EXCEPT !.pointer = TRUE].ink = pic[c].ink
        /\ [pic[c] EXCEPT !.pointer = TRUE].pointer = TRUE
    BY <2>1
  <2> QED
    BY <2>2, <2>3
<1> QED
  BY <1>1, <1>2

(* The same but for pointers left on it.                                   *)
LEMMA SameIs ==
  ASSUME NEW pic \in Picture, NEW other \in Picture
  PROVE  /\ Same(pic, pic)
         /\ Same(pic, other) <=>
              \A c \in Cells : /\ pic[c].ink = other[c].ink
                               /\ other[c].pointer => pic[c].pointer
                               /\ pic[c].pointer => other[c].pointer \/ Haunted
         /\ Same(pic, other) /\ ~Haunted => pic = other
<1>1. \A c \in Cells : pic[c] \in [ink : Inks, pointer : BOOLEAN]
                       /\ other[c] \in [ink : Inks, pointer : BOOLEAN]
  BY DEF Picture, Pixel
<1>2. Same(pic, pic)
  BY DEF Same
<1>3. ASSUME NEW c \in Cells
      PROVE  (pic[c] = other[c] \/ (Haunted /\ pic[c] = [other[c] EXCEPT !.pointer = TRUE]))
               <=> /\ pic[c].ink = other[c].ink
                   /\ other[c].pointer => pic[c].pointer
                   /\ pic[c].pointer => other[c].pointer \/ Haunted
  <2> DEFINE x == pic[c]
             y == other[c]
  <2>1. x \in [ink : Inks, pointer : BOOLEAN] /\ y \in [ink : Inks, pointer : BOOLEAN]
    BY <1>1
  <2> HIDE DEF x, y
  <2>2. x = y <=> x.ink = y.ink /\ x.pointer = y.pointer
    BY <2>1
  <2>3. x = [y EXCEPT !.pointer = TRUE] <=> x.ink = y.ink /\ x.pointer = TRUE
    BY <2>1
  <2>4. x.pointer \in BOOLEAN /\ y.pointer \in BOOLEAN
    BY <2>1
  <2>5. (x = y \/ (Haunted /\ x = [y EXCEPT !.pointer = TRUE]))
          <=> /\ x.ink = y.ink
              /\ y.pointer => x.pointer
              /\ x.pointer => y.pointer \/ Haunted
    BY <2>2, <2>3, <2>4, Zenon
  <2> QED
    BY <2>5 DEF x, y
<1>4. Same(pic, other) /\ ~Haunted => pic = other
  BY DEF Same, Picture
<1> QED
  BY <1>2, <1>3, <1>4 DEF Same

LEMMA InitIInv == Init => IInv
<1> SUFFICES ASSUME Init PROVE IInv
  OBVIOUS
<1> USE DEF Init
<1>1. desk = [c \in Cells |-> Blank] /\ dib = Clean(desk) /\ cur = dib /\ dib \in Picture
  BY Pictures
<1>2. session \in [duplicates : BOOLEAN, cursor : BOOLEAN, copyrect : BOOLEAN]
  BY CaptureAssumption
<1>3. TypeOK
  BY <1>1, <1>2, Pictures, EmptySeq DEF TypeOK
<1>4. Plain
  BY DEF Plain
<1>5. Told
  BY <1>1, MovedByNone DEF Told, Covers
<1>6. Pointed
  BY <1>1, <1>3, Painting DEF Pointed, TypeOK
<1> QED
  BY <1>3, <1>4, <1>5, <1>6 DEF IInv, Typed, Synced

----------------------------------------------------------------------------
(* Types.                                                                  *)

LEMMA SendTyped ==
  ASSUME Typed, pc = "paint", NEW pic \in Picture, NEW now, Send(pic, now)
  PROVE  client' \in Picture /\ prev' \in Picture /\ full' \in BOOLEAN
<1> DEFINE parts == Parts(pic, now)
<1>1. client \in Picture /\ prev \in Picture /\ full \in BOOLEAN
  BY DEF Typed, TypeOK
<1>2. <<>> \in Seq(Cells \X Cells) /\ report.moves \in Seq(Cells \X Cells)
  BY EmptySeq DEF Typed, Plain
<1>3. parts.moves \in Seq(Cells \X Cells)
  BY <1>2 DEF Parts, Trusted
<1>4. Moved(client, parts.moves) \in Picture
  BY <1>1, <1>3, MovedElsewhere
<1>5. Updated(parts, pic) \in Picture
  BY <1>4 DEF Updated, Picture
<1> QED
  BY <1>1, <1>5 DEF Send

LEMMA GrabTyped ==
  ASSUME Typed, Grab, UNCHANGED session
  PROVE  Typed'
<1> USE DEF Grab
<1>1. /\ dib \in Picture /\ Clean(desk) \in Picture
      /\ moves \in Seq(Cells \X Cells) /\ dirty \subseteq Cells
  BY Pictures DEF Typed, TypeOK
<1>2. <<>> \in Seq(Cells \X Cells)
  BY EmptySeq
<1>3. CASE dxgi /\ Frame /\ UNCHANGED dxgi
  <2>1. dib' \in Picture
    BY <1>1, <1>3 DEF Frame
  <2>2. report'.moves = moves /\ report'.dirty = dirty
    BY <1>3 DEF Frame
  <2>3. TypeOK'
    BY <1>2, <1>3, <2>1 DEF Typed, TypeOK
  <2>4. Plain'
    BY <1>1, <1>3, <2>2 DEF Typed, Plain
  <2> QED
    BY <2>3, <2>4 DEF Typed
<1>4. CASE Blit /\ dxgi' \in BOOLEAN /\ (dxgi' => dxgi)
  <2>1. dib' \in Picture
    BY <1>1, <1>4 DEF Blit
  <2>2. report'.moves = <<>> /\ report'.dirty = {} /\ ~report'.precise
    BY <1>4 DEF Blit, Nothing
  <2>3. TypeOK'
    BY <1>2, <1>4, <2>1 DEF Typed, TypeOK
  <2>4. Plain'
    BY <1>2, <1>4, <2>2 DEF Typed, Plain
  <2> QED
    BY <2>3, <2>4 DEF Typed
<1>5. CASE Blit /\ dxgi' = FALSE
  BY <1>4, <1>5
<1>6. CASE ~dxgi /\ Blit /\ UNCHANGED dxgi
  <2>1. dxgi \in BOOLEAN
    BY DEF Typed, TypeOK
  <2>2. dxgi' = FALSE
    BY <1>6, <2>1
  <2> QED
    BY <1>5, <1>6, <2>2
<1> QED
  BY <1>3, <1>5, <1>6, Zenon

LEMMA IdleTyped ==
  ASSUME Typed, Idle, UNCHANGED session
  PROVE  Typed'
<1> USE DEF Idle, desktop, capture
<1>1. cur \in Picture
  BY DEF Typed, TypeOK
<1>2. client' \in Picture /\ prev' \in Picture /\ full' \in BOOLEAN
  <2>1. CASE full /\ Send(cur, Away)
    BY <1>1, <2>1, SendTyped
  <2>2. CASE ~full /\ UNCHANGED <<prev, full, client>>
    BY <2>2 DEF Typed, TypeOK
  <2> QED
    BY <2>1, <2>2
<1>3. TypeOK'
  BY <1>2 DEF Typed, TypeOK
<1>4. Plain'
  BY DEF Typed, Plain
<1> QED
  BY <1>3, <1>4 DEF Typed

LEMMA UpdateTyped ==
  ASSUME Typed, Update, UNCHANGED session
  PROVE  Typed'
<1> DEFINE now == IF session.cursor THEN Away ELSE Clip(ptr)
           pic == Paint(dib, now)
<1>1. /\ pc = "paint" /\ pc' = "grab" /\ dib' = pic /\ cur' = pic /\ cursor' = now
      /\ Send(pic, now)
      /\ UNCHANGED <<desk, ptr, moves, dirty, pointed, draws, points, dxgi, primed, report>>
  BY DEF Update, desktop
<1>2. now \in Cells \cup {Away} /\ (session.cursor => now = Away)
  BY DEF Clip
<1>3. pic \in Picture
  BY Pictures DEF Typed, TypeOK
<1> HIDE DEF now, pic
<1>4. client' \in Picture /\ prev' \in Picture /\ full' \in BOOLEAN
  BY <1>1, <1>3, SendTyped
<1>5. TypeOK'
  BY <1>1, <1>2, <1>3, <1>4 DEF Typed, TypeOK
<1>6. Plain'
  BY <1>1, <1>2 DEF Typed, Plain
<1> QED
  BY <1>5, <1>6 DEF Typed

LEMMA WorldTyped ==
  ASSUME Typed, World
  PROVE  Typed'
<1>1. /\ UNCHANGED <<session, pc, dxgi, primed, cursor, dib, report, cur, prev, client>>
      /\ full' \in BOOLEAN
  BY DEF World, Draw, Drag, Point, Refresh, capture, Typed, TypeOK
<1>2. Plain'
  BY <1>1 DEF Typed, Plain
<1>3. /\ desk' \in [Cells -> Inks] /\ ptr' \in Cells \cup {Away, Beyond}
      /\ dirty' \subseteq Cells /\ moves' \in Seq(Cells \X Cells) /\ pointed' \in BOOLEAN
  <2> USE DEF Typed, TypeOK
  <2>1. CASE \E c \in Cells, i \in Inks : Draw(c, i)
    BY <2>1 DEF Draw
  <2>2. CASE \E c \in Cells, onto \in Cells : Drag(c, onto)
    <3>1. PICK c \in Cells, onto \in Cells : Drag(c, onto)
      BY <2>2
    <3>2. Append(moves, <<c, onto>>) \in Seq(Cells \X Cells)
      BY AppendProperties
    <3> QED
      BY <3>1, <3>2 DEF Drag
  <2>3. CASE \E c \in Cells \cup {Away, Beyond} : Point(c)
    BY <2>3 DEF Point
  <2>4. CASE Refresh
    BY <2>4 DEF Refresh, desktop
  <2> QED
    BY <2>1, <2>2, <2>3, <2>4 DEF World
<1>4. TypeOK'
  BY <1>1, <1>3 DEF Typed, TypeOK
<1> QED
  BY <1>2, <1>4 DEF Typed

LEMMA NextTyped == Typed /\ [Next]_vars => Typed'
<1> SUFFICES ASSUME Typed, [Next]_vars PROVE Typed'
  OBVIOUS
<1>1. CASE UNCHANGED vars
  <2>1. TypeOK'
    BY <1>1 DEF Typed, TypeOK, vars, desktop, capture
  <2>2. Plain'
    BY <1>1 DEF Typed, Plain, vars, desktop, capture
  <2> QED
    BY <2>1, <2>2 DEF Typed
<1>2. CASE Sender
  BY <1>2, GrabTyped, IdleTyped, UpdateTyped DEF Sender
<1> QED
  BY <1>1, <1>2, WorldTyped DEF Next

----------------------------------------------------------------------------
(* The desktop, and what DXGI will say of it.                              *)
LEMMA DrawTold ==
  ASSUME IInv, NEW c \in Cells, NEW i \in Inks, Draw(c, i), UNCHANGED session
  PROVE  Told'
BY DEF Draw, capture, IInv, Typed, TypeOK, Told, Covers, Bare, Clean

LEMMA DragTold ==
  ASSUME IInv, NEW was \in Cells, NEW onto \in Cells, Drag(was, onto), UNCHANGED session
  PROVE  Told'
<1> USE DEF Drag, capture
<1>1. moves \in Seq(Cells \X Cells) /\ <<was, onto>> \in Cells \X Cells
  BY DEF IInv, Typed, TypeOK
<1>2. Covers(dib, moves, dirty, Clean(desk))'
  <2>1. desk \in [Cells -> Inks] /\ dib \in [Cells -> Pixel]
    BY DEF IInv, Typed, TypeOK, Picture
  <2>2. Covers(dib, moves, dirty, Clean(desk))
    BY DEF IInv, Told
  <2>3. CASE dirty = {} /\ moves' = Append(moves, <<was, onto>>) /\ dirty' = dirty
    <3>1. Moved(dib, moves') = Slide(Moved(dib, moves), <<was, onto>>)
      BY <1>1, <2>3, MovedByMore
    <3>2. Moved(dib, moves) \in [Cells -> Pixel]
      <4>1. dib \in Picture
        BY DEF IInv, Typed, TypeOK
      <4>2. Moved(dib, moves) \in Picture
        BY <1>1, <4>1, MovedElsewhere
      <4> QED
        BY <4>2 DEF Picture
    <3>3. \A c \in Cells : Moved(dib, moves')[c] = IF c = onto THEN Moved(dib, moves)[was]
                                                           ELSE Moved(dib, moves)[c]
      BY <3>1, <3>2 DEF Slide
    <3>4. \A c \in Cells : Clean(desk)'[c] = IF c = onto THEN Clean(desk)[was] ELSE Clean(desk)[c]
      BY <2>1 DEF Clean
    <3>5. \A c \in Cells : Clean(desk)'[c].ink = Moved(dib, moves')[c].ink
      <4>1. \A c \in Cells : Clean(desk)[c].ink = Moved(dib, moves)[c].ink
        BY <2>2, <2>3 DEF Covers
      <4> QED
        BY <3>3, <3>4, <4>1
    <3> QED
      BY <3>5 DEF Covers
  <2>4. CASE dirty' = dirty \cup {onto} /\ moves' = moves
    BY <2>1, <2>2, <2>4 DEF Covers, Clean
  <2> QED
    BY <2>3, <2>4
<1> QED
  BY <1>2 DEF IInv, Told, Covers, Bare

(* grab, up to the pointer.                                                *)
LEMMA GrabTold ==
  ASSUME IInv, Grab, UNCHANGED session
  PROVE  Told' /\ Pointed'
<1> USE DEF Grab
<1>1. /\ Covers(dib, moves, dirty, Clean(desk)) /\ dib = cur
      /\ desk \in [Cells -> Inks] /\ moves \in Seq(Cells \X Cells)
  BY DEF IInv, Told, Typed, TypeOK
<1>2. Bare(Clean(desk))
  BY <1>1, Painting
<1>3. Told'
  <2>1. CASE dxgi /\ Frame /\ ~redrawn /\ primed
    <3>1. dib' = dib /\ moves = <<>> /\ dirty = {}
      BY <2>1 DEF Frame, redrawn
    <3>2. report'.moves = moves /\ report'.dirty = dirty
      BY <2>1 DEF Frame
    <3>3. Covers(dib, <<>>, {}, Clean(desk)) /\ Covers(dib, <<>>, {}, dib)
      BY <1>1, <3>1, MovedByNone DEF Covers
    <3> QED
      BY <1>1, <3>1, <3>2, <3>3 DEF Told, Covers, Bare, Clean
  <2>2. CASE dib' = Clean(desk) /\ (report'.precise => redrawn) /\ report'.changed
             /\ report'.moves = moves /\ report'.dirty = dirty
    <3>1. Covers(dib', <<>>, {}, Clean(desk))
      BY <2>2, MovedByNone DEF Covers
    <3>2. Covers(cur, moves, dirty, dib')
      BY <1>1, <2>2
    <3>3. redrawn => (dirty = {} => DOMAIN moves # {})
      <4>1. moves # <<>> => DOMAIN moves # {}
        BY <1>1
      <4> QED
        BY <4>1 DEF redrawn
    <3> QED
      BY <1>2, <2>2, <3>1, <3>2, <3>3 DEF Told, Covers, Bare, Clean
  <2>3. CASE Blit
    <3>1. dib' = Clean(desk) /\ ~report'.precise /\ report'.changed
      BY <2>3 DEF Blit, Nothing
    <3>2. Covers(dib', <<>>, {}, Clean(desk))
      BY <3>1, MovedByNone DEF Covers
    <3> QED
      BY <3>1, <3>2 DEF Told, Covers, Bare, Clean
  <2>4. CASE dxgi /\ Frame /\ (redrawn \/ ~primed)
    <3>1. /\ dib' = Clean(desk) /\ report'.changed
          /\ report'.moves = moves /\ report'.dirty = dirty
          /\ report'.precise => redrawn
      BY <2>4 DEF Frame, IInv, Typed, TypeOK
    <3> QED
      BY <2>2, <3>1
  <2> QED
    BY <2>1, <2>3, <2>4
<1>4. dib' = dib \/ dib' = Clean(desk)
  BY DEF Frame, Blit
<1>5. Pointed'
  BY <1>2, <1>4 DEF IInv, Pointed, Bare
<1> QED
  BY <1>3, <1>5

----------------------------------------------------------------------------
(* The parts of an update change what the client has into the picture.     *)
LEMMA Sending ==
  ASSUME IInv, pc = "paint", NEW pic \in Picture, NEW now \in Cells \cup {Away},
         Send(pic, now),
         full \/ (pic = Paint(dib, now) /\ (session.cursor => now = Away))
  PROVE  ~full' => Same(client', pic) /\ prev' = pic
<1> DEFINE parts == Parts(pic, now)
           idle == parts = [moves |-> <<>>, pixels |-> {}]
           differ == {c \in Cells : prev[c] # pic[c]}
           next == Updated(parts, pic)
<1>1. /\ client \in Picture /\ prev \in Picture /\ cur \in Picture /\ dib \in Picture
      /\ full \in BOOLEAN
  BY DEF IInv, Typed, TypeOK
<1>2. \A p \in Picture : (\A c \in Cells : p[c] = pic[c]) => p = pic
  BY DEF Picture
<1>3. \/ idle /\ UNCHANGED <<prev, full, client>>
      \/ ~idle /\ prev' = pic /\ full' = FALSE /\ client' = next
  BY DEF Send
<1>4. idle => next = client
  BY <1>1, MovedByNone DEF Updated, Picture
<1>5. CASE full
  <2>1. parts = [moves |-> <<>>, pixels |-> Cells]
    BY <1>5 DEF Parts
  <2>2. ~idle
    BY <2>1, CaptureAssumption
  <2>3. next = pic
    BY <2>1 DEF Updated, Picture
  <2> QED
    BY <1>1, <1>3, <2>2, <2>3, SameIs
<1>6. CASE ~full /\ parts = [moves |-> <<>>, pixels |-> differ]
  <2>1. Same(client, prev)
    BY <1>6 DEF IInv, Synced
  <2>2. next = [c \in Cells |-> IF c \in differ THEN pic[c] ELSE client[c]]
    BY <1>6, MovedByNone DEF Updated
  <2>3. Same(next, pic)
    BY <2>1, <2>2 DEF Same
  <2>4. idle => prev = pic
    <3>1. idle => differ = {}
      BY <1>6
    <3> QED
      BY <1>1, <1>2, <3>1
  <2> QED
    BY <1>3, <1>4, <2>3, <2>4
<1>7. CASE ~full /\ report.precise /\ parts = Trusted(report, now)
  <2>1. Same(client, cur) /\ prev = cur
    BY <1>7 DEF IInv, Synced
  <2>2. /\ Covers(cur, report.moves, report.dirty, dib)
        /\ \/ report.moves = <<>> /\ dib = cur
           \/ Bare(dib) /\ (report.dirty = {} => DOMAIN report.moves # {})
    BY <1>7 DEF IInv, Told
  <2>3. pic = Paint(dib, now)
    BY <1>7
  <2>4. PICK ms \in Seq(Cells \X Cells) : ms = report.moves
    BY DEF IInv, Typed, Plain
  <2>5. Haunted \/ session.cursor
    BY <1>7 DEF Haunted, IInv, Typed, Plain
  <2>6. Spots(now) \subseteq parts.pixels /\ report.dirty \subseteq parts.pixels
    BY <1>7 DEF Trusted
  <2>7. /\ Moved(client, ms) \in Picture /\ Moved(cur, ms) \in Picture
        /\ \A c \in Cells : Moved(client, ms)[c].ink = Moved(cur, ms)[c].ink
        /\ Bare(client) => Bare(Moved(client, ms))
    <3>1. \A c \in Cells : client[c].ink = cur[c].ink
      BY <1>1, <2>1, SameIs
    <3>2. Moved(client, ms) \in Picture /\ Moved(cur, ms) \in Picture
      BY <1>1, MovedElsewhere
    <3>3. /\ \A c \in Cells : Moved(client, ms)[c].ink = Moved(cur, ms)[c].ink
          /\ Bare(client) => Bare(Moved(client, ms))
      BY <1>1, <3>1, MovedInks
    <3> QED
      BY <3>2, <3>3
  <2>8. \/ /\ parts.moves = ms
        \/ /\ parts.moves = <<>>
           /\ \A c \in Cells \ parts.pixels : Moved(cur, ms)[c] = cur[c]
    <3>1. CASE session.copyrect
      BY <1>7, <2>4, <3>1 DEF Trusted
    <3>2. CASE ~session.copyrect
      <4>1. parts.moves = <<>>
        BY <1>7, <3>2 DEF Trusted
      <4>2. \A i \in DOMAIN ms : ms[i][2] \in parts.pixels
        BY <1>7, <2>4, <3>2 DEF Trusted
      <4>3. \A c \in Cells : (\A i \in DOMAIN ms : ms[i][2] # c) => Moved(cur, ms)[c] = cur[c]
        BY <1>1, MovedElsewhere
      <4> QED
        BY <4>1, <4>2, <4>3
    <3> QED
      BY <3>1, <3>2
  <2>9. session.cursor => Bare(client) /\ Bare(pic)
    <3>1. session.cursor => ~Haunted /\ Bare(cur) /\ Bare(dib) /\ now = Away
      BY <1>7 DEF Haunted, IInv, Pointed
    <3>2. session.cursor => client = cur /\ pic = dib
      BY <1>1, <2>1, <2>3, <3>1, SameIs, Pictures
    <3> QED
      BY <3>1, <3>2
  <2>10. next \in Picture
    <3>1. Moved(client, parts.moves) \in Picture
      BY <1>1, <2>7, <2>8, MovedByNone
    <3> QED
      BY <3>1 DEF Updated, Picture
  <2>11. ASSUME NEW c \in Cells
         PROVE  /\ next[c].ink = pic[c].ink
                /\ pic[c].pointer => next[c].pointer
                /\ next[c].pointer => pic[c].pointer \/ Haunted
    <3>1. CASE c \in parts.pixels
      BY <3>1 DEF Updated
    <3>2. CASE c \notin parts.pixels
      <4>1. next[c] = Moved(client, parts.moves)[c]
        BY <3>2 DEF Updated
      <4>2. c \notin report.dirty /\ c # now
        BY <2>6, <3>2, CaptureAssumption DEF Spots
      <4>3. pic[c] = dib[c]
        BY <1>1, <2>3, <4>2, Painting
      <4>4. dib[c].ink = Moved(cur, ms)[c].ink
        BY <2>2, <2>4, <4>2 DEF Covers
      <4>5. next[c].ink = pic[c].ink
        <5>1. CASE parts.moves = ms
          BY <2>7, <4>1, <4>3, <4>4, <5>1
        <5>2. CASE parts.moves = <<>> /\ Moved(cur, ms)[c] = cur[c]
          <6>1. next[c] = client[c]
            BY <4>1, <5>2, MovedByNone
          <6>2. client[c].ink = cur[c].ink
            BY <1>1, <2>1, SameIs
          <6> QED
            BY <4>3, <4>4, <5>2, <6>1, <6>2
        <5> QED
          BY <2>8, <3>2, <5>1, <5>2
      <4>6. pic[c].pointer => next[c].pointer
        <5>1. CASE Bare(dib)
          BY <4>3, <5>1 DEF Bare
        <5>2. CASE report.moves = <<>> /\ dib = cur
          <6>1. next[c] = client[c]
            BY <2>4, <2>8, <4>1, <5>2, MovedByNone
          <6>2. cur[c].pointer => client[c].pointer
            BY <1>1, <2>1, SameIs
          <6> QED
            BY <4>3, <5>2, <6>1, <6>2
        <5> QED
          BY <2>2, <5>1, <5>2
      <4>7. session.cursor => ~next[c].pointer
        <5>1. session.cursor => Bare(client) /\ Bare(Moved(client, ms))
          BY <2>7, <2>9
        <5>2. next[c] = Moved(client, ms)[c] \/ next[c] = client[c]
          BY <2>8, <4>1, MovedByNone
        <5> QED
          BY <5>1, <5>2 DEF Bare
      <4> QED
        BY <2>5, <4>5, <4>6, <4>7
    <3> QED
      BY <3>1, <3>2
  <2>12. Same(next, pic)
    BY <2>10, <2>11, SameIs
  <2>13. idle => prev = pic
    <3>1. SUFFICES ASSUME idle PROVE prev = pic
      OBVIOUS
    <3>2. Spots(now) = {} /\ report.dirty = {}
      BY <2>6, <3>1
    <3>3. DOMAIN report.moves = {}
      <4>1. CASE session.copyrect
        BY <1>7, <3>1, <4>1 DEF Trusted
      <4>2. CASE ~session.copyrect
        <5>1. {report.moves[i][2] : i \in DOMAIN report.moves} = {}
          BY <1>7, <3>1, <4>2 DEF Trusted
        <5> QED
          BY <5>1
      <4> QED
        BY <4>1, <4>2
    <3>4. now = Away
      BY <3>2 DEF Spots
    <3>5. dib = cur
      BY <2>2, <3>2, <3>3
    <3> QED
      BY <1>1, <2>1, <2>3, <3>4, <3>5, Pictures
  <2> QED
    BY <1>3, <1>4, <2>12, <2>13
<1> QED
  BY <1>5, <1>6, <1>7 DEF Parts

(* Where the pointer was and where it is the client gets what is there.    *)
LEMMA Repainting ==
  ASSUME IInv, pc = "paint", NEW pic \in Picture, NEW now \in Cells \cup {Away},
         Send(pic, now), now # Away => pic[now].pointer, NEW c \in Spots(now)
  PROVE  client'[c] = pic[c]
<1> DEFINE parts == Parts(pic, now)
           idle == parts = [moves |-> <<>>, pixels |-> {}]
<1>1. /\ client \in Picture /\ prev \in Picture /\ full \in BOOLEAN
      /\ c \in Cells /\ c \in {cursor, now}
  BY DEF IInv, Typed, TypeOK, Spots
<1>2. \/ idle /\ UNCHANGED <<prev, full, client>>
      \/ ~idle /\ client' = Updated(parts, pic)
  BY DEF Send
<1>3. CASE c \in parts.pixels
  <2>1. ~idle
    BY <1>3
  <2> QED
    BY <1>1, <1>2, <1>3, <2>1 DEF Updated
<1>4. CASE c \notin parts.pixels
  <2>1. ~full /\ parts = [moves |-> <<>>, pixels |-> {d \in Cells : prev[d] # pic[d]}]
    BY <1>1, <1>4 DEF Parts, Trusted
  <2>2. prev[c] = pic[c]
    BY <1>1, <1>4, <2>1
  <2>3. Same(client, prev) /\ prev = cur
    BY <2>1 DEF IInv, Synced
  <2>4. prev[c].pointer
    <3>1. CASE c = now
      BY <1>1, <2>2, <3>1, CaptureAssumption
    <3>2. CASE c = cursor
      BY <1>1, <2>3, <3>2, CaptureAssumption DEF IInv, Pointed
    <3> QED
      BY <1>1, <3>1, <3>2
  <2>5. client[c] = prev[c]
    <3>1. prev[c] \in [ink : Inks, pointer : BOOLEAN]
      BY <1>1 DEF Picture, Pixel
    <3>2. [prev[c] EXCEPT !.pointer = TRUE] = prev[c]
      BY <2>4, <3>1
    <3> QED
      BY <1>1, <2>3, <3>2 DEF Same
  <2>6. client'[c] = client[c]
    BY <1>1, <1>2, <1>4, <2>1, MovedByNone DEF Updated
  <2> QED
    BY <2>2, <2>5, <2>6
<1> QED
  BY <1>3, <1>4

LEMMA IdleSynced ==
  ASSUME IInv, Idle, UNCHANGED session
  PROVE  Told' /\ Pointed' /\ Synced'
<1> USE DEF Idle, desktop, capture
<1>1. cur \in Picture /\ pc = "paint"
  BY DEF IInv, Typed, TypeOK
<1>2. ~full' => Same(client', cur) /\ prev' = cur
  <2>1. CASE full /\ Send(cur, Away)
    BY <1>1, <2>1, Sending
  <2>2. CASE ~full /\ UNCHANGED <<prev, full, client>>
    BY <2>2 DEF IInv, Synced
  <2> QED
    BY <2>1, <2>2
<1>3. Told'
  BY DEF IInv, Told, Covers, Bare, Clean
<1>4. Pointed'
  BY DEF IInv, Pointed, Bare
<1>5. Synced'
  BY <1>2 DEF Synced, Same, Haunted
<1> QED
  BY <1>3, <1>4, <1>5

(* What an update is made of.                                              *)
LEMMA Updating ==
  ASSUME IInv, Update, UNCHANGED session,
         NEW now, now = IF session.cursor THEN Away ELSE Clip(ptr)
  PROVE  /\ pc = "paint" /\ pc' = "grab"
         /\ dib' = Paint(dib, now) /\ cur' = dib' /\ cursor' = now /\ Send(dib', now)
         /\ UNCHANGED <<desk, ptr, moves, dirty, pointed, draws, points, dxgi, primed, report>>
         /\ now \in Cells \cup {Away} /\ (session.cursor => now = Away)
         /\ dib \in Picture /\ dib' \in Picture
<1>1. now \in Cells \cup {Away} /\ (session.cursor => now = Away)
  BY DEF Clip
<1>2. dib \in Picture /\ Paint(dib, now) \in Picture
  BY Pictures DEF IInv, Typed, TypeOK
<1> QED
  BY <1>1, <1>2 DEF Update, desktop

LEMMA UpdateSynced ==
  ASSUME IInv, Update, UNCHANGED session
  PROVE  Told' /\ Pointed' /\ Synced'
<1>1. PICK now : now = IF session.cursor THEN Away ELSE Clip(ptr)
  OBVIOUS
<1>2. /\ pc = "paint" /\ pc' = "grab"
      /\ dib' = Paint(dib, now) /\ cur' = dib' /\ cursor' = now /\ Send(dib', now)
      /\ UNCHANGED <<desk, ptr, moves, dirty, pointed, draws, points, dxgi, primed, report>>
      /\ now \in Cells \cup {Away} /\ (session.cursor => now = Away)
      /\ dib \in Picture /\ dib' \in Picture
  BY <1>1, Updating
<1>3. ~full' => Same(client', dib') /\ prev' = dib'
  BY <1>2, Sending
<1>4. Covers(dib, moves, dirty, Clean(desk))'
  <2>1. \A c \in Cells : dib'[c].ink = dib[c].ink
    BY <1>2, Painting
  <2>2. moves \in Seq(Cells \X Cells)
    BY DEF IInv, Typed, TypeOK
  <2>3. \A c \in Cells : Moved(dib', moves)[c].ink = Moved(dib, moves)[c].ink
    BY <1>2, <2>1, <2>2, MovedInks
  <2> QED
    BY <1>2, <2>3 DEF IInv, Told, Covers, Clean
<1>5. Told'
  BY <1>2, <1>4 DEF Told
<1>6. Pointed'
  <2>1. session.cursor => Bare(dib')
    BY <1>2, Pictures DEF IInv, Pointed
  <2>2. now # Away => dib'[now].pointer
    BY <1>2, Painting
  <2> QED
    BY <1>2, <2>1, <2>2 DEF Pointed, Bare
<1>7. Synced'
  BY <1>2, <1>3 DEF Synced, Same, Haunted
<1> QED
  BY <1>5, <1>6, <1>7

LEMMA NextIInv == IInv /\ [Next]_vars => IInv'
<1> SUFFICES ASSUME IInv, [Next]_vars PROVE Told' /\ Pointed' /\ Synced'
  BY NextTyped DEF IInv
<1>1. CASE UNCHANGED vars
  BY <1>1 DEF vars, desktop, capture, IInv, Told, Covers, Bare, Clean, Pointed, Synced, Same, Haunted
<1>2. CASE World
  <2>1. UNCHANGED <<session, pc, dib, report, cur, cursor, prev, client>> /\ (~full' => ~full)
    BY <1>2 DEF World, Draw, Drag, Point, Refresh, capture
  <2>2. Synced' /\ Pointed'
    BY <2>1 DEF IInv, Synced, Pointed, Bare, Same, Haunted
  <2>3. CASE \E c \in Cells, i \in Inks : Draw(c, i)
    BY <2>1, <2>2, <2>3, DrawTold
  <2>4. CASE \E c \in Cells, onto \in Cells : Drag(c, onto)
    BY <2>1, <2>2, <2>4, DragTold
  <2>5. CASE \/ \E c \in Cells \cup {Away, Beyond} : Point(c)
             \/ Refresh
    <3>1. UNCHANGED <<desk, moves, dirty>>
      BY <2>5 DEF Point, Refresh, desktop
    <3>2. Told'
      BY <2>1, <3>1 DEF IInv, Told, Covers, Bare, Clean
    <3> QED
      BY <2>2, <3>2
  <2> QED
    BY <1>2, <2>3, <2>4, <2>5 DEF World
<1>3. CASE Grab /\ UNCHANGED session
  <2>1. Synced'
    BY <1>3 DEF Grab, IInv, Synced, Same, Haunted
  <2> QED
    BY <1>3, <2>1, GrabTold
<1>4. CASE (Idle \/ Update) /\ UNCHANGED session
  BY <1>4, IdleSynced, UpdateSynced
<1> QED
  BY <1>1, <1>2, <1>3, <1>4 DEF Next, Sender

(* Every variable keeps to its type, in every kind of session.             *)
THEOREM Typing == Spec => []TypeOK
<1>1. Init => Typed
  BY InitIInv DEF IInv
<1>2. Typed => TypeOK
  BY DEF Typed
<1> QED
  BY NextTyped, <1>1, <1>2, PTL DEF Spec

(* send_frames: whether an update is made of what duplication reports, of  *)
(* moved regions as CopyRects or as pixels, or of a comparison, it takes   *)
(* the client to the picture that the next one is compared with, over any  *)
(* number of losses of duplication and requests for everything, and for    *)
(* every kind of session.  Where the pointer is painted over duplication   *)
(* all that the client may have beside that are pointers that were left.   *)
THEOREM ClientHasIt == Spec => []InSync
<1>1. IInv => InSync
  BY DEF IInv, Synced, InSync
<1> QED
  BY InitIInv, NextIInv, <1>1, PTL DEF Spec

(* grab and send_frames: after every update the client has, where the      *)
(* pointer was and where it is, what the server has there, be it told of   *)
(* these places or found by the comparison.                                *)
THEOREM BothPlaces == Spec => Repainted
<1>1. ASSUME IInv, [Next]_vars, Update
      PROVE  \A c \in {cursor, cursor'} \cap Cells : client'[c] = cur'[c]
  <2>1. UNCHANGED session
    BY <1>1 DEF Next, World, Sender, Update, Draw, Drag, Point, Refresh, vars
  <2>2. PICK now : now = IF session.cursor THEN Away ELSE Clip(ptr)
    OBVIOUS
  <2>3. /\ pc = "paint" /\ dib' = Paint(dib, now) /\ cur' = dib' /\ cursor' = now
        /\ Send(dib', now) /\ now \in Cells \cup {Away} /\ dib \in Picture /\ dib' \in Picture
    BY <1>1, <2>1, <2>2, Updating
  <2>4. now # Away => dib'[now].pointer
    BY <2>3, Painting
  <2>5. \A c \in Spots(now) : client'[c] = dib'[c]
    BY <1>1, <2>3, <2>4, Repainting
  <2> QED
    BY <2>3, <2>5, CaptureAssumption DEF Spots
<1>2. IInv /\ [Next]_vars
        => [Update => \A c \in {cursor, cursor'} \cap Cells : client'[c] = cur'[c]]_vars
  BY <1>1
<1> QED
  BY InitIInv, NextIInv, <1>2, PTL DEF Spec, Repainted

----------------------------------------------------------------------------
(* The clipboards.                                                         *)

Placed == at \in [Ends -> {"idle", "seed", "top", "wait", "gone"}]

(* While no poll and paste overlapped and the clipboard could be set, a    *)
(* text no person put there is the last that crossed, once what a paste    *)
(* has noted is on the clipboard and the sender has seen what was there.   *)
Calm == overlaps = 0 /\ fails = 0 => \A e \in Ends :
  /\ seen[e] # None => got[e] = None
  /\ got[e] # None => clip[e] = got[e]
  /\ from[e] # "person" => /\ seen[e] # None => seen[e] = board[e]
                           /\ got[e] = None /\ at[e] # "seed" => board[e] = clip[e]

ClipIInv == ClipTypeOK /\ Placed /\ Calm

----------------------------------------------------------------------------
(* The texts on their way.                                                 *)
Sendable == Texts \ {"empty"}

LEMMA Queue ==
  ASSUME NEW S, NEW q \in Seq(S)
  PROVE  /\ \A x \in S : Append(q, x) \in Seq(S) /\ Len(Append(q, x)) = Len(q) + 1
         /\ q # <<>> => Tail(q) \in Seq(S) /\ Head(q) \in S /\ Len(Tail(q)) = Len(q) - 1
         /\ \A n \in Nat : n <= Len(q) => SubSeq(q, 1, n) \in Seq(S) /\ Len(SubSeq(q, 1, n)) = n
         /\ Len(q) \in Nat
<1>1. Len(q) \in Nat
  BY LenProperties
<1>2. \A x \in S : Append(q, x) \in Seq(S) /\ Len(Append(q, x)) = Len(q) + 1
  BY AppendProperties
<1>3. q # <<>> => Tail(q) \in Seq(S) /\ Head(q) \in S /\ Len(Tail(q)) = Len(q) - 1
  BY HeadTailProperties
<1>4. \A n \in Nat : n <= Len(q) => SubSeq(q, 1, n) \in Seq(S) /\ Len(SubSeq(q, 1, n)) = n
  BY <1>1, SubSeqProperties
<1> QED
  BY <1>1, <1>2, <1>3, <1>4

LEMMA ClipInitIInv == ClipInit => ClipIInv
<1> SUFFICES ASSUME ClipInit PROVE ClipIInv
  OBVIOUS
<1> USE DEF ClipInit
<1>1. Old \in [Ends -> Texts]
  BY ClipboardAssumption
<1>2. ClipTypeOK
  <2>1. to \in [Ends -> Seq(Sendable)]
    BY EmptySeq
  <2> QED
    BY <1>1, <2>1 DEF ClipTypeOK, Ends, Texts, Landed, None, Sendable
<1>3. Placed
  BY DEF Placed, Ends
<1>4. Calm
  BY <1>1 DEF Calm, Ends, None
<1> QED
  BY <1>2, <1>3, <1>4 DEF ClipIInv

LEMMA CopyIInv ==
  ASSUME ClipIInv, NEW e \in Ends, NEW t \in Texts, Copy(e, t)
  PROVE  ClipIInv'
<1> USE DEF Copy, link
<1>1. ClipTypeOK'
  BY DEF ClipIInv, ClipTypeOK
<1>2. Placed'
  BY DEF ClipIInv, Placed
<1>3. Calm'
  BY DEF ClipIInv, ClipTypeOK, Calm
<1> QED
  BY <1>1, <1>2, <1>3 DEF ClipIInv

LEMMA LookUpIInv ==
  ASSUME ClipIInv, LookUp \/ Wait \/ Wake
  PROVE  ClipIInv'
<1> USE DEF LookUp, Wait, Wake, link, history
<1>1. ClipTypeOK'
  BY DEF ClipIInv, ClipTypeOK, Placed, Ends
<1>2. Placed'
  BY DEF ClipIInv, Placed
<1>3. Calm'
  BY DEF ClipIInv, ClipTypeOK, Placed, Calm, Ends
<1> QED
  BY <1>1, <1>2, <1>3 DEF ClipIInv

LEMMA ReadBoardIInv ==
  ASSUME ClipIInv, NEW e \in Ends, ReadBoard(e)
  PROVE  ClipIInv'
<1> USE DEF ReadBoard, Overlap, link, history
<1>1. ClipTypeOK'
  BY DEF ClipIInv, ClipTypeOK
<1>2. Placed'
  BY DEF ClipIInv, Placed
<1>3. Calm'
  <2>1. SUFFICES ASSUME overlaps' = 0, fails' = 0 PROVE Calm'
    BY DEF Calm
  <2>2. overlaps = 0 /\ fails = 0 /\ got[e] = None
    BY <2>1 DEF ClipIInv, ClipTypeOK
  <2> QED
    BY <2>2 DEF ClipIInv, ClipTypeOK, Calm
<1> QED
  BY <1>1, <1>2, <1>3 DEF ClipIInv

LEMMA SeedIInv ==
  ASSUME ClipIInv, Seed
  PROVE  ClipIInv'
<1> USE DEF Seed, Rested, link, history
<1>1. ClipTypeOK'
  BY DEF ClipIInv, ClipTypeOK, Placed, Ends, Texts, None
<1>2. Placed'
  BY DEF ClipIInv, Placed
<1>3. Calm'
  BY DEF ClipIInv, ClipTypeOK, Placed, Calm, Ends
<1> QED
  BY <1>1, <1>2, <1>3 DEF ClipIInv

LEMMA CompareIInv ==
  ASSUME ClipIInv, NEW e \in Ends, Compare(e)
  PROVE  ClipIInv'
<1> USE DEF Compare, Rested, link, history
<1>1. seen[e] \in Texts
  BY DEF ClipIInv, ClipTypeOK
<1>2. to' \in [Ends -> Seq(Sendable)]
  <2>1. to \in [Ends -> Seq(Sendable)]
    BY DEF ClipIInv, ClipTypeOK, Sendable
  <2>2. CASE to' = to
    BY <2>1, <2>2
  <2>3. CASE to' # to
    <3>1. Differs(e) /\ linked /\ to' = [to EXCEPT ![Other(e)] = Append(@, seen[e])]
      BY <2>3 DEF Tell
    <3>2. seen[e] \in Sendable /\ Other(e) \in Ends
      BY <1>1, <3>1 DEF Differs, Sendable, Other, Ends
    <3>3. Append(to[Other(e)], seen[e]) \in Seq(Sendable)
      BY <2>1, <3>2, Queue
    <3> QED
      BY <2>1, <3>1, <3>3
  <2> QED
    BY <2>2, <2>3
<1>3. ClipTypeOK'
  BY <1>1, <1>2 DEF ClipIInv, ClipTypeOK, Placed, Ends, Sendable
<1>4. Placed'
  BY DEF ClipIInv, Placed
<1>5. Calm'
  <2>1. CASE ~Differs(e)
    BY <2>1 DEF ClipIInv, ClipTypeOK, Placed, Calm
  <2>2. CASE Differs(e)
    <3>1. SUFFICES ASSUME overlaps = 0, fails = 0 PROVE Calm'
      BY DEF Calm
    <3>2. got[e] = None /\ clip[e] # seen[e] /\ at[e] # "seed"
      BY <2>2, <3>1, <1>1 DEF ClipIInv, Calm, Differs, None, Texts
    <3>3. from[e] = "person"
      BY <3>1, <3>2, <1>1 DEF ClipIInv, Calm, None, Texts
    <3> QED
      BY <2>2, <3>2, <3>3, <1>1 DEF ClipIInv, ClipTypeOK, Placed, Calm
  <2> QED
    BY <2>1, <2>2
<1> QED
  BY <1>3, <1>4, <1>5 DEF ClipIInv

LEMMA TellFailsIInv ==
  ASSUME ClipIInv, NEW e \in Ends, TellFails(e)
  PROVE  ClipIInv'
<1> USE DEF TellFails, history
<1>1. seen[e] \in Texts
  BY DEF ClipIInv, ClipTypeOK
<1>2. ClipTypeOK'
  BY <1>1 DEF ClipIInv, ClipTypeOK, Placed, Ends
<1>3. Placed'
  BY DEF ClipIInv, Placed
<1>4. Calm'
  <2>1. SUFFICES ASSUME overlaps = 0, fails = 0 PROVE Calm'
    BY DEF Calm
  <2>2. got[e] = None /\ clip[e] # seen[e] /\ at[e] # "seed"
    BY <2>1, <1>1 DEF ClipIInv, Calm, Differs, None, Texts
  <2>3. from[e] = "person"
    BY <2>1, <2>2, <1>1 DEF ClipIInv, Calm, None, Texts
  <2> QED
    BY <2>2, <2>3, <1>1 DEF ClipIInv, ClipTypeOK, Placed, Calm
<1> QED
  BY <1>2, <1>3, <1>4 DEF ClipIInv

LEMMA ReceiveIInv ==
  ASSUME ClipIInv, NEW e \in Ends, Receive(e)
  PROVE  ClipIInv'
<1> USE DEF Receive, Overlap, link, history
<1> DEFINE text == Crossed(Head(to[e]))
<1>1. to \in [Ends -> Seq(Sendable)] /\ to[e] # <<>>
  BY DEF ClipIInv, ClipTypeOK, Sendable
<1>2. Tail(to[e]) \in Seq(Sendable) /\ Head(to[e]) \in Sendable
  BY <1>1, Queue
<1>3. to' \in [Ends -> Seq(Sendable)]
  BY <1>1, <1>2
<1>4. Head(to[e]) # "huge" => text \in Landed /\ text \in Texts /\ text # None
  BY <1>2 DEF Crossed, Landed, Sendable, Texts, None
<1>5. ClipTypeOK'
  <2>1. overlaps' \in Nat /\ clip' \in [Ends -> Texts] /\ got' \in [Ends -> Landed \cup {None}]
    <3>1. CASE Head(to[e]) = "huge"
      BY <3>1 DEF ClipIInv, ClipTypeOK
    <3>2. CASE Head(to[e]) # "huge"
      <4>1. overlaps' \in Nat
        BY <3>2 DEF ClipIInv, ClipTypeOK
      <4> HIDE DEF text
      <4> QED
        BY <3>2, <4>1, <1>4 DEF ClipIInv, ClipTypeOK, text
    <3> QED
      BY <3>1, <3>2
  <2> QED
    BY <2>1, <1>3 DEF ClipIInv, ClipTypeOK, Sendable
<1>6. Placed'
  BY DEF ClipIInv, Placed
<1>7. Calm'
  <2>1. CASE Head(to[e]) = "huge"
    BY <2>1 DEF ClipIInv, ClipTypeOK, Calm
  <2>2. CASE Head(to[e]) # "huge"
    <3>1. SUFFICES ASSUME overlaps' = 0, fails' = 0 PROVE Calm'
      BY DEF Calm
    <3>2. overlaps = 0 /\ fails = 0 /\ seen[e] = None
      BY <2>2, <3>1 DEF ClipIInv, ClipTypeOK
    <3> HIDE DEF text
    <3> QED
      BY <2>2, <3>2, <1>4 DEF ClipIInv, ClipTypeOK, Calm, text
  <2> QED
    BY <2>1, <2>2
<1> QED
  BY <1>5, <1>6, <1>7 DEF ClipIInv

LEMMA PasteIInv ==
  ASSUME ClipIInv, NEW e \in Ends, Paste(e)
  PROVE  ClipIInv'
<1> USE DEF Paste, link
<1>1. got[e] \in Texts
  BY DEF ClipIInv, ClipTypeOK, Landed
<1>2. ClipTypeOK'
  <2>1. fails' \in Nat
    BY DEF ClipIInv, ClipTypeOK
  <2>2. board' \in [Ends -> Texts] /\ from' \in [Ends -> {"before", "person", "paste"}]
    BY <1>1 DEF ClipIInv, ClipTypeOK
  <2>3. got' \in [Ends -> Landed \cup {None}]
    BY DEF ClipIInv, ClipTypeOK
  <2> QED
    BY <2>1, <2>2, <2>3 DEF ClipIInv, ClipTypeOK
<1>3. Placed'
  BY DEF ClipIInv, Placed
<1>4. Calm'
  <2>1. SUFFICES ASSUME overlaps' = 0, fails' = 0 PROVE Calm'
    BY DEF Calm
  <2>2. /\ overlaps = 0 /\ fails = 0
        /\ board' = [board EXCEPT ![e] = got[e]] /\ from' = [from EXCEPT ![e] = "paste"]
    BY <2>1 DEF ClipIInv, ClipTypeOK
  <2>3. clip[e] = got[e] /\ seen[e] = None
    BY <2>2 DEF ClipIInv, Calm
  <2> QED
    BY <2>2, <2>3 DEF ClipIInv, ClipTypeOK, Calm
<1> QED
  BY <1>2, <1>3, <1>4 DEF ClipIInv

LEMMA DropIInv ==
  ASSUME ClipIInv, Drop
  PROVE  ClipIInv'
<1> USE DEF Drop, ends
<1>1. to \in [Ends -> Seq(Sendable)]
  BY DEF ClipIInv, ClipTypeOK, Sendable
<1>2. PICK arrive \in [Ends -> 0 .. MaxCopies + MaxOverlaps + 1] :
        /\ \A e \in Ends : arrive[e] <= Len(to[e])
        /\ to' = [e \in Ends |-> SubSeq(to[e], 1, arrive[e])]
  OBVIOUS
<1>3. \A e \in Ends : arrive[e] \in Nat
  BY ClipboardAssumption
<1>4. \A e \in Ends : SubSeq(to[e], 1, arrive[e]) \in Seq(Sendable)
  BY <1>1, <1>2, <1>3, Queue
<1>5. to' \in [Ends -> Seq(Sendable)]
  BY <1>2, <1>4
<1>6. ClipTypeOK'
  <2>1. drops \in Nat
    BY DEF ClipIInv, ClipTypeOK
  <2>2. drops' \in Nat /\ linked' = FALSE /\ sure' = FALSE
    BY <2>1
  <2> QED
    BY <2>2, <1>5 DEF ClipIInv, ClipTypeOK, Sendable
<1>7. Placed'
  BY DEF ClipIInv, Placed
<1>8. Calm'
  BY DEF ClipIInv, Calm
<1> QED
  BY <1>6, <1>7, <1>8 DEF ClipIInv

LEMMA OfflineIInv ==
  ASSUME ClipIInv, Offline
  PROVE  ClipIInv'
<1> USE DEF Offline, ends, history
<1>1. ClipTypeOK'
  BY DEF ClipIInv, ClipTypeOK
<1>2. Placed' /\ Calm'
  BY DEF ClipIInv, Placed, Calm
<1> QED
  BY <1>1, <1>2 DEF ClipIInv

LEMMA ReconnectIInv ==
  ASSUME ClipIInv, Reconnect
  PROVE  ClipIInv'
<1> USE DEF Reconnect, history
<1>1. ClipTypeOK'
  BY DEF ClipIInv, ClipTypeOK, Placed, Ends, Texts
<1>2. Placed'
  BY DEF ClipIInv, Placed
<1>3. Calm'
  BY DEF ClipIInv, ClipTypeOK, Placed, Calm, Ends
<1> QED
  BY <1>1, <1>2, <1>3 DEF ClipIInv

LEMMA ClipNextIInv == ClipIInv /\ [ClipNext]_clipVars => ClipIInv'
<1> SUFFICES ASSUME ClipIInv, [ClipNext]_clipVars PROVE ClipIInv'
  OBVIOUS
<1>1. CASE UNCHANGED clipVars
  <2> USE <1>1 DEF clipVars, ends, link, history
  <2>1. ClipTypeOK'
    BY DEF ClipIInv, ClipTypeOK
  <2>2. Placed' /\ Calm'
    BY DEF ClipIInv, Placed, Calm
  <2> QED
    BY <2>1, <2>2 DEF ClipIInv
<1>2. CASE \E e \in Ends, t \in Texts : Copy(e, t)
  BY <1>2, CopyIInv
<1>3. CASE Client
  BY <1>3, LookUpIInv, ReadBoardIInv, CompareIInv, TellFailsIInv DEF Client, Ends
<1>4. CASE ServerSender \/ Wait \/ ReadBoard("server")
  BY <1>4, SeedIInv, LookUpIInv, ReadBoardIInv, CompareIInv, TellFailsIInv DEF ServerSender, Ends
<1>5. CASE \E e \in Ends : Receive(e) \/ Paste(e)
  BY <1>5, ReceiveIInv, PasteIInv
<1>6. CASE Drop \/ Offline \/ Reconnect
  BY <1>6, DropIInv, OfflineIInv, ReconnectIInv
<1> QED
  BY <1>1, <1>2, <1>3, <1>4, <1>5, <1>6 DEF ClipNext

(* Every variable keeps to its type: what lands on a clipboard is text as  *)
(* cut_text_msg and from_latin1 leave it.                                  *)
THEOREM ClipTyping == ClipSpec => []ClipTypeOK
<1>1. ClipIInv => ClipTypeOK
  BY DEF ClipIInv
<1> QED
  BY ClipInitIInv, ClipNextIInv, <1>1, PTL DEF ClipSpec

(* Vnc::paste, poll_clipboard and the sender's poll: an end that tells the *)
(* other of a text tells what a person put on its clipboard, never what    *)
(* was there when it connected and never what came from the other, as long *)
(* as no poll and paste overlap and the clipboard can be set.              *)
THEOREM TellsOwn == ClipSpec => NotBounced
<1> DEFINE Own == \A e \in Ends : overlaps + fails = 0 /\ Tells(Other(e)) => from[e] = "person"
<1>1. ASSUME ClipIInv, [ClipNext]_clipVars
      PROVE  Own
  <2>1. SUFFICES ASSUME NEW e \in Ends, overlaps + fails = 0, Tells(Other(e))
                 PROVE  from[e] = "person"
    OBVIOUS
  <2> DEFINE d == Other(e)
  <2>2. overlaps = 0 /\ fails = 0
    <3>1. overlaps \in Nat /\ fails \in Nat
      BY <1>1 DEF ClipIInv, ClipTypeOK
    <3> QED
      BY <2>1, <3>1
  <2>3. /\ d \in Ends /\ \A c \in Ends : Other(c) = d <=> c = e
        /\ to \in [Ends -> Seq(Sendable)]
    <3>1. to \in [Ends -> Seq(Sendable)]
      BY <1>1 DEF ClipIInv, ClipTypeOK, Sendable
    <3> QED
      BY <3>1 DEF Other, Ends
  <2>4. to[d] \in Seq(Sendable) /\ Len(to[d]) \in Nat
    BY <2>3, Queue
  <2>5. to'[d] # to[d]
    BY <2>1, <2>4 DEF Tells
  <2>6. ASSUME NEW c \in Ends, Receive(c) PROVE FALSE
    <3>1. to' = [to EXCEPT ![c] = Tail(to[c])] /\ to[c] # <<>>
      BY <2>6 DEF Receive
    <3>2. c = d /\ to'[d] = Tail(to[d])
      BY <2>3, <2>5, <3>1
    <3>3. Len(to'[d]) = Len(to[d]) - 1
      BY <2>4, <3>1, <3>2, Queue
    <3> QED
      BY <2>1, <2>4, <3>3 DEF Tells
  <2>7. ASSUME Drop PROVE FALSE
    <3>1. PICK arrive \in [Ends -> 0 .. MaxCopies + MaxOverlaps + 1] :
            /\ \A c \in Ends : arrive[c] <= Len(to[c])
            /\ to' = [c \in Ends |-> SubSeq(to[c], 1, arrive[c])]
      BY <2>7 DEF Drop
    <3>2. arrive[d] \in Nat /\ arrive[d] <= Len(to[d])
      BY <2>3, <3>1, ClipboardAssumption
    <3>3. Len(to'[d]) = arrive[d]
      BY <2>3, <2>4, <3>1, <3>2, Queue
    <3> QED
      BY <2>1, <2>4, <3>2, <3>3 DEF Tells
  <2>8. PICK c \in Ends : Compare(c)
    BY <1>1, <2>5, <2>6, <2>7
       DEF ClipNext, Client, ServerSender, Copy, LookUp, Wait, Wake, ReadBoard, Seed, TellFails, Paste,
           Offline, Reconnect, clipVars, link, Ends
  <2>9. Differs(c) /\ linked /\ to' = [to EXCEPT ![Other(c)] = Append(@, seen[c])]
    BY <2>5, <2>8 DEF Compare, Tell
  <2>10. c = e
    <3>1. Other(c) \in Ends
      BY DEF Other, Ends
    <3> QED
      BY <2>3, <2>5, <2>9, <3>1
  <2>11. seen[e] # None /\ at[e] # "seed" /\ seen[e] # clip[e]
    BY <2>8, <2>9, <2>10 DEF Compare, Differs
  <2> QED
    BY <1>1, <2>2, <2>11 DEF ClipIInv, Calm
<1>2. ClipIInv /\ [ClipNext]_clipVars => [Own]_clipVars
  BY <1>1
<1> QED
  BY ClipInitIInv, ClipNextIInv, <1>2, PTL DEF ClipSpec, NotBounced
=============================================================================
