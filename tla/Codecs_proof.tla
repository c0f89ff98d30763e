---------------------------- MODULE Codecs_proof ----------------------------
(***************************************************************************)
(* What one end works out of pictures, tiles, cursors and the wheel is     *)
(* what the other makes of it, proved for every job (CodecsAssumption),    *)
(* where the runs take a few of each: two pictures compared and what they  *)
(* differ by sent, rectangles of other servers, and the theorems about all *)
(* jobs. What single tiles, cursors and turns come to is in                *)
(* Algorithms_proof.                                                       *)
(***************************************************************************)
EXTENDS Algorithms_proof

----------------------------------------------------------------------------
(* Comparing two pictures.                                                 *)

(* Tiles of a side of n pixels, counted from 1.                            *)
Bands(n) == (n + Tile - 1) \div Tile
Edge(n, k) == Min({n, k * Tile})

LEMMA MinOf ==
  ASSUME NEW T \in SUBSET Nat, T # {}
  PROVE  Min(T) \in T /\ \A y \in T : Min(T) <= y
<1>1. \E x \in T : \A y \in T : x <= y
  BY LeastExists
<1> QED
  BY <1>1, Zenon DEF Min

LEMMA Times ==
  ASSUME NEW a \in Nat, NEW b \in Nat
  PROVE  /\ a * Tile \in Nat /\ (a + 1) * Tile = a * Tile + Tile /\ (b + 1) * Tile = b * Tile + Tile
         /\ a <= b => a * Tile <= b * Tile
         /\ a < b => (a + 1) * Tile <= b * Tile
         /\ (b + 1) - 1 = b
<1>1. Tile \in Nat /\ Tile >= 1
  BY ScrollAssumption
<1>2. \A c \in Nat, d \in Nat : c <= d => c * Tile <= d * Tile
  <2>1. SUFFICES ASSUME NEW c \in Nat, NEW d \in Nat, c <= d PROVE c * Tile <= d * Tile
    OBVIOUS
  <2>2. PICK e \in Nat : d = c + e
    BY <2>1, d - c \in Nat, d = c + (d - c)
  <2>3. d * Tile = c * Tile + e * Tile /\ e * Tile >= 0 /\ c * Tile \in Nat
    BY <1>1, <2>2
  <2> QED
    BY <1>1, <2>3
<1>3. a * Tile \in Nat /\ b * Tile \in Nat
  BY <1>1
<1>4. (a + 1) * Tile = a * Tile + Tile /\ (b + 1) * Tile = b * Tile + Tile
  BY <1>1
<1>5. a + 1 \in Nat /\ (a < b => a + 1 <= b)
  OBVIOUS
<1> QED
  BY <1>2, <1>3, <1>4, <1>5

LEMMA Division ==
  ASSUME NEW n \in Nat
  PROVE  /\ n \div Tile \in Nat
         /\ (n \div Tile) * Tile <= n
         /\ n < (n \div Tile) * Tile + Tile
<1>1. Tile \in Nat /\ Tile >= 1
  BY ScrollAssumption
<1> QED
  BY <1>1, Z3

LEMMA BandFacts ==
  ASSUME NEW n \in Nat
  PROVE  /\ Bands(n) \in Nat
         /\ \A k \in 1 .. Bands(n) :
               /\ (k - 1) * Tile \in Nat /\ Edge(n, k) \in Nat
               /\ (k - 1) * Tile < Edge(n, k) /\ Edge(n, k) <= n
               /\ \A j \in 1 .. k : (j - 1) * Tile <= (k - 1) * Tile /\ Edge(n, j) <= Edge(n, k)
         /\ \A x \in 0 .. n - 1 :
               \E k \in 1 .. Bands(n) : x \in (k - 1) * Tile .. Edge(n, k) - 1
<1>1. Tile \in Nat /\ Tile >= 1 /\ n + Tile - 1 \in Nat
  BY ScrollAssumption
<1> DEFINE B == Bands(n)
<1>2. B \in Nat /\ B * Tile <= n + Tile - 1 /\ n + Tile - 1 < B * Tile + Tile
  BY <1>1, Division DEF Bands
<1>3. ASSUME NEW k \in Nat
      PROVE  /\ k * Tile \in Nat
             /\ Edge(n, k) = IF n <= k * Tile THEN n ELSE k * Tile
  <2>1. k * Tile \in Nat
    BY Times
  <2>2. {n, k * Tile} \in SUBSET Nat /\ {n, k * Tile} # {}
    BY <2>1
  <2>3. Edge(n, k) \in {n, k * Tile} /\ Edge(n, k) <= n /\ Edge(n, k) <= k * Tile
    BY <2>2, MinOf DEF Edge
  <2> QED
    BY <2>1, <2>3
<1> HIDE DEF B
<1>4. ASSUME NEW k \in 1 .. B
      PROVE  /\ (k - 1) * Tile \in Nat /\ Edge(n, k) \in Nat
             /\ (k - 1) * Tile < Edge(n, k) /\ Edge(n, k) <= n
             /\ \A j \in 1 .. k : (j - 1) * Tile <= (k - 1) * Tile /\ Edge(n, j) <= Edge(n, k)
  <2>1. k \in Nat /\ k - 1 \in Nat /\ k <= B /\ (k - 1) + 1 = k
    BY <1>2
  <2>2. k * Tile = (k - 1) * Tile + Tile /\ (k - 1) * Tile \in Nat /\ k * Tile <= B * Tile
    BY <1>2, <2>1, Times
  <2>3. (k - 1) * Tile < n
    BY <1>1, <1>2, <2>2
  <2>4. ASSUME NEW j \in 1 .. k
        PROVE  (j - 1) * Tile <= (k - 1) * Tile /\ Edge(n, j) <= Edge(n, k)
    <3>1. j \in Nat /\ j - 1 \in Nat /\ j <= k /\ j - 1 <= k - 1
      BY <2>1
    <3>2. (j - 1) * Tile <= (k - 1) * Tile /\ j * Tile <= k * Tile
      BY <2>1, <3>1, Times
    <3>3. j * Tile \in Nat /\ k * Tile \in Nat
      BY <1>3, <2>1, <3>1
    <3>4. /\ Edge(n, j) = IF n <= j * Tile THEN n ELSE j * Tile
          /\ Edge(n, k) = IF n <= k * Tile THEN n ELSE k * Tile
      BY <1>3, <2>1, <3>1
    <3> QED
      BY <3>2, <3>3, <3>4
  <2>5. Edge(n, k) = IF n <= k * Tile THEN n ELSE k * Tile
    BY <1>3, <2>1
  <2>6. k * Tile \in Nat
    BY <1>3, <2>1
  <2> QED
    BY <1>1, <2>2, <2>3, <2>4, <2>5, <2>6
<1>5. ASSUME NEW x \in 0 .. n - 1
      PROVE  \E k \in 1 .. B : x \in (k - 1) * Tile .. Edge(n, k) - 1
  <2> DEFINE q == x \div Tile
  <2>1. x \in Nat /\ x < n
    OBVIOUS
  <2>2. q \in Nat /\ q * Tile <= x /\ x < q * Tile + Tile /\ q * Tile \in Nat
    BY <2>1, Division, Times
  <2> HIDE DEF q
  <2>3. q + 1 \in Nat /\ (q + 1) * Tile = q * Tile + Tile /\ (q + 1) - 1 = q
    BY <2>2, Times
  <2>4. q < B
    <3>1. CASE B <= q
      <4>1. B * Tile <= q * Tile
        BY <1>2, <2>2, <3>1, Times
      <4> QED
        BY <1>1, <1>2, <2>1, <2>2, <4>1, Times
    <3> QED
      BY <1>2, <2>2, <3>1
  <2>5. Edge(n, q + 1) = IF n <= (q + 1) * Tile THEN n ELSE (q + 1) * Tile
    BY <1>3, <2>3
  <2>6. x <= Edge(n, q + 1) - 1 /\ Edge(n, q + 1) - 1 \in Int
    BY <1>1, <2>1, <2>2, <2>3, <2>5
  <2>7. q + 1 \in 1 .. B
    BY <1>2, <2>2, <2>4
  <2>8. x \in ((q + 1) - 1) * Tile .. Edge(n, q + 1) - 1
    BY <2>1, <2>2, <2>3, <2>6
  <2> QED
    BY <2>7, <2>8
<1> QED
  BY <1>2, <1>4, <1>5 DEF B

(* changed_rects: tile c of the row r of tiles differs, and a run of such  *)
(* tiles begins with it.                                                   *)
Alters(prev, cur, w, h, r, c) ==
  /\ c \in 1 .. Bands(w)
  /\ \E y \in (r - 1) * Tile .. Edge(h, r) - 1 :
       \E x \in (c - 1) * Tile .. Edge(w, c) - 1 : prev[y][x] # cur[y][x]
Begins(prev, cur, w, h, r, c) == Alters(prev, cur, w, h, r, c) /\ ~Alters(prev, cur, w, h, r, c - 1)
Stops(prev, cur, w, h, r, c) == {d \in c .. Bands(w) : ~Alters(prev, cur, w, h, r, d + 1)}
Piece(prev, cur, w, h, r, c) ==
  [x |-> (c - 1) * Tile, y |-> (r - 1) * Tile,
   w |-> Edge(w, Min(Stops(prev, cur, w, h, r, c))) - (c - 1) * Tile,
   h |-> Edge(h, r) - (r - 1) * Tile]
RowOf(prev, cur, w, h, r) ==
  FlattenSeq([c \in 1 .. Bands(w) |-> IF Begins(prev, cur, w, h, r, c)
                                        THEN <<Piece(prev, cur, w, h, r, c)>> ELSE <<>>])

(* A rectangle on a picture of w by h, and what is in it.                  *)
Boxes(w, h) == {p \in [x : Nat, y : Nat, w : Nat \ {0}, h : Nat \ {0}] :
                  p.x + p.w <= w /\ p.y + p.h <= h}
In(p, x, y) == x \in p.x .. p.x + p.w - 1 /\ y \in p.y .. p.y + p.h - 1

LEMMA StopFacts ==
  ASSUME NEW prev, NEW cur, NEW w \in Nat, NEW h, NEW r, NEW c \in 1 .. Bands(w)
  PROVE  LET s == Min(Stops(prev, cur, w, h, r, c)) IN
         /\ s \in c .. Bands(w)
         /\ \A e \in c .. Bands(w) :
              (\A d \in c .. e : Alters(prev, cur, w, h, r, d)) => e <= s
<1> DEFINE T == Stops(prev, cur, w, h, r, c)
           B == Bands(w)
           A(d) == Alters(prev, cur, w, h, r, d)
<1>1. B \in Nat /\ c \in Nat /\ c >= 1 /\ c <= B
  BY BandFacts
<1>2. T = {d \in c .. B : ~A(d + 1)}
  BY DEF Stops
<1>3. \A d : A(d) => d \in 1 .. B
  BY DEF Alters
<1> HIDE DEF T, B, A
<1>4. B \in T
  <2>1. B \in c .. B /\ B + 1 \notin 1 .. B
    BY <1>1
  <2> QED
    BY <1>2, <1>3, <2>1
<1>5. T \in SUBSET Nat
  BY <1>1, <1>2
<1>6. Min(T) \in T
  BY <1>4, <1>5, MinOf
<1>7. Min(T) \in c .. B /\ ~A(Min(T) + 1)
  BY <1>2, <1>6
<1> HIDE DEF T
<1>8. ASSUME NEW e \in c .. B, \A d \in c .. e : A(d)
      PROVE  e <= Min(T)
  <2>1. CASE Min(T) < e
    <3>1. Min(T) + 1 \in c .. e
      BY <1>1, <1>7, <2>1
    <3> QED
      BY <1>7, <1>8, <3>1
  <2> QED
    BY <1>1, <1>7, <2>1
<1> QED
  BY <1>7, <1>8 DEF T, B, A

LEMMA RunBox ==
  ASSUME NEW prev, NEW cur, NEW w \in Nat, NEW h \in Nat,
         NEW r \in 1 .. Bands(h), NEW c \in 1 .. Bands(w)
  PROVE  Piece(prev, cur, w, h, r, c) \in Boxes(w, h)
<1> DEFINE s == Min(Stops(prev, cur, w, h, r, c))
<1>1. s \in c .. Bands(w)
  BY StopFacts
<1>2. Bands(w) \in Nat
  BY BandFacts
<1> HIDE DEF s
<1>3. s \in 1 .. Bands(w) /\ c \in 1 .. s
  BY <1>1, <1>2
<1>4. /\ (c - 1) * Tile \in Nat /\ Edge(w, c) \in Nat /\ (c - 1) * Tile < Edge(w, c)
      /\ Edge(w, s) \in Nat /\ Edge(w, s) <= w /\ Edge(w, c) <= Edge(w, s)
  BY <1>3, BandFacts
<1>5. /\ (r - 1) * Tile \in Nat /\ Edge(h, r) \in Nat /\ Edge(h, r) <= h
      /\ (r - 1) * Tile < Edge(h, r)
  BY BandFacts
<1>6. /\ Edge(w, s) - (c - 1) * Tile \in Nat \ {0} /\ Edge(h, r) - (r - 1) * Tile \in Nat \ {0}
      /\ (c - 1) * Tile + (Edge(w, s) - (c - 1) * Tile) <= w
      /\ (r - 1) * Tile + (Edge(h, r) - (r - 1) * Tile) <= h
  BY <1>4, <1>5
<1>7. Piece(prev, cur, w, h, r, c) =
        [x |-> (c - 1) * Tile, y |-> (r - 1) * Tile,
         w |-> Edge(w, s) - (c - 1) * Tile, h |-> Edge(h, r) - (r - 1) * Tile]
  BY DEF Piece, s
<1> QED
  BY <1>4, <1>5, <1>6, <1>7 DEF Boxes

LEMMA RunReaches ==
  ASSUME NEW prev, NEW cur, NEW w \in Nat, NEW h \in Nat, NEW r \in 1 .. Bands(h), NEW c,
         Alters(prev, cur, w, h, r, c),
         NEW y \in (r - 1) * Tile .. Edge(h, r) - 1, NEW x \in (c - 1) * Tile .. Edge(w, c) - 1
  PROVE  \E b \in 1 .. Bands(w) : /\ Begins(prev, cur, w, h, r, b)
                                  /\ In(Piece(prev, cur, w, h, r, b), x, y)
<1> DEFINE A(d) == Alters(prev, cur, w, h, r, d)
           B == Bands(w)
           T == {a \in 1 .. c : \A d \in a .. c : A(d)}
<1>1. B \in Nat /\ c \in 1 .. B /\ \A d : A(d) => d \in 1 .. B
  BY BandFacts DEF Alters
<1>2. A(c)
  OBVIOUS
<1>3. \A b : Begins(prev, cur, w, h, r, b) <=> A(b) /\ ~A(b - 1)
  BY DEF Begins
<1> HIDE DEF A
<1>4. c \in Nat /\ c >= 1 /\ c <= B
  BY <1>1
<1>5. c \in T
  <2>1. c \in 1 .. c /\ \A d \in c .. c : d = c
    BY <1>4
  <2> QED
    BY <1>2, <2>1
<1>6. T \in SUBSET Nat
  OBVIOUS
<1>7. PICK b \in T : \A a \in T : b <= a
  BY <1>5, <1>6, LeastExists
<1>8. b \in 1 .. c /\ \A d \in b .. c : A(d)
  BY <1>7
<1>9. A(b) /\ b \in 1 .. B /\ c \in b .. B
  <2>1. b \in b .. c /\ b \in 1 .. B /\ c \in b .. B
    BY <1>1, <1>4, <1>8
  <2> QED
    BY <1>8, <2>1
<1>10. ~A(b - 1)
  <2>1. SUFFICES ASSUME A(b - 1) PROVE FALSE
    OBVIOUS
  <2>2. b - 1 \in 1 .. B /\ b \in Nat
    BY <1>1, <1>8, <2>1
  <2>3. b - 1 \in 1 .. c /\ ~(b <= b - 1) /\ \A d \in b - 1 .. c : d = b - 1 \/ d \in b .. c
    BY <1>4, <1>8, <2>2
  <2>4. \A d \in b - 1 .. c : A(d)
    BY <1>8, <2>1, <2>3
  <2>5. b - 1 \in T
    BY <2>3, <2>4
  <2> QED
    BY <1>7, <2>3, <2>5
<1>11. In(Piece(prev, cur, w, h, r, b), x, y)
  <2> DEFINE s == Min(Stops(prev, cur, w, h, r, b))
  <2>1. s \in b .. B /\ c <= s
    BY <1>8, <1>9, StopFacts DEF A
  <2>2. Piece(prev, cur, w, h, r, b) =
        [x |-> (b - 1) * Tile, y |-> (r - 1) * Tile,
         w |-> Edge(w, s) - (b - 1) * Tile, h |-> Edge(h, r) - (r - 1) * Tile]
    BY DEF Piece
  <2> HIDE DEF s
  <2>3. s \in 1 .. B /\ c \in 1 .. s /\ b \in 1 .. c
    BY <1>1, <1>4, <1>8, <2>1
  <2>4. /\ Edge(w, c) <= Edge(w, s) /\ (b - 1) * Tile <= (c - 1) * Tile
        /\ Edge(w, c) \in Nat /\ Edge(w, s) \in Nat /\ (b - 1) * Tile \in Nat /\ (c - 1) * Tile \in Nat
    BY <1>1, <1>9, <2>3, BandFacts
  <2>5. Edge(h, r) \in Nat /\ (r - 1) * Tile \in Nat
    BY BandFacts
  <2>6. x \in (b - 1) * Tile .. (b - 1) * Tile + (Edge(w, s) - (b - 1) * Tile) - 1
    BY <2>4
  <2>7. y \in (r - 1) * Tile .. (r - 1) * Tile + (Edge(h, r) - (r - 1) * Tile) - 1
    BY <2>5
  <2> QED
    BY <2>2, <2>6, <2>7 DEF In
<1> QED
  BY <1>3, <1>9, <1>10, <1>11

LEMMA RectsAre ==
  ASSUME NEW prev, NEW cur, NEW w \in Nat, NEW h \in Nat
  PROVE  /\ ChangedRects(prev, cur, w, h) \in Seq(Boxes(w, h))
         /\ \A r \in 1 .. Bands(h), c \in 1 .. Bands(w) :
              Begins(prev, cur, w, h, r, c) =>
                \E i \in DOMAIN ChangedRects(prev, cur, w, h) :
                   ChangedRects(prev, cur, w, h)[i] = Piece(prev, cur, w, h, r, c)
         /\ \A i \in DOMAIN ChangedRects(prev, cur, w, h) :
              \E r \in 1 .. Bands(h), c \in 1 .. Bands(w) :
                /\ Begins(prev, cur, w, h, r, c)
                /\ ChangedRects(prev, cur, w, h)[i] = Piece(prev, cur, w, h, r, c)
<1> DEFINE S == Boxes(w, h)
           Pieces(r) == [c \in 1 .. Bands(w) |-> IF Begins(prev, cur, w, h, r, c)
                                                THEN <<Piece(prev, cur, w, h, r, c)>> ELSE <<>>]
           Rows == [r \in 1 .. Bands(h) |-> RowOf(prev, cur, w, h, r)]
<1>1. ChangedRects(prev, cur, w, h) = FlattenSeq(Rows)
  BY DEF ChangedRects, RowOf, Begins, Alters, Piece, Stops, Bands, Edge
<1>2. Bands(w) \in Nat /\ Bands(h) \in Nat
  BY BandFacts
<1>3. ASSUME NEW r \in 1 .. Bands(h)
      PROVE  /\ RowOf(prev, cur, w, h, r) \in Seq(S)
             /\ \A c \in 1 .. Bands(w) : Begins(prev, cur, w, h, r, c) =>
                   Piece(prev, cur, w, h, r, c) \in Elems(RowOf(prev, cur, w, h, r))
             /\ \A p \in Elems(RowOf(prev, cur, w, h, r)) : \E c \in 1 .. Bands(w) :
                   Begins(prev, cur, w, h, r, c) /\ p = Piece(prev, cur, w, h, r, c)
  <2>1. \A c \in 1 .. Bands(w) : Piece(prev, cur, w, h, r, c) \in S
    BY RunBox
  <2>2. \A c \in 1 .. Bands(w) : Pieces(r)[c] \in Seq(S)
    <3> HIDE DEF S
    <3>1. <<>> \in Seq(S) /\ \A b \in S : <<b>> \in Seq(S)
      OBVIOUS
    <3> QED
      BY <2>1, <3>1
  <2>3. Pieces(r) \in Seq(Seq(S)) /\ DOMAIN Pieces(r) = 1 .. Bands(w)
    <3> HIDE DEF S
    <3>1. Pieces(r) \in [1 .. Bands(w) -> Seq(S)]
      BY <2>2
    <3> HIDE DEF Pieces
    <3> QED
      BY <1>2, <3>1
  <2>4. RowOf(prev, cur, w, h, r) = FlattenSeq(Pieces(r))
    BY DEF RowOf
  <2>5. /\ RowOf(prev, cur, w, h, r) \in Seq(S)
        /\ Elems(RowOf(prev, cur, w, h, r)) = UNION {Elems(Pieces(r)[c]) : c \in 1 .. Bands(w)}
    <3> HIDE DEF S, Pieces
    <3> QED
      BY <2>3, <2>4, Flat
  <2>6. ASSUME NEW c \in 1 .. Bands(w), Begins(prev, cur, w, h, r, c)
        PROVE  Piece(prev, cur, w, h, r, c) \in Elems(Pieces(r)[c])
    <3>1. Pieces(r)[c] = <<Piece(prev, cur, w, h, r, c)>>
      BY <2>6
    <3>2. 1 \in DOMAIN <<Piece(prev, cur, w, h, r, c)>>
          /\ <<Piece(prev, cur, w, h, r, c)>>[1] = Piece(prev, cur, w, h, r, c)
      OBVIOUS
    <3> QED
      BY <3>1, <3>2 DEF Elems
  <2>7. ASSUME NEW c \in 1 .. Bands(w), NEW p \in Elems(Pieces(r)[c])
        PROVE  Begins(prev, cur, w, h, r, c) /\ p = Piece(prev, cur, w, h, r, c)
    <3>1. CASE Begins(prev, cur, w, h, r, c)
      <4>1. Pieces(r)[c] = <<Piece(prev, cur, w, h, r, c)>>
        BY <3>1
      <4> QED
        BY <3>1, <4>1 DEF Elems
    <3>2. CASE ~Begins(prev, cur, w, h, r, c)
      <4>1. Pieces(r)[c] = <<>>
        BY <3>2
      <4> QED
        BY <4>1 DEF Elems
    <3> QED
      BY <3>1, <3>2
  <2> HIDE DEF S, Pieces
  <2>8. \A p \in Elems(RowOf(prev, cur, w, h, r)) : \E c \in 1 .. Bands(w) : p \in Elems(Pieces(r)[c])
    BY <2>5
  <2> QED
    BY <2>5, <2>6, <2>7, <2>8, ZenonT(60)
<1>4. Rows \in Seq(Seq(S)) /\ DOMAIN Rows = 1 .. Bands(h)
  <2> HIDE DEF S
  <2>1. Rows \in [1 .. Bands(h) -> Seq(S)]
    BY <1>3
  <2> HIDE DEF Rows
  <2> QED
    BY <1>2, <2>1
<1>5. \A r \in 1 .. Bands(h) : Rows[r] = RowOf(prev, cur, w, h, r)
  OBVIOUS
<1> HIDE DEF S, Rows
<1>6. /\ FlattenSeq(Rows) \in Seq(S)
      /\ Elems(FlattenSeq(Rows)) = UNION {Elems(Rows[r]) : r \in 1 .. Bands(h)}
  BY <1>4, Flat
<1>7. ASSUME NEW r \in 1 .. Bands(h), NEW c \in 1 .. Bands(w), Begins(prev, cur, w, h, r, c)
      PROVE  \E i \in DOMAIN FlattenSeq(Rows) : FlattenSeq(Rows)[i] = Piece(prev, cur, w, h, r, c)
  <2>1. Piece(prev, cur, w, h, r, c) \in Elems(Rows[r])
    BY <1>3, <1>5, <1>7
  <2>2. Piece(prev, cur, w, h, r, c) \in Elems(FlattenSeq(Rows))
    BY <1>6, <2>1
  <2> QED
    BY <2>2, Zenon DEF Elems
<1>8. ASSUME NEW i \in DOMAIN FlattenSeq(Rows)
      PROVE  \E r \in 1 .. Bands(h), c \in 1 .. Bands(w) :
                Begins(prev, cur, w, h, r, c) /\ FlattenSeq(Rows)[i] = Piece(prev, cur, w, h, r, c)
  <2>1. FlattenSeq(Rows)[i] \in Elems(FlattenSeq(Rows))
    BY Zenon DEF Elems
  <2>2. PICK r \in 1 .. Bands(h) : FlattenSeq(Rows)[i] \in Elems(Rows[r])
    BY <1>6, <2>1
  <2> QED
    BY <1>3, <1>5, <2>2
<1> QED
  BY <1>1, <1>6, <1>7, <1>8 DEF S

(* Every pixel that differs is in one of changed_rects' rectangles, and    *)
(* those are on the picture.                                               *)
LEMMA DifferenceCovered ==
  ASSUME NEW prev, NEW cur, NEW w \in Nat, NEW h \in Nat,
         NEW y \in 0 .. h - 1, NEW x \in 0 .. w - 1, prev[y][x] # cur[y][x]
  PROVE  \E i \in DOMAIN ChangedRects(prev, cur, w, h) : In(ChangedRects(prev, cur, w, h)[i], x, y)
<1>1. PICK r \in 1 .. Bands(h) : y \in (r - 1) * Tile .. Edge(h, r) - 1
  BY BandFacts
<1>2. PICK c \in 1 .. Bands(w) : x \in (c - 1) * Tile .. Edge(w, c) - 1
  BY BandFacts
<1>3. Alters(prev, cur, w, h, r, c)
  BY <1>1, <1>2 DEF Alters
<1>4. PICK b \in 1 .. Bands(w) : Begins(prev, cur, w, h, r, b) /\ In(Piece(prev, cur, w, h, r, b), x, y)
  BY <1>1, <1>2, <1>3, RunReaches
<1>5. PICK i \in DOMAIN ChangedRects(prev, cur, w, h) :
        ChangedRects(prev, cur, w, h)[i] = Piece(prev, cur, w, h, r, b)
  BY <1>4, RectsAre, ZenonT(60)
<1> QED
  BY <1>4, <1>5

----------------------------------------------------------------------------
(* find_scroll.                                                            *)

LEMMA MaxOf ==
  ASSUME NEW m \in Nat, NEW T \in SUBSET (0 .. m), T # {}
  PROVE  Max(T) \in T /\ \A y \in T : y <= Max(T)
<1> DEFINE D == {m - y : y \in T}
<1>1. D \in SUBSET Nat /\ D # {}
  <2>1. \A y \in T : m - y \in Nat
    OBVIOUS
  <2> QED
    BY <2>1, Zenon
<1>2. PICK d \in D : \A e \in D : d <= e
  BY <1>1, LeastExists
<1>3. PICK x \in T : d = m - x
  BY <1>2
<1>4. \A y \in T : m - x <= m - y
  BY <1>2, <1>3
<1>5. \A y \in T : x >= y
  BY <1>4
<1>6. Max(T) \in T /\ \A y \in T : Max(T) >= y
  BY <1>5, Zenon DEF Max
<1> QED
  BY <1>6

LEMMA ProbeFacts ==
  ASSUME NEW first \in Nat, NEW last \in Nat, first <= last, NEW k \in 0 .. Probes - 1
  PROVE  Probe(first, last, k) \in first .. last
<1> DEFINE P == Probes - 1
           e == last - first
           q == (e * k) \div P
<1>1. P \in Nat /\ P >= 1 /\ k \in Nat /\ k <= P /\ e \in Nat
  BY ScrollAssumption
<1>2. e * k \in Nat /\ e * P \in Nat /\ e * k <= e * P
  <2> HIDE DEF P, e
  <2>1. PICK d \in Nat : P = k + d
    BY <1>1, P - k \in Nat, P = k + (P - k)
  <2>2. e * P = e * k + e * d /\ e * d >= 0 /\ e * k \in Nat /\ e * d \in Nat
    BY <1>1, <2>1
  <2> QED
    BY <2>2
<1>3. q \in Nat /\ q * P <= e * k
  <2> HIDE DEF P, e
  <2> QED
    BY <1>1, <1>2, Z3
<1>4. q <= e
  <2> HIDE DEF P, e, q
  <2>1. SUFFICES ASSUME e < q PROVE FALSE
    BY <1>1, <1>3
  <2>2. PICK d \in Nat : q = e + 1 + d
    BY <1>1, <1>3, <2>1, q - (e + 1) \in Nat, q = e + 1 + (q - (e + 1))
  <2>3. q * P = e * P + P + d * P /\ d * P >= 0 /\ d * P \in Nat
    BY <1>1, <2>2
  <2> QED
    BY <1>1, <1>2, <1>3, <2>3
<1>5. Probe(first, last, k) = first + q
  BY DEF Probe
<1> HIDE DEF q
<1> QED
  BY <1>3, <1>4, <1>5

(* A band that is grown stays on both pictures.                            *)
LEMMA GrownFacts ==
  ASSUME NEW ph, NEW ch, NEW h \in Nat, NEW probe \in 0 .. h - 1, NEW src \in 0 .. h - 1
  PROVE  LET g == Grown(ph, ch, probe, src, h) IN
         g \in [dst : Nat, src : Nat, n : Nat \ {0}] /\ g.dst + g.n <= h /\ g.src + g.n <= h
<1> DEFINE shift == probe - src
           agrees(y) == y - shift \in 0 .. h - 1 /\ ch[y] = ph[y - shift]
           A == {y \in 0 .. probe : \A z \in y .. probe - 1 : agrees(z)}
           B == {y \in probe .. h - 1 : \A z \in probe + 1 .. y : agrees(z)}
           a == Min(A)
           b == Max(B)
<1>1. Grown(ph, ch, probe, src, h) = [dst |-> a, src |-> a - shift, n |-> b - a + 1]
  BY DEF Grown
<1>2. \A y : agrees(y) => y - shift \in 0 .. h - 1
  OBVIOUS
<1>3. shift \in Int /\ probe - shift = src
  OBVIOUS
<1> HIDE DEF agrees, shift
<1>4. a \in 0 .. probe /\ a - shift \in 0 .. h - 1
  <2>1. probe \in A /\ A \in SUBSET Nat
    OBVIOUS
  <2>2. a \in A
    BY <2>1, MinOf
  <2>3. a \in 0 .. probe /\ \A z \in a .. probe - 1 : agrees(z)
    BY <2>2
  <2> HIDE DEF a
  <2>4. CASE a = probe
    BY <1>3, <2>3, <2>4
  <2>5. CASE a # probe
    BY <1>2, <2>3, <2>5
  <2> QED
    BY <2>3, <2>4, <2>5
<1>5. b \in probe .. h - 1 /\ b - shift \in 0 .. h - 1
  <2>1. probe \in B /\ B \in SUBSET (0 .. h - 1) /\ h - 1 \in Nat
    OBVIOUS
  <2>2. b \in B
    BY <2>1, MaxOf
  <2>3. b \in probe .. h - 1 /\ \A z \in probe + 1 .. b : agrees(z)
    BY <2>2
  <2> HIDE DEF b
  <2>4. CASE b = probe
    BY <1>3, <2>3, <2>4
  <2>5. CASE b # probe
    BY <1>2, <2>3, <2>5
  <2> QED
    BY <2>3, <2>4, <2>5
<1> HIDE DEF a, b
<1>6. /\ a \in Nat /\ a - shift \in Nat /\ b - a + 1 \in Nat \ {0}
      /\ a + (b - a + 1) <= h /\ (a - shift) + (b - a + 1) <= h
  BY <1>3, <1>4, <1>5
<1> QED
  BY <1>1, <1>6

(* At most one band is found, it is on the picture, and what it is copied  *)
(* from is what it is to be.                                               *)
LEMMA ScrollFacts ==
  ASSUME NEW prev, NEW cur, NEW w \in Nat, NEW h \in Nat, NEW cols, NEW key
  PROVE  /\ \A b \in FindScroll(prev, cur, w, h, cols, key) :
              /\ b \in [dst : Nat, src : Nat, n : Nat \ {0}] /\ b.dst + b.n <= h /\ b.src + b.n <= h
              /\ RowsMatch(prev, cur, cols, b.src, b.dst, b.n) /\ ~(cols[2] <= cols[1])
         /\ \A b, c \in FindScroll(prev, cur, w, h, cols, key) : b = c
<1> DEFINE ph == [y \in 0 .. h - 1 |-> RowHash(prev[y], cols, key)]
           ch == [y \in 0 .. h - 1 |-> RowHash(cur[y], cols, key)]
           differ == {y \in 0 .. h - 1 : ph[y] # ch[y]}
           first  == Min(differ)
           last   == Max(differ)
           tries  == UNION {{<<k, src>> :
                               src \in Sources(ph, ch, Probe(first, last, k), h)} :
                            k \in 0 .. Probes - 1}
           found  == [t \in tries |-> Grown(ph, ch, Probe(first, last, t[1]), t[2], h)]
           long   == {t \in tries : found[t].n >= MinScroll}
           before(t, u) == t[1] < u[1] \/ (t[1] = u[1] /\ t[2] < u[2])
           best   == {t \in long : \A u \in long \ {t} :
                        \/ found[t].n > found[u].n
                        \/ found[t].n = found[u].n /\ before(t, u)}
           none   == \/ h < MinScroll \/ cols[2] <= cols[1] \/ differ = {}
                     \/ last - first + 1 < MinScroll
<1>1. FindScroll(prev, cur, w, h, cols, key) =
        IF none THEN {}
        ELSE {b \in {found[t] : t \in best} : RowsMatch(prev, cur, cols, b.src, b.dst, b.n)}
  BY DEF FindScroll
<1>2. CASE none
  BY <1>1, <1>2
<1>3. CASE ~none
  <2>1. differ # {} /\ ~(cols[2] <= cols[1])
    BY <1>3
  <2>2. differ \in SUBSET (0 .. h - 1) /\ differ \in SUBSET Nat
    OBVIOUS
  <2>3. h - 1 \in Nat
    <3>1. PICK y \in differ : y \in 0 .. h - 1
      BY <2>1, <2>2, Zenon
    <3> QED
      BY <3>1
  <2> HIDE DEF differ, ph, ch
  <2>4. first \in differ /\ last \in differ /\ first <= last
    <3>1. first \in differ /\ \A y \in differ : first <= y
      BY <2>1, <2>2, MinOf
    <3>2. last \in differ
      BY <2>1, <2>2, <2>3, MaxOf
    <3> QED
      BY <3>1, <3>2
  <2>5. \A k \in 0 .. Probes - 1 : Probe(first, last, k) \in 0 .. h - 1
    <3>1. first \in Nat /\ last \in Nat /\ last \in 0 .. h - 1
      BY <2>2, <2>4
    <3> HIDE DEF first, last
    <3>2. \A k \in 0 .. Probes - 1 : Probe(first, last, k) \in first .. last
      BY <2>4, <3>1, ProbeFacts
    <3> QED
      BY <2>3, <3>1, <3>2
  <2> HIDE DEF first, last
  <2>6. \A t \in tries : t \in (0 .. Probes - 1) \X (0 .. h - 1)
    <3>1. SUFFICES ASSUME NEW t \in tries PROVE t \in (0 .. Probes - 1) \X (0 .. h - 1)
      BY Zenon
    <3>2. PICK k \in 0 .. Probes - 1 :
            \E src \in Sources(ph, ch, Probe(first, last, k), h) : t = <<k, src>>
      BY Zenon
    <3>3. PICK src \in Sources(ph, ch, Probe(first, last, k), h) : t = <<k, src>>
      BY <3>2
    <3>4. src \in 0 .. h - 1
      BY Zenon DEF Sources
    <3> QED
      BY <3>3, <3>4
  <2>7. \A t \in tries : /\ found[t] \in [dst : Nat, src : Nat, n : Nat \ {0}]
                          /\ found[t].dst + found[t].n <= h /\ found[t].src + found[t].n <= h
    <3>1. SUFFICES ASSUME NEW t \in tries
                   PROVE  /\ found[t] \in [dst : Nat, src : Nat, n : Nat \ {0}]
                          /\ found[t].dst + found[t].n <= h /\ found[t].src + found[t].n <= h
      OBVIOUS
    <3>2. t[1] \in 0 .. Probes - 1 /\ t[2] \in 0 .. h - 1
      BY <2>6
    <3>3. Probe(first, last, t[1]) \in 0 .. h - 1
      BY <2>5, <3>2
    <3>4. found[t] = Grown(ph, ch, Probe(first, last, t[1]), t[2], h)
      OBVIOUS
    <3> HIDE DEF found, tries
    <3> QED
      BY <3>2, <3>3, <3>4, GrownFacts
  <2> HIDE DEF tries, found
  <2>8. ASSUME NEW t \in best, NEW u \in best, t # u
        PROVE  FALSE
    <3>1. t \in tries /\ u \in tries /\ t \in long /\ u \in long
      OBVIOUS
    <3>2. /\ found[t].n > found[u].n \/ (found[t].n = found[u].n /\ before(t, u))
          /\ found[u].n > found[t].n \/ (found[u].n = found[t].n /\ before(u, t))
      BY <2>8
    <3>3. found[t].n \in Nat /\ found[u].n \in Nat
      BY <2>7, <3>1
    <3>4. t[1] \in Int /\ t[2] \in Int /\ u[1] \in Int /\ u[2] \in Int
      BY <2>6, <3>1
    <3> HIDE DEF best, long
    <3> QED
      BY <3>2, <3>3, <3>4
  <2>9. best \subseteq tries
    OBVIOUS
  <2> HIDE DEF best, none
  <2>10. FindScroll(prev, cur, w, h, cols, key) =
           {b \in {found[t] : t \in best} : RowsMatch(prev, cur, cols, b.src, b.dst, b.n)}
    BY <1>1, <1>3
  <2>11. ASSUME NEW b \in FindScroll(prev, cur, w, h, cols, key)
         PROVE  /\ b \in [dst : Nat, src : Nat, n : Nat \ {0}] /\ b.dst + b.n <= h /\ b.src + b.n <= h
                /\ RowsMatch(prev, cur, cols, b.src, b.dst, b.n)
    <3>1. PICK t \in best : b = found[t]
      BY <2>10
    <3>2. RowsMatch(prev, cur, cols, b.src, b.dst, b.n)
      BY <2>10
    <3> QED
      BY <2>7, <2>9, <3>1, <3>2
  <2>12. \A b, c \in FindScroll(prev, cur, w, h, cols, key) : b = c
    BY <2>8, <2>10
  <2> QED
    BY <2>1, <2>11, <2>12
<1> QED
  BY <1>2, <1>3

----------------------------------------------------------------------------
(* dominant_cols. An area is a sum over the rectangles of a range of       *)
(* columns.                                                                *)
LEMMA SumIsNat ==
  ASSUME NEW S, IsFiniteSet(S), NEW f, \A x \in S : f[x] \in Nat
  PROVE  SumOn(f, S) \in Nat
<1> DEFINE P == {s \in SUBSET S : SumOn(f, s) \in Nat}
<1>1. ASSUME NEW s \in SUBSET S, \A t \in SUBSET S : Cardinality(t) < Cardinality(s) => t \in P
      PROVE  s \in P
  <2>1. IsFiniteSet(s) /\ \A x \in s : f[x] \in Int
    BY FS_Subset
  <2>2. /\ SumOn(f, {}) = 0 /\ SumOn(f, s) \in Int
        /\ \A x \in s : SumOn(f, s \ {x}) \in Int /\ SumOn(f, s) = f[x] + SumOn(f, s \ {x})
    BY <2>1, SumStep
  <2>3. CASE s = {}
    BY <2>2, <2>3
  <2>4. CASE s # {}
    <3>1. PICK x \in s : TRUE
      BY <2>4
    <3> DEFINE t == s \ {x}
    <3>2. t \in SUBSET S /\ Cardinality(t) < Cardinality(s)
      BY <3>1, LessByOne
    <3> HIDE DEF t, P
    <3>3. t \in P
      BY <1>1, <3>2
    <3>4. SumOn(f, t) \in Nat
      BY <3>3 DEF P
    <3>5. SumOn(f, s) = f[x] + SumOn(f, t) /\ f[x] \in Nat
      BY <2>2, <3>1 DEF t
    <3>6. SumOn(f, s) \in Nat
      BY <3>4, <3>5
    <3> QED
      BY <3>6 DEF P
  <2> QED
    BY <2>3, <2>4
<1>2. \A s \in SUBSET S : s \in P
  <2> HIDE DEF P
  <2> QED
    BY <1>1, BySize
<1> QED
  BY <1>2

AreaOf(rects, S) == SumFunction([j \in S |-> rects[j].w * rects[j].h])

LEMMA AreaIsNat ==
  ASSUME NEW w, NEW h, NEW rects \in Seq(Boxes(w, h)), NEW S \in SUBSET DOMAIN rects
  PROVE  AreaOf(rects, S) \in Nat
<1> DEFINE f == [j \in S |-> rects[j].w * rects[j].h]
<1>1. IsFiniteSet(S)
  <2>1. DOMAIN rects = 1 .. Len(rects) /\ Len(rects) \in Nat
    BY LenProperties
  <2>2. 1 \in Int /\ Len(rects) \in Int
    BY <2>1
  <2>3. IsFiniteSet(1 .. Len(rects))
    BY <2>2, FS_Interval
  <2>4. IsFiniteSet(DOMAIN rects)
    BY <2>1, <2>3
  <2> QED
    BY <2>4, FS_Subset
<1>2. \A j \in S : f[j] \in Nat
  <2> SUFFICES ASSUME NEW j \in S PROVE rects[j].w * rects[j].h \in Nat
    OBVIOUS
  <2>1. rects[j] \in Boxes(w, h)
    BY LenProperties, ElementOfSeq
  <2>2. rects[j].w \in Nat /\ rects[j].h \in Nat
    BY <2>1 DEF Boxes
  <2> QED
    BY <2>2
<1>3. AreaOf(rects, S) = SumOn(f, S)
  BY SumIs DEF AreaOf
<1> HIDE DEF f
<1> QED
  BY <1>1, <1>2, <1>3, SumIsNat

LEMMA LargestExists ==
  ASSUME NEW n \in Nat, NEW G \in SUBSET (1 .. n), G # {}, NEW f \in [G -> Nat]
  PROVE  \E i \in G : \A j \in G : f[i] >= f[j]
<1> DEFINE Upto(m) == G \cap (1 .. m)
           HasMost(m) == Upto(m) = {} \/ \E i \in Upto(m) : \A j \in Upto(m) : f[i] >= f[j]
           Bad == {m \in Nat : ~HasMost(m)}
<1>1. ASSUME NEW m \in Bad, \A k \in Bad : m <= k
      PROVE  FALSE
  <2>1. m \in Nat /\ ~HasMost(m)
    OBVIOUS
  <2>2. m # 0
    <3>1. Upto(0) = {}
      OBVIOUS
    <3> QED
      BY <2>1, <3>1
  <2>3. m - 1 \in Nat /\ ~(m <= m - 1)
    BY <2>1, <2>2
  <2>4. HasMost(m - 1)
    BY <1>1, <2>3, Zenon
  <2>5. \A i : i \in 1 .. m <=> i \in 1 .. m - 1 \/ i = m
    BY <2>1, <2>2
  <2>6. CASE m \notin G
    <3>1. Upto(m) = Upto(m - 1)
      BY <2>5, <2>6
    <3> QED
      BY <2>1, <2>4, <3>1
  <2>7. CASE m \in G
    <3>1. \A i : i \in Upto(m) <=> i \in Upto(m - 1) \/ i = m
      BY <2>5, <2>7
    <3>2. \A i \in G : f[i] \in Nat
      OBVIOUS
    <3>3. CASE Upto(m - 1) = {}
      <4>1. \A j \in Upto(m) : f[m] >= f[j]
        BY <2>7, <3>1, <3>2, <3>3
      <4> QED
        BY <2>1, <3>1, <4>1, Zenon
    <3>4. CASE Upto(m - 1) # {}
      <4>1. PICK i \in Upto(m - 1) : \A j \in Upto(m - 1) : f[i] >= f[j]
        BY <2>4, <3>4, Zenon
      <4>2. i \in G /\ f[i] \in Nat /\ f[m] \in Nat
        BY <2>7, <3>2
      <4>3. CASE f[i] >= f[m]
        <5>1. \A j \in Upto(m) : f[i] >= f[j]
          BY <3>1, <4>1, <4>3, Zenon
        <5> QED
          BY <2>1, <3>1, <5>1, Zenon
      <4>4. CASE f[m] >= f[i]
        <5>1. \A j \in Upto(m) : f[m] >= f[j]
          BY <3>1, <3>2, <4>1, <4>2, <4>4
        <5> QED
          BY <2>1, <3>1, <5>1, Zenon
      <4> QED
        BY <4>2, <4>3, <4>4
    <3> QED
      BY <3>3, <3>4
  <2> QED
    BY <2>6, <2>7
<1>2. Bad = {}
  <2>1. Bad \in SUBSET Nat
    BY Zenon
  <2> QED
    BY <1>1, <2>1, LeastExists, Zenon
<1>3. HasMost(n)
  BY <1>2, Zenon
<1>4. Upto(n) = G
  OBVIOUS
<1> QED
  BY <1>3, <1>4, Zenon

(* The columns in which a scroll is looked for are those of a rectangle.   *)
LEMMA ColsAreOf ==
  ASSUME NEW w \in Nat, NEW h \in Nat, NEW rects \in Seq(Boxes(w, h)), rects # <<>>
  PROVE  \E m \in DOMAIN rects : DominantCols(rects) = <<rects[m].x, rects[m].x + rects[m].w>>
<1> DEFINE n == Len(rects)
           cols(i)  == <<rects[i].x, rects[i].x + rects[i].w>>
           same(i)  == {j \in DOMAIN rects : cols(j) = cols(i)}
           area(i)  == AreaOf(rects, same(i))
           groups   == {i \in DOMAIN rects : i = Min(same(i))}
           largest  == {i \in groups : \A j \in groups : area(i) >= area(j)}
           f == [i \in groups |-> area(i)]
<1>1. DOMAIN rects = 1 .. n /\ n \in Nat /\ n >= 1
  BY EmptySeq, LenProperties
<1>2. DominantCols(rects) = cols(Max(largest))
  BY DEF DominantCols, AreaOf
<1>3. \A i \in DOMAIN rects : area(i) \in Nat
  <2>1. \A i \in DOMAIN rects : same(i) \in SUBSET DOMAIN rects
    OBVIOUS
  <2> HIDE DEF same
  <2> QED
    BY <2>1, AreaIsNat
<1>4. groups # {} /\ groups \in SUBSET (1 .. n)
  <2>1. 1 \in same(1) /\ same(1) \in SUBSET Nat /\ same(1) \in SUBSET (1 .. n)
    BY <1>1
  <2>2. Min(same(1)) \in same(1)
    BY <2>1, MinOf
  <2>3. cols(Min(same(1))) = cols(1)
    BY <2>2, Zenon
  <2> HIDE DEF cols
  <2>4. same(Min(same(1))) = same(1)
    BY <2>3
  <2>5. Min(same(1)) \in groups
    BY <1>1, <2>1, <2>2, <2>4, Zenon
  <2> QED
    BY <1>1, <2>5
<1> HIDE DEF area
<1>5. f \in [groups -> Nat]
  BY <1>3
<1>6. PICK i \in groups : \A j \in groups : f[i] >= f[j]
  <2> HIDE DEF f, groups, n
  <2> QED
    BY <1>1, <1>4, <1>5, LargestExists
<1>7. i \in largest
  <2> HIDE DEF groups
  <2> QED
    BY <1>6
<1>8. largest \in SUBSET (0 .. n) /\ largest \subseteq DOMAIN rects
  <2> HIDE DEF groups, n
  <2>1. \A j \in 1 .. n : j \in 0 .. n
    BY <1>1
  <2>2. largest \subseteq 1 .. n
    BY <1>4
  <2> QED
    BY <1>1, <2>1, <2>2
<1>9. Max(largest) \in DOMAIN rects
  <2> HIDE DEF largest, groups, n
  <2>1. largest # {}
    BY <1>7
  <2>2. Max(largest) \in largest
    BY <1>1, <1>8, <2>1, MaxOf
  <2> QED
    BY <1>8, <2>2
<1> QED
  BY <1>2, <1>9

LEMMA ColsFacts ==
  ASSUME NEW w \in Nat, NEW h \in Nat, NEW rects \in Seq(Boxes(w, h)), rects # <<>>
  PROVE  LET cols == DominantCols(rects) IN
         cols[1] \in Nat /\ cols[2] \in Nat /\ cols[1] < cols[2] /\ cols[2] <= w
<1>1. PICK m \in DOMAIN rects : DominantCols(rects) = <<rects[m].x, rects[m].x + rects[m].w>>
  BY ColsAreOf
<1> DEFINE p == rects[m]
<1>2. p \in Boxes(w, h)
  BY LenProperties, ElementOfSeq
<1> HIDE DEF p
<1>3. p.x \in Nat /\ p.w \in Nat /\ p.w # 0 /\ p.x + p.w <= w
  BY <1>2 DEF Boxes
<1>4. DominantCols(rects)[1] = p.x /\ DominantCols(rects)[2] = p.x + p.w
  BY <1>1 DEF p
<1>5. p.x + p.w \in Nat /\ p.x < p.x + p.w
  BY <1>3
<1> QED
  BY <1>3, <1>4, <1>5

----------------------------------------------------------------------------
(* The parts of an update.                                                 *)
OnPicture(p, w, h) == /\ p.x \in Nat /\ p.y \in Nat /\ p.w \in Nat \ {0} /\ p.h \in Nat \ {0}
                      /\ p.x + p.w <= w /\ p.y + p.h <= h

(* What a client that has prev makes of them: the copy first, then the     *)
(* pixels, which are those of cur.                                         *)
Copied(prev, w, h, parts) ==
  IF \E i \in DOMAIN parts : parts[i].kind = "copy"
  THEN Shifted(prev, w, h, parts[1]) ELSE prev

Patched(prev, cur, w, h, parts) ==
  [y \in 0 .. h - 1 |-> [x \in 0 .. w - 1 |->
     IF \E i \in DOMAIN parts : parts[i].kind = "pixels" /\ In(parts[i], x, y)
     THEN cur[y][x] ELSE Copied(prev, w, h, parts)[y][x]]]

(* Wherever base is not yet cur, pixels are sent.                          *)
Suffice(base, cur, w, h, parts) ==
  \A y \in 0 .. h - 1, x \in 0 .. w - 1 :
    base[y][x] # cur[y][x] =>
      \E i \in DOMAIN parts : parts[i].kind = "pixels" /\ In(parts[i], x, y)

LEMMA FewToSeq ==
  /\ SetToSeq({}) = <<>>
  /\ \A c : SetToSeq({c}) = <<c>>
<1>1. SetToSeq({}) = <<>>
  <2>1. Cardinality({}) = 0
    BY FS_EmptySet
  <2>2. SetToSeq({}) = CHOOSE f \in [1 .. 0 -> {}] : IsInjective(f)
    BY <2>1 DEF SetToSeq
  <2>3. <<>> \in [1 .. 0 -> {}] /\ IsInjective(<<>>)
    BY DEF IsInjective
  <2>4. SetToSeq({}) \in [1 .. 0 -> {}]
    BY <2>2, <2>3, Zenon
  <2> QED
    BY <2>4
<1>2. ASSUME NEW c PROVE SetToSeq({c}) = <<c>>
  <2>1. Cardinality({c}) = 1
    BY FS_Singleton
  <2>2. SetToSeq({c}) = CHOOSE f \in [1 .. 1 -> {c}] : IsInjective(f)
    BY <2>1 DEF SetToSeq
  <2>3. <<c>> \in [1 .. 1 -> {c}] /\ IsInjective(<<c>>)
    BY DEF IsInjective
  <2>4. SetToSeq({c}) \in [1 .. 1 -> {c}]
    BY <2>2, <2>3, Zenon
  <2> HIDE <2>2
  <2> QED
    BY <2>4
<1> QED
  BY <1>1, <1>2

(* What is left over after the copies, as the parts of an update.          *)
AsParts(left) == [i \in 1 .. Len(left) |->
                    [kind |-> "pixels", x |-> left[i].x, y |-> left[i].y,
                     w |-> left[i].w, h |-> left[i].h, sx |-> 0, sy |-> 0]]

LEMMA LeftOver ==
  ASSUME NEW base, NEW cur, NEW w \in Nat, NEW h \in Nat
  PROVE  LET q == AsParts(ChangedRects(base, cur, w, h)) IN
         /\ q \in Seq({q[i] : i \in DOMAIN q})
         /\ \A i \in DOMAIN q : q[i].kind = "pixels" /\ OnPicture(q[i], w, h)
         /\ \A y \in 0 .. h - 1, x \in 0 .. w - 1 :
              base[y][x] # cur[y][x] => \E i \in DOMAIN q : In(q[i], x, y)
<1> DEFINE left == ChangedRects(base, cur, w, h)
           q == AsParts(left)
<1>1. left \in Seq(Boxes(w, h))
  BY RectsAre
<1>2. \A y \in 0 .. h - 1, x \in 0 .. w - 1 :
        base[y][x] # cur[y][x] => \E i \in DOMAIN left : In(left[i], x, y)
  BY DifferenceCovered
<1> HIDE DEF left
<1>3. DOMAIN left = 1 .. Len(left) /\ Len(left) \in Nat
  BY <1>1, LenProperties
<1>4. DOMAIN q = 1 .. Len(left)
  BY DEF AsParts
<1>5. ASSUME NEW i \in 1 .. Len(left)
      PROVE  /\ q[i].kind = "pixels" /\ OnPicture(q[i], w, h)
             /\ \A x, y : In(left[i], x, y) => In(q[i], x, y)
  <2>1. q[i] = [kind |-> "pixels", x |-> left[i].x, y |-> left[i].y,
                w |-> left[i].w, h |-> left[i].h, sx |-> 0, sy |-> 0]
    BY DEF AsParts
  <2>2. left[i] \in Boxes(w, h)
    BY <1>1, ElementOfSeq
  <2> DEFINE b == left[i]
             c == q[i]
  <2>3. c.kind = "pixels" /\ c.x = b.x /\ c.y = b.y /\ c.w = b.w /\ c.h = b.h
    BY <2>1
  <2> HIDE DEF b, c
  <2>4. b \in Boxes(w, h)
    BY <2>2 DEF b
  <2>5. /\ b.x \in Nat /\ b.y \in Nat /\ b.w \in Nat \ {0} /\ b.h \in Nat \ {0}
        /\ b.x + b.w <= w /\ b.y + b.h <= h
    BY <2>4 DEF Boxes
  <2>6. OnPicture(c, w, h)
    BY <2>3, <2>5 DEF OnPicture
  <2>7. \A x, y : In(b, x, y) => In(c, x, y)
    BY <2>3 DEF In
  <2> QED
    BY <2>3, <2>6, <2>7 DEF b, c
<1>6. q \in Seq({q[i] : i \in DOMAIN q})
  <2>1. q \in [1 .. Len(left) -> {q[i] : i \in DOMAIN q}]
    <3>1. q = [i \in 1 .. Len(left) |-> q[i]]
      BY DEF AsParts
    <3> HIDE DEF q
    <3> QED
      BY <1>4, <3>1
  <2> HIDE DEF q
  <2> QED
    BY <1>3, <2>1
<1> HIDE DEF q
<1>7. \A i \in DOMAIN q : q[i].kind = "pixels" /\ OnPicture(q[i], w, h)
  BY <1>4, <1>5
<1>8. \A y \in 0 .. h - 1, x \in 0 .. w - 1 :
        base[y][x] # cur[y][x] => \E i \in DOMAIN q : In(q[i], x, y)
  <2>1. SUFFICES ASSUME NEW y \in 0 .. h - 1, NEW x \in 0 .. w - 1, base[y][x] # cur[y][x]
                 PROVE  \E i \in DOMAIN q : In(q[i], x, y)
    OBVIOUS
  <2>2. PICK i \in DOMAIN left : In(left[i], x, y)
    BY <1>2, <2>1
  <2> QED
    BY <1>3, <1>4, <1>5, <2>2
<1> QED
  BY <1>6, <1>7, <1>8 DEF q, left

(* What the parts of an update do, whatever they are.                      *)
LEMMA PatchedIs ==
  ASSUME NEW w \in Nat, NEW h \in Nat, NEW Hue, NEW prev, NEW parts,
         NEW cur \in [0 .. h - 1 -> [0 .. w - 1 -> Hue]],
         Suffice(Copied(prev, w, h, parts), cur, w, h, parts)
  PROVE  Patched(prev, cur, w, h, parts) = cur
<1> DEFINE base == Copied(prev, w, h, parts)
<1>1. cur = [y \in 0 .. h - 1 |-> [x \in 0 .. w - 1 |-> cur[y][x]]]
  <2>1. \A y \in 0 .. h - 1 : cur[y] = [x \in 0 .. w - 1 |-> cur[y][x]]
    OBVIOUS
  <2>2. cur = [y \in 0 .. h - 1 |-> cur[y]]
    OBVIOUS
  <2>3. [y \in 0 .. h - 1 |-> cur[y]] = [y \in 0 .. h - 1 |-> [x \in 0 .. w - 1 |-> cur[y][x]]]
    BY <2>1
  <2> QED
    BY <2>2, <2>3
<1> DEFINE at(y, x) == IF \E i \in DOMAIN parts : parts[i].kind = "pixels" /\ In(parts[i], x, y)
                       THEN cur[y][x] ELSE base[y][x]
<1>2. Patched(prev, cur, w, h, parts) = [y \in 0 .. h - 1 |-> [x \in 0 .. w - 1 |-> at(y, x)]]
  BY DEF Patched
<1>3. \A y \in 0 .. h - 1, x \in 0 .. w - 1 : at(y, x) = cur[y][x]
  BY Zenon DEF Suffice
<1> HIDE DEF at
<1>4. \A y \in 0 .. h - 1 : [x \in 0 .. w - 1 |-> at(y, x)] = [x \in 0 .. w - 1 |-> cur[y][x]]
  BY <1>3
<1>5. [y \in 0 .. h - 1 |-> [x \in 0 .. w - 1 |-> at(y, x)]]
        = [y \in 0 .. h - 1 |-> [x \in 0 .. w - 1 |-> cur[y][x]]]
  BY <1>4
<1> QED
  BY <1>1, <1>2, <1>5

(* The parts lie on the picture, a copy comes first and alone and what    *)
(* it copies is right where it lands, and all is put right by them.        *)
Enough(prev, cur, w, h, parts) ==
  /\ Len(parts) \in Nat /\ DOMAIN parts = 1 .. Len(parts)
  /\ \A i \in DOMAIN parts : parts[i].kind \in {"copy", "pixels"} /\ OnPicture(parts[i], w, h)
  /\ \A i \in DOMAIN parts : parts[i].kind = "copy" =>
       /\ i = 1 /\ parts[i].sx \in Nat /\ parts[i].sx + parts[i].w <= w
       /\ parts[i].sy \in Nat /\ parts[i].sy + parts[i].h <= h
       /\ \A y \in 0 .. parts[i].h - 1, x \in 0 .. parts[i].w - 1 :
            prev[parts[i].sy + y][parts[i].sx + x] = cur[parts[i].y + y][parts[i].x + x]
  /\ Patched(prev, cur, w, h, parts) = cur

(* However two pictures differ, and whatever rows hash alike, the parts    *)
(* that send_frames makes of them lie on the picture, a copy is right      *)
(* where it lands, and a client that has the one picture has the other     *)
(* after them (find_scroll, dominant_cols, changed_rects).                 *)
THEOREM ComparingIsEnough ==
  ASSUME NEW Hue, NEW w \in Nat, NEW h \in Nat,
         NEW prev \in [0 .. h - 1 -> [0 .. w - 1 -> Hue]],
         NEW cur \in [0 .. h - 1 -> [0 .. w - 1 -> Hue]],
         NEW copyrect \in BOOLEAN, NEW key
  PROVE  Enough(prev, cur, w, h, Diff(prev, cur, w, h, copyrect, key))
<1> SUFFICES LET parts == Diff(prev, cur, w, h, copyrect, key) IN
             /\ Len(parts) \in Nat /\ DOMAIN parts = 1 .. Len(parts)
             /\ \A i \in DOMAIN parts : parts[i].kind \in {"copy", "pixels"} /\ OnPicture(parts[i], w, h)
             /\ \A i \in DOMAIN parts : parts[i].kind = "copy" =>
                  /\ i = 1 /\ parts[i].sx \in Nat /\ parts[i].sx + parts[i].w <= w
                  /\ parts[i].sy \in Nat /\ parts[i].sy + parts[i].h <= h
                  /\ \A y \in 0 .. parts[i].h - 1, x \in 0 .. parts[i].w - 1 :
                       prev[parts[i].sy + y][parts[i].sx + x] = cur[parts[i].y + y][parts[i].x + x]
             /\ Patched(prev, cur, w, h, parts) = cur
  BY DEF Enough
<1> DEFINE rects  == ChangedRects(prev, cur, w, h)
           top    == Min({rects[i].y : i \in DOMAIN rects})
           bottom == Max({rects[i].y + rects[i].h : i \in DOMAIN rects})
           cols   == DominantCols(rects)
           looks  == rects # <<>> /\ copyrect /\ bottom - top >= MinScroll
           scroll == IF looks THEN FindScroll(prev, cur, w, h, cols, key) ELSE {}
           copy(b) == [kind |-> "copy", x |-> cols[1], y |-> b.dst,
                       w |-> cols[2] - cols[1], h |-> b.n, sx |-> cols[1], sy |-> b.src]
           copies == {copy(b) : b \in scroll}
           base   == IF copies = {} THEN prev
                     ELSE Shifted(prev, w, h, CHOOSE c \in copies : TRUE)
           q      == AsParts(ChangedRects(base, cur, w, h))
           parts  == Diff(prev, cur, w, h, copyrect, key)
<1>1. parts = SetToSeq(copies) \o q
  BY DEF Diff, Ordered, AsParts
<1>2. /\ q \in Seq({q[i] : i \in DOMAIN q})
      /\ \A i \in DOMAIN q : q[i].kind = "pixels" /\ OnPicture(q[i], w, h)
      /\ \A y \in 0 .. h - 1, x \in 0 .. w - 1 :
           base[y][x] # cur[y][x] => \E i \in DOMAIN q : In(q[i], x, y)
  <2> HIDE DEF base
  <2> QED
    BY LeftOver, Zenon
<1>3. CASE scroll = {}
  <2>1. copies = {} /\ base = prev
    BY <1>3
  <2> HIDE DEF scroll, copies, base, q, parts
  <2>2. parts = q
    <3>1. parts = <<>> \o q
      BY <1>1, <2>1, FewToSeq
    <3> QED
      BY <1>2, <3>1, ConcatEmptySeq
  <2>3. ~\E i \in DOMAIN parts : parts[i].kind = "copy"
    BY <1>2, <2>2
  <2>4. Copied(prev, w, h, parts) = base
    BY <2>1, <2>3, Zenon DEF Copied
  <2>5. Suffice(base, cur, w, h, parts)
    BY <1>2, <2>2 DEF Suffice
  <2>6. Patched(prev, cur, w, h, parts) = cur
    <3>1. Suffice(Copied(prev, w, h, parts), cur, w, h, parts)
      BY <2>4, <2>5, Zenon
    <3> HIDE DEF cols, rects
    <3> QED
      BY <3>1, PatchedIs, Zenon
  <2>7. Len(parts) \in Nat /\ DOMAIN parts = 1 .. Len(parts)
    BY <1>2, <2>2, LenProperties
  <2> QED
    BY <1>2, <2>2, <2>3, <2>6, <2>7 DEF parts
<1>4. CASE scroll # {}
  <2>1. looks /\ scroll = FindScroll(prev, cur, w, h, cols, key)
    BY <1>4
  <2>2. rects \in Seq(Boxes(w, h))
    BY RectsAre
  <2>3. cols[1] \in Nat /\ cols[2] \in Nat /\ cols[1] < cols[2] /\ cols[2] <= w
    BY <2>1, <2>2, ColsFacts
  <2> HIDE DEF cols, rects
  <2>4. /\ \A b \in scroll : /\ b \in [dst : Nat, src : Nat, n : Nat \ {0}]
                              /\ b.dst + b.n <= h /\ b.src + b.n <= h
                              /\ RowsMatch(prev, cur, cols, b.src, b.dst, b.n)
        /\ \A b, c \in scroll : b = c
    <3>1. scroll = FindScroll(prev, cur, w, h, cols, key)
      BY <2>1
    <3> HIDE DEF scroll
    <3> QED
      BY <3>1, ScrollFacts
  <2> HIDE DEF scroll
  <2>5. PICK b \in scroll : scroll = {b}
    BY <1>4, <2>4
  <2>6. /\ b \in [dst : Nat, src : Nat, n : Nat \ {0}]
        /\ b.dst + b.n <= h /\ b.src + b.n <= h
        /\ RowsMatch(prev, cur, cols, b.src, b.dst, b.n)
    BY <2>4
  <2> DEFINE c == copy(b)
  <2>7. copies = {c}
    BY <2>5
  <2>8. base = Shifted(prev, w, h, c)
    <3>1. (CHOOSE d \in {c} : TRUE) = c
      OBVIOUS
    <3> HIDE DEF c, copies
    <3> QED
      BY <2>7, <3>1
  <2>9. /\ c.kind = "copy" /\ c.x = cols[1] /\ c.y = b.dst /\ c.w = cols[2] - cols[1]
        /\ c.h = b.n /\ c.sx = cols[1] /\ c.sy = b.src
    OBVIOUS
  <2> HIDE DEF c, copies, base, q, parts
  <2>10. b.dst \in Nat /\ b.src \in Nat /\ b.n \in Nat \ {0}
    BY <2>6
  <2>11. OnPicture(c, w, h)
    BY <2>3, <2>6, <2>9, <2>10 DEF OnPicture
  <2>12. /\ c.sx \in Nat /\ c.sx + c.w <= w /\ c.sy \in Nat /\ c.sy + c.h <= h
    BY <2>3, <2>6, <2>9, <2>10
  <2>13. ASSUME NEW y \in 0 .. c.h - 1, NEW x \in 0 .. c.w - 1
         PROVE  prev[c.sy + y][c.sx + x] = cur[c.y + y][c.x + x]
    <3>1. y \in 0 .. b.n - 1 /\ cols[1] + x \in cols[1] .. cols[2] - 1
      BY <2>3, <2>9
    <3>2. prev[b.src + y][cols[1] + x] = cur[b.dst + y][cols[1] + x]
      BY <2>6, <3>1 DEF RowsMatch
    <3> QED
      BY <2>9, <3>2
  <2>14. parts = <<c>> \o q
    BY <1>1, <2>7, FewToSeq
  <2>15. /\ parts[1] = c /\ 1 \in DOMAIN parts
         /\ \A i \in DOMAIN parts : i = 1 \/ \E j \in DOMAIN q : parts[i] = q[j]
         /\ \A j \in DOMAIN q : \E i \in DOMAIN parts : parts[i] = q[j]
         /\ Len(parts) \in Nat /\ DOMAIN parts = 1 .. Len(parts)
    <3> DEFINE S == {c} \cup {q[i] : i \in DOMAIN q}
    <3>1. <<c>> \in Seq(S) /\ q \in Seq(S) /\ Len(<<c>>) = 1 /\ DOMAIN <<c>> = {1} /\ <<c>>[1] = c
      <4>1. c \in S /\ {q[i] : i \in DOMAIN q} \subseteq S
        OBVIOUS
      <4>2. <<c>> \in Seq(S)
        <5> HIDE DEF S
        <5> QED
          BY <4>1
      <4>3. q \in Seq(S)
        <5> DEFINE T == {q[i] : i \in DOMAIN q}
        <5>1. q \in Seq(T) /\ T \subseteq S
          BY <1>2, <4>1
        <5> HIDE DEF S, T
        <5> QED
          BY <5>1
      <4> QED
        BY <4>2, <4>3
    <3> HIDE DEF S
    <3>2. \A i \in DOMAIN <<c>> : i \in DOMAIN parts /\ parts[i] = <<c>>[i]
      BY <2>14, <3>1, Concat
    <3>3. \A j \in DOMAIN q : 1 + j \in DOMAIN parts /\ parts[1 + j] = q[j]
      BY <2>14, <3>1, Concat
    <3>4. \A i \in DOMAIN parts : i \in DOMAIN <<c>> \/ \E j \in DOMAIN q : i = 1 + j
      <4>1. \A i \in DOMAIN parts : i \in DOMAIN <<c>> \/ \E j \in DOMAIN q : i = Len(<<c>>) + j
        <5> HIDE <3>1
        <5> DEFINE e == <<c>>
        <5>1. e \in Seq(S) /\ q \in Seq(S) /\ parts = e \o q
          BY <2>14, <3>1
        <5> HIDE DEF e
        <5>2. \A i \in DOMAIN parts : i \in DOMAIN e \/ \E j \in DOMAIN q : i = Len(e) + j
          BY <5>1, Concat
        <5> QED
          BY <5>2 DEF e
      <4> QED
        BY <3>1, <4>1
    <3>5. Len(parts) \in Nat /\ DOMAIN parts = 1 .. Len(parts)
      <4>1. parts \in Seq(S)
        BY <2>14, <3>1, Concat
      <4> QED
        BY <4>1, LenProperties
    <3>6. 1 \in DOMAIN parts /\ parts[1] = c
      <4>1. 1 \in DOMAIN <<c>>
        BY <3>1
      <4> QED
        BY <3>1, <3>2, <4>1, Zenon
    <3>7. ASSUME NEW i \in DOMAIN parts PROVE i = 1 \/ \E j \in DOMAIN q : parts[i] = q[j]
      <4>1. i \in DOMAIN <<c>> => i = 1
        BY <3>1
      <4>2. CASE \E j \in DOMAIN q : i = 1 + j
        BY <3>3, <4>2, Zenon
      <4> QED
        BY <3>4, <4>1, <4>2, Zenon
    <3>8. ASSUME NEW j \in DOMAIN q PROVE \E i \in DOMAIN parts : parts[i] = q[j]
      <4> DEFINE i == 1 + j
      <4>1. i \in DOMAIN parts /\ parts[i] = q[j]
        BY <3>3
      <4> HIDE DEF i
      <4> QED
        BY <4>1
    <3> QED
      BY <3>5, <3>6, <3>7, <3>8, Zenon
  <2>16. \A i \in DOMAIN parts : parts[i].kind \in {"copy", "pixels"} /\ OnPicture(parts[i], w, h)
    <3> SUFFICES ASSUME NEW i \in DOMAIN parts
                 PROVE  parts[i].kind \in {"copy", "pixels"} /\ OnPicture(parts[i], w, h)
      OBVIOUS
    <3>1. CASE i = 1
      <4>1. parts[i] = c
        BY <2>15, <3>1, Zenon
      <4> QED
        BY <2>9, <2>11, <4>1, Zenon
    <3>2. CASE \E j \in DOMAIN q : parts[i] = q[j]
      <4>1. \A j \in DOMAIN q : q[j].kind = "pixels" /\ OnPicture(q[j], w, h)
        BY <1>2, Zenon
      <4> QED
        BY <3>2, <4>1, Zenon
    <3> QED
      BY <2>15, <3>1, <3>2, Zenon
  <2>17. \A i \in DOMAIN parts : parts[i].kind = "copy" => i = 1 /\ parts[i] = c
    BY <1>2, <2>15
  <2>18. \E i \in DOMAIN parts : parts[i].kind = "copy"
    BY <2>9, <2>15, Zenon
  <2>19. Suffice(base, cur, w, h, parts)
    <3>1. SUFFICES ASSUME NEW y \in 0 .. h - 1, NEW x \in 0 .. w - 1, base[y][x] # cur[y][x]
                   PROVE  \E i \in DOMAIN parts : parts[i].kind = "pixels" /\ In(parts[i], x, y)
      BY DEF Suffice
    <3>2. PICK j \in DOMAIN q : In(q[j], x, y)
      BY <1>2, <3>1
    <3> QED
      BY <1>2, <2>15, <3>2, Zenon
  <2>20. Copied(prev, w, h, parts) = base
    BY <2>8, <2>15, <2>18, Zenon DEF Copied
  <2>21. Patched(prev, cur, w, h, parts) = cur
    <3>1. Suffice(Copied(prev, w, h, parts), cur, w, h, parts)
      BY <2>19, <2>20, Zenon
    <3> QED
      BY <3>1, PatchedIs, Zenon
  <2>22. Len(parts) \in Nat /\ DOMAIN parts = 1 .. Len(parts)
    BY <2>15
  <2> QED
    BY <2>12, <2>13, <2>16, <2>17, <2>21, <2>22, ZenonT(60) DEF parts
<1> QED
  BY <1>3, <1>4

----------------------------------------------------------------------------
(* The jobs.                                                               *)

(* What each half of a job works out.                                      *)
TileBytes(j) == IF HasCpixel(j.f) THEN EncodeTile(j.f, j.px, j.w, j.h)
                ELSE FlattenSeq([i \in DOMAIN j.px |-> Pixel(j.f, j.px[i])])
TileSeen(j, b) == IF HasCpixel(j.f) THEN ZrleTile(j.f, b, 1, j.w, j.h) ELSE Raw(j.f, b, j.w * j.h)

Parts(j) == Diff(j.prev, j.cur, j.w, j.h, j.copyrect, j.key)
Sent(j) == Update(Parts(j), j.cur, j.zrle)

Blank(j) == [p \in (0 .. j.w - 1) \X (0 .. j.h - 1) |-> <<p[1], p[2], 1>>]
Pointed(j, c) == Draw(c, Blank(j), j.at)
Lifted(j, c) == Restore(Pointed(j, c), Under(c, Blank(j), j.at))

Rolled(j, q) ==
  LET masks == <<j.mask>> \o q
      steps == 1 .. Len(masks) - 1
  IN  <<SumFunction([k \in steps |-> Notches(masks[k], masks[k + 1])]),
        UNION {Changes(masks[k], masks[k + 1]) : k \in steps}>>

(* A job has not begun, is half done, or done; and what is there is what   *)
(* its half works out.                                                     *)
Half(kinds, c, s) ==
  job.kind \in kinds =>
    /\ coded # Nothing => coded = c
    /\ seen # Nothing => coded # Nothing /\ seen = s

Jobs == [kind : {"tile"}, of : TileJobs] \cup [kind : {"frame"}, of : FrameJobs]
          \cup [kind : {"scroll"}, of : ScrollJobs] \cup [kind : {"tight"}, of : TightJobs]
          \cup [kind : {"shape"}, of : ShapeJobs] \cup [kind : {"wheel"}, of : WheelJobs]

TileInv == Half({"tile"}, TileBytes(job.of), <<TileSeen(job.of, TileBytes(job.of))>>)
FrameInv == Half({"frame", "scroll"}, <<Sent(job.of)>>,
                 <<Rectangles(job.of.prev, Sent(job.of), job.of.w, job.of.h)>>)
TightInv == Half({"tight"}, Writes(job.of, Fresh), Reads(job.of, Writes(job.of, Fresh), Fresh))
ShapeInv == Half({"shape"}, <<CursorShape(job.of.bm)>>,
                 <<Pointed(job.of, ReadCursor(CursorShape(job.of.bm))),
                   Lifted(job.of, ReadCursor(CursorShape(job.of.bm)))>>)
WheelInv == Half({"wheel"}, <<Clicks(job.of.deltas, job.of.mask)>>,
                 Rolled(job.of, Clicks(job.of.deltas, job.of.mask)))

IInv == job \in Jobs /\ TileInv /\ FrameInv /\ TightInv /\ ShapeInv /\ WheelInv


LEMMA InitIInv == Init => IInv
BY DEF Init, IInv, Jobs, TileInv, FrameInv, TightInv, ShapeInv, WheelInv, Half

LEMMA NextIInv == IInv /\ [Next]_vars => IInv'
<1> SUFFICES ASSUME IInv, [Next]_vars PROVE IInv'
  OBVIOUS
<1>0. job' = job
  BY DEF Next, vars, Encode, Decode, Compare, Redraw, OtherServer, ReadTight, SendShape, DrawShape, Turn, Roll
<1>1. job' \in Jobs
  BY <1>0 DEF IInv
<1>2. TileInv'
  <2> DEFINE c == TileBytes(job.of)
             s == <<TileSeen(job.of, TileBytes(job.of))>>
  <2>1. Half({"tile"}, c, s)
    BY DEF IInv, TileInv
  <2>2. CASE Encode
    <3>1. coded' = c /\ coded = Nothing /\ seen' = seen
      BY <2>2 DEF Encode, Starts, TileBytes
    <3> HIDE DEF c, s
    <3> QED
      BY <1>0, <2>1, <3>1 DEF TileInv, Half, c, s
  <2>3. CASE Decode
    <3>1. coded' = coded /\ coded = c /\ coded # Nothing /\ seen' = <<TileSeen(job.of, coded)>>
      BY <2>1, <2>3 DEF Decode, Ends, Half, TileSeen
    <3>2. seen' = s
      BY <3>1
    <3> HIDE DEF c, s
    <3> QED
      BY <1>0, <3>1, <3>2 DEF TileInv, Half, c, s
  <2>4. CASE job.kind # "tile"
    BY <1>0, <2>4 DEF TileInv, Half
  <2>5. CASE UNCHANGED vars
    BY <2>1, <2>5 DEF vars, TileInv, Half
  <2>6. \/ Encode \/ Decode \/ job.kind # "tile" \/ UNCHANGED vars
    BY DEF Next, Compare, Redraw, OtherServer, ReadTight, SendShape, DrawShape, Turn, Roll, Starts, Ends
  <2> QED
    BY <2>2, <2>3, <2>4, <2>5, <2>6
<1>3. FrameInv'
  <2> DEFINE c == <<Sent(job.of)>>
             s == <<Rectangles(job.of.prev, Sent(job.of), job.of.w, job.of.h)>>
  <2>1. Half({"frame", "scroll"}, c, s)
    BY DEF IInv, FrameInv
  <2>2. CASE Compare
    <3>1. coded' = c /\ coded = Nothing /\ seen' = seen
      BY <2>2 DEF Compare, Starts, Sent, Parts
    <3> HIDE DEF c, s
    <3> QED
      BY <1>0, <2>1, <3>1 DEF FrameInv, Half, c, s
  <2>3. CASE Redraw
    <3>1. /\ coded' = coded /\ coded = c /\ coded # Nothing
          /\ seen' = <<Rectangles(job.of.prev, coded[1], job.of.w, job.of.h)>>
      BY <2>1, <2>3 DEF Redraw, Ends, Half
    <3>2. seen' = s
      BY <3>1
    <3> HIDE DEF c, s
    <3> QED
      BY <1>0, <3>1, <3>2 DEF FrameInv, Half, c, s
  <2>4. CASE job.kind \notin {"frame", "scroll"}
    BY <1>0, <2>4 DEF FrameInv, Half
  <2>5. CASE UNCHANGED vars
    BY <2>1, <2>5 DEF vars, FrameInv, Half
  <2>6. \/ Compare \/ Redraw \/ job.kind \notin {"frame", "scroll"} \/ UNCHANGED vars
    BY DEF Next, Encode, Decode, OtherServer, ReadTight, SendShape, DrawShape, Turn, Roll, Starts, Ends
  <2> QED
    BY <2>2, <2>3, <2>4, <2>5, <2>6
<1>4. TightInv'
  <2> DEFINE c == Writes(job.of, Fresh)
             s == Reads(job.of, Writes(job.of, Fresh), Fresh)
  <2>1. Half({"tight"}, c, s)
    BY DEF IInv, TightInv
  <2>2. CASE OtherServer
    <3>1. coded' = c /\ coded = Nothing /\ seen' = seen
      BY <2>2 DEF OtherServer, Starts
    <3> HIDE DEF c, s
    <3> QED
      BY <1>0, <2>1, <3>1 DEF TightInv, Half, c, s
  <2>3. CASE ReadTight
    <3>1. coded' = coded /\ coded = c /\ coded # Nothing /\ seen' = Reads(job.of, coded, Fresh)
      BY <2>1, <2>3 DEF ReadTight, Ends, Half
    <3>2. seen' = s
      BY <3>1
    <3> HIDE DEF c, s
    <3> QED
      BY <1>0, <3>1, <3>2 DEF TightInv, Half, c, s
  <2>4. CASE job.kind # "tight"
    BY <1>0, <2>4 DEF TightInv, Half
  <2>5. CASE UNCHANGED vars
    BY <2>1, <2>5 DEF vars, TightInv, Half
  <2>6. \/ OtherServer \/ ReadTight \/ job.kind # "tight" \/ UNCHANGED vars
    BY DEF Next, Encode, Decode, Compare, Redraw, SendShape, DrawShape, Turn, Roll, Starts, Ends
  <2> QED
    BY <2>2, <2>3, <2>4, <2>5, <2>6
<1>5. ShapeInv'
  <2> DEFINE c == <<CursorShape(job.of.bm)>>
             s == <<Pointed(job.of, ReadCursor(CursorShape(job.of.bm))),
                    Lifted(job.of, ReadCursor(CursorShape(job.of.bm)))>>
  <2>1. Half({"shape"}, c, s)
    BY DEF IInv, ShapeInv
  <2>2. CASE SendShape
    <3>1. coded' = c /\ coded = Nothing /\ seen' = seen
      BY <2>2 DEF SendShape, Starts
    <3> HIDE DEF c, s
    <3> QED
      BY <1>0, <2>1, <3>1 DEF ShapeInv, Half, c, s
  <2>3. CASE DrawShape
    <3>1. coded' = coded /\ coded = c /\ coded # Nothing
      BY <2>1, <2>3 DEF DrawShape, Ends, Half
    <3>2. seen' = <<Pointed(job.of, ReadCursor(coded[1])), Lifted(job.of, ReadCursor(coded[1]))>>
      BY <2>3 DEF DrawShape, Pointed, Lifted, Blank, Screen
    <3>3. seen' = s
      BY <3>1, <3>2
    <3> HIDE DEF c, s
    <3> QED
      BY <1>0, <3>1, <3>3 DEF ShapeInv, Half, c, s
  <2>4. CASE job.kind # "shape"
    BY <1>0, <2>4 DEF ShapeInv, Half
  <2>5. CASE UNCHANGED vars
    BY <2>1, <2>5 DEF vars, ShapeInv, Half
  <2>6. \/ SendShape \/ DrawShape \/ job.kind # "shape" \/ UNCHANGED vars
    BY DEF Next, Encode, Decode, Compare, Redraw, OtherServer, ReadTight, Turn, Roll, Starts, Ends
  <2> QED
    BY <2>2, <2>3, <2>4, <2>5, <2>6
<1>6. WheelInv'
  <2> DEFINE c == <<Clicks(job.of.deltas, job.of.mask)>>
             s == Rolled(job.of, Clicks(job.of.deltas, job.of.mask))
  <2>1. Half({"wheel"}, c, s)
    BY DEF IInv, WheelInv
  <2>2. CASE Turn
    <3>1. coded' = c /\ coded = Nothing /\ seen' = seen
      BY <2>2 DEF Turn, Starts
    <3> HIDE DEF c, s
    <3> QED
      BY <1>0, <2>1, <3>1 DEF WheelInv, Half, c, s
  <2>3. CASE Roll
    <3>1. coded' = coded /\ coded = c /\ coded # Nothing
      BY <2>1, <2>3 DEF Roll, Ends, Half
    <3>2. seen' = Rolled(job.of, coded[1])
      BY <2>3 DEF Roll, Rolled
    <3>3. seen' = s
      BY <3>1, <3>2
    <3> HIDE DEF c, s
    <3> QED
      BY <1>0, <3>1, <3>3 DEF WheelInv, Half, c, s
  <2>4. CASE job.kind # "wheel"
    BY <1>0, <2>4 DEF WheelInv, Half
  <2>5. CASE UNCHANGED vars
    BY <2>1, <2>5 DEF vars, WheelInv, Half
  <2>6. \/ Turn \/ Roll \/ job.kind # "wheel" \/ UNCHANGED vars
    BY DEF Next, Encode, Decode, Compare, Redraw, OtherServer, ReadTight, SendShape, DrawShape, Starts, Ends
  <2> QED
    BY <2>2, <2>3, <2>4, <2>5, <2>6
<1> QED
  BY <1>1, <1>2, <1>3, <1>4, <1>5, <1>6 DEF IInv

LEMMA Halves == Spec => []IInv
<1>1. Init => IInv
  BY InitIInv
<1>2. IInv /\ [Next]_vars => IInv'
  BY NextIInv
<1> QED
  BY <1>1, <1>2, PTL DEF Spec

----------------------------------------------------------------------------
(* Tiles and wheels.                                                       *)

LEMMA JobIs ==
  ASSUME job \in Jobs
  PROVE  /\ job.kind = "tile" => job.of \in TileJobs
         /\ job.kind \in {"frame", "scroll"} => job.of \in FrameJobs \cup ScrollJobs
         /\ job.kind = "tight" => job.of \in TightJobs
         /\ job.kind = "shape" => job.of \in ShapeJobs
         /\ job.kind = "wheel" => job.of \in WheelJobs
BY DEF Jobs

(* A tile of the jobs, in its format.                                      *)
LEMMA TileIs ==
  ASSUME NEW j \in TileJobs
  PROVE  LET b == TileBytes(j)
         IN  /\ b \in Seq(Byte)
             /\ TileSeen(j, b) = [ok |-> TRUE, px |-> j.px, next |-> Len(b) + 1]
             /\ HasCpixel(j.f) => \A form \in Forms : Legal(form, Len(Palette(j.px, j.w, j.h))) =>
                                    Len(b) <= Len(Written(form, j.f, j.px, j.w, j.h))
<1>1. /\ j.f \in PixFmts /\ j.w \in 1..64 /\ j.h \in 1..64
      /\ j.px \in [1 .. j.w * j.h -> Rgb]
  BY CodecsAssumption
<1> DEFINE w == j.w
           h == j.h
           f == j.f
           px == j.px
           n == w * h
           b == TileBytes(j)
<1>2. w \in Nat \ {0} /\ w <= 64 /\ h \in Nat \ {0} /\ h <= 64
  <2>1. \A z \in 1..64 : z \in Nat \ {0} /\ z <= 64
    OBVIOUS
  <2> QED
    BY <1>1, <2>1, Zenon
<1>3. n \in Nat /\ n <= 4096
  <2> HIDE DEF w, h
  <2>1. w * h <= 64 * h
    BY <1>2, TimesUp
  <2>2. 64 * h <= 64 * 64
    BY <1>2
  <2> QED
    BY <1>2, <2>1, <2>2
<1>4. CASE HasCpixel(f)
  <2>1. Given(f, px, w, h)
    BY <1>1, <1>2, <1>4 DEF Given
  <2>2. b = EncodeTile(f, px, w, h)
    BY <1>4 DEF TileBytes
  <2>3. /\ Back(b, f, px, w, h)
        /\ \A form \in Forms : Legal(form, Len(Palette(px, w, h))) => Len(b) <= Len(Written(form, f, px, w, h))
    <3> HIDE DEF f, px, w, h
    <3> QED
      BY <1>3, <2>1, <2>2, ChoiceIs DEF n
  <2>4. b \in Seq(Byte)
    BY <2>3 DEF Back
  <2>5. TileSeen(j, b) = ZrleTile(f, b, 1, w, h)
    BY <1>4 DEF TileSeen
  <2> HIDE DEF b
  <2>6. Holds(b, 1, b)
    BY <2>4, HoldsItself
  <2>7. ZrleTile(f, b, 1, w, h) = [ok |-> TRUE, px |-> px, next |-> 1 + Len(b)]
    <3> DEFINE one == 1
    <3>1. one \in Nat \ {0} /\ Holds(b, one, b)
      BY <2>6
    <3> HIDE DEF one
    <3>2. ZrleTile(f, b, one, w, h) = [ok |-> TRUE, px |-> px, next |-> one + Len(b)]
      BY <2>3, <2>4, <3>1 DEF Back
    <3> QED
      BY <3>2 DEF one
  <2>8. 1 + Len(b) = Len(b) + 1
    BY <2>4, LenProperties
  <2> QED
    BY <2>3, <2>4, <2>5, <2>7, <2>8 DEF b
<1>5. CASE ~HasCpixel(f)
  <2>1. b = FlattenSeq([i \in DOMAIN px |-> Pixel(f, px[i])])
    BY <1>5 DEF TileBytes
  <2>2. TileSeen(j, b) = Raw(f, b, n)
    BY <1>5 DEF TileSeen
  <2>3. f \in PixFmts /\ px \in [1 .. n -> Rgb]
    BY <1>1
  <2> HIDE DEF f, px, w, h, n, b
  <2>4. b \in Seq(Byte) /\ Raw(f, b, n) = [ok |-> TRUE, next |-> Len(b) + 1, px |-> px]
    BY <1>3, <2>1, <2>3, RawBack
  <2> QED
    BY <1>5, <2>2, <2>4 DEF b, f, px
<1> QED
  BY <1>4, <1>5

LEMMA TilesArrive ==
  ASSUME IInv
  PROVE  TileArrives /\ Thrift /\ (job.kind = "tile" => TypeOK)
<1> SUFFICES ASSUME job.kind = "tile" PROVE TileArrives /\ Thrift /\ TypeOK
  BY DEF TileArrives, Thrift
<1> DEFINE j == job.of
           b == TileBytes(j)
<1>1. j \in TileJobs
  BY JobIs DEF IInv
<1>2. /\ coded # Nothing => coded = b
      /\ seen # Nothing => coded = b /\ seen = <<TileSeen(j, b)>>
  BY DEF IInv, TileInv, Half
<1> HIDE DEF j
<1>3. /\ b \in Seq(Byte)
      /\ TileSeen(j, b) = [ok |-> TRUE, px |-> j.px, next |-> Len(b) + 1]
      /\ HasCpixel(j.f) => \A form \in Forms : Legal(form, Len(Palette(j.px, j.w, j.h))) =>
                             Len(b) <= Len(Written(form, j.f, j.px, j.w, j.h))
  BY <1>1, TileIs
<1> HIDE DEF b
<1>4. TileArrives
  BY <1>2, <1>3 DEF TileArrives, j
<1>5. Thrift
  <2> SUFFICES ASSUME coded # Nothing, HasCpixel(j.f)
               PROVE  \A form \in Forms : Legal(form, Len(Palette(j.px, j.w, j.h))) =>
                        Len(coded) <= Len(Written(form, j.f, j.px, j.w, j.h))
    BY DEF Thrift, Forms, j
  <2> QED
    BY <1>2, <1>3
<1>6. coded # Nothing => \A i \in DOMAIN coded : coded[i] \in 0..255
  <2> SUFFICES ASSUME coded = b, NEW i \in DOMAIN b PROVE b[i] \in 0..255
    BY <1>2
  <2>1. b[i] \in Byte
    BY <1>3, LenProperties, ElementOfSeq
  <2> QED
    BY <2>1 DEF Byte
<1> QED
  BY <1>4, <1>5, <1>6 DEF TypeOK

LEMMA WheelsAdd ==
  ASSUME IInv
  PROVE  WheelAdds /\ (job.kind = "wheel" => TypeOK)
<1> SUFFICES ASSUME job.kind = "wheel" PROVE WheelAdds /\ TypeOK
  BY DEF WheelAdds
<1> DEFINE j == job.of
           deltas == j.deltas
           mask == j.mask
           q == Clicks(deltas, mask)
           carry == Carry(deltas)[Len(deltas)]
<1>1. deltas \in Seq(Int) /\ mask \in 0 .. 7
  BY JobIs, CodecsAssumption DEF IInv
<1>2. /\ coded # Nothing => coded = <<q>>
      /\ seen # Nothing => seen = Rolled(j, q)
  BY DEF IInv, WheelInv, Half
<1>3. /\ Alternates(mask, q) /\ Turned(mask, q) * Divisor + carry = SumFunction(deltas)
      /\ Abs(carry) < Divisor
  <2> HIDE DEF deltas, mask
  <2> QED
    BY <1>1, ClicksAdd
<1>4. Rolled(j, q)[1] = Turned(mask, q) /\ Rolled(j, q)[2] = {}
  <2> DEFINE masks == <<mask>> \o q
             steps == 1 .. Len(masks) - 1
  <2>1. /\ SumFunction([k \in steps |-> Notches(masks[k], masks[k + 1])]) = Turned(mask, q)
        /\ UNION {Changes(masks[k], masks[k + 1]) : k \in steps} = {}
    <3> HIDE DEF mask, q
    <3> QED
      BY <1>1, <1>3, NotchesSeen
  <2>2. Rolled(j, q) = <<SumFunction([k \in steps |-> Notches(masks[k], masks[k + 1])]),
                         UNION {Changes(masks[k], masks[k + 1]) : k \in steps}>>
    BY DEF Rolled
  <2> HIDE DEF masks, steps
  <2> QED
    BY <2>1, <2>2
<1>5. WheelAdds
  <2> SUFFICES ASSUME seen # Nothing
               PROVE  seen[1] * Divisor + carry = SumFunction(deltas) /\ Abs(carry) < Divisor /\ seen[2] = {}
    BY DEF WheelAdds
  <2> HIDE DEF q, carry
  <2> QED
    BY <1>2, <1>3, <1>4
<1>6. coded # Nothing => \A k \in DOMAIN coded[1] : coded[1][k] \in 0..31
  <2> HIDE DEF q
  <2> SUFFICES ASSUME coded = <<q>>, NEW k \in DOMAIN q PROVE q[k] \in 0..31
    BY <1>2
  <2>1. q \in Seq(0 .. 31)
    BY <1>3 DEF Alternates
  <2> QED
    BY <2>1, LenProperties, ElementOfSeq
<1> QED
  BY <1>5, <1>6 DEF TypeOK

----------------------------------------------------------------------------
(* Pointers.                                                               *)

LEMMA ShapesShow ==
  ASSUME IInv
  PROVE  ShapeShown /\ (job.kind = "shape" => TypeOK)
<1> SUFFICES ASSUME job.kind = "shape" PROVE ShapeShown /\ TypeOK
  BY DEF ShapeShown
<1> DEFINE j == job.of
           bm == j.bm
           at == j.at
           s == Blank(j)
           c == CursorShape(bm)
           up == Draw(ReadCursor(c), s, at)
           off == Restore(up, Under(ReadCursor(c), s, at))
           here(p) == {i \in Drawn(bm) : Lands(bm, i, at) = p}
<1>1. bm.w \in Nat /\ bm.h \in Nat /\ DOMAIN bm.px = 1 .. bm.w * bm.h
  BY JobIs, CodecsAssumption DEF IInv
<1>2. /\ coded # Nothing => coded = <<c>>
      /\ seen # Nothing => seen = <<up, off>>
  BY DEF IInv, ShapeInv, Half, Pointed, Lifted
<1>3. Screen = s /\ s = [p \in DOMAIN s |-> s[p]]
  BY DEF Screen, Blank
<1> HIDE DEF bm, at, s
<1>4. /\ \A p \in DOMAIN s : IF here(p) = {} THEN up[p] = s[p] ELSE \E i \in here(p) : up[p] = bm.px[i]
      /\ off = s
  BY <1>1, <1>3, ShapeIsShown
<1> HIDE DEF up, off, here
<1>5. ShapeShown
  <2> SUFFICES ASSUME seen # Nothing
               PROVE  /\ \A p \in DOMAIN Screen : IF here(p) = {} THEN seen[1][p] = Screen[p]
                                                  ELSE \E i \in here(p) : seen[1][p] = bm.px[i]
                      /\ seen[2] = Screen
    BY DEF ShapeShown, here, bm, at
  <2>1. seen[1] = up /\ seen[2] = off
    BY <1>2
  <2> QED
    BY <1>3, <1>4, <2>1
<1>6. \A k \in DOMAIN c.mask : c.mask[k] \in 0..255
  <2>1. c.mask = Mask(bm)
    BY DEF CursorShape
  <2> SUFFICES ASSUME NEW k \in DOMAIN Mask(bm) PROVE Mask(bm)[k] \in 0..255
    BY <2>1
  <2> DEFINE row == (k - 1) \div Stride(bm.w)
             P   == {e \in 0 .. 7 : /\ 8 * ((k - 1) % Stride(bm.w)) + e < bm.w
                                   /\ row * bm.w + (8 * ((k - 1) % Stride(bm.w)) + e) + 1 \in Drawn(bm)}
  <2>2. Mask(bm)[k] = SumFunction(BitsOf(P))
    BY <1>1, MaskIs
  <2> HIDE DEF P
  <2> QED
    BY <2>2, EightBits
<1>7. coded # Nothing => \A k \in DOMAIN coded[1].mask : coded[1].mask[k] \in 0..255
  <2> HIDE DEF c
  <2>1. coded # Nothing => coded[1] = c
    BY <1>2
  <2> QED
    BY <1>6, <2>1
<1> QED
  BY <1>5, <1>7 DEF TypeOK

----------------------------------------------------------------------------
(* Pictures.                                                               *)

(* Pictures, and a picture that is another one's at some of its places.    *)
Pictures(w, h) == [0 .. h - 1 -> [0 .. w - 1 -> Rgb]]

Over(s, cur, w, h, A) ==
  [y \in 0 .. h - 1 |-> [x \in 0 .. w - 1 |-> IF <<y, x>> \in A THEN cur[y][x] ELSE s[y][x]]]

Places(x, y, w, h) == (y .. y + h - 1) \X (x .. x + w - 1)

LEMMA SamePicture ==
  ASSUME NEW w, NEW h, NEW a \in Pictures(w, h), NEW b \in Pictures(w, h),
         \A y \in 0 .. h - 1, x \in 0 .. w - 1 : a[y][x] = b[y][x]
  PROVE  a = b
<1> DEFINE D == 0 .. w - 1
           E == 0 .. h - 1
<1>1. a \in [E -> [D -> Rgb]] /\ b \in [E -> [D -> Rgb]] /\ \A y \in E, x \in D : a[y][x] = b[y][x]
  BY DEF Pictures
<1> HIDE DEF D, E
<1>2. ASSUME NEW y \in E PROVE a[y] = b[y]
  <2>1. a[y] \in [D -> Rgb] /\ b[y] \in [D -> Rgb] /\ \A x \in D : a[y][x] = b[y][x]
    BY <1>1
  <2> DEFINE p == a[y]
             q == b[y]
  <2> HIDE DEF p, q
  <2>2. p \in [D -> Rgb] /\ q \in [D -> Rgb] /\ \A x \in D : p[x] = q[x]
    BY <2>1 DEF p, q
  <2>3. p = q
    BY <2>2
  <2> QED
    BY <2>3 DEF p, q
<1> QED
  BY <1>1, <1>2

LEMMA OverIs ==
  ASSUME NEW w, NEW h, NEW s \in Pictures(w, h), NEW cur \in Pictures(w, h), NEW A
  PROVE  /\ Over(s, cur, w, h, A) \in Pictures(w, h)
         /\ \A y \in 0 .. h - 1, x \in 0 .. w - 1 :
              Over(s, cur, w, h, A)[y][x] = IF <<y, x>> \in A THEN cur[y][x] ELSE s[y][x]
<1>1. \A y \in 0 .. h - 1, x \in 0 .. w - 1 : cur[y][x] \in Rgb /\ s[y][x] \in Rgb
  BY DEF Pictures
<1> DEFINE at(y, x) == IF <<y, x>> \in A THEN cur[y][x] ELSE s[y][x]
<1>2. \A y \in 0 .. h - 1, x \in 0 .. w - 1 : at(y, x) \in Rgb
  BY <1>1
<1>3. Over(s, cur, w, h, A) = [y \in 0 .. h - 1 |-> [x \in 0 .. w - 1 |-> at(y, x)]]
  BY DEF Over
<1> HIDE DEF at
<1>4. [y \in 0 .. h - 1 |-> [x \in 0 .. w - 1 |-> at(y, x)]] \in Pictures(w, h)
  BY <1>2 DEF Pictures
<1>5. \A y \in 0 .. h - 1, x \in 0 .. w - 1 : Over(s, cur, w, h, A)[y][x] = at(y, x)
  BY <1>3
<1> QED
  BY <1>3, <1>4, <1>5 DEF at

LEMMA OverNone ==
  ASSUME NEW w, NEW h, NEW s \in Pictures(w, h), NEW cur \in Pictures(w, h)
  PROVE  Over(s, cur, w, h, {}) = s
<1> DEFINE e == {}
           a == Over(s, cur, w, h, e)
<1>1. \A p : p \notin e
  OBVIOUS
<1> HIDE DEF e
<1>2. a \in Pictures(w, h) /\ \A y \in 0 .. h - 1, x \in 0 .. w - 1 :
        a[y][x] = IF <<y, x>> \in e THEN cur[y][x] ELSE s[y][x]
  BY OverIs
<1> HIDE DEF a
<1>3. \A y \in 0 .. h - 1, x \in 0 .. w - 1 : a[y][x] = s[y][x]
  BY <1>1, <1>2, Zenon
<1>4. a = s
  BY <1>2, <1>3, SamePicture
<1> QED
  BY <1>4 DEF a, e

LEMMA OverTwice ==
  ASSUME NEW w, NEW h, NEW s \in Pictures(w, h), NEW cur \in Pictures(w, h), NEW A, NEW B
  PROVE  Over(Over(s, cur, w, h, A), cur, w, h, B) = Over(s, cur, w, h, A \cup B)
<1> DEFINE a == Over(s, cur, w, h, A)
           b == Over(a, cur, w, h, B)
           c == Over(s, cur, w, h, A \cup B)
<1>1. a \in Pictures(w, h) /\ \A y \in 0 .. h - 1, x \in 0 .. w - 1 :
        a[y][x] = IF <<y, x>> \in A THEN cur[y][x] ELSE s[y][x]
  BY OverIs
<1>2. c \in Pictures(w, h) /\ \A y \in 0 .. h - 1, x \in 0 .. w - 1 :
        c[y][x] = IF <<y, x>> \in A \cup B THEN cur[y][x] ELSE s[y][x]
  BY OverIs
<1> HIDE DEF a, c
<1>3. b \in Pictures(w, h) /\ \A y \in 0 .. h - 1, x \in 0 .. w - 1 :
        b[y][x] = IF <<y, x>> \in B THEN cur[y][x] ELSE a[y][x]
  BY <1>1, OverIs
<1> HIDE DEF b
<1>4. ASSUME NEW y \in 0 .. h - 1, NEW x \in 0 .. w - 1 PROVE b[y][x] = c[y][x]
  <2> DEFINE p == <<y, x>>
  <2>1. /\ a[y][x] = IF p \in A THEN cur[y][x] ELSE s[y][x]
        /\ b[y][x] = IF p \in B THEN cur[y][x] ELSE a[y][x]
        /\ c[y][x] = IF p \in A \cup B THEN cur[y][x] ELSE s[y][x]
    BY <1>1, <1>2, <1>3, Zenon
  <2> HIDE DEF p
  <2> QED
    BY <2>1
<1>5. b = c
  BY <1>2, <1>3, <1>4, SamePicture
<1> QED
  BY <1>5 DEF a, b, c

Inside(W, H, x, y, w, h) ==
  /\ W \in Nat /\ H \in Nat
  /\ x \in Nat /\ y \in Nat /\ w \in Nat \ {0} /\ h \in Nat \ {0} /\ x + w <= W /\ y + h <= H

(* A block of a picture, drawn on another one.                             *)
LEMMA BlockDrawn ==
  ASSUME NEW W, NEW H, NEW s \in Pictures(W, H), NEW cur \in Pictures(W, H),
         NEW x, NEW y, NEW w, NEW h, Inside(W, H, x, y, w, h)
  PROVE  /\ Block(cur, x, y, w, h) \in [1 .. w * h -> Rgb]
         /\ Put(s, x, y, w, h, Block(cur, x, y, w, h)) = Over(s, cur, W, H, Places(x, y, w, h))
<1> DEFINE n == w * h
           B == Block(cur, x, y, w, h)
<1>0. W \in Nat /\ H \in Nat /\ x \in Nat /\ y \in Nat /\ w \in Nat \ {0} /\ h \in Nat \ {0} /\ x + w <= W /\ y + h <= H
  BY DEF Inside
<1>1. n \in Nat /\ B = [i \in 1 .. n |-> cur[y + (i - 1) \div w][x + ((i - 1) % w)]]
  BY <1>0 DEF Block
<1>2. ASSUME NEW i \in 1 .. n
      PROVE  cur[y + (i - 1) \div w][x + ((i - 1) % w)] \in Rgb
  <2> DEFINE j == i - 1
             a == j \div w
             b == j % w
  <2>1. j \in 0 .. n - 1
    BY <1>1
  <2> HIDE DEF j
  <2>2. a \in 0 .. h - 1 /\ b \in 0 .. w - 1
    BY <1>0, <2>1, RowCol
  <2> HIDE DEF a, b
  <2>3. y + a \in 0 .. H - 1 /\ x + b \in 0 .. W - 1
    BY <1>0, <2>2
  <2>4. cur[y + a][x + b] \in Rgb
    BY <2>3 DEF Pictures
  <2> QED
    BY <2>4 DEF a, b, j
<1>3. B \in [1 .. n -> Rgb]
  BY <1>1, <1>2
<1> DEFINE at(row, col) == IF row \in y .. y + h - 1 /\ col \in x .. x + w - 1
                           THEN B[(row - y) * w + (col - x) + 1] ELSE s[row][col]
<1>4. ASSUME NEW row \in y .. y + h - 1, NEW col \in x .. x + w - 1
      PROVE  B[(row - y) * w + (col - x) + 1] = cur[row][col]
  <2> DEFINE a == row - y
             b == col - x
             j == a * w + b
             i == j + 1
  <2>1. a \in Nat /\ a + 1 <= h /\ b \in 0 .. w - 1 /\ b \in Nat /\ b < w /\ y + a = row /\ x + b = col
    BY <1>0
  <2> HIDE DEF a, b
  <2>2. a * w \in Nat /\ (a + 1) * w <= h * w /\ (a + 1) * w = a * w + w /\ h * w = n
    <3>1. a + 1 \in Int /\ h \in Int /\ w \in Nat
      BY <1>0, <2>1
    <3>2. (a + 1) * w <= h * w
      BY <2>1, <3>1, TimesUp
    <3> QED
      BY <1>0, <2>1, <3>2
  <2>3. j \in Nat /\ j <= n - 1
    <3> DEFINE c == a * w
               d == h * w
    <3>1. c \in Nat /\ c + w <= d /\ d = n
      BY <2>2
    <3> HIDE DEF c, d, n
    <3>2. c + b \in Nat /\ c + b <= n - 1
      BY <1>0, <1>1, <2>1, <3>1
    <3> QED
      BY <3>2 DEF c
  <2>4. j \div w = a /\ j % w = b
    <3>1. w \in Nat \ {0} /\ a \in Int /\ b \in 0 .. w - 1
      BY <1>0, <2>1
    <3> QED
      BY <3>1, DivMod
  <2> HIDE DEF j, n
  <2>5. i \in 1 .. n /\ i - 1 = j
    BY <1>1, <2>3
  <2> HIDE DEF i
  <2>6. B[i] = cur[y + (i - 1) \div w][x + ((i - 1) % w)]
    BY <1>1, <2>5
  <2>7. B[i] = cur[row][col]
    BY <2>1, <2>4, <2>5, <2>6
  <2> QED
    BY <2>7 DEF a, b, i, j
<1>5. Put(s, x, y, w, h, B) = [row \in 0 .. H - 1 |-> [col \in 0 .. W - 1 |-> at(row, col)]]
  <2>1. DOMAIN s = 0 .. H - 1 /\ \A row \in 0 .. H - 1 : DOMAIN s[row] = 0 .. W - 1
    BY DEF Pictures
  <2>2. Put(s, x, y, w, h, B) = [row \in DOMAIN s |-> [col \in DOMAIN s[row] |-> at(row, col)]]
    BY DEF Put
  <2> HIDE DEF at, B
  <2> QED
    BY <2>1, <2>2
<1>6. Over(s, cur, W, H, Places(x, y, w, h)) = [row \in 0 .. H - 1 |-> [col \in 0 .. W - 1 |-> at(row, col)]]
  <2> DEFINE of(row, col) == IF <<row, col>> \in Places(x, y, w, h) THEN cur[row][col] ELSE s[row][col]
  <2>1. ASSUME NEW row, NEW col PROVE of(row, col) = at(row, col)
    <3>1. <<row, col>> \in Places(x, y, w, h) <=> row \in y .. y + h - 1 /\ col \in x .. x + w - 1
      BY DEF Places
    <3> HIDE DEF B
    <3> QED
      BY <1>4, <3>1
  <2>2. Over(s, cur, W, H, Places(x, y, w, h)) = [row \in 0 .. H - 1 |-> [col \in 0 .. W - 1 |-> of(row, col)]]
    BY DEF Over
  <2> HIDE DEF of, at
  <2> QED
    BY <2>1, <2>2
<1> QED
  BY <1>3, <1>5, <1>6

----------------------------------------------------------------------------
(* Tiles of a rectangle.                                                   *)

(* The tiles of a rectangle: each is on it, and together they cover it.    *)
Side(n, at) == Min({Tile, n - at})

LEMMA SideIs ==
  ASSUME NEW n \in Nat, NEW at \in Nat, at < n
  PROVE  /\ Side(n, at) \in Nat \ {0} /\ Side(n, at) <= 64 /\ at + Side(n, at) <= n
         /\ \A x \in Nat : at <= x /\ x < at + Tile /\ x < n => x \in at .. at + Side(n, at) - 1
<1> DEFINE T == {Tile, n - at}
           m == Min(T)
<1>1. Tile \in Nat \ {0} /\ Tile <= 64
  BY ScrollAssumption, CodecsAssumption
<1>2. n - at \in Nat \ {0}
  OBVIOUS
<1>3. T \in SUBSET Nat /\ T # {}
  BY <1>1, <1>2
<1> HIDE DEF T
<1>4. m \in T /\ \A y \in T : m <= y
  BY <1>3, MinOf
<1>5. m = Side(n, at)
  BY DEF T, Side
<1> HIDE DEF m
<1>6. (m = Tile \/ m = n - at) /\ m <= Tile /\ m <= n - at
  BY <1>4 DEF T
<1>7. m \in Nat \ {0} /\ m <= 64 /\ at + m <= n
  BY <1>1, <1>2, <1>6
<1>8. ASSUME NEW x \in Nat, at <= x, x < at + Tile, x < n PROVE x \in at .. at + m - 1
  BY <1>1, <1>6, <1>7, <1>8
<1> QED
  BY <1>5, <1>7, <1>8

LEMMA Starting ==
  ASSUME NEW n \in Nat \ {0}
  PROVE  /\ Across(n) \in Nat \ {0}
         /\ \A k \in 0 .. Across(n) - 1 : k * Tile \in Nat /\ k * Tile < n
         /\ \A x \in 0 .. n - 1 : \E k \in 0 .. Across(n) - 1 : k * Tile <= x /\ x < k * Tile + Tile
<1> DEFINE B == Bands(n)
<1>1. Across(n) = B
  BY DEF Across, Bands
<1>2. /\ B \in Nat
      /\ \A k \in 1 .. B : /\ (k - 1) * Tile \in Nat /\ Edge(n, k) \in Nat
                           /\ (k - 1) * Tile < Edge(n, k) /\ Edge(n, k) <= n
      /\ \A x \in 0 .. n - 1 : \E k \in 1 .. B : x \in (k - 1) * Tile .. Edge(n, k) - 1
  BY BandFacts
<1> HIDE DEF B
<1>3. ASSUME NEW k \in 0 .. B - 1 PROVE k * Tile \in Nat /\ k * Tile < n
  <2> DEFINE j == k + 1
  <2>1. j \in 1 .. B /\ j - 1 = k
    BY <1>2
  <2> HIDE DEF j
  <2>2. /\ (j - 1) * Tile \in Nat /\ Edge(n, j) \in Nat
        /\ (j - 1) * Tile < Edge(n, j) /\ Edge(n, j) <= n
    BY <1>2, <2>1
  <2> DEFINE a == (j - 1) * Tile
             e == Edge(n, j)
  <2> HIDE DEF a, e
  <2>3. a \in Nat /\ e \in Nat /\ a < e /\ e <= n
    BY <2>2 DEF a, e
  <2>4. a < n
    BY <2>3
  <2> QED
    BY <2>1, <2>3, <2>4 DEF a
<1>4. ASSUME NEW x \in 0 .. n - 1
      PROVE  \E k \in 0 .. B - 1 : k * Tile <= x /\ x < k * Tile + Tile
  <2> DEFINE k == x \div Tile
  <2>1. k \in Nat /\ k * Tile <= x /\ x < k * Tile + Tile
    BY Division
  <2> HIDE DEF k
  <2>2. k \in 0 .. B - 1
    <3> DEFINE a == k * Tile
               b == B * Tile
    <3>1. B * Tile <= n + Tile - 1 /\ n + Tile - 1 < B * Tile + Tile
      <4>1. n + Tile - 1 \in Nat /\ B = (n + Tile - 1) \div Tile
        BY ScrollAssumption DEF B, Bands
      <4> QED
        BY <4>1, Division
    <3>2. a \in Nat /\ b \in Nat /\ Tile \in Nat /\ (B <= k => b <= a)
      BY <1>2, <2>1, Times, ScrollAssumption
    <3>3. a <= x /\ n + Tile - 1 < b + Tile
      BY <2>1, <3>1
    <3> HIDE DEF a, b
    <3>4. ~(b <= a)
      BY <3>2, <3>3
    <3> QED
      BY <1>2, <2>1, <3>2, <3>4
  <2> QED
    BY <2>1, <2>2
<1>5. B # 0
  <2>1. \E k \in 1 .. B : 0 \in (k - 1) * Tile .. Edge(n, k) - 1
    BY <1>2
  <2> QED
    BY <1>2, <2>1
<1> QED
  BY <1>1, <1>2, <1>3, <1>4, <1>5

LEMMA TileFits ==
  ASSUME NEW w \in Nat \ {0}, NEW h \in Nat \ {0}, NEW t \in 0 .. TileCount(w, h) - 1
  PROVE  /\ TileCount(w, h) \in Nat
         /\ TileX(w, t) \in Nat /\ TileX(w, t) < w /\ TileY(w, t) \in Nat /\ TileY(w, t) < h
<1> DEFINE a == Across(w)
           b == Across(h)
<1>1. a \in Nat \ {0} /\ b \in Nat \ {0}
  BY Starting
<1>2. TileCount(w, h) = a * b
  BY DEF TileCount
<1>3. t \div a \in 0 .. b - 1 /\ t % a \in 0 .. a - 1
  <2>1. t \in 0 .. a * b - 1
    BY <1>2
  <2> HIDE DEF a, b
  <2> QED
    BY <1>1, <2>1, RowCol
<1>4. (t % a) * Tile \in Nat /\ (t % a) * Tile < w /\ (t \div a) * Tile \in Nat /\ (t \div a) * Tile < h
  BY <1>3, Starting
<1> QED
  BY <1>1, <1>2, <1>4 DEF TileX, TileY

LEMMA Tiled ==
  ASSUME NEW w \in Nat \ {0}, NEW h \in Nat \ {0}, NEW x \in 0 .. w - 1, NEW y \in 0 .. h - 1
  PROVE  \E t \in 0 .. TileCount(w, h) - 1 :
           /\ TileX(w, t) <= x /\ x < TileX(w, t) + Tile
           /\ TileY(w, t) <= y /\ y < TileY(w, t) + Tile
<1> DEFINE a == Across(w)
           b == Across(h)
<1>1. a \in Nat \ {0} /\ b \in Nat \ {0}
  BY Starting
<1>2. TileCount(w, h) = a * b
  BY DEF TileCount
<1>3. PICK c \in 0 .. a - 1 : c * Tile <= x /\ x < c * Tile + Tile
  BY Starting
<1>4. PICK r \in 0 .. b - 1 : r * Tile <= y /\ y < r * Tile + Tile
  BY Starting
<1> DEFINE t == r * a + c
<1> HIDE DEF a, b
<1>5. t \div a = r /\ t % a = c
  BY <1>1, DivMod
<1>6. t \in 0 .. a * b - 1
  <2>1. r \in Nat /\ r + 1 <= b /\ c \in Nat /\ c < a
    BY <1>1
  <2>2. r * a \in Nat /\ (r + 1) * a <= b * a /\ (r + 1) * a = r * a + a /\ b * a = a * b /\ a * b \in Nat
    <3>1. (r + 1) * a <= b * a
      BY <1>1, <2>1, TimesUp
    <3> QED
      BY <1>1, <2>1, <3>1
  <2> DEFINE p == r * a
             q == a * b
  <2>3. p \in Nat /\ q \in Nat /\ p + a <= q
    BY <2>2
  <2> HIDE DEF p, q
  <2>4. p + c \in 0 .. q - 1
    BY <1>1, <2>1, <2>3
  <2> QED
    BY <2>4 DEF p, q
<1> HIDE DEF t
<1>7. TileX(w, t) = c * Tile /\ TileY(w, t) = r * Tile
  BY <1>5 DEF TileX, TileY, a
<1> QED
  BY <1>2, <1>3, <1>4, <1>6, <1>7

----------------------------------------------------------------------------
(* One tile, and all of them.                                              *)

(* The tile t of a w by h rectangle at x, y, and where on the picture.     *)
TileOf(cur, x, y, w, h, t) ==
  Block(cur, x + TileX(w, t), y + TileY(w, t), Side(w, TileX(w, t)), Side(h, TileY(w, t)))
PlacesOf(x, y, w, h, t) ==
  Places(x + TileX(w, t), y + TileY(w, t), Side(w, TileX(w, t)), Side(h, TileY(w, t)))
CodeOf(cur, x, y, w, h, t) ==
  EncodeTile(Default, TileOf(cur, x, y, w, h, t), Side(w, TileX(w, t)), Side(h, TileY(w, t)))

LEMMA DefaultIs == Default \in PixFmts /\ HasCpixel(Default)
<1>1. Default.shift \in [1..3 -> {0, 8, 16, 24}] /\ \A i, j \in 1..3 : Default.shift[i] = Default.shift[j] => i = j
  BY DEF Default
<1>2. Default = [big |-> Default.big, shift |-> Default.shift] /\ Default.big \in BOOLEAN
  BY DEF Default
<1>3. Default \in PixFmts
  BY <1>1, <1>2 DEF PixFmts
<1> QED
  BY <1>3 DEF HasCpixel, Default

LEMMA OneTile ==
  ASSUME NEW W, NEW H, NEW cur \in Pictures(W, H), NEW x, NEW y, NEW w, NEW h,
         Inside(W, H, x, y, w, h), NEW t \in 0 .. TileCount(w, h) - 1
  PROVE  /\ Back(CodeOf(cur, x, y, w, h, t), Default, TileOf(cur, x, y, w, h, t),
                 Side(w, TileX(w, t)), Side(h, TileY(w, t)))
         /\ \A s \in Pictures(W, H) :
              Put(s, x + TileX(w, t), y + TileY(w, t), Side(w, TileX(w, t)), Side(h, TileY(w, t)),
                  TileOf(cur, x, y, w, h, t)) = Over(s, cur, W, H, PlacesOf(x, y, w, h, t))
<1> DEFINE tx == TileX(w, t)
           ty == TileY(w, t)
           tw == Side(w, tx)
           th == Side(h, ty)
           px == TileOf(cur, x, y, w, h, t)
           X  == x + tx
           Y  == y + ty
<1>1. tx \in Nat /\ tx < w /\ ty \in Nat /\ ty < h
  BY TileFits DEF Inside
<1>2. tw \in Nat \ {0} /\ tw <= 64 /\ tx + tw <= w /\ th \in Nat \ {0} /\ th <= 64 /\ ty + th <= h
  <2> HIDE DEF tx, ty
  <2> QED
    BY <1>1, SideIs DEF Inside
<1>3. px = Block(cur, X, Y, tw, th)
  BY DEF TileOf
<1>4. CodeOf(cur, x, y, w, h, t) = EncodeTile(Default, px, tw, th)
  BY DEF CodeOf
<1>5. PlacesOf(x, y, w, h, t) = Places(X, Y, tw, th)
  BY DEF PlacesOf
<1> HIDE DEF tw, th, px, tx, ty
<1>6. X \in Nat /\ Y \in Nat /\ X + tw <= W /\ Y + th <= H
  BY <1>1, <1>2 DEF Inside
<1> HIDE DEF X, Y
<1>7. W \in Nat /\ H \in Nat
  BY DEF Inside
<1>13. Inside(W, H, X, Y, tw, th)
  BY <1>2, <1>6, <1>7 DEF Inside
<1> DEFINE k == Block(cur, X, Y, tw, th)
<1>8. px \in [1 .. tw * th -> Rgb]
  <2>1. k \in [1 .. tw * th -> Rgb]
    BY <1>13, BlockDrawn
  <2> QED
    BY <1>3, <2>1
<1>9. \A s \in Pictures(W, H) : Put(s, X, Y, tw, th, px) = Over(s, cur, W, H, Places(X, Y, tw, th))
  <2> SUFFICES ASSUME NEW s \in Pictures(W, H)
               PROVE  Put(s, X, Y, tw, th, px) = Over(s, cur, W, H, Places(X, Y, tw, th))
    OBVIOUS
  <2>1. Put(s, X, Y, tw, th, k) = Over(s, cur, W, H, Places(X, Y, tw, th))
    BY <1>13, BlockDrawn
  <2>2. px = k
    BY <1>3
  <2> QED
    BY <2>1, <2>2, Zenon
<1>10. tw * th <= 4096
  <2>1. tw * th <= 64 * th
    BY <1>2, TimesUp
  <2>2. 64 * th <= 64 * 64
    BY <1>2
  <2>3. tw * th \in Nat
    BY <1>2
  <2> QED
    BY <1>2, <2>1, <2>2, <2>3
<1>11. Given(Default, px, tw, th)
  BY <1>2, <1>8, DefaultIs DEF Given
<1>12. Back(EncodeTile(Default, px, tw, th), Default, px, tw, th)
  BY <1>10, <1>11, ChoiceIs
<1> QED
  BY <1>4, <1>5, <1>9, <1>12 DEF tw, th, px, tx, ty, X, Y

(* The tiles together are the rectangle.                                   *)
LEMMA AllTiles ==
  ASSUME NEW W, NEW H, NEW s \in Pictures(W, H), NEW cur \in Pictures(W, H),
         NEW x, NEW y, NEW w, NEW h, Inside(W, H, x, y, w, h)
  PROVE  Over(s, cur, W, H, UNION {PlacesOf(x, y, w, h, t) : t \in 0 .. TileCount(w, h) - 1})
           = Over(s, cur, W, H, Places(x, y, w, h))
<1> DEFINE A == UNION {PlacesOf(x, y, w, h, t) : t \in 0 .. TileCount(w, h) - 1}
           B == Places(x, y, w, h)
<1>1. A \subseteq B
  <2> SUFFICES ASSUME NEW t \in 0 .. TileCount(w, h) - 1, NEW p \in PlacesOf(x, y, w, h, t)
               PROVE  p \in B
    OBVIOUS
  <2> DEFINE tx == TileX(w, t)
             ty == TileY(w, t)
             tw == Side(w, tx)
             th == Side(h, ty)
  <2>1. tx \in Nat /\ tx < w /\ ty \in Nat /\ ty < h
    BY TileFits DEF Inside
  <2>2. PlacesOf(x, y, w, h, t) = Places(x + tx, y + ty, tw, th)
    BY DEF PlacesOf
  <2> HIDE DEF tx, ty
  <2>3. tw \in Nat \ {0} /\ tx + tw <= w /\ th \in Nat \ {0} /\ ty + th <= h
    BY <2>1, SideIs DEF Inside
  <2> HIDE DEF tw, th
  <2>4. PICK r \in (y + ty) .. (y + ty) + th - 1, c \in (x + tx) .. (x + tx) + tw - 1 : p = <<r, c>>
    BY <2>2 DEF Places
  <2>5. r \in y .. y + h - 1 /\ c \in x .. x + w - 1
    BY <2>1, <2>3 DEF Inside
  <2> QED
    BY <2>4, <2>5 DEF Places
<1>2. B \subseteq A
  <2> SUFFICES ASSUME NEW r \in y .. y + h - 1, NEW c \in x .. x + w - 1 PROVE <<r, c>> \in A
    BY DEF Places
  <2> DEFINE a == c - x
             b == r - y
  <2>1. a \in 0 .. w - 1 /\ b \in 0 .. h - 1 /\ c = x + a /\ r = y + b
    BY DEF Inside
  <2> HIDE DEF a, b
  <2>2. PICK t \in 0 .. TileCount(w, h) - 1 : /\ TileX(w, t) <= a /\ a < TileX(w, t) + Tile
                                             /\ TileY(w, t) <= b /\ b < TileY(w, t) + Tile
    BY <2>1, Tiled DEF Inside
  <2> DEFINE tx == TileX(w, t)
             ty == TileY(w, t)
             tw == Side(w, tx)
             th == Side(h, ty)
  <2>3. tx \in Nat /\ tx < w /\ ty \in Nat /\ ty < h
    BY TileFits DEF Inside
  <2>4. tx <= a /\ a < tx + Tile /\ ty <= b /\ b < ty + Tile
    BY <2>2
  <2>5. PlacesOf(x, y, w, h, t) = Places(x + tx, y + ty, tw, th)
    BY DEF PlacesOf
  <2> HIDE DEF tx, ty
  <2>6. w \in Nat /\ h \in Nat /\ a \in Nat /\ a < w /\ b \in Nat /\ b < h
    BY <2>1 DEF Inside
  <2>7. a \in tx .. tx + tw - 1 /\ b \in ty .. ty + th - 1 /\ tw \in Nat /\ th \in Nat
    BY <2>3, <2>4, <2>6, SideIs
  <2> HIDE DEF tw, th
  <2>8. c \in (x + tx) .. (x + tx) + tw - 1 /\ r \in (y + ty) .. (y + ty) + th - 1
    BY <2>1, <2>3, <2>7 DEF Inside
  <2>9. <<r, c>> \in PlacesOf(x, y, w, h, t)
    BY <2>5, <2>8 DEF Places
  <2> QED
    BY <2>9
<1>3. A = B
  BY <1>1, <1>2
<1> QED
  BY <1>3

----------------------------------------------------------------------------
(* A rectangle of tiles.                                                   *)

(* The tiles of a rectangle, as they go out, and drawn as they come in.    *)
Code(cur, x, y, w, h) == FlattenSeq([k \in 1 .. TileCount(w, h) |-> CodeOf(cur, x, y, w, h, k - 1)])

LEMMA TilesAre ==
  ASSUME NEW cur, NEW p
  PROVE  Tiles(cur, p) = Code(cur, p.x, p.y, p.w, p.h)
  BY DEF Tiles, Code, CodeOf, TileOf, Side

LEMMA SomePicture ==
  ASSUME NEW W \in Nat, NEW H \in Nat \ {0}, NEW s \in Pictures(W, H)
  PROVE  s # Nothing
<1>1. 0 \in DOMAIN s
  BY DEF Pictures
<1>2. 0 \notin DOMAIN Nothing
  BY DEF Nothing
<1> QED
  BY <1>1, <1>2

LEMMA TilesDrawn ==
  ASSUME NEW W, NEW H, NEW cur \in Pictures(W, H), NEW s \in Pictures(W, H),
         NEW r, Inside(W, H, r.x, r.y, r.w, r.h), r.body = Code(cur, r.x, r.y, r.w, r.h)
  PROVE  /\ r.body \in Seq(Byte)
         /\ PutTiles(s, r) = Over(s, cur, W, H, Places(r.x, r.y, r.w, r.h))
<1> DEFINE x == r.x
           y == r.y
           w == r.w
           h == r.h
           N == TileCount(w, h)
           body == r.body
<1>1. N \in Nat \ {0} /\ W \in Nat /\ H \in Nat \ {0}
  <2>1. w \in Nat \ {0} /\ h \in Nat \ {0} /\ W \in Nat /\ H \in Nat \ {0}
    BY DEF Inside
  <2>2. Across(w) \in Nat \ {0} /\ Across(h) \in Nat \ {0}
    BY <2>1, Starting
  <2> QED
    BY <2>1, <2>2 DEF TileCount
<1> DEFINE code(t) == CodeOf(cur, x, y, w, h, t)
           px(t) == TileOf(cur, x, y, w, h, t)
           tx(t) == TileX(w, t)
           ty(t) == TileY(w, t)
           tw(t) == Side(w, TileX(w, t))
           th(t) == Side(h, TileY(w, t))
           part(t) == PlacesOf(x, y, w, h, t)
<1>2. \A t \in 0 .. N - 1 :
        /\ Back(code(t), Default, px(t), tw(t), th(t))
        /\ \A u \in Pictures(W, H) : Put(u, x + tx(t), y + ty(t), tw(t), th(t), px(t))
                                       = Over(u, cur, W, H, part(t))
  <2> SUFFICES ASSUME NEW t \in 0 .. TileCount(w, h) - 1
               PROVE  /\ Back(code(t), Default, px(t), tw(t), th(t))
                      /\ \A u \in Pictures(W, H) : Put(u, x + tx(t), y + ty(t), tw(t), th(t), px(t))
                                                     = Over(u, cur, W, H, part(t))
    OBVIOUS
  <2>1. Inside(W, H, x, y, w, h)
    OBVIOUS
  <2> HIDE DEF x, y, w, h
  <2> QED
    BY <2>1, OneTile
<1> DEFINE q == [k \in 1 .. N |-> code(k - 1)]
<1>3. body = FlattenSeq(q)
  BY DEF Code
<1> HIDE DEF code, px, tx, ty, tw, th, part, N, body
<1>4. q \in Seq(Seq(Byte)) /\ Len(q) = N /\ \A t \in 0 .. N - 1 : t + 1 \in 1 .. N /\ q[t + 1] = code(t)
  <2>1. \A t \in 0 .. N - 1 : code(t) \in Seq(Byte)
    BY <1>2 DEF Back
  <2>2. \A k \in 1 .. N : k - 1 \in 0 .. N - 1
    BY <1>1
  <2>3. q \in [1 .. N -> Seq(Byte)]
    BY <2>1, <2>2
  <2>4. q \in Seq(Seq(Byte)) /\ Len(q) = N
    <3>1. N \in Nat
      BY <1>1
    <3> HIDE DEF q
    <3> QED
      BY <2>3, <3>1, AsSeq
  <2>5. ASSUME NEW t \in 0 .. N - 1 PROVE t + 1 \in 1 .. N /\ q[t + 1] = code(t)
    <3> DEFINE k == t + 1
    <3>1. k \in 1 .. N /\ k - 1 = t
      BY <1>1
    <3> HIDE DEF k
    <3>2. q[k] = code(k - 1)
      BY <3>1
    <3> HIDE DEF q
    <3> QED
      BY <3>1, <3>2 DEF k
  <2> QED
    BY <2>4, <2>5
<1> HIDE DEF q
<1>5. PICK g \in [0 .. N -> Seq(Byte)] :
        g[0] = <<>> /\ (\A k \in 1 .. N : g[k] = g[k - 1] \o q[k]) /\ body = g[N]
  <2>1. PICK g \in [0 .. Len(q) -> Seq(Byte)] :
          g[0] = <<>> /\ (\A k \in 1 .. Len(q) : g[k] = g[k - 1] \o q[k]) /\ FlattenSeq(q) = g[Len(q)]
    BY <1>4, FlatChain
  <2> QED
    BY <1>3, <1>4, <2>1
<1>6. body \in Seq(Byte)
  BY <1>1, <1>5
<1> DEFINE one == 1
<1>7. one \in Nat \ {0} /\ one = 1
  OBVIOUS
<1> HIDE DEF one
<1>8. \A k \in 1 .. N :
        /\ Len(g[k - 1]) \in Nat /\ Len(g[k]) \in Nat /\ Len(q[k]) \in Nat
        /\ Holds(body, one + Len(g[k - 1]), q[k]) /\ Len(g[k]) = Len(g[k - 1]) + Len(q[k])
  <2>1. Holds(body, one, body)
    BY <1>6, <1>7, HoldsItself
  <2>2. g \in [0 .. Len(q) -> Seq(Byte)] /\ (\A k \in 1 .. Len(q) : g[k] = g[k - 1] \o q[k])
        /\ Holds(body, one, g[Len(q)])
    BY <1>4, <1>5, <2>1
  <2>3. \A k \in 1 .. Len(q) :
          /\ Len(g[k - 1]) \in Nat /\ Len(g[k]) \in Nat /\ Len(q[k]) \in Nat
          /\ Holds(body, one + Len(g[k - 1]), q[k])
    BY <1>4, <1>5, <1>6, <1>7, <2>2, FlatHolds
  <2>4. ASSUME NEW k \in 1 .. N PROVE Len(g[k]) = Len(g[k - 1]) + Len(q[k])
    <3> DEFINE u == g[k - 1]
               v == q[k]
    <3>1. u \in Seq(Byte) /\ v \in Seq(Byte) /\ g[k] = u \o v
      <4>1. k - 1 \in 0 .. N /\ k \in 1 .. Len(q)
        BY <1>1, <1>4
      <4> QED
        BY <1>4, <1>5, <4>1, ElementOfSeq
    <3> HIDE DEF u, v
    <3>2. Len(u \o v) = Len(u) + Len(v)
      BY <3>1, ConcatProperties
    <3> QED
      BY <3>1, <3>2 DEF u, v
  <2> QED
    BY <1>4, <2>3, <2>4
<1> DEFINE A(t) == UNION {part(i) : i \in 0 .. t - 1}
           V(t) == Over(s, cur, W, H, A(t))
           D(t) == [s |-> V(t), next |-> one + Len(g[t])]
           tile(d, t) ==
             LET a    == Min({Tile, r.w - TileX(r.w, t)})
                 b    == Min({Tile, r.h - TileY(r.w, t)})
                 read == ZrleTile(Default, r.body, d.next, a, b)
             IN  IF ~read.ok THEN [s |-> Nothing, next |-> 0]
                 ELSE [s |-> Put(d.s, r.x + TileX(r.w, t), r.y + TileY(r.w, t), a, b, read.px),
                       next |-> read.next]
           Step(f, t) ==
             IF t = 0 THEN [s |-> s, next |-> 1]
             ELSE LET d == f[t - 1] IN IF d.s = Nothing THEN d ELSE tile(d, t - 1)
           R == [t \in 0 .. N |-> D(t)]
<1>9. \A t \in 0 .. N : V(t) \in Pictures(W, H) /\ D(t).s = V(t) /\ D(t).s # Nothing
  <2> SUFFICES ASSUME NEW t \in 0 .. N PROVE V(t) \in Pictures(W, H) /\ V(t) # Nothing
    BY DEF D
  <2> DEFINE a == A(t)
  <2> HIDE DEF a
  <2>1. Over(s, cur, W, H, a) \in Pictures(W, H)
    BY OverIs
  <2> DEFINE v == Over(s, cur, W, H, a)
  <2> HIDE DEF v
  <2>2. v \in Pictures(W, H)
    BY <2>1 DEF v
  <2>3. v # Nothing
    BY <1>1, <2>2, SomePicture
  <2> QED
    BY <2>2, <2>3 DEF v, a
<1>10. D(0) = [s |-> s, next |-> 1]
  <2>1. A(0) = {}
    OBVIOUS
  <2>2. V(0) = s
    BY <2>1, OverNone
  <2>3. one + Len(g[0]) = 1
    BY <1>5, <1>7
  <2> HIDE DEF V
  <2> QED
    BY <2>2, <2>3
<1>11. ASSUME NEW t \in 0 .. N - 1 PROVE tile(D(t), t) = D(t + 1)
  <2> DEFINE j == one + Len(g[t])
             m == j + Len(q[t + 1])
  <2>1. j \in Nat \ {0} /\ Holds(body, j, code(t)) /\ m = one + Len(g[t + 1]) /\ q[t + 1] = code(t)
    <3> DEFINE k == t + 1
    <3>1. k \in 1 .. N /\ k - 1 = t
      BY <1>1
    <3> HIDE DEF k
    <3>2. /\ Len(g[t]) \in Nat /\ Len(q[k]) \in Nat
          /\ Holds(body, one + Len(g[t]), q[k]) /\ Len(g[k]) = Len(g[t]) + Len(q[k])
      BY <1>8, <3>1
    <3>3. q[k] = code(t)
      BY <1>4 DEF k
    <3> DEFINE u == Len(g[t])
               v == Len(q[k])
    <3> HIDE DEF u, v
    <3>4. u \in Nat /\ v \in Nat /\ Len(g[k]) = u + v
      BY <3>2 DEF u, v
    <3>5. one + u \in Nat \ {0} /\ (one + u) + v = one + (u + v)
      BY <1>7, <3>4
    <3> QED
      BY <3>2, <3>3, <3>4, <3>5 DEF u, v, k
  <2>2. /\ Back(code(t), Default, px(t), tw(t), th(t))
        /\ \A u \in Pictures(W, H) : Put(u, x + tx(t), y + ty(t), tw(t), th(t), px(t))
                                       = Over(u, cur, W, H, part(t))
    BY <1>2
  <2>3. ZrleTile(Default, body, j, tw(t), th(t)) = [ok |-> TRUE, px |-> px(t), next |-> m]
    <3>1. \A b \in Seq(Byte), i \in Nat \ {0} : Holds(b, i, code(t)) =>
            ZrleTile(Default, b, i, tw(t), th(t)) = [ok |-> TRUE, px |-> px(t), next |-> i + Len(code(t))]
      BY <2>2 DEF Back
    <3>2. j + Len(code(t)) = m
      BY <2>1
    <3> HIDE DEF j, m
    <3> QED
      BY <1>6, <2>1, <3>1, <3>2
  <2>4. A(t + 1) = A(t) \cup part(t)
    <3>1. 0 .. (t + 1) - 1 = (0 .. t - 1) \cup {t}
      BY <1>1
    <3> QED
      BY <3>1
  <2>5. Put(V(t), x + tx(t), y + ty(t), tw(t), th(t), px(t)) = V(t + 1)
    <3>1. V(t) \in Pictures(W, H)
      <4>1. t \in 0 .. N
        BY <1>1
      <4> HIDE DEF V, D
      <4> QED
        BY <1>9, <4>1
    <3>2. Put(V(t), x + tx(t), y + ty(t), tw(t), th(t), px(t)) = Over(V(t), cur, W, H, part(t))
      <4> HIDE DEF V
      <4> QED
        BY <2>2, <3>1
    <3>3. Over(V(t), cur, W, H, part(t)) = Over(s, cur, W, H, A(t) \cup part(t))
      <4> DEFINE a == A(t)
                 b == part(t)
      <4> HIDE DEF a, b
      <4>1. Over(Over(s, cur, W, H, a), cur, W, H, b) = Over(s, cur, W, H, a \cup b)
        BY OverTwice
      <4> QED
        BY <4>1 DEF a, b
    <3> HIDE DEF A
    <3> QED
      BY <2>4, <3>2, <3>3
  <2> DEFINE d == D(t)
  <2>6. d.s = V(t) /\ d.next = j
    OBVIOUS
  <2> DEFINE read == ZrleTile(Default, body, d.next, tw(t), th(t))
  <2>7. tile(d, t) = IF ~read.ok THEN [s |-> Nothing, next |-> 0]
                     ELSE [s |-> Put(d.s, x + tx(t), y + ty(t), tw(t), th(t), read.px),
                           next |-> read.next]
    <3> HIDE DEF d
    <3> QED
      BY DEF tw, th, tx, ty, body, Side
  <2> HIDE DEF d, tile, V, j, m
  <2>8. read = [ok |-> TRUE, px |-> px(t), next |-> m]
    BY <2>3, <2>6
  <2> HIDE DEF read
  <2>9. read.ok /\ read.px = px(t) /\ read.next = m
    BY <2>8
  <2>10. tile(d, t) = [s |-> V(t + 1), next |-> m]
    BY <2>5, <2>6, <2>7, <2>9
  <2> QED
    BY <2>1, <2>10 DEF d
<1>12. \A t \in 0 .. N : Step(R, t) = D(t)
  <2> SUFFICES ASSUME NEW t \in 0 .. N PROVE Step(R, t) = D(t)
    OBVIOUS
  <2>1. CASE t = 0
    <3> HIDE DEF D, R
    <3> QED
      BY <1>10, <2>1
  <2>2. CASE t # 0
    <3> DEFINE i == t - 1
    <3>1. i \in 0 .. N /\ i \in 0 .. N - 1 /\ i + 1 = t
      BY <1>1, <2>2
    <3>2. R[i] = D(i)
      BY <3>1
    <3> HIDE DEF R, D, tile, i
    <3>3. D(i).s # Nothing /\ tile(D(i), i) = D(t)
      BY <1>9, <1>11, <3>1
    <3>4. Step(R, t) = IF R[i].s = Nothing THEN R[i] ELSE tile(R[i], i)
      BY <2>2 DEF i
    <3> QED
      BY <3>2, <3>3, <3>4
  <2> QED
    BY <2>1, <2>2
<1> DEFINE drawn == CHOOSE f : f = [t \in 0 .. N |-> Step(f, t)]
<1>13. drawn = [t \in 0 .. N |-> Step(drawn, t)]
  <2>1. R = [t \in 0 .. N |-> Step(R, t)]
    <3> HIDE DEF D, Step
    <3> QED
      BY <1>12
  <2> HIDE DEF R, Step
  <2> QED
    BY <2>1
<1>14. PutTiles(s, r) = drawn[N].s
  BY DEF PutTiles, N
<1> HIDE DEF drawn
<1> DEFINE T == {t \in Nat : t <= N => drawn[t] = R[t]}
<1>15. 0 \in T
  <2>1. 0 \in 0 .. N
    BY <1>1
  <2>2. drawn[0] = Step(drawn, 0)
    <3> HIDE DEF Step
    <3> QED
      BY <1>13, <2>1
  <2>3. R[0] = D(0)
    <3> HIDE DEF D
    <3> QED
      BY <2>1
  <2>4. Step(drawn, 0) = D(0)
    <3> HIDE DEF D
    <3> QED
      BY <1>10
  <2> HIDE DEF R, Step, D
  <2> QED
    BY <2>2, <2>3, <2>4
<1>16. ASSUME NEW t \in 1 .. N, t - 1 \in T PROVE t \in T
  <2>1. t \in 0 .. N /\ t # 0 /\ t - 1 <= N /\ t \in Nat
    BY <1>1
  <2>2. drawn[t] = Step(drawn, t)
    <3> HIDE DEF Step
    <3> QED
      BY <1>13, <2>1
  <2>3. R[t] = D(t) /\ Step(R, t) = D(t)
    <3> HIDE DEF D, Step
    <3> QED
      BY <1>12, <2>1
  <2>4. drawn[t - 1] = R[t - 1]
    <3> HIDE DEF R
    <3> QED
      BY <1>16, <2>1
  <2>5. Step(drawn, t) = Step(R, t)
    <3> HIDE DEF R, tile
    <3> QED
      BY <2>4
  <2> HIDE DEF R, Step, D
  <2> QED
    BY <2>1, <2>2, <2>3, <2>5
<1>17. \A t \in 0 .. N : t \in T
  <2> HIDE DEF T
  <2>1. N \in Nat
    BY <1>1
  <2> QED
    BY <2>1, <1>15, <1>16, Climb
<1>18. drawn[N] = D(N)
  <2>1. N \in 0 .. N /\ N <= N
    BY <1>1
  <2>2. drawn[N] = R[N]
    <3> HIDE DEF R
    <3> QED
      BY <1>17, <2>1
  <2>3. R[N] = D(N)
    <3> HIDE DEF D
    <3> QED
      BY <2>1
  <2> QED
    BY <2>2, <2>3
<1>19. V(N) = Over(s, cur, W, H, Places(x, y, w, h))
  BY AllTiles DEF part, N
<1>20. D(N).s = V(N)
  <2> HIDE DEF V
  <2> QED
    OBVIOUS
<1> HIDE DEF V, D
<1> QED
  BY <1>6, <1>14, <1>18, <1>19, <1>20 DEF body

----------------------------------------------------------------------------
(* A rectangle.                                                            *)

(* A part of an update, as it goes out.                                    *)
Entry(p, cur, zrle) ==
  [kind |-> IF p.kind = "copy" THEN "copy" ELSE IF zrle THEN "zrle" ELSE "raw",
   x |-> p.x, y |-> p.y, w |-> p.w, h |-> p.h, sx |-> p.sx, sy |-> p.sy,
   body |-> Body(cur, p, zrle)]

LEMMA EntryIs ==
  ASSUME NEW p, NEW cur, NEW zrle
  PROVE  LET r == Entry(p, cur, zrle) IN
         /\ r.x = p.x /\ r.y = p.y /\ r.w = p.w /\ r.h = p.h /\ r.sx = p.sx /\ r.sy = p.sy
         /\ r.body = Body(cur, p, zrle)
         /\ r.kind = IF p.kind = "copy" THEN "copy" ELSE IF zrle THEN "zrle" ELSE "raw"
  BY DEF Entry

LEMMA PixelsDrawn ==
  ASSUME NEW W, NEW H, NEW cur \in Pictures(W, H), NEW s \in Pictures(W, H),
         NEW p, Inside(W, H, p.x, p.y, p.w, p.h), p.kind = "pixels", NEW zrle \in BOOLEAN
  PROVE  /\ Entry(p, cur, zrle).body \in Seq(Byte)
         /\ Rect(s, Entry(p, cur, zrle), W, H) = Over(s, cur, W, H, Places(p.x, p.y, p.w, p.h))
<1> DEFINE r == Entry(p, cur, zrle)
           drawn == Over(s, cur, W, H, Places(p.x, p.y, p.w, p.h))
<1>1. /\ r.x = p.x /\ r.y = p.y /\ r.w = p.w /\ r.h = p.h
      /\ r.body = Body(cur, p, zrle)
      /\ r.kind = IF zrle THEN "zrle" ELSE "raw"
  BY EntryIs
<1> HIDE DEF r, drawn
<1>2. ~(r.x + r.w > W \/ r.y + r.h > H)
  BY <1>1 DEF Inside
<1>3. CASE zrle
  <2>1. r.kind = "zrle" /\ r.body = Code(cur, r.x, r.y, r.w, r.h)
    BY <1>1, <1>3, TilesAre DEF Body
  <2>2. Inside(W, H, r.x, r.y, r.w, r.h)
    BY <1>1
  <2>3. r.body \in Seq(Byte) /\ PutTiles(s, r) = Over(s, cur, W, H, Places(r.x, r.y, r.w, r.h))
    BY <2>1, <2>2, TilesDrawn
  <2>4. Rect(s, r, W, H) = PutTiles(s, r)
    BY <1>2, <2>1 DEF Rect
  <2> QED
    BY <1>1, <2>3, <2>4 DEF r, drawn
<1>4. CASE ~zrle
  <2> DEFINE n == p.w * p.h
             B == Block(cur, p.x, p.y, p.w, p.h)
  <2>1. n \in Nat /\ p.w * p.h = r.w * r.h
    BY <1>1 DEF Inside
  <2>2. B \in [1 .. n -> Rgb] /\ Put(s, p.x, p.y, p.w, p.h, B) = drawn
    BY BlockDrawn DEF drawn
  <2>3. r.kind = "raw" /\ r.body = FlattenSeq([i \in 1 .. n |-> Pixel(Default, B[i])])
    BY <1>1, <1>4 DEF Body
  <2> HIDE DEF B, n
  <2>4. r.body = FlattenSeq([i \in DOMAIN B |-> Pixel(Default, B[i])])
    BY <2>2, <2>3
  <2>5. r.body \in Seq(Byte) /\ Raw(Default, r.body, n) = [ok |-> TRUE, next |-> Len(r.body) + 1, px |-> B]
    <3> DEFINE t == FlattenSeq([i \in DOMAIN B |-> Pixel(Default, B[i])])
    <3>1. t \in Seq(Byte) /\ Raw(Default, t, n) = [ok |-> TRUE, next |-> Len(t) + 1, px |-> B]
      BY <2>1, <2>2, DefaultIs, RawBack
    <3> HIDE DEF t
    <3> QED
      BY <2>4, <3>1 DEF t
  <2>6. Raw(Default, r.body, n).px = B
    BY <2>5
  <2>7. Rect(s, r, W, H) = Put(s, r.x, r.y, r.w, r.h, Raw(Default, r.body, r.w * r.h).px)
    BY <1>2, <2>3 DEF Rect
  <2>8. r.w * r.h = n
    BY <2>1 DEF n
  <2> QED
    BY <1>1, <2>2, <2>5, <2>6, <2>7, <2>8 DEF r, drawn
<1> QED
  BY <1>3, <1>4

(* A copy lands where it was found to belong.                              *)
LEMMA CopyDrawn ==
  ASSUME NEW W \in Nat, NEW H \in Nat, NEW cur, NEW s \in Pictures(W, H),
         NEW p, Inside(W, H, p.x, p.y, p.w, p.h), p.kind = "copy", NEW zrle,
         p.sx \in Nat, p.sx + p.w <= W, p.sy \in Nat, p.sy + p.h <= H
  PROVE  /\ Entry(p, cur, zrle).body = <<>>
         /\ Rect(s, Entry(p, cur, zrle), W, H) = Shifted(s, W, H, p)
         /\ Shifted(s, W, H, p) \in Pictures(W, H)
<1> DEFINE r == Entry(p, cur, zrle)
           C == CopyRect(s, r)
           Z == Shifted(s, W, H, p)
<1>1. /\ r.x = p.x /\ r.y = p.y /\ r.w = p.w /\ r.h = p.h /\ r.sx = p.sx /\ r.sy = p.sy
      /\ r.body = <<>> /\ r.kind = "copy"
  <2>1. Body(cur, p, zrle) = <<>>
    BY DEF Body
  <2> QED
    BY <2>1, EntryIs
<1> HIDE DEF r
<1>2. Rect(s, r, W, H) = C
  BY <1>1 DEF Rect, Inside
<1>3. p.x \in Nat /\ p.y \in Nat /\ p.w \in Nat /\ p.h \in Nat
  BY DEF Inside
<1> DEFINE in(y, x) == y \in p.y .. p.y + p.h - 1 /\ x \in p.x .. p.x + p.w - 1
           at(y, x) == IF in(y, x) THEN s[p.sy + y - p.y][p.sx + x - p.x] ELSE s[y][x]
           to(y, x) == IF in(y, x) THEN s[y - p.y + p.sy][x - p.x + p.sx] ELSE s[y][x]
<1>4. ASSUME NEW y \in 0 .. H - 1, NEW x \in 0 .. W - 1
      PROVE  at(y, x) = to(y, x) /\ to(y, x) \in Rgb
  <2>1. p.sy + y - p.y = y - p.y + p.sy /\ p.sx + x - p.x = x - p.x + p.sx
    BY <1>3
  <2>2. in(y, x) => y - p.y + p.sy \in 0 .. H - 1 /\ x - p.x + p.sx \in 0 .. W - 1
    BY <1>3
  <2> DEFINE a == y - p.y + p.sy
             b == x - p.x + p.sx
  <2> HIDE DEF a, b, in
  <2>3. in(y, x) => s[a][b] \in Rgb
    BY <2>2 DEF Pictures, a, b
  <2>4. s[y][x] \in Rgb
    BY DEF Pictures
  <2>5. at(y, x) = IF in(y, x) THEN s[a][b] ELSE s[y][x]
    BY <2>1 DEF a, b
  <2> QED
    BY <2>3, <2>4, <2>5 DEF a, b
<1>5. C = [y \in 0 .. H - 1 |-> [x \in 0 .. W - 1 |-> at(y, x)]]
  <2>1. DOMAIN s = 0 .. H - 1 /\ \A y \in 0 .. H - 1 : DOMAIN s[y] = 0 .. W - 1
    BY DEF Pictures
  <2>2. C = [y \in DOMAIN s |-> [x \in DOMAIN s[y] |-> at(y, x)]]
    BY <1>1 DEF CopyRect
  <2> HIDE DEF at
  <2> QED
    BY <2>1, <2>2
<1>6. Z = [y \in 0 .. H - 1 |-> [x \in 0 .. W - 1 |-> to(y, x)]]
  BY DEF Shifted
<1> HIDE DEF at, to
<1>7. C = Z
  BY <1>4, <1>5, <1>6
<1>8. Z \in Pictures(W, H)
  BY <1>4, <1>6 DEF Pictures
<1> HIDE DEF C, Z
<1> QED
  BY <1>1, <1>2, <1>7, <1>8 DEF r, Z

----------------------------------------------------------------------------
(* An update.                                                              *)

(* The parts of an update, drawn one after the other.                      *)
Fitting(parts, W, H) ==
  /\ Len(parts) \in Nat /\ DOMAIN parts = 1 .. Len(parts)
  /\ \A i \in DOMAIN parts :
       /\ parts[i].kind \in {"copy", "pixels"} /\ OnPicture(parts[i], W, H)
       /\ parts[i].kind = "copy" =>
            /\ i = 1 /\ parts[i].sx \in Nat /\ parts[i].sx + parts[i].w <= W
            /\ parts[i].sy \in Nat /\ parts[i].sy + parts[i].h <= H

LEMMA PartsSent ==
  ASSUME NEW parts, Len(parts) \in Nat, DOMAIN parts = 1 .. Len(parts), NEW cur, NEW zrle
  PROVE  LET u == Update(parts, cur, zrle) IN
         /\ DOMAIN u = DOMAIN parts /\ Len(u) = Len(parts)
         /\ \A k \in DOMAIN parts : u[k] = Entry(parts[k], cur, zrle)
<1> DEFINE n == Len(parts)
           u == Update(parts, cur, zrle)
           e(k) == Entry(parts[k], cur, zrle)
           S == {e(k) : k \in 1 .. n}
<1>1. u = [k \in 1 .. n |-> e(k)]
  BY DEF Update, Entry
<1> HIDE DEF u, e, n
<1>2. u \in [1 .. n -> S]
  BY <1>1
<1>3. n \in Nat /\ DOMAIN parts = 1 .. n
  BY DEF n
<1>4. \A k \in 1 .. n : u[k] = e(k)
  BY <1>1
<1> HIDE DEF S
<1>5. Len(u) = n /\ DOMAIN u = 1 .. n
  BY <1>2, <1>3, AsSeq
<1> QED
  BY <1>3, <1>4, <1>5 DEF u, e, n

LEMMA UpdateDrawn ==
  ASSUME NEW W \in Nat \ {0}, NEW H \in Nat \ {0}, NEW prev \in Pictures(W, H), NEW cur \in Pictures(W, H),
         NEW parts, Fitting(parts, W, H), NEW zrle \in BOOLEAN
  PROVE  Rectangles(prev, Update(parts, cur, zrle), W, H) = Patched(prev, cur, W, H, parts)
<1> DEFINE n == Len(parts)
           u == Update(parts, cur, zrle)
           base == Copied(prev, W, H, parts)
           copies(k) == parts[k].kind = "copy"
           draws(k) == parts[k].kind = "pixels"
           place(k) == Places(parts[k].x, parts[k].y, parts[k].w, parts[k].h)
<1>1. /\ n \in Nat /\ DOMAIN parts = 1 .. n
      /\ \A k \in 1 .. n : (copies(k) \/ draws(k)) /\ ~(copies(k) /\ draws(k)) /\ (copies(k) => k = 1)
  BY DEF Fitting
<1>2. Len(u) = n /\ \A k \in 1 .. n : u[k] = Entry(parts[k], cur, zrle)
  BY PartsSent DEF Fitting
<1> HIDE DEF n, u
<1>3. \A k \in 1 .. n : Inside(W, H, parts[k].x, parts[k].y, parts[k].w, parts[k].h)
  BY <1>1 DEF Fitting, OnPicture, Inside
<1>4. \A k \in 1 .. n, s \in Pictures(W, H) : draws(k) => Rect(s, u[k], W, H) = Over(s, cur, W, H, place(k))
  <2> SUFFICES ASSUME NEW k \in 1 .. n, NEW s \in Pictures(W, H), draws(k)
               PROVE  Rect(s, u[k], W, H) = Over(s, cur, W, H, place(k))
    OBVIOUS
  <2> DEFINE p == parts[k]
  <2>1. Inside(W, H, p.x, p.y, p.w, p.h) /\ p.kind = "pixels"
    BY <1>3
  <2> HIDE DEF p
  <2>2. Rect(s, Entry(p, cur, zrle), W, H) = Over(s, cur, W, H, Places(p.x, p.y, p.w, p.h))
    BY <2>1, PixelsDrawn
  <2> QED
    BY <1>2, <2>2 DEF p
<1>5. \A k \in 1 .. n : copies(k) => Rect(prev, u[k], W, H) = base /\ base \in Pictures(W, H)
  <2> SUFFICES ASSUME NEW k \in 1 .. n, copies(k)
               PROVE  Rect(prev, u[k], W, H) = base /\ base \in Pictures(W, H)
    OBVIOUS
  <2> DEFINE p == parts[k]
  <2>1. /\ Inside(W, H, p.x, p.y, p.w, p.h) /\ p.kind = "copy" /\ p = parts[1]
        /\ p.sx \in Nat /\ p.sx + p.w <= W /\ p.sy \in Nat /\ p.sy + p.h <= H
    BY <1>1, <1>3 DEF Fitting
  <2>2. base = Shifted(prev, W, H, p)
    <3>1. \E i \in DOMAIN parts : parts[i].kind = "copy"
      BY <1>1
    <3> QED
      BY <2>1, <3>1 DEF Copied
  <2> HIDE DEF p, base
  <2>3. Rect(prev, Entry(p, cur, zrle), W, H) = Shifted(prev, W, H, p) /\ Shifted(prev, W, H, p) \in Pictures(W, H)
    BY <2>1, CopyDrawn
  <2> QED
    BY <1>2, <2>2, <2>3 DEF p
<1>6. (\A k \in 1 .. n : ~copies(k)) => base = prev
  BY <1>1 DEF Copied
<1> HIDE DEF base
<1>7. base \in Pictures(W, H)
  <2>1. CASE \E k \in 1 .. n : copies(k)
    BY <1>5, <2>1
  <2>2. CASE \A k \in 1 .. n : ~copies(k)
    BY <1>6, <2>2
  <2> QED
    BY <2>1, <2>2
<1> DEFINE A(k) == UNION {place(i) : i \in {i \in 1 .. k : draws(i)}}
           V(k) == Over(base, cur, W, H, A(k))
           D(k) == IF k = 0 THEN prev ELSE V(k)
           Step(f, k) == IF k = 0 THEN prev
                         ELSE LET d == f[k - 1] IN IF d = Nothing THEN Nothing ELSE Rect(d, u[k], W, H)
           R == [k \in 0 .. n |-> D(k)]
<1>8. \A k \in 0 .. n : V(k) \in Pictures(W, H) /\ D(k) \in Pictures(W, H) /\ D(k) # Nothing
  <2> SUFFICES ASSUME NEW k \in 0 .. n PROVE V(k) \in Pictures(W, H) /\ D(k) # Nothing
    OBVIOUS
  <2> DEFINE a == A(k)
  <2> HIDE DEF a
  <2> DEFINE v == Over(base, cur, W, H, a)
  <2>1. v \in Pictures(W, H)
    BY <1>7, OverIs
  <2> HIDE DEF v
  <2>2. v # Nothing /\ prev # Nothing
    BY <2>1, SomePicture
  <2> QED
    BY <2>1, <2>2 DEF v, a
<1>9. A(0) = {} /\ V(0) = base
  <2>1. A(0) = {}
    OBVIOUS
  <2> QED
    BY <1>7, <2>1, OverNone
<1>10. ASSUME NEW k \in 1 .. n PROVE Rect(D(k - 1), u[k], W, H) = D(k)
  <2>1. k - 1 \in 0 .. n /\ k \in 0 .. n /\ k # 0 /\ 1 .. k = (1 .. k - 1) \cup {k}
    BY <1>1
  <2>2. D(k) = V(k)
    BY <2>1
  <2>3. CASE copies(k)
    <3>1. k = 1 /\ D(k - 1) = prev /\ ~draws(1)
      BY <1>1, <2>3
    <3>2. A(1) = {}
      BY <3>1
    <3>3. V(k) = base
      BY <1>7, <3>1, <3>2, OverNone
    <3> HIDE DEF D, V
    <3> QED
      BY <1>5, <2>2, <2>3, <3>1, <3>3
  <2>4. CASE draws(k)
    <3>1. D(k - 1) = V(k - 1)
      <4>1. CASE k # 1
        <5>1. k - 1 # 0
          BY <2>1, <4>1
        <5> QED
          BY <5>1
      <4>2. CASE k = 1
        <5>1. \A i \in 1 .. n : ~copies(i)
          BY <1>1, <2>4, <4>2
        <5>2. base = prev
          BY <1>6, <5>1
        <5>3. D(0) = prev
          OBVIOUS
        <5>4. k - 1 = 0
          BY <4>2
        <5> HIDE DEF V, D
        <5> QED
          BY <1>9, <5>2, <5>3, <5>4
      <4> QED
        BY <4>1, <4>2
    <3>2. A(k) = A(k - 1) \cup place(k)
      BY <2>1, <2>4
    <3>3. Rect(V(k - 1), u[k], W, H) = Over(V(k - 1), cur, W, H, place(k))
      <4>1. V(k - 1) \in Pictures(W, H)
        <5> HIDE DEF V, D
        <5> QED
          BY <1>8, <2>1
      <4> HIDE DEF V
      <4> QED
        BY <1>4, <2>4, <4>1
    <3>4. Over(V(k - 1), cur, W, H, place(k)) = Over(base, cur, W, H, A(k - 1) \cup place(k))
      <4> DEFINE a == A(k - 1)
                 b == place(k)
      <4> HIDE DEF a, b
      <4>1. Over(Over(base, cur, W, H, a), cur, W, H, b) = Over(base, cur, W, H, a \cup b)
        BY <1>7, OverTwice
      <4> QED
        BY <4>1 DEF a, b
    <3> HIDE DEF A, D
    <3> QED
      BY <2>2, <3>1, <3>2, <3>3, <3>4
  <2> QED
    BY <1>1, <2>3, <2>4
<1>11. \A k \in 0 .. n : Step(R, k) = D(k)
  <2> SUFFICES ASSUME NEW k \in 0 .. n PROVE Step(R, k) = D(k)
    OBVIOUS
  <2>1. CASE k = 0
    BY <2>1
  <2>2. CASE k # 0
    <3> DEFINE i == k - 1
    <3>1. i \in 0 .. n /\ k \in 1 .. n
      BY <1>1, <2>2
    <3>2. R[i] = D(i)
      BY <3>1
    <3>3. Rect(D(i), u[k], W, H) = D(k)
      <4> HIDE DEF D
      <4> QED
        BY <1>10, <3>1
    <3> HIDE DEF R, D, i
    <3>4. D(i) # Nothing
      BY <1>8, <3>1
    <3>5. Step(R, k) = IF R[i] = Nothing THEN Nothing ELSE Rect(R[i], u[k], W, H)
      BY <2>2 DEF i
    <3> QED
      BY <3>2, <3>3, <3>4, <3>5
  <2> QED
    BY <2>1, <2>2
<1> DEFINE drawn == CHOOSE f : f = [k \in 0 .. n |-> Step(f, k)]
<1>12. drawn = [k \in 0 .. n |-> Step(drawn, k)]
  <2>1. R = [k \in 0 .. n |-> Step(R, k)]
    <3> HIDE DEF D, Step
    <3> QED
      BY <1>11
  <2> HIDE DEF R, Step
  <2> QED
    BY <2>1
<1>13. Rectangles(prev, u, W, H) = drawn[n]
  BY <1>2 DEF Rectangles
<1> HIDE DEF drawn
<1> DEFINE T == {k \in Nat : k <= n => drawn[k] = D(k)}
<1>14. 0 \in T
  <2>1. 0 \in 0 .. n
    BY <1>1
  <2>2. drawn[0] = Step(drawn, 0)
    <3> HIDE DEF Step
    <3> QED
      BY <1>12, <2>1
  <2>3. Step(drawn, 0) = D(0)
    OBVIOUS
  <2> HIDE DEF Step, D
  <2> QED
    BY <2>2, <2>3
<1>15. ASSUME NEW k \in 1 .. n, k - 1 \in T PROVE k \in T
  <2>1. k \in 0 .. n /\ k # 0 /\ k - 1 <= n /\ k \in Nat /\ k - 1 \in 0 .. n
    BY <1>1
  <2>2. drawn[k] = Step(drawn, k)
    <3> HIDE DEF Step
    <3> QED
      BY <1>12, <2>1
  <2>3. drawn[k - 1] = D(k - 1)
    <3> HIDE DEF D
    <3> QED
      BY <1>15, <2>1
  <2>4. D(k - 1) # Nothing /\ Rect(D(k - 1), u[k], W, H) = D(k)
    <3> HIDE DEF D
    <3> QED
      BY <1>8, <1>10, <2>1
  <2> HIDE DEF D
  <2>5. Step(drawn, k) = D(k)
    BY <2>1, <2>3, <2>4
  <2> HIDE DEF Step
  <2> QED
    BY <2>1, <2>2, <2>5
<1>16. \A k \in 0 .. n : k \in T
  <2> HIDE DEF T
  <2> QED
    BY <1>1, <1>14, <1>15, Climb
<1>17. drawn[n] = D(n)
  <2>1. n \in 0 .. n /\ n <= n
    BY <1>1
  <2> HIDE DEF D
  <2> QED
    BY <1>16, <2>1
<1>18. D(n) = V(n)
  <2>1. CASE n # 0
    BY <2>1
  <2>2. CASE n = 0
    <3>1. base = prev
      BY <1>6, <2>2
    <3>2. D(0) = prev
      OBVIOUS
    <3> HIDE DEF V, D
    <3> QED
      BY <1>9, <2>2, <3>1, <3>2
  <2> QED
    BY <2>1, <2>2
<1>19. V(n) = Patched(prev, cur, W, H, parts)
  <2> DEFINE in(y, x) == <<y, x>> \in A(n)
             is(y, x) == \E i \in DOMAIN parts : parts[i].kind = "pixels" /\ In(parts[i], x, y)
  <2>1. ASSUME NEW y, NEW x PROVE in(y, x) <=> is(y, x)
    <3>1. \A i : <<y, x>> \in place(i) <=> In(parts[i], x, y)
      BY DEF Places, In
    <3> HIDE DEF place
    <3> QED
      BY <1>1, <3>1
  <2> DEFINE a(y, x) == IF in(y, x) THEN cur[y][x] ELSE base[y][x]
             b(y, x) == IF is(y, x) THEN cur[y][x] ELSE base[y][x]
  <2>2. \A y, x : a(y, x) = b(y, x)
    <3> HIDE DEF in, is
    <3> QED
      BY <2>1
  <2>3. V(n) = [y \in 0 .. H - 1 |-> [x \in 0 .. W - 1 |-> a(y, x)]]
    BY DEF Over
  <2>4. Patched(prev, cur, W, H, parts) = [y \in 0 .. H - 1 |-> [x \in 0 .. W - 1 |-> b(y, x)]]
    BY DEF Patched, base
  <2> HIDE DEF a, b, V
  <2> QED
    BY <2>2, <2>3, <2>4
<1> HIDE DEF D, V
<1> QED
  BY <1>13, <1>17, <1>18, <1>19 DEF u

----------------------------------------------------------------------------
(* The pictures of the jobs.                                               *)

LEMMA PicturesArrive ==
  ASSUME IInv
  PROVE  PictureArrives /\ CopyIsRight /\ (job.kind \in {"frame", "scroll"} => TypeOK)
<1> SUFFICES ASSUME job.kind \in {"frame", "scroll"} PROVE PictureArrives /\ CopyIsRight /\ TypeOK
  BY DEF PictureArrives, CopyIsRight
<1> DEFINE j == job.of
           W == j.w
           H == j.h
           prev == j.prev
           cur == j.cur
           zrle == j.zrle
           parts == Parts(j)
           u == Update(parts, cur, zrle)
           shown == Rectangles(prev, u, W, H)
<1>1. /\ W \in Nat \ {0} /\ H \in Nat \ {0} /\ prev \in Pictures(W, H) /\ cur \in Pictures(W, H)
      /\ j.copyrect \in BOOLEAN /\ zrle \in BOOLEAN
  <2>1. j \in FrameJobs \cup ScrollJobs
    BY JobIs DEF IInv
  <2> QED
    BY <2>1, CodecsAssumption DEF Pictures
<1>2. (coded # Nothing => coded = <<u>>) /\ (seen # Nothing => seen = <<shown>>)
  BY DEF IInv, FrameInv, Half, Sent
<1>3. parts = Diff(prev, cur, W, H, j.copyrect, j.key)
  BY DEF Parts
<1> DEFINE key == j.key
           copyrect == j.copyrect
<1> HIDE DEF W, H, prev, cur, zrle, parts, key, copyrect
<1>4. /\ Len(parts) \in Nat /\ DOMAIN parts = 1 .. Len(parts)
      /\ \A i \in DOMAIN parts : parts[i].kind \in {"copy", "pixels"} /\ OnPicture(parts[i], W, H)
      /\ \A i \in DOMAIN parts : parts[i].kind = "copy" =>
           /\ i = 1 /\ parts[i].sx \in Nat /\ parts[i].sx + parts[i].w <= W
           /\ parts[i].sy \in Nat /\ parts[i].sy + parts[i].h <= H
           /\ \A y \in 0 .. parts[i].h - 1, x \in 0 .. parts[i].w - 1 :
                prev[parts[i].sy + y][parts[i].sx + x] = cur[parts[i].y + y][parts[i].x + x]
      /\ Patched(prev, cur, W, H, parts) = cur
  <2>1. Enough(prev, cur, W, H, Diff(prev, cur, W, H, copyrect, key))
    <3>1. /\ prev \in [0 .. H - 1 -> [0 .. W - 1 -> Rgb]] /\ cur \in [0 .. H - 1 -> [0 .. W - 1 -> Rgb]]
          /\ copyrect \in BOOLEAN /\ W \in Nat /\ H \in Nat
      BY <1>1 DEF Pictures, copyrect
    <3> QED
      BY <3>1, ComparingIsEnough
  <2>2. Diff(prev, cur, W, H, copyrect, key) = parts
    BY <1>3 DEF key, copyrect
  <2>3. Enough(prev, cur, W, H, parts)
    BY <2>1, <2>2
  <2> QED
    BY <2>3 DEF Enough
<1>5. Fitting(parts, W, H)
  BY <1>4 DEF Fitting
<1> HIDE DEF u, shown
<1>6. DOMAIN u = DOMAIN parts /\ \A i \in DOMAIN parts : u[i] = Entry(parts[i], cur, zrle)
  BY <1>4, PartsSent DEF u
<1>7. PictureArrives
  <2>1. shown = cur
    BY <1>1, <1>4, <1>5, UpdateDrawn DEF shown, u
  <2> QED
    BY <1>2, <2>1 DEF PictureArrives, cur
<1>8. CopyIsRight
  <2> SUFFICES ASSUME coded # Nothing, NEW i \in DOMAIN coded[1], coded[1][i].kind = "copy",
                      NEW y \in 0 .. coded[1][i].h - 1, NEW x \in 0 .. coded[1][i].w - 1
               PROVE  prev[coded[1][i].sy + y][coded[1][i].sx + x]
                        = cur[coded[1][i].y + y][coded[1][i].x + x]
    BY DEF CopyIsRight, prev, cur
  <2> DEFINE p == parts[i]
             r == coded[1][i]
  <2>1. i \in DOMAIN parts /\ r = Entry(p, cur, zrle)
    BY <1>2, <1>6
  <2>2. r.kind = "copy" /\ y \in 0 .. r.h - 1 /\ x \in 0 .. r.w - 1
    OBVIOUS
  <2> HIDE DEF r, p
  <2>3. /\ r.x = p.x /\ r.y = p.y /\ r.w = p.w /\ r.h = p.h /\ r.sx = p.sx /\ r.sy = p.sy
        /\ r.kind = IF p.kind = "copy" THEN "copy" ELSE IF zrle THEN "zrle" ELSE "raw"
    BY <2>1, EntryIs
  <2>4. p.kind = "copy"
    BY <2>2, <2>3
  <2>5. prev[p.sy + y][p.sx + x] = cur[p.y + y][p.x + x]
    <3>1. y \in 0 .. p.h - 1 /\ x \in 0 .. p.w - 1
      BY <2>2, <2>3
    <3> QED
      BY <1>4, <2>1, <2>4, <3>1 DEF p
  <2>6. prev[r.sy + y][r.sx + x] = cur[r.y + y][r.x + x]
    BY <2>3, <2>5
  <2> QED
    BY <2>6 DEF r
<1>9. TypeOK
  <2> SUFFICES ASSUME coded # Nothing, NEW i \in DOMAIN coded[1]
               PROVE  LET p == coded[1][i]
                      IN  /\ p.w > 0 /\ p.h > 0 /\ p.x + p.w <= W /\ p.y + p.h <= H
                          /\ \A k \in DOMAIN p.body : p.body[k] \in 0..255
    <3>1. job.kind # "tile"
      OBVIOUS
    <3> QED
      BY <3>1 DEF TypeOK, W, H
  <2> DEFINE p == parts[i]
             r == coded[1][i]
  <2>1. i \in DOMAIN parts /\ r = Entry(p, cur, zrle)
    BY <1>2, <1>6
  <2>2. /\ Inside(W, H, p.x, p.y, p.w, p.h) /\ p.kind \in {"copy", "pixels"}
        /\ p.kind = "copy" => p.sx \in Nat /\ p.sx + p.w <= W /\ p.sy \in Nat /\ p.sy + p.h <= H
    BY <1>1, <1>4, <2>1 DEF Inside, OnPicture
  <2> HIDE DEF r, p
  <2>3. r.x = p.x /\ r.y = p.y /\ r.w = p.w /\ r.h = p.h
    BY <2>1, EntryIs
  <2>4. r.body \in Seq(Byte)
    <3>1. CASE p.kind = "copy"
      <4>1. Entry(p, cur, zrle).body = <<>>
        BY <3>1, EntryIs DEF Body
      <4>2. <<>> \in Seq(Byte)
        OBVIOUS
      <4> QED
        BY <2>1, <4>1, <4>2
    <3>2. CASE p.kind = "pixels"
      <4>1. Entry(p, cur, zrle).body \in Seq(Byte)
        BY <1>1, <2>2, <3>2, PixelsDrawn
      <4> QED
        BY <2>1, <4>1
    <3> QED
      BY <2>2, <3>1, <3>2
  <2>5. \A k \in DOMAIN r.body : r.body[k] \in 0..255
    <3> DEFINE s == r.body
    <3> HIDE DEF s
    <3>1. \A k \in DOMAIN s : s[k] \in Byte
      BY <2>4, LenProperties, ElementOfSeq DEF s
    <3> QED
      BY <3>1 DEF s, Byte
  <2> QED
    BY <2>2, <2>3, <2>5 DEF r, Inside
<1> QED
  BY <1>7, <1>8, <1>9

----------------------------------------------------------------------------
(* A window that scrolled: rows by their hashes.                           *)

(* The hashes ph of rows and ch of those after them, when the n rows from  *)
(* src have gone to dst: the rows in between are like none there was, and  *)
(* the others are as they were.                                            *)
Least(a, b) == IF a < b THEN a ELSE b
Most(a, b) == IF a < b THEN b ELSE a
Window(src, dst, n) == Least(src, dst) .. Most(src, dst) + n - 1

Moves(ph, ch, h, src, dst, n) ==
  /\ src \in Nat /\ dst \in Nat /\ n \in Nat \ {0} /\ src # dst
  /\ h \in Nat /\ src + n <= h /\ dst + n <= h
  /\ \A y, z \in 0 .. h - 1 : ph[y] = ph[z] => y = z
  /\ \A y \in dst .. dst + n - 1 : ch[y] = ph[y - (dst - src)]
  /\ \A y \in Window(src, dst, n) : y \notin dst .. dst + n - 1 => \A z \in 0 .. h - 1 : ch[y] # ph[z]
  /\ \A y \in 0 .. h - 1 : y \notin Window(src, dst, n) => ch[y] = ph[y]

LEMMA MoveAgrees ==
  ASSUME NEW ph, NEW ch, NEW h, NEW src, NEW dst, NEW n, Moves(ph, ch, h, src, dst, n)
  PROVE  /\ \A y \in 0 .. h - 1 : y - (dst - src) \in 0 .. h - 1 /\ ch[y] = ph[y - (dst - src)]
                                     <=> y \in dst .. dst + n - 1
         /\ {y \in 0 .. h - 1 : ph[y] # ch[y]} = Window(src, dst, n)
<1> DEFINE d == dst - src
           win == Window(src, dst, n)
<1>1. /\ src \in Nat /\ dst \in Nat /\ n \in Nat \ {0} /\ src # dst
      /\ h \in Nat /\ src + n <= h /\ dst + n <= h
  BY DEF Moves
<1>2. d \in Int /\ d # 0 /\ \A y \in 0 .. h - 1 : y - d \in Int /\ y - d # y
  BY <1>1
<1>3. \A y \in dst .. dst + n - 1 : y - d \in 0 .. h - 1 /\ y \in 0 .. h - 1 /\ y \in win
  BY <1>1 DEF Window, Least, Most
<1>4. \A y \in win : y \in 0 .. h - 1
  BY <1>1 DEF Window, Least, Most
<1>5. /\ \A y, z \in 0 .. h - 1 : ph[y] = ph[z] => y = z
      /\ \A y \in dst .. dst + n - 1 : ch[y] = ph[y - d]
      /\ \A y \in win : y \notin dst .. dst + n - 1 => \A z \in 0 .. h - 1 : ch[y] # ph[z]
      /\ \A y \in 0 .. h - 1 : y \notin win => ch[y] = ph[y]
  BY DEF Moves
<1> HIDE DEF d, win
<1>6. ASSUME NEW y \in 0 .. h - 1
      PROVE  y - d \in 0 .. h - 1 /\ ch[y] = ph[y - d] <=> y \in dst .. dst + n - 1
  <2>1. CASE y \in dst .. dst + n - 1
    BY <1>3, <1>5, <2>1
  <2>2. CASE y \notin dst .. dst + n - 1
    <3> SUFFICES ASSUME y - d \in 0 .. h - 1, ch[y] = ph[y - d] PROVE FALSE
      BY <2>2
    <3>1. CASE y \in win
      BY <1>5, <2>2, <3>1
    <3>2. CASE y \notin win
      <4>1. ph[y] = ph[y - d]
        BY <1>5, <3>2
      <4>2. y = y - d
        BY <1>5, <4>1
      <4> QED
        BY <1>2, <4>2
    <3> QED
      BY <3>1, <3>2
  <2> QED
    BY <2>1, <2>2
<1>7. ASSUME NEW y \in 0 .. h - 1
      PROVE  ph[y] # ch[y] <=> y \in win
  <2>1. CASE y \notin win
    BY <1>5, <2>1
  <2>2. CASE y \in win /\ y \in dst .. dst + n - 1
    <3>1. y - d \in 0 .. h - 1 /\ ch[y] = ph[y - d]
      BY <1>3, <1>5, <2>2
    <3>2. ph[y] # ph[y - d]
      BY <1>2, <1>5, <3>1
    <3> QED
      BY <2>2, <3>1, <3>2
  <2>3. CASE y \in win /\ y \notin dst .. dst + n - 1
    BY <1>5, <2>3
  <2> QED
    BY <2>1, <2>2, <2>3
<1>8. {y \in 0 .. h - 1 : ph[y] # ch[y]} = win
  BY <1>4, <1>7
<1> QED
  BY <1>6, <1>8 DEF d, win

(* What is grown around a row that moved is all of what moved.             *)
LEMMA GrownAll ==
  ASSUME NEW ph, NEW ch, NEW h, NEW src, NEW dst, NEW n, Moves(ph, ch, h, src, dst, n),
         NEW probe \in dst .. dst + n - 1
  PROVE  Grown(ph, ch, probe, probe - (dst - src), h) = [dst |-> dst, src |-> src, n |-> n]
<1> DEFINE d == dst - src
           from == probe - d
           shift == probe - from
           agrees(y) == y - shift \in 0 .. h - 1 /\ ch[y] = ph[y - shift]
           A == {y \in 0 .. probe : \A z \in y .. probe - 1 : agrees(z)}
           B == {y \in probe .. h - 1 : \A z \in probe + 1 .. y : agrees(z)}
           a == Min(A)
           b == Max(B)
           last == dst + n - 1
<1>1. /\ src \in Nat /\ dst \in Nat /\ n \in Nat \ {0}
      /\ h \in Nat /\ src + n <= h /\ dst + n <= h
  BY DEF Moves
<1>2. Grown(ph, ch, probe, from, h) = [dst |-> a, src |-> a - shift, n |-> b - a + 1]
  BY DEF Grown
<1>3. shift = d /\ d \in Int
  BY <1>1
<1>4. \A y \in 0 .. h - 1 : agrees(y) <=> y \in dst .. last
  <2> HIDE DEF shift, last
  <2>1. \A y \in 0 .. h - 1 : y - d \in 0 .. h - 1 /\ ch[y] = ph[y - d] <=> y \in dst .. dst + n - 1
    BY MoveAgrees
  <2> HIDE DEF d
  <2> QED
    BY <1>3, <2>1 DEF last
<1>5. probe \in Nat /\ last \in Nat /\ dst <= probe /\ probe <= last /\ last <= h - 1 /\ h - 1 \in Nat
  BY <1>1
<1> HIDE DEF agrees, shift, d, last
<1>6. a = dst
  <2>1. A \in SUBSET Nat
    BY <1>5
  <2>2. dst \in A
    <3>1. dst \in 0 .. probe
      BY <1>1, <1>5
    <3>2. \A z \in dst .. probe - 1 : z \in 0 .. h - 1 /\ z \in dst .. last
      BY <1>1, <1>5
    <3> QED
      BY <1>4, <3>1, <3>2
  <2>3. \A y \in A : dst <= y
    <3> SUFFICES ASSUME NEW y \in A, ~(dst <= y) PROVE FALSE
      OBVIOUS
    <3>1. y \in Nat /\ y < dst /\ \A z \in y .. probe - 1 : agrees(z)
      BY <1>1, <1>5
    <3>2. dst - 1 \in y .. probe - 1 /\ dst - 1 \in 0 .. h - 1 /\ dst - 1 \notin dst .. last
      BY <1>1, <1>5, <3>1
    <3> QED
      BY <1>4, <3>1, <3>2
  <2> HIDE DEF A
  <2>4. a \in A /\ \A y \in A : a <= y
    BY <2>1, <2>2, MinOf
  <2> HIDE DEF a
  <2>5. a \in Nat /\ a <= dst /\ dst <= a
    BY <2>1, <2>2, <2>3, <2>4
  <2> QED
    BY <1>1, <2>5
<1>7. b = last
  <2> DEFINE m == h - 1
  <2>1. B \in SUBSET (0 .. m) /\ m \in Nat
    BY <1>5
  <2>2. last \in B
    <3>1. last \in probe .. h - 1
      BY <1>1, <1>5
    <3>2. \A z \in probe + 1 .. last : z \in 0 .. h - 1 /\ z \in dst .. last
      BY <1>1, <1>5
    <3> QED
      BY <1>4, <3>1, <3>2
  <2>3. \A y \in B : y <= last
    <3> SUFFICES ASSUME NEW y \in B, ~(y <= last) PROVE FALSE
      OBVIOUS
    <3>1. y \in Nat /\ y > last /\ y <= h - 1 /\ \A z \in probe + 1 .. y : agrees(z)
      BY <1>1, <1>5
    <3>2. last + 1 \in probe + 1 .. y /\ last + 1 \in 0 .. h - 1 /\ last + 1 \notin dst .. last
      BY <1>1, <1>5, <3>1
    <3> QED
      BY <1>4, <3>1, <3>2
  <2> HIDE DEF B, m
  <2>4. b \in B /\ \A y \in B : y <= b
    BY <2>1, <2>2, MaxOf
  <2> HIDE DEF b
  <2>5. b \in 0 .. m /\ last <= b /\ b <= last
    BY <2>1, <2>2, <2>3, <2>4
  <2>6. b \in Nat
    BY <2>1, <2>5
  <2> QED
    BY <1>5, <2>5, <2>6
<1> HIDE DEF a, b
<1>8. a - shift = src /\ b - a + 1 = n
  BY <1>1, <1>3, <1>6, <1>7 DEF d, last
<1> QED
  BY <1>2, <1>6, <1>8 DEF from, d

(* Where a row of the window came from, if it was there before.            *)
LEMMA SourcesAre ==
  ASSUME NEW ph, NEW ch, NEW h, NEW src, NEW dst, NEW n, Moves(ph, ch, h, src, dst, n),
         NEW probe \in Window(src, dst, n)
  PROVE  Sources(ph, ch, probe, h) = IF probe \in dst .. dst + n - 1 THEN {probe - (dst - src)} ELSE {}
<1> DEFINE equal == {s \in 0 .. h - 1 : ph[s] = ch[probe]}
           from == probe - (dst - src)
<1>1. /\ src \in Nat /\ dst \in Nat /\ n \in Nat \ {0} /\ src # dst
      /\ h \in Nat /\ src + n <= h /\ dst + n <= h
  BY DEF Moves
<1>2. probe \in 0 .. h - 1
  BY <1>1 DEF Window, Least, Most
<1>3. /\ \A y, z \in 0 .. h - 1 : ph[y] = ph[z] => y = z
      /\ probe \in dst .. dst + n - 1 => ch[probe] = ph[from]
      /\ probe \notin dst .. dst + n - 1 => \A z \in 0 .. h - 1 : ch[probe] # ph[z]
  BY DEF Moves
<1>4. Sources(ph, ch, probe, h) = {s \in equal : Cardinality({t \in equal : t < s}) < Tries} \ {probe}
  BY DEF Sources
<1>5. CASE probe \in dst .. dst + n - 1
  <2>1. from \in 0 .. h - 1 /\ from # probe
    BY <1>1, <1>5
  <2> HIDE DEF from
  <2>2. equal = {from}
    BY <1>3, <1>5, <2>1
  <2> HIDE DEF equal
  <2>3. {t \in equal : t < from} = {}
    BY <2>1, <2>2
  <2>4. Cardinality({t \in equal : t < from}) < Tries
    <3>1. Cardinality({}) = 0
      BY FS_EmptySet
    <3> QED
      BY <2>3, <3>1, ScrollAssumption
  <2>5. {s \in equal : Cardinality({t \in equal : t < s}) < Tries} = {from}
    BY <2>2, <2>4
  <2>6. Sources(ph, ch, probe, h) = {from}
    BY <1>4, <2>1, <2>5
  <2> QED
    BY <1>5, <2>6 DEF from
<1>6. CASE probe \notin dst .. dst + n - 1
  <2>1. equal = {}
    BY <1>3, <1>6
  <2> HIDE DEF equal
  <2> QED
    BY <1>4, <1>6, <2>1
<1> QED
  BY <1>5, <1>6

----------------------------------------------------------------------------
(* The band that is found.                                                 *)

Hashes(s, h, cols, key) == [y \in 0 .. h - 1 |-> RowHash(s[y], cols, key)]

(* The first and the last row of what changed are looked up.               *)
LEMMA ProbeEnds ==
  ASSUME NEW first \in Nat, NEW last \in Nat, first <= last
  PROVE  /\ Probe(first, last, 0) = first /\ Probe(first, last, Probes - 1) = last
         /\ 0 \in 0 .. Probes - 1 /\ Probes - 1 \in 0 .. Probes - 1
<1> DEFINE P == Probes - 1
           e == last - first
<1>1. P \in Nat /\ P >= 1 /\ e \in Nat /\ first + e = last
  BY ScrollAssumption
<1> HIDE DEF P, e
<1>2. (e * 0) \div P = 0
  <2>1. e * 0 = 0
    BY <1>1
  <2>2. 0 \div P = 0
    BY <1>1
  <2> QED
    BY <2>1, <2>2
<1>3. (e * P) \div P = e
  BY <1>1, Z3
<1>4. Probe(first, last, 0) = first + (e * 0) \div P /\ Probe(first, last, P) = first + (e * P) \div P
  BY DEF Probe, P, e
<1>5. Probe(first, last, 0) = first /\ Probe(first, last, P) = last
  BY <1>1, <1>2, <1>3, <1>4
<1>6. 0 \in 0 .. P /\ P \in 0 .. P
  BY <1>1
<1> QED
  BY <1>5, <1>6 DEF P

LEMMA FindsIt ==
  ASSUME NEW prev, NEW cur, NEW w, NEW h, NEW cols, NEW key, NEW src, NEW dst, NEW n,
         Moves(Hashes(prev, h, cols, key), Hashes(cur, h, cols, key), h, src, dst, n),
         n >= MinScroll, ~(cols[2] <= cols[1]), RowsMatch(prev, cur, cols, src, dst, n)
  PROVE  FindScroll(prev, cur, w, h, cols, key) = {[dst |-> dst, src |-> src, n |-> n]}
<1> DEFINE ph == Hashes(prev, h, cols, key)
           ch == Hashes(cur, h, cols, key)
           differ == {y \in 0 .. h - 1 : ph[y] # ch[y]}
           first  == Min(differ)
           last   == Max(differ)
           tries  == UNION {{<<k, s>> :
                               s \in Sources(ph, ch, Probe(first, last, k), h)} :
                            k \in 0 .. Probes - 1}
           found  == [t \in tries |-> Grown(ph, ch, Probe(first, last, t[1]), t[2], h)]
           long   == {t \in tries : found[t].n >= MinScroll}
           before(t, u) == t[1] < u[1] \/ (t[1] = u[1] /\ t[2] < u[2])
           best   == {t \in long : \A u \in long \ {t} :
                        \/ found[t].n > found[u].n
                        \/ found[t].n = found[u].n /\ before(t, u)}
           none   == \/ h < MinScroll \/ cols[2] <= cols[1] \/ differ = {}
                     \/ last - first + 1 < MinScroll
           band   == [dst |-> dst, src |-> src, n |-> n]
           moved  == dst .. dst + n - 1
           win    == Window(src, dst, n)
           d      == dst - src
           top    == Least(src, dst)
           bottom == Most(src, dst) + n - 1
<1>1. FindScroll(prev, cur, w, h, cols, key) =
        IF none THEN {}
        ELSE {b \in {found[t] : t \in best} : RowsMatch(prev, cur, cols, b.src, b.dst, b.n)}
  BY DEF FindScroll, Hashes
<1>2. Moves(ph, ch, h, src, dst, n)
  OBVIOUS
<1> HIDE DEF ph, ch
<1>3. /\ src \in Nat /\ dst \in Nat /\ n \in Nat \ {0} /\ src # dst
      /\ h \in Nat /\ src + n <= h /\ dst + n <= h
  BY <1>2 DEF Moves
<1>4. differ = win
  BY <1>2, MoveAgrees
<1>5. /\ top \in Nat /\ bottom \in Nat /\ top <= bottom /\ bottom \in 0 .. h - 1
      /\ bottom - top + 1 >= n /\ win = top .. bottom
      /\ top \in moved \/ bottom \in moved
  BY <1>3 DEF Window, Least, Most
<1> HIDE DEF differ, top, bottom, win, moved
<1>6. first = top /\ last = bottom
  <2>1. differ \in SUBSET Nat /\ differ \in SUBSET (0 .. h - 1) /\ h - 1 \in Nat
        /\ top \in differ /\ bottom \in differ /\ \A y \in differ : y \in Nat /\ top <= y /\ y <= bottom
    BY <1>3, <1>4, <1>5
  <2>2. first \in differ /\ \A y \in differ : first <= y
    BY <2>1, MinOf
  <2> DEFINE m == h - 1
  <2> HIDE DEF m
  <2>3. last \in differ /\ \A y \in differ : y <= last
    <3>1. m \in Nat /\ differ \in SUBSET (0 .. m)
      BY <2>1 DEF m
    <3> QED
      BY <2>1, <3>1, MaxOf
  <2> HIDE DEF first, last
  <2>4. first \in Nat /\ first <= top /\ top <= first /\ last \in Nat /\ last <= bottom /\ bottom <= last
    BY <2>1, <2>2, <2>3
  <2> QED
    BY <1>5, <2>4
<1> HIDE DEF first, last
<1>7. ~none
  <2>1. MinScroll \in Nat /\ MinScroll <= n /\ n \in Nat /\ n <= h
    BY <1>3, ScrollAssumption
  <2>2. ~(h < MinScroll) /\ ~(bottom - top + 1 < MinScroll)
    BY <1>3, <1>5, <2>1
  <2>3. differ # {}
    BY <1>4, <1>5
  <2> QED
    BY <1>6, <2>2, <2>3
<1> HIDE DEF none
<1>8. \A k \in 0 .. Probes - 1 : Probe(top, bottom, k) \in win
  BY <1>5, ProbeFacts
<1> DEFINE at(k) == Probe(top, bottom, k)
<1>9. \A k \in 0 .. Probes - 1 : Sources(ph, ch, at(k), h) = IF at(k) \in moved THEN {at(k) - d} ELSE {}
  <2> SUFFICES ASSUME NEW k \in 0 .. Probes - 1
               PROVE  Sources(ph, ch, at(k), h) = IF at(k) \in moved THEN {at(k) - d} ELSE {}
    OBVIOUS
  <2> DEFINE probe == at(k)
  <2>1. probe \in Window(src, dst, n)
    BY <1>8 DEF win
  <2> HIDE DEF probe
  <2>2. Sources(ph, ch, probe, h) = IF probe \in dst .. dst + n - 1 THEN {probe - (dst - src)} ELSE {}
    BY <1>2, <2>1, SourcesAre
  <2> QED
    BY <2>2 DEF probe, moved
<1>10. \A t : t \in tries <=> \E k \in 0 .. Probes - 1 : at(k) \in moved /\ t = <<k, at(k) - d>>
  <2> HIDE DEF at, d
  <2>1. \A k : Probe(first, last, k) = at(k)
    BY <1>6 DEF at
  <2>2. tries = UNION {{<<k, s>> : s \in Sources(ph, ch, at(k), h)} : k \in 0 .. Probes - 1}
    BY <2>1
  <2> HIDE DEF tries
  <2>3. \A k \in 0 .. Probes - 1 : {<<k, s>> : s \in Sources(ph, ch, at(k), h)} =
          IF at(k) \in moved THEN {<<k, at(k) - d>>} ELSE {}
    BY <1>9
  <2> QED
    BY <2>2, <2>3
<1>11. \A t \in tries : found[t] = band
  <2> SUFFICES ASSUME NEW t \in tries PROVE found[t] = band
    OBVIOUS
  <2>1. PICK k \in 0 .. Probes - 1 : at(k) \in moved /\ t = <<k, at(k) - d>>
    BY <1>10
  <2>2. found[t] = Grown(ph, ch, Probe(first, last, t[1]), t[2], h)
    OBVIOUS
  <2> DEFINE probe == at(k)
  <2>3. Probe(first, last, t[1]) = probe /\ t[2] = probe - d /\ probe \in dst .. dst + n - 1
    BY <1>6, <2>1 DEF moved
  <2> HIDE DEF probe, tries, found
  <2>4. Grown(ph, ch, probe, probe - (dst - src), h) = band
    BY <1>2, <2>3, GrownAll
  <2> QED
    BY <2>2, <2>3, <2>4
<1>12. tries # {} /\ \A t \in tries : t[1] \in 0 .. Probes - 1 /\ t = <<t[1], at(t[1]) - d>>
  <2>1. Probe(top, bottom, 0) = top /\ Probe(top, bottom, Probes - 1) = bottom
        /\ 0 \in 0 .. Probes - 1 /\ Probes - 1 \in 0 .. Probes - 1
    BY <1>5, ProbeEnds
  <2>2. \E k \in 0 .. Probes - 1 : at(k) \in moved
    BY <1>5, <2>1
  <2> HIDE DEF tries, at, d
  <2>3. tries # {}
    BY <1>10, <2>2
  <2>4. ASSUME NEW t \in tries
        PROVE  t[1] \in 0 .. Probes - 1 /\ t = <<t[1], at(t[1]) - d>>
    <3>1. PICK k \in 0 .. Probes - 1 : at(k) \in moved /\ t = <<k, at(k) - d>>
      BY <1>10
    <3>2. t[1] = k
      BY <3>1
    <3> QED
      BY <3>1, <3>2
  <2> QED
    BY <2>3, <2>4
<1> HIDE DEF tries, found, at
<1>13. long = tries
  BY <1>11
<1>14. \E t \in tries : \A u \in tries : t[1] <= u[1]
  <2> DEFINE firsts == {t[1] : t \in tries}
  <2>1. firsts \in SUBSET Nat /\ firsts # {}
    BY <1>12
  <2>2. PICK k \in firsts : \A m \in firsts : k <= m
    BY <2>1, LeastExists
  <2> QED
    BY <2>2
<1>15. PICK t \in tries : \A u \in tries : t[1] <= u[1]
  BY <1>14
<1>16. t \in best
  <2> SUFFICES ASSUME NEW u \in tries, u # t
               PROVE  found[t].n = found[u].n /\ before(t, u)
    BY <1>13
  <2>1. found[t].n = found[u].n
    BY <1>11
  <2>2. t[1] # u[1]
    BY <1>12
  <2>3. t[1] <= u[1] /\ t[1] \in Int /\ u[1] \in Int
    BY <1>12, <1>15
  <2> QED
    BY <2>1, <2>2, <2>3
<1>17. \A u \in best : u \in tries
  BY <1>13
<1> HIDE DEF best, long
<1>18. {found[u] : u \in best} = {band}
  BY <1>11, <1>16, <1>17
<1>19. FindScroll(prev, cur, w, h, cols, key) = {b \in {band} : RowsMatch(prev, cur, cols, b.src, b.dst, b.n)}
  BY <1>1, <1>7, <1>18
<1>20. RowsMatch(prev, cur, cols, band.src, band.dst, band.n)
  OBVIOUS
<1> HIDE DEF band
<1>21. FindScroll(prev, cur, w, h, cols, key) = {band}
  BY <1>19, <1>20
<1> QED
  BY <1>21 DEF band

----------------------------------------------------------------------------
(* Tiles of a window.                                                      *)

LEMMA EdgeUpTo ==
  ASSUME NEW n \in Nat, NEW k \in Nat
  PROVE  Edge(n, k) \in Nat /\ Edge(n, k) <= n /\ Edge(n, k) <= k * Tile /\ k * Tile \in Nat
<1>1. k * Tile \in Nat
  BY Times
<1> DEFINE T == {n, k * Tile}
<1>2. T \in SUBSET Nat /\ n \in T /\ k * Tile \in T
  BY <1>1
<1>3. Edge(n, k) = Min(T)
  BY DEF Edge
<1> HIDE DEF T
<1>4. Edge(n, k) \in T /\ \A z \in T : Edge(n, k) <= z
  BY <1>2, <1>3, MinOf
<1> QED
  BY <1>1, <1>2, <1>4

(* The tile a place is in.                                                 *)
LEMMA BandOf ==
  ASSUME NEW n \in Nat
  PROVE  /\ \A k \in 1 .. Bands(n), x \in Nat : x \in (k - 1) * Tile .. Edge(n, k) - 1 => x \div Tile = k - 1
         /\ \A x \in 0 .. n - 1 : x \div Tile + 1 \in 1 .. Bands(n)
                                  /\ x \in ((x \div Tile + 1) - 1) * Tile .. Edge(n, x \div Tile + 1) - 1
<1>1. Tile \in Nat /\ Tile >= 1 /\ Bands(n) \in Nat
  BY ScrollAssumption, BandFacts
<1>2. ASSUME NEW k \in 1 .. Bands(n), NEW x \in Nat, x \in (k - 1) * Tile .. Edge(n, k) - 1
      PROVE  x \div Tile = k - 1
  <2> DEFINE q == x \div Tile
             p == k - 1
  <2>1. p \in Nat /\ p + 1 = k /\ k \in Nat
    BY <1>1
  <2>2. p * Tile \in Nat /\ (p + 1) * Tile = p * Tile + Tile
    BY <2>1, Times
  <2>3. q \in Nat /\ q * Tile <= x /\ x < q * Tile + Tile
    BY Division
  <2>4. Edge(n, k) \in Nat /\ Edge(n, k) <= k * Tile /\ k * Tile \in Nat
    BY <2>1, EdgeUpTo
  <2>5. p * Tile <= x /\ x < p * Tile + Tile
    <3>1. p * Tile <= x /\ x <= Edge(n, k) - 1
      BY <1>2, <2>2, <2>4
    <3> QED
      BY <2>1, <2>2, <2>4, <3>1
  <2> HIDE DEF q, p
  <2>6. ~(p < q)
    <3> SUFFICES ASSUME p < q PROVE FALSE
      OBVIOUS
    <3>1. (p + 1) * Tile <= q * Tile /\ q * Tile \in Nat
      BY <2>1, <2>3, Times
    <3> QED
      BY <1>1, <2>2, <2>3, <2>5, <3>1
  <2>7. ~(q < p)
    <3> SUFFICES ASSUME q < p PROVE FALSE
      OBVIOUS
    <3>1. (q + 1) * Tile <= p * Tile /\ (q + 1) * Tile = q * Tile + Tile /\ q * Tile \in Nat
      BY <2>1, <2>3, Times
    <3> QED
      BY <1>1, <2>2, <2>3, <2>5, <3>1
  <2>8. q = p
    BY <2>1, <2>3, <2>6, <2>7
  <2> QED
    BY <2>8 DEF q, p
<1>3. ASSUME NEW x \in 0 .. n - 1
      PROVE  x \div Tile + 1 \in 1 .. Bands(n)
             /\ x \in ((x \div Tile + 1) - 1) * Tile .. Edge(n, x \div Tile + 1) - 1
  <2>1. PICK k \in 1 .. Bands(n) : x \in (k - 1) * Tile .. Edge(n, k) - 1
    BY BandFacts
  <2>2. x \div Tile = k - 1
    BY <1>2, <2>1
  <2>3. x \div Tile + 1 = k
    BY <1>1, <2>2
  <2> QED
    BY <2>1, <2>3
<1> QED
  BY <1>2, <1>3

(* The columns of a window that ends where tiles do.                       *)
Aligned(w, a, b) ==
  /\ w \in Nat /\ a \in Nat /\ b \in Nat /\ a < b /\ b <= w
  /\ a % Tile = 0 /\ (b % Tile = 0 \/ b = w)

LEMMA WindowTiles ==
  ASSUME NEW w, NEW a, NEW b, Aligned(w, a, b)
  PROVE  \E ca, cb \in 1 .. Bands(w) :
            /\ ca <= cb /\ (ca - 1) * Tile = a /\ Edge(w, cb) = b
            /\ \A k \in ca .. cb : (k - 1) * Tile \in a .. b - 1 /\ ((k - 1) * Tile) \div Tile = k - 1
            /\ \A x \in a .. b - 1 : x \div Tile + 1 \in ca .. cb
<1>1. /\ w \in Nat /\ a \in Nat /\ b \in Nat /\ a < b /\ b <= w
      /\ a % Tile = 0 /\ (b % Tile = 0 \/ b = w)
  BY DEF Aligned
<1>2. Tile \in Nat /\ Tile >= 1 /\ Bands(w) \in Nat
  BY <1>1, ScrollAssumption, BandFacts
<1>3. \A x \in Nat : x % Tile = 0 => (x \div Tile) * Tile = x /\ x \div Tile \in Nat
  BY <1>2, Z3
<1> DEFINE ca == a \div Tile + 1
           e == b - 1
           cb == e \div Tile + 1
<1>4. a \in 0 .. w - 1 /\ e \in 0 .. w - 1 /\ e + 1 = b
  BY <1>1
<1>5. ca \in 1 .. Bands(w) /\ a \div Tile \in Nat /\ (ca - 1) * Tile = a
  <2>1. ca \in 1 .. Bands(w)
    BY <1>1, <1>4, BandOf
  <2>2. (a \div Tile) * Tile = a /\ a \div Tile \in Nat
    BY <1>1, <1>3
  <2>3. ca - 1 = a \div Tile
    BY <2>2
  <2> QED
    BY <2>1, <2>2, <2>3
<1> HIDE DEF e
<1>6. /\ cb \in 1 .. Bands(w) /\ e \div Tile \in Nat
      /\ e \in (cb - 1) * Tile .. Edge(w, cb) - 1
  <2>1. e \div Tile \in Nat
    BY <1>4, Division
  <2> QED
    BY <1>1, <1>4, <2>1, BandOf
<1> HIDE DEF ca, cb
<1>7. /\ (cb - 1) * Tile \in Nat /\ Edge(w, cb) \in Nat /\ Edge(w, cb) <= w
      /\ (cb - 1) * Tile <= e /\ b <= Edge(w, cb)
  <2>1. (cb - 1) * Tile \in Nat /\ Edge(w, cb) \in Nat /\ Edge(w, cb) <= w
    BY <1>1, <1>6, BandFacts
  <2> QED
    BY <1>1, <1>4, <1>6, <2>1
<1>8. Edge(w, cb) = b
  <2>1. CASE b = w
    BY <1>1, <1>7, <2>1
  <2>2. CASE b % Tile = 0
    <3> DEFINE q == b \div Tile
    <3>1. q \in Nat /\ q * Tile = b
      BY <1>1, <1>3, <2>2
    <3>2. cb \in Nat /\ cb - 1 \in Nat /\ (cb - 1) + 1 = cb
      BY <1>2, <1>6
    <3> HIDE DEF q
    <3>3. cb * Tile = (cb - 1) * Tile + Tile /\ cb * Tile \in Nat
      BY <3>2, Times
    <3>4. Edge(w, cb) <= cb * Tile
      BY <1>1, <3>2, EdgeUpTo
    <3>5. cb <= q
      <4> SUFFICES ASSUME q < cb PROVE FALSE
        BY <3>1, <3>2
      <4>1. q <= cb - 1
        BY <3>1, <3>2
      <4>2. q * Tile <= (cb - 1) * Tile
        BY <3>1, <3>2, <4>1, Times
      <4> QED
        BY <1>1, <1>4, <1>7, <3>1, <4>2
    <3>6. cb * Tile <= q * Tile
      BY <3>1, <3>2, <3>5, Times
    <3> QED
      BY <1>1, <1>7, <3>1, <3>3, <3>4, <3>6
  <2> QED
    BY <1>1, <2>1, <2>2
<1>9. ASSUME NEW x \in a .. b - 1
      PROVE  x \div Tile + 1 \in ca .. cb
  <2> DEFINE c == x \div Tile + 1
  <2>1. x \in 0 .. w - 1 /\ x \in Nat /\ a <= x /\ x <= e
    BY <1>1, <1>4
  <2>2. x \div Tile \in Nat
    BY <2>1, Division
  <2>3. c \in 1 .. Bands(w) /\ x \in (c - 1) * Tile .. Edge(w, c) - 1
    BY <1>1, <2>1, BandOf
  <2> HIDE DEF c
  <2>4. c \in Nat /\ ca \in Nat /\ cb \in Nat
    BY <1>2, <1>5, <1>6, <2>3
  <2>5. /\ (c - 1) * Tile \in Nat /\ (ca - 1) * Tile \in Nat /\ Edge(w, c) \in Nat
        /\ (c - 1) * Tile <= x /\ x < Edge(w, c)
    <3>1. (c - 1) * Tile \in Nat /\ Edge(w, c) \in Nat
      BY <1>1, <2>3, BandFacts
    <3>2. (ca - 1) * Tile \in Nat
      BY <1>1, <1>5
    <3> QED
      BY <2>1, <2>3, <3>1, <3>2
  <2>6. ~(c < ca)
    <3> SUFFICES ASSUME c < ca PROVE FALSE
      OBVIOUS
    <3>1. c <= ca - 1 /\ ca - 1 \in Nat
      BY <2>3, <2>4
    <3>2. c * Tile <= (ca - 1) * Tile /\ c * Tile \in Nat
      BY <2>4, <3>1, Times
    <3>3. Edge(w, c) <= c * Tile
      BY <1>1, <2>4, EdgeUpTo
    <3> QED
      BY <1>1, <1>5, <2>1, <2>5, <3>2, <3>3
  <2>7. ~(cb < c)
    <3> SUFFICES ASSUME cb < c PROVE FALSE
      OBVIOUS
    <3>1. cb <= c - 1 /\ c - 1 \in Nat
      BY <2>3, <2>4
    <3>2. cb * Tile <= (c - 1) * Tile /\ cb * Tile \in Nat
      BY <2>4, <3>1, Times
    <3>3. Edge(w, cb) <= cb * Tile
      BY <1>1, <2>4, EdgeUpTo
    <3> QED
      BY <1>1, <1>4, <1>8, <2>1, <2>5, <3>2, <3>3
  <2> QED
    BY <2>4, <2>6, <2>7 DEF c
<1>10. ca <= cb
  <2>1. e \in a .. b - 1
    BY <1>1, <1>4
  <2>2. e \div Tile + 1 \in ca .. cb
    BY <1>9, <2>1
  <2> QED
    BY <1>2, <1>5, <1>6, <2>2
<1>11. ASSUME NEW k \in ca .. cb
       PROVE  (k - 1) * Tile \in a .. b - 1 /\ ((k - 1) * Tile) \div Tile = k - 1
  <2>1. k \in 1 .. Bands(w) /\ k \in Nat /\ k - 1 \in Nat /\ ca - 1 \in Nat /\ cb - 1 \in Nat
        /\ ca - 1 <= k - 1 /\ k - 1 <= cb - 1
    BY <1>2, <1>5, <1>6
  <2> DEFINE x == (k - 1) * Tile
  <2>2. (ca - 1) * Tile <= x /\ x <= (cb - 1) * Tile /\ x \in Nat
    BY <2>1, Times
  <2>3. Edge(w, k) \in Nat /\ x < Edge(w, k)
    BY <1>1, <2>1, BandFacts
  <2>4. x \in (k - 1) * Tile .. Edge(w, k) - 1
    BY <2>2, <2>3
  <2>5. x \div Tile = k - 1
    BY <1>1, <2>1, <2>2, <2>4, BandOf
  <2> HIDE DEF x
  <2>6. x \in a .. b - 1
    BY <1>1, <1>4, <1>5, <1>7, <2>2
  <2> QED
    BY <2>5, <2>6 DEF x
<1> QED
  BY <1>5, <1>6, <1>8, <1>9, <1>10, <1>11

----------------------------------------------------------------------------
(* The rectangles of a window.                                             *)

(* What changed lies in the columns a to b, and with a tile of a row of    *)
(* tiles all of that row's in those columns changed.                       *)
SameTile(v, u, y, x) == v \div Tile = y \div Tile /\ u \div Tile = x \div Tile
Filled(prev, cur, w, h, a, b) ==
  \A y \in 0 .. h - 1, x \in 0 .. w - 1 : prev[y][x] # cur[y][x] =>
    /\ x \in a .. b - 1
    /\ \A z \in a .. b - 1 : \E v \in 0 .. h - 1, u \in 0 .. w - 1 :
         prev[v][u] # cur[v][u] /\ SameTile(v, u, y, z)

LEMMA AltersBy ==
  ASSUME NEW prev, NEW cur, NEW w \in Nat, NEW h \in Nat, NEW r \in 1 .. Bands(h)
  PROVE  /\ \A c : Alters(prev, cur, w, h, r, c) =>
              \E y \in 0 .. h - 1, x \in 0 .. w - 1 :
                prev[y][x] # cur[y][x] /\ y \div Tile = r - 1 /\ x \div Tile = c - 1
         /\ \A c \in 1 .. Bands(w), y \in 0 .. h - 1, x \in 0 .. w - 1 :
              prev[y][x] # cur[y][x] /\ y \div Tile = r - 1 /\ x \div Tile = c - 1 =>
                Alters(prev, cur, w, h, r, c)
<1>1. r - 1 + 1 = r /\ \A c \in 1 .. Bands(w) : c - 1 + 1 = c
  BY BandFacts
<1>2. ASSUME NEW c, Alters(prev, cur, w, h, r, c)
      PROVE  \E y \in 0 .. h - 1, x \in 0 .. w - 1 :
                prev[y][x] # cur[y][x] /\ y \div Tile = r - 1 /\ x \div Tile = c - 1
  <2>1. c \in 1 .. Bands(w)
    BY <1>2 DEF Alters
  <2>2. PICK y \in (r - 1) * Tile .. Edge(h, r) - 1, x \in (c - 1) * Tile .. Edge(w, c) - 1 :
               prev[y][x] # cur[y][x]
    BY <1>2 DEF Alters
  <2>3. /\ (r - 1) * Tile \in Nat /\ Edge(h, r) \in Nat /\ Edge(h, r) <= h
        /\ (c - 1) * Tile \in Nat /\ Edge(w, c) \in Nat /\ Edge(w, c) <= w
    BY <2>1, BandFacts
  <2>4. y \in Nat /\ y \in 0 .. h - 1 /\ x \in Nat /\ x \in 0 .. w - 1
    BY <2>3
  <2>5. y \div Tile = r - 1
    BY <2>2, <2>4, BandOf
  <2>6. x \div Tile = c - 1
    BY <2>1, <2>2, <2>4, BandOf
  <2> QED
    BY <2>2, <2>4, <2>5, <2>6
<1>3. ASSUME NEW c \in 1 .. Bands(w), NEW y \in 0 .. h - 1, NEW x \in 0 .. w - 1,
             prev[y][x] # cur[y][x], y \div Tile = r - 1, x \div Tile = c - 1
      PROVE  Alters(prev, cur, w, h, r, c)
  <2>1. y \div Tile + 1 = r /\ x \div Tile + 1 = c
    BY <1>1, <1>3
  <2>2. y \in (r - 1) * Tile .. Edge(h, r) - 1
    BY <2>1, BandOf
  <2>3. x \in (c - 1) * Tile .. Edge(w, c) - 1
    BY <2>1, BandOf
  <2> QED
    BY <1>3, <2>2, <2>3 DEF Alters
<1> QED
  BY <1>2, <1>3

LEMMA FullRects ==
  ASSUME NEW prev, NEW cur, NEW w \in Nat, NEW h \in Nat, NEW a, NEW b,
         Aligned(w, a, b), Filled(prev, cur, w, h, a, b),
         NEW i \in DOMAIN ChangedRects(prev, cur, w, h)
  PROVE  LET p == ChangedRects(prev, cur, w, h)[i] IN p.x = a /\ p.x + p.w = b
<1> DEFINE p == ChangedRects(prev, cur, w, h)[i]
<1>1. PICK r \in 1 .. Bands(h), c \in 1 .. Bands(w) :
             Begins(prev, cur, w, h, r, c) /\ p = Piece(prev, cur, w, h, r, c)
  BY RectsAre
<1> HIDE DEF p
<1>2. PICK ca, cb \in 1 .. Bands(w) :
            /\ ca <= cb /\ (ca - 1) * Tile = a /\ Edge(w, cb) = b
            /\ \A k \in ca .. cb : (k - 1) * Tile \in a .. b - 1 /\ ((k - 1) * Tile) \div Tile = k - 1
            /\ \A x \in a .. b - 1 : x \div Tile + 1 \in ca .. cb
  BY WindowTiles
<1> DEFINE A(k) == Alters(prev, cur, w, h, r, k)
<1>3. A(c) /\ ~A(c - 1)
  BY <1>1 DEF Begins
<1>4. Bands(w) \in Nat /\ ca \in Nat /\ cb \in Nat /\ c \in Nat /\ \A k : A(k) => k \in 1 .. Bands(w)
  BY BandFacts DEF Alters
<1> HIDE DEF A
<1>5. /\ \A k : A(k) => \E y \in 0 .. h - 1, x \in 0 .. w - 1 :
              prev[y][x] # cur[y][x] /\ y \div Tile = r - 1 /\ x \div Tile = k - 1
      /\ \A k \in 1 .. Bands(w), y \in 0 .. h - 1, x \in 0 .. w - 1 :
              prev[y][x] # cur[y][x] /\ y \div Tile = r - 1 /\ x \div Tile = k - 1 => A(k)
  BY AltersBy, ZenonT(60) DEF A
<1>16. PICK y \in 0 .. h - 1, x \in 0 .. w - 1 :
              prev[y][x] # cur[y][x] /\ y \div Tile = r - 1 /\ x \div Tile = c - 1
  BY <1>3, <1>5, Zenon
<1>6. ASSUME NEW k, A(k)
      PROVE  k \in ca .. cb
  <2>1. PICK v \in 0 .. h - 1, u \in 0 .. w - 1 :
               prev[v][u] # cur[v][u] /\ v \div Tile = r - 1 /\ u \div Tile = k - 1
    BY <1>5, <1>6, Zenon
  <2>2. u \in a .. b - 1
    BY <2>1 DEF Filled
  <2>3. u \div Tile + 1 \in ca .. cb
    BY <1>2, <2>2
  <2>4. k \in Nat
    BY <1>4, <1>6
  <2> QED
    BY <2>1, <2>3, <2>4
<1>7. ASSUME NEW k \in ca .. cb
      PROVE  A(k)
  <2> DEFINE z == (k - 1) * Tile
  <2>1. z \in a .. b - 1 /\ z \div Tile = k - 1
    BY <1>2
  <2> HIDE DEF z
  <2>2. PICK v \in 0 .. h - 1, u \in 0 .. w - 1 : prev[v][u] # cur[v][u] /\ SameTile(v, u, y, z)
    BY <1>16, <2>1 DEF Filled
  <2>3. v \div Tile = r - 1 /\ u \div Tile = k - 1
    BY <1>16, <2>1, <2>2 DEF SameTile
  <2>4. k \in 1 .. Bands(w)
    BY <1>4
  <2> QED
    BY <1>5, <2>2, <2>3, <2>4, Zenon
<1>8. c = ca
  <2>1. c \in ca .. cb
    BY <1>3, <1>6
  <2>2. c # ca => c - 1 \in ca .. cb
    BY <1>4, <2>1
  <2> QED
    BY <1>3, <1>7, <2>2
<1> DEFINE T == Stops(prev, cur, w, h, r, c)
           s == Min(T)
<1>9. s \in c .. Bands(w) /\ \A e \in c .. Bands(w) : (\A d \in c .. e : A(d)) => e <= s
  BY StopFacts DEF A
<1>10. cb <= s
  <2>1. cb \in c .. Bands(w)
    BY <1>2, <1>4, <1>8
  <2>2. \A d \in c .. cb : A(d)
    BY <1>7, <1>8
  <2> QED
    BY <1>9, <2>1, <2>2
<1>11. s <= cb
  <2>1. cb \in T
    <3>1. ~A(cb + 1)
      <4>1. cb + 1 \notin ca .. cb
        BY <1>4
      <4> QED
        BY <1>6, <4>1
    <3>2. cb \in c .. Bands(w)
      BY <1>2, <1>4, <1>8
    <3> QED
      BY <3>1, <3>2 DEF Stops, A
  <2>2. T \in SUBSET Nat
    BY <1>4 DEF Stops
  <2> HIDE DEF T
  <2> QED
    BY <2>1, <2>2, MinOf
<1>12. s = cb
  <2> HIDE DEF s
  <2> QED
    BY <1>4, <1>9, <1>10, <1>11
<1>13. p.x = (c - 1) * Tile /\ p.w = Edge(w, s) - (c - 1) * Tile
  BY <1>1 DEF Piece
<1> HIDE DEF s
<1>14. p.x = a /\ p.w = b - a
  BY <1>2, <1>8, <1>12, <1>13
<1>15. a \in Nat /\ b \in Nat
  BY DEF Aligned
<1> QED
  BY <1>14, <1>15 DEF p

----------------------------------------------------------------------------
(* Where a window changed.                                                 *)

(* A window of the columns a to b that scrolled, in what the search goes   *)
(* by.                                                                     *)
Scrolled(prev, cur, w, h, a, b, key, src, dst, n) ==
  /\ Moves(Hashes(prev, h, <<a, b>>, key), Hashes(cur, h, <<a, b>>, key), h, src, dst, n)
  /\ RowsMatch(prev, cur, <<a, b>>, src, dst, n)
  /\ n >= MinScroll /\ Aligned(w, a, b) /\ Filled(prev, cur, w, h, a, b)

(* A row that is new in the window has a pixel that is.                    *)
LEMMA RowChanged ==
  ASSUME NEW prev, NEW cur, NEW w, NEW h, NEW a, NEW b, NEW key, NEW src, NEW dst, NEW n,
         Scrolled(prev, cur, w, h, a, b, key, src, dst, n), NEW y \in Window(src, dst, n)
  PROVE  y \in 0 .. h - 1 /\ \E x \in 0 .. w - 1 : prev[y][x] # cur[y][x]
<1> DEFINE ph == Hashes(prev, h, <<a, b>>, key)
           ch == Hashes(cur, h, <<a, b>>, key)
<1>1. Moves(ph, ch, h, src, dst, n) /\ Aligned(w, a, b)
  BY DEF Scrolled
<1>2. y \in 0 .. h - 1 /\ ph[y] # ch[y]
  <2> HIDE DEF ph, ch
  <2> QED
    BY <1>1, MoveAgrees
<1>3. RowHash(prev[y], <<a, b>>, key) # RowHash(cur[y], <<a, b>>, key)
  BY <1>2 DEF Hashes
<1>4. \E x \in a .. b - 1 : prev[y][x] # cur[y][x]
  <2> SUFFICES ASSUME \A x \in a .. b - 1 : prev[y][x] = cur[y][x] PROVE FALSE
    OBVIOUS
  <2>1. RowHash(prev[y], <<a, b>>, key) = RowHash(cur[y], <<a, b>>, key)
    BY DEF RowHash
  <2> QED
    BY <1>3, <2>1
<1>5. a .. b - 1 \subseteq 0 .. w - 1
  BY <1>1 DEF Aligned
<1> QED
  BY <1>2, <1>4, <1>5

(* What changed reaches over more rows than those that moved.              *)
Tall(rects) == /\ rects # <<>>
               /\ Max({rects[i].y + rects[i].h : i \in DOMAIN rects})
                    - Min({rects[i].y : i \in DOMAIN rects}) >= MinScroll

LEMMA SpanIs ==
  ASSUME NEW prev, NEW cur, NEW w \in Nat, NEW h \in Nat, NEW a, NEW b, NEW key, NEW src, NEW dst, NEW n,
         Scrolled(prev, cur, w, h, a, b, key, src, dst, n)
  PROVE  Tall(ChangedRects(prev, cur, w, h))
<1> DEFINE rects == ChangedRects(prev, cur, w, h)
           top  == Least(src, dst)
           last == Most(src, dst) + n - 1
           Y == {rects[i].y : i \in DOMAIN rects}
           Z == {rects[i].y + rects[i].h : i \in DOMAIN rects}
           y == Min(Y)
           z == Max(Z)
<1>1. /\ src \in Nat /\ dst \in Nat /\ n \in Nat \ {0} /\ src # dst /\ n >= MinScroll
      /\ MinScroll \in Nat
  BY ScrollAssumption DEF Scrolled, Moves
<1>2. /\ top \in Nat /\ last \in Nat /\ last - top >= n
      /\ top \in Window(src, dst, n) /\ last \in Window(src, dst, n)
  BY <1>1 DEF Least, Most, Window
<1> HIDE DEF top, last
<1>3. PICK x \in 0 .. w - 1 : top \in 0 .. h - 1 /\ prev[top][x] # cur[top][x]
  BY <1>2, RowChanged
<1>4. PICK i \in DOMAIN rects : In(rects[i], x, top)
  BY <1>3, DifferenceCovered
<1>5. PICK u \in 0 .. w - 1 : last \in 0 .. h - 1 /\ prev[last][u] # cur[last][u]
  BY <1>2, RowChanged
<1>6. PICK k \in DOMAIN rects : In(rects[k], u, last)
  BY <1>5, DifferenceCovered
<1>7. rects \in Seq(Boxes(w, h))
  BY RectsAre
<1> HIDE DEF rects
<1>8. \A m \in DOMAIN rects : rects[m] \in Boxes(w, h)
  BY <1>7, LenProperties, ElementOfSeq
<1>9. /\ \A m \in DOMAIN rects : rects[m].y \in Nat /\ rects[m].y + rects[m].h \in 0 .. h
      /\ rects[i].y <= top /\ last < rects[k].y + rects[k].h
  <2>1. \A m \in DOMAIN rects : rects[m].y \in Nat /\ rects[m].h \in Nat /\ rects[m].y + rects[m].h <= h
    BY <1>8 DEF Boxes
  <2>2. rects[i].y \in Nat /\ rects[i].h \in Nat /\ rects[k].y \in Nat /\ rects[k].h \in Nat
    BY <2>1
  <2>3. rects[i].y <= top /\ last < rects[k].y + rects[k].h
    BY <1>2, <1>4, <1>6, <2>2 DEF In
  <2> QED
    BY <2>1, <2>3
<1>10. y \in Nat /\ y <= rects[i].y
  <2>1. Y \in SUBSET Nat /\ rects[i].y \in Y
    BY <1>9
  <2> HIDE DEF Y
  <2> QED
    BY <2>1, MinOf
<1>11. z \in Nat /\ rects[k].y + rects[k].h <= z
  <2>1. Z \in SUBSET (0 .. h) /\ rects[k].y + rects[k].h \in Z
    BY <1>9
  <2> HIDE DEF Z
  <2>2. z \in Z /\ \A e \in Z : e <= z
    BY <2>1, MaxOf
  <2> QED
    BY <2>1, <2>2
<1> HIDE DEF y, z
<1>12. z - y >= MinScroll
  BY <1>1, <1>2, <1>9, <1>10, <1>11
<1>13. rects # <<>>
  BY <1>4
<1> QED
  BY <1>12, <1>13 DEF Tall, rects, y, z

----------------------------------------------------------------------------
(* The copy comes first.                                                   *)

(* The copy that a scroll is sent as.                                      *)
CopyOf(cols, b) == [kind |-> "copy", x |-> cols[1], y |-> b.dst, w |-> cols[2] - cols[1],
                    h |-> b.n, sx |-> cols[1], sy |-> b.src]

(* The columns are those of the window.                                    *)
LEMMA ColsFound ==
  ASSUME NEW prev, NEW cur, NEW w \in Nat, NEW h \in Nat, NEW a, NEW b,
         Aligned(w, a, b), Filled(prev, cur, w, h, a, b), ChangedRects(prev, cur, w, h) # <<>>
  PROVE  DominantCols(ChangedRects(prev, cur, w, h)) = <<a, b>>
<1> DEFINE rects == ChangedRects(prev, cur, w, h)
<1>1. \A i \in DOMAIN rects : rects[i].x = a /\ rects[i].x + rects[i].w = b
  BY FullRects
<1>2. rects \in Seq(Boxes(w, h)) /\ rects # <<>>
  BY RectsAre
<1> HIDE DEF rects
<1>3. PICK m \in DOMAIN rects : DominantCols(rects) = <<rects[m].x, rects[m].x + rects[m].w>>
  BY <1>2, ColsAreOf
<1>4. DominantCols(rects) = <<a, b>>
  BY <1>1, <1>3
<1> QED
  BY <1>4 DEF rects

Begin(parts, p) == 1 \in DOMAIN parts /\ parts[1] = p

(* The first part of the update is the copy of the rows that moved.        *)
LEMMA DiffScrolls ==
  ASSUME NEW prev, NEW cur, NEW w \in Nat, NEW h \in Nat, NEW a, NEW b, NEW key, NEW src, NEW dst, NEW n,
         Scrolled(prev, cur, w, h, a, b, key, src, dst, n)
  PROVE  Begin(Diff(prev, cur, w, h, TRUE, key), CopyOf(<<a, b>>, [dst |-> dst, src |-> src, n |-> n]))
<1> DEFINE rects  == ChangedRects(prev, cur, w, h)
           top    == Min({rects[i].y : i \in DOMAIN rects})
           bottom == Max({rects[i].y + rects[i].h : i \in DOMAIN rects})
           cols   == DominantCols(rects)
           looks  == rects # <<>> /\ TRUE /\ bottom - top >= MinScroll
           scroll == IF looks THEN FindScroll(prev, cur, w, h, cols, key) ELSE {}
           copies == {CopyOf(cols, e) : e \in scroll}
           base   == IF copies = {} THEN prev
                     ELSE Shifted(prev, w, h, CHOOSE c \in copies : TRUE)
           q      == AsParts(ChangedRects(base, cur, w, h))
           parts  == Diff(prev, cur, w, h, TRUE, key)
           band   == [dst |-> dst, src |-> src, n |-> n]
           c      == CopyOf(<<a, b>>, band)
<1>1. parts = SetToSeq(copies) \o q
  BY DEF Diff, Ordered, AsParts, CopyOf
<1>2. q \in Seq({q[i] : i \in DOMAIN q})
  <2> HIDE DEF base
  <2>1. /\ q \in Seq({q[i] : i \in DOMAIN q})
        /\ \A i \in DOMAIN q : q[i].kind = "pixels" /\ OnPicture(q[i], w, h)
        /\ \A y \in 0 .. h - 1, x \in 0 .. w - 1 :
             base[y][x] # cur[y][x] => \E i \in DOMAIN q : In(q[i], x, y)
    BY LeftOver, Zenon
  <2> QED
    BY <2>1
<1>3. looks
  <2>0. Tall(rects)
    BY SpanIs, Zenon
  <2>1. rects # <<>> /\ bottom - top >= MinScroll
    BY <2>0 DEF Tall
  <2> QED
    BY <2>1
<1>4. cols = <<a, b>>
  BY <1>3, ColsFound DEF Scrolled
<1>5. scroll = FindScroll(prev, cur, w, h, <<a, b>>, key)
  BY <1>3, <1>4
<1> HIDE DEF looks, cols, scroll, rects, top, bottom
<1>6. scroll = {band}
  <2> DEFINE cc == <<a, b>>
  <2>1. ~(cc[2] <= cc[1])
    BY DEF Scrolled, Aligned
  <2>2. /\ Moves(Hashes(prev, h, cc, key), Hashes(cur, h, cc, key), h, src, dst, n)
        /\ n >= MinScroll /\ RowsMatch(prev, cur, cc, src, dst, n)
    BY DEF Scrolled
  <2> HIDE DEF cc
  <2>3. FindScroll(prev, cur, w, h, cc, key) = {[dst |-> dst, src |-> src, n |-> n]}
    BY <2>1, <2>2, FindsIt
  <2> QED
    BY <1>5, <2>3 DEF cc
<1> HIDE DEF band
<1>7. copies = {c}
  BY <1>4, <1>6
<1> HIDE DEF copies, c, q, parts
<1>8. parts = <<c>> \o q
  BY <1>1, <1>7, FewToSeq
<1>9. 1 \in DOMAIN parts /\ parts[1] = c
  <2> DEFINE T == {q[i] : i \in DOMAIN q}
  <2>1. q \in Seq(T)
    BY <1>2
  <2> HIDE DEF T
  <2> QED
    BY <1>8, <2>1
<1> QED
  BY <1>9 DEF Begin, parts, c, band

----------------------------------------------------------------------------
(* The windows of the jobs.                                                *)

LEMMA EndsOf ==
  ASSUME NEW s \in Nat, NEW d \in Nat
  PROVE  Min({s, d}) = Least(s, d) /\ Max({s, d}) = Most(s, d)
<1> DEFINE T == {s, d}
           lo == Min(T)
           hi == Max(T)
           m == s + d
<1>1. T \in SUBSET Nat /\ T # {} /\ m \in Nat /\ T \in SUBSET (0 .. m)
      /\ s \in T /\ d \in T /\ \A e \in T : e = s \/ e = d
  OBVIOUS
<1> HIDE DEF T, m
<1>2. lo \in T /\ \A e \in T : lo <= e
  BY <1>1, MinOf
<1>3. hi \in T /\ \A e \in T : e <= hi
  BY <1>1, MaxOf
<1> HIDE DEF lo, hi
<1>4. lo = Least(s, d)
  BY <1>1, <1>2 DEF Least
<1>5. hi = Most(s, d)
  BY <1>1, <1>3 DEF Most
<1> QED
  BY <1>4, <1>5 DEF lo, hi, T

(* What CodecsAssumption says of a window is what the search goes by.      *)
LEMMA ScrollsIs ==
  ASSUME NEW j, Scrolls(j), j.w \in Nat, j.h \in Nat
  PROVE  Scrolled(j.prev, j.cur, j.w, j.h, j.a, j.b, j.key, j.src, j.dst, j.n) /\ j.copyrect
<1> DEFINE prev == j.prev
           cur == j.cur
           w == j.w
           h == j.h
           a == j.a
           b == j.b
           key == j.key
           src == j.src
           dst == j.dst
           n == j.n
           was(y) == RowHash(prev[y], <<a, b>>, key)
           is(y)  == RowHash(cur[y], <<a, b>>, key)
           moved == dst .. dst + n - 1
           window == Window(src, dst, n)
           ph == Hashes(prev, h, <<a, b>>, key)
           ch == Hashes(cur, h, <<a, b>>, key)
<1>1. /\ a \in Nat /\ b \in Nat /\ src \in Nat /\ dst \in Nat /\ n \in Nat /\ j.copyrect
      /\ a < b /\ b <= w /\ a % Tile = 0 /\ (b % Tile = 0 \/ b = w)
      /\ src # dst /\ n >= MinScroll
      /\ \A y, z \in 0 .. h - 1 : was(y) = was(z) => y = z
      /\ \A i \in 0 .. n - 1, x \in a .. b - 1 : cur[dst + i][x] = prev[src + i][x]
  BY DEF Scrolls
<1>2. Min({src, dst}) .. Max({src, dst}) + n - 1 = window
  BY <1>1, EndsOf DEF Window
<1>3. /\ window \subseteq 0 .. h - 1
      /\ \A y \in window \ moved, z \in 0 .. h - 1 : is(y) # was(z)
      /\ \A y \in 0 .. h - 1, x \in 0 .. w - 1 :
           prev[y][x] # cur[y][x] => y \in window /\ x \in a .. b - 1
      /\ \A y \in window, x \in a .. b - 1 : \E v \in 0 .. h - 1, u \in 0 .. w - 1 :
           prev[v][u] # cur[v][u] /\ v \div Tile = y \div Tile /\ u \div Tile = x \div Tile
  <2> DEFINE r == Min({src, dst}) .. Max({src, dst}) + n - 1
  <2>1. /\ r \subseteq 0 .. h - 1
        /\ \A y \in r \ moved, z \in 0 .. h - 1 : is(y) # was(z)
        /\ \A y \in 0 .. h - 1, x \in 0 .. w - 1 :
             prev[y][x] # cur[y][x] => y \in r /\ x \in a .. b - 1
        /\ \A y \in r, x \in a .. b - 1 : \E v \in 0 .. h - 1, u \in 0 .. w - 1 :
             prev[v][u] # cur[v][u] /\ v \div Tile = y \div Tile /\ u \div Tile = x \div Tile
    BY DEF Scrolls
  <2>2. r = window
    BY <1>2
  <2> HIDE DEF r, window
  <2> QED
    BY <2>1, <2>2
<1>4. w \in Nat /\ h \in Nat /\ n \in Nat \ {0}
  BY <1>1, ScrollAssumption
<1>5. \A y : was(y) = [x \in a .. b - 1 |-> key[prev[y][x]]] /\ is(y) = [x \in a .. b - 1 |-> key[cur[y][x]]]
  BY DEF RowHash
<1>6. \A y \in 0 .. h - 1 : ph[y] = was(y) /\ ch[y] = is(y)
  BY DEF Hashes
<1> HIDE DEF prev, cur, w, h, a, b, key, src, dst, n, was, is, ph, ch
<1>7. src + n <= h /\ dst + n <= h
  <2>1. Most(src, dst) + n - 1 \in window /\ src <= Most(src, dst) /\ dst <= Most(src, dst) /\ Most(src, dst) \in Nat
    BY <1>1, <1>4 DEF Window, Least, Most
  <2>2. Most(src, dst) + n - 1 \in 0 .. h - 1
    BY <1>3, <2>1
  <2> QED
    BY <1>1, <1>4, <2>1, <2>2
<1>8. moved \subseteq window /\ moved \subseteq 0 .. h - 1
  <2>1. moved \subseteq window
    BY <1>1, <1>4 DEF Window, Least, Most
  <2> QED
    BY <1>3, <2>1
<1>9. \A y \in moved : ch[y] = ph[y - (dst - src)]
  <2> SUFFICES ASSUME NEW y \in moved PROVE ch[y] = ph[y - (dst - src)]
    OBVIOUS
  <2> DEFINE i == y - dst
  <2>1. i \in 0 .. n - 1 /\ y = dst + i /\ y - (dst - src) = src + i /\ src + i \in 0 .. h - 1 /\ y \in 0 .. h - 1
    BY <1>1, <1>4, <1>7
  <2> HIDE DEF i, moved
  <2>2. \A x \in a .. b - 1 : cur[y][x] = prev[src + i][x]
    BY <1>1, <2>1
  <2>3. is(y) = was(src + i)
    BY <1>5, <2>2
  <2> QED
    BY <1>6, <2>1, <2>3
<1>10. \A y \in 0 .. h - 1 : y \notin window => ch[y] = ph[y]
  <2> SUFFICES ASSUME NEW y \in 0 .. h - 1, y \notin window PROVE ch[y] = ph[y]
    OBVIOUS
  <2>1. \A x \in a .. b - 1 : x \in 0 .. w - 1
    BY <1>1, <1>4
  <2>2. \A x \in a .. b - 1 : cur[y][x] = prev[y][x]
    BY <1>3, <2>1
  <2>3. is(y) = was(y)
    BY <1>5, <2>2
  <2> QED
    BY <1>6, <2>3
<1>11. Moves(ph, ch, h, src, dst, n)
  <2>1. \A y, z \in 0 .. h - 1 : ph[y] = ph[z] => y = z
    BY <1>1, <1>6
  <2>2. \A y \in window : y \notin moved => \A z \in 0 .. h - 1 : ch[y] # ph[z]
    BY <1>3, <1>6
  <2> QED
    BY <1>1, <1>4, <1>7, <1>9, <1>10, <2>1, <2>2 DEF Moves
<1>12. RowsMatch(prev, cur, <<a, b>>, src, dst, n)
  BY <1>1 DEF RowsMatch
<1>13. Aligned(w, a, b)
  BY <1>1, <1>4 DEF Aligned
<1>14. Filled(prev, cur, w, h, a, b)
  <2> SUFFICES ASSUME NEW y \in 0 .. h - 1, NEW x \in 0 .. w - 1, prev[y][x] # cur[y][x]
               PROVE  /\ x \in a .. b - 1
                      /\ \A z \in a .. b - 1 : \E v \in 0 .. h - 1, u \in 0 .. w - 1 :
                           prev[v][u] # cur[v][u] /\ SameTile(v, u, y, z)
    BY DEF Filled
  <2> HIDE DEF window
  <2>1. y \in window /\ x \in a .. b - 1
    BY <1>3
  <2>2. \A z \in a .. b - 1 : \E v \in 0 .. h - 1, u \in 0 .. w - 1 :
           prev[v][u] # cur[v][u] /\ v \div Tile = y \div Tile /\ u \div Tile = z \div Tile
    BY <1>3, <2>1, Zenon
  <2> QED
    BY <2>1, <2>2 DEF SameTile
<1>15. Scrolled(prev, cur, w, h, a, b, key, src, dst, n)
  BY <1>1, <1>11, <1>12, <1>13, <1>14 DEF Scrolled, ph, ch
<1> QED
  BY <1>1, <1>15 DEF prev, cur, w, h, a, b, key, src, dst, n

----------------------------------------------------------------------------
(* A scroll is sent as one.                                                *)

(* The update of a window that scrolled begins with its copy.              *)
LEMMA ScrollsSent ==
  ASSUME NEW j \in ScrollJobs
  PROVE  LET p == Sent(j)[1]
         IN  /\ 1 \in DOMAIN Sent(j) /\ p.kind = "copy" /\ p.x = j.a /\ p.w = j.b - j.a
             /\ p.y = j.dst /\ p.sy = j.src /\ p.h = j.n
<1> DEFINE W == j.w
           H == j.h
           prev == j.prev
           cur == j.cur
           zrle == j.zrle
           key == j.key
           a == j.a
           b == j.b
           src == j.src
           dst == j.dst
           n == j.n
           c == CopyOf(<<a, b>>, [dst |-> dst, src |-> src, n |-> n])
           parts == Parts(j)
           u == Sent(j)
<1>1. /\ W \in Nat /\ H \in Nat /\ Scrolls(j) /\ j.copyrect \in BOOLEAN
      /\ prev \in [0 .. H - 1 -> [0 .. W - 1 -> Rgb]]
      /\ cur \in [0 .. H - 1 -> [0 .. W - 1 -> Rgb]]
  BY CodecsAssumption
<1>2. Scrolled(prev, cur, W, H, a, b, key, src, dst, n) /\ j.copyrect = TRUE
  BY <1>1, ScrollsIs
<1>3. parts = Diff(prev, cur, W, H, TRUE, key) /\ u = Update(parts, cur, zrle)
  BY <1>2 DEF Parts, Sent
<1>4. c.kind = "copy" /\ c.x = a /\ c.w = b - a /\ c.y = dst /\ c.sy = src /\ c.h = n
  BY DEF CopyOf
<1> HIDE DEF W, H, prev, cur, zrle, key, a, b, src, dst, n, parts, u
<1>5. 1 \in DOMAIN parts /\ parts[1] = c
  <2>1. Begin(Diff(prev, cur, W, H, TRUE, key), CopyOf(<<a, b>>, [dst |-> dst, src |-> src, n |-> n]))
    BY <1>1, <1>2, DiffScrolls
  <2> QED
    BY <1>3, <2>1 DEF Begin, c
<1> HIDE DEF c
<1>6. Len(parts) \in Nat /\ DOMAIN parts = 1 .. Len(parts)
  <2>1. Enough(prev, cur, W, H, Diff(prev, cur, W, H, TRUE, key))
    <3> DEFINE yes == TRUE
    <3>1. yes \in BOOLEAN
      OBVIOUS
    <3> HIDE DEF yes
    <3>2. Enough(prev, cur, W, H, Diff(prev, cur, W, H, yes, key))
      BY <1>1, <3>1, ComparingIsEnough
    <3> QED
      BY <3>2 DEF yes
  <2> QED
    BY <1>3, <2>1 DEF Enough
<1>7. DOMAIN u = DOMAIN parts /\ \A k \in DOMAIN parts : u[k] = Entry(parts[k], cur, zrle)
  BY <1>3, <1>6, PartsSent
<1>8. 1 \in DOMAIN u /\ u[1] = Entry(c, cur, zrle)
  <2> DEFINE k == 1
  <2>1. k \in DOMAIN parts /\ parts[k] = c
    BY <1>5
  <2> HIDE DEF k
  <2>2. k \in DOMAIN u /\ u[k] = Entry(c, cur, zrle)
    BY <1>7, <2>1
  <2> QED
    BY <2>2 DEF k
<1> DEFINE p == u[1]
<1>9. /\ p.x = c.x /\ p.y = c.y /\ p.w = c.w /\ p.h = c.h /\ p.sx = c.sx /\ p.sy = c.sy
      /\ p.kind = IF c.kind = "copy" THEN "copy" ELSE IF zrle THEN "zrle" ELSE "raw"
  BY <1>8, EntryIs
<1> HIDE DEF p
<1>10. /\ p.kind = "copy" /\ p.x = a /\ p.w = b - a /\ p.y = dst /\ p.sy = src /\ p.h = n
  BY <1>4, <1>9
<1> QED
  BY <1>8, <1>10 DEF p, u, a, b, src, dst, n

LEMMA ScrollsArrive ==
  ASSUME IInv
  PROVE  ScrollFound
<1>1. CopyIsRight
  BY PicturesArrive
<1>2. ASSUME job.kind = "scroll", coded # Nothing
      PROVE  \E i \in DOMAIN coded[1] :
               LET p == coded[1][i]
               IN  /\ p.kind = "copy"
                   /\ p.x = job.of.a /\ p.w = job.of.b - job.of.a
                   /\ p.y = job.of.dst /\ p.sy = job.of.src /\ p.h = job.of.n
  <2> DEFINE j == job.of
             u == Sent(j)
  <2>1. j \in ScrollJobs
    BY <1>2 DEF IInv, Jobs
  <2>2. coded = <<u>>
    BY <1>2 DEF IInv, FrameInv, Half
  <2>3. LET p == u[1]
        IN  /\ 1 \in DOMAIN u /\ p.kind = "copy" /\ p.x = j.a /\ p.w = j.b - j.a
            /\ p.y = j.dst /\ p.sy = j.src /\ p.h = j.n
    BY <2>1, ScrollsSent
  <2> HIDE DEF u
  <2>4. coded[1] = u
    BY <2>2
  <2> QED
    BY <2>3, <2>4
<1> QED
  BY <1>1, <1>2 DEF ScrollFound

----------------------------------------------------------------------------
(* Rectangles from other servers: lengths and colours.                     *)

(* The three bytes of every pixel.                                         *)
LEMMA ColourBytes == \A c \in Rgb : c \in Seq(Byte) /\ Len(c) = 3 /\ DOMAIN c = 1 .. 3
<1> DEFINE m == 3
<1>1. m \in Nat /\ Rgb = [1 .. m -> Byte]
  BY DEF Rgb
<1> HIDE DEF m
<1>2. \A c \in [1 .. m -> Byte] : c \in Seq(Byte) /\ Len(c) = m /\ DOMAIN c = 1 .. m
  BY <1>1, AsSeq
<1> QED
  BY <1>1, <1>2 DEF m

LEMMA BytesAre ==
  ASSUME NEW px \in Seq(Rgb)
  PROVE  /\ Bytes(px) \in Seq(Byte) /\ Len(Bytes(px)) = 3 * Len(px) /\ Len(px) \in Nat
         /\ \A k \in 1 .. Len(px), c \in 1 .. 3 :
              3 * (k - 1) + c \in 1 .. 3 * Len(px) /\ Bytes(px)[3 * (k - 1) + c] = px[k][c]
<1> DEFINE m == 3
           n == Len(px)
<1>1. px \in Seq(Seq(Byte)) /\ n \in Nat /\ \A k \in 1 .. n : Len(px[k]) = m
  <2>1. n \in Nat /\ \A k \in 1 .. n : px[k] \in Rgb
    BY LenProperties, ElementOfSeq
  <2>2. Rgb \subseteq Seq(Byte)
    BY ColourBytes
  <2>3. px \in Seq(Seq(Byte))
    <3> DEFINE S == Seq(Byte)
    <3>1. Rgb \subseteq S
      BY <2>2
    <3> HIDE DEF S
    <3>2. px \in Seq(S)
      BY <3>1
    <3> QED
      BY <3>2 DEF S
  <2> QED
    BY <2>1, <2>3, ColourBytes
<1>2. m \in Nat /\ m = 3
  OBVIOUS
<1> HIDE DEF m
<1> DEFINE s == FlattenSeq(px)
<1> HIDE DEF s
<1>3. /\ s \in Seq(Byte) /\ Len(s) = n * m
      /\ \A k \in 1 .. n, j \in 1 .. m : (k - 1) * m + j \in 1 .. n * m /\ s[(k - 1) * m + j] = px[k][j]
  <2>1. px \in Seq(Seq(Byte))
    BY <1>1
  <2>2. m \in Nat /\ \A k \in 1 .. Len(px) : Len(px[k]) = m
    BY <1>1, <1>2
  <2> QED
    BY <2>1, <2>2, FlatUniform DEF s
<1> HIDE DEF n
<1>4. n * m = 3 * n /\ \A k \in 1 .. n : (k - 1) * m = 3 * (k - 1)
  BY <1>1, <1>2
<1>5. ASSUME NEW k \in 1 .. n, NEW c \in 1 .. 3
      PROVE  3 * (k - 1) + c \in 1 .. 3 * n /\ Bytes(px)[3 * (k - 1) + c] = px[k][c]
  <2>1. c \in 1 .. m
    BY <1>2
  <2>2. (k - 1) * m + c \in 1 .. n * m /\ s[(k - 1) * m + c] = px[k][c]
    BY <1>3, <2>1
  <2>3. (k - 1) * m + c = 3 * (k - 1) + c
    BY <1>4
  <2> QED
    BY <1>4, <2>2, <2>3 DEF Bytes, s
<1> QED
  BY <1>1, <1>3, <1>4, <1>5 DEF Bytes, n, s

LEMMA PixelsBack ==
  ASSUME NEW px \in Seq(Rgb), NEW b \in Seq(Byte), NEW i \in Nat \ {0}, Holds(b, i, Bytes(px))
  PROVE  Tpixels(b, i, Len(px)) = px
<1> DEFINE n == Len(px)
           q == Bytes(px)
<1>1. /\ q \in Seq(Byte) /\ Len(q) = 3 * n /\ n \in Nat
      /\ \A k \in 1 .. n, c \in 1 .. 3 : 3 * (k - 1) + c \in 1 .. 3 * n /\ q[3 * (k - 1) + c] = px[k][c]
  BY BytesAre
<1>2. \A k \in 1 .. n : px[k] \in Rgb
  BY ElementOfSeq
<1>3. px = [k \in 1 .. n |-> px[k]]
  BY <1>1
<1> HIDE DEF n, q
<1>4. i + 3 * n - 1 <= Len(b) /\ (\A k \in 1 .. 3 * n : b[i + k - 1] = q[k]) /\ Len(b) \in Nat
  BY <1>1, LenProperties DEF Holds, q
<1>5. ASSUME NEW k \in 1 .. n
      PROVE  SubSeq(b, i + 3 * (k - 1), i + 3 * k - 1) = px[k]
  <2> DEFINE c == px[k]
             m == i + 3 * (k - 1)
  <2>1. c \in Seq(Byte) /\ Len(c) = 3
    BY <1>2, ColourBytes
  <2>2. m \in Nat \ {0} /\ i + 3 * k - 1 = m + 3 - 1 /\ m + 3 - 1 <= Len(b)
    BY <1>1, <1>4
  <2>3. \A j \in 1 .. 3 : b[m + j - 1] = c[j]
    <3> SUFFICES ASSUME NEW j \in 1 .. 3 PROVE b[m + j - 1] = c[j]
      OBVIOUS
    <3>1. i + (3 * (k - 1) + j) - 1 = m + j - 1
      BY <1>1
    <3> QED
      BY <1>1, <1>4, <3>1
  <2> HIDE DEF m, c
  <2>4. Holds(b, m, c)
    BY <2>1, <2>2, <2>3 DEF Holds
  <2>5. SubSeq(b, m, m + Len(c) - 1) = c
    BY <2>1, <2>2, <2>4, HoldsThere
  <2> QED
    BY <2>1, <2>2, <2>5 DEF m, c
<1>6. Tpixels(b, i, n) = [k \in 1 .. n |-> px[k]]
  BY <1>5 DEF Tpixels
<1> QED
  BY <1>3, <1>6 DEF n

----------------------------------------------------------------------------
(* The length of a block.                                                  *)
LEMMA CompactBack ==
  ASSUME NEW n \in Nat, n < 128 * 128 * 256
  PROVE  /\ Compact(n) \in Seq(Byte) /\ Len(Compact(n)) \in Nat
         /\ \A b \in Seq(Byte), i \in Nat \ {0} : Holds(b, i, Compact(n)) =>
              CompactLen(b, i) = [len |-> n, next |-> i + Len(Compact(n))]
<1>1. CASE n < 128
  <2>1. Compact(n) = <<n>> /\ n \in Byte
    BY <1>1 DEF Compact, Byte
  <2> DEFINE q == <<n>>
  <2>2. q \in Seq(Byte) /\ Len(q) = 1 /\ q[1] = n
    BY <2>1
  <2> HIDE DEF q
  <2>3. ASSUME NEW b \in Seq(Byte), NEW i \in Nat \ {0}, Holds(b, i, q)
        PROVE  CompactLen(b, i) = [len |-> n, next |-> i + 1]
    <3>1. b[i + 1 - 1] = n /\ i + 1 - 1 = i
      BY <2>2, <2>3 DEF Holds
    <3>2. b[i] = n
      BY <3>1
    <3> QED
      BY <1>1, <3>2 DEF CompactLen
  <2> QED
    BY <2>1, <2>2, <2>3 DEF q
<1>2. CASE ~(n < 128) /\ n < 16384
  <2> DEFINE lo == (n % 128) + 128
             hi == n \div 128
  <2>1. lo \in Nat /\ lo >= 128 /\ lo <= 255 /\ lo % 128 = n % 128 /\ hi \in Nat /\ hi < 128 /\ (n % 128) + 128 * hi = n
    BY <1>2
  <2>2. Compact(n) = <<lo, hi>>
    BY <1>2 DEF Compact
  <2> HIDE DEF lo, hi
  <2> DEFINE q == <<lo, hi>>
  <2>3. lo \in Byte /\ hi \in Byte
    BY <2>1 DEF Byte
  <2>4. q \in Seq(Byte) /\ Len(q) = 2 /\ q[1] = lo /\ q[2] = hi
    BY <2>3
  <2> HIDE DEF q
  <2>5. ASSUME NEW b \in Seq(Byte), NEW i \in Nat \ {0}, Holds(b, i, q)
        PROVE  CompactLen(b, i) = [len |-> n, next |-> i + 2]
    <3>1. b[i + 1 - 1] = lo /\ i + 1 - 1 = i /\ b[i + 2 - 1] = hi /\ i + 2 - 1 = i + 1
      BY <2>4, <2>5 DEF Holds
    <3>2. b[i] = lo /\ b[i + 1] = hi
      BY <3>1
    <3>3. ~(lo < 128)
      BY <2>1
    <3>4. CompactLen(b, i) = [len |-> (lo % 128) + 128 * hi, next |-> i + 2]
      BY <2>1, <3>2, <3>3 DEF CompactLen
    <3> QED
      BY <2>1, <3>4
  <2> QED
    BY <2>2, <2>4, <2>5 DEF q
<1>3. CASE ~(n < 128) /\ ~(n < 16384)
  <2> DEFINE lo == (n % 128) + 128
             mid == ((n \div 128) % 128) + 128
             hi == n \div 16384
  <2>1. /\ lo \in Nat /\ lo >= 128 /\ lo <= 255 /\ lo % 128 = n % 128
        /\ mid \in Nat /\ mid >= 128 /\ mid <= 255 /\ mid % 128 = (n \div 128) % 128
        /\ hi \in Nat /\ hi < 256
    BY <1>3
  <2>2. (n % 128) + 128 * ((n \div 128) % 128) + 16384 * hi = n
    <3> DEFINE c == n \div 128
    <3>1. n = 128 * c + (n % 128) /\ c \in Nat
      OBVIOUS
    <3>2. n \div 16384 = c \div 128
      OBVIOUS
    <3> HIDE DEF c
    <3>3. c = 128 * (c \div 128) + (c % 128) /\ c \div 128 \in Nat /\ c % 128 \in Nat
      BY <3>1
    <3> QED
      BY <3>1, <3>2, <3>3 DEF c
  <2>3. Compact(n) = <<lo, mid, hi>>
    BY <1>3 DEF Compact
  <2> HIDE DEF lo, mid, hi
  <2> DEFINE q == <<lo, mid, hi>>
  <2>4. lo \in Byte /\ mid \in Byte /\ hi \in Byte
    BY <2>1 DEF Byte
  <2>5. q \in Seq(Byte) /\ Len(q) = 3 /\ q[1] = lo /\ q[2] = mid /\ q[3] = hi
    BY <2>4
  <2> HIDE DEF q
  <2>6. ASSUME NEW b \in Seq(Byte), NEW i \in Nat \ {0}, Holds(b, i, q)
        PROVE  CompactLen(b, i) = [len |-> n, next |-> i + 3]
    <3>1. /\ b[i + 1 - 1] = lo /\ i + 1 - 1 = i /\ b[i + 2 - 1] = mid /\ i + 2 - 1 = i + 1
          /\ b[i + 3 - 1] = hi /\ i + 3 - 1 = i + 2
      BY <2>5, <2>6 DEF Holds
    <3>2. b[i] = lo /\ b[i + 1] = mid /\ b[i + 2] = hi
      BY <3>1
    <3>3. ~(lo < 128) /\ ~(mid < 128)
      BY <2>1
    <3>4. CompactLen(b, i) = [len |-> (lo % 128) + 128 * (mid % 128) + 16384 * hi, next |-> i + 3]
      BY <3>2, <3>3 DEF CompactLen
    <3> QED
      BY <2>1, <2>2, <3>4
  <2> QED
    BY <2>3, <2>5, <2>6 DEF q
<1> QED
  BY <1>1, <1>2, <1>3

----------------------------------------------------------------------------
(* The control byte and the palette.                                       *)

(* The control byte: what is above and what is restarted come back.        *)
LEMMA ControlIs ==
  ASSUME NEW r, NEW above \in Nat, above <= 15
  PROVE  /\ Control(r, above) \in Byte /\ Control(r, above) \div 16 = above
         /\ \A z : Restarted(Control(r, above), z) = [s \in Streams |-> IF s \in r.restarts THEN 0 ELSE z[s]]
<1> DEFINE f == [s \in Streams |-> IF s \in r.restarts THEN 2^s ELSE 0]
           d(s) == IF s \in r.restarts THEN 1 ELSE 0
           b == Control(r, above)
<1>1. 2^0 = 1 /\ 2^1 = 2 /\ 2^2 = 4 /\ 2^3 = 8
  OBVIOUS
<1>2. Streams = 0 .. 3 /\ 0 \in Streams /\ 1 \in Streams /\ 2 \in Streams /\ 3 \in Streams
  BY DEF Streams
<1>3. f[0] = 1 * d(0) /\ f[1] = 2 * d(1) /\ f[2] = 4 * d(2) /\ f[3] = 8 * d(3)
  BY <1>1, <1>2
<1>4. d(0) \in {0, 1} /\ d(1) \in {0, 1} /\ d(2) \in {0, 1} /\ d(3) \in {0, 1}
  OBVIOUS
<1>5. b = SumFunction(f) + 16 * above
  BY DEF Control
<1>6. DOMAIN f = 0 .. 3
  BY <1>2
<1> DEFINE d0 == d(0)
           d1 == d(1)
           d2 == d(2)
           d3 == d(3)
<1>7. f[0] = d0 /\ f[1] = 2 * d1 /\ f[2] = 4 * d2 /\ f[3] = 8 * d3
  BY <1>3, <1>4
<1>8. d0 \in 0 .. 1 /\ d1 \in 0 .. 1 /\ d2 \in 0 .. 1 /\ d3 \in 0 .. 1
  BY <1>4
<1> HIDE DEF d0, d1, d2, d3, f
<1>9. SumFunction(f) = d0 + 2 * d1 + 4 * d2 + 8 * d3
  <2>1. f[0] \in Int /\ f[1] \in Int /\ f[2] \in Int /\ f[3] \in Int
    BY <1>7, <1>8
  <2>2. SumFunction(f) = SumOn(f, 0 .. 3)
    BY <1>6, SumIs
  <2>3. SumOn(f, 0 .. 3) = f[0] + f[1] + f[2] + f[3]
    BY <2>1, SumOfFour
  <2> QED
    BY <1>7, <2>2, <2>3
<1> HIDE DEF b
<1> DEFINE h1 == 2 * above + d3
           h2 == 2 * h1 + d2
           h3 == 2 * h2 + d1
           l0 == d0 + 2 * d1 + 4 * d2 + 8 * d3
           l1 == d0
           l2 == d0 + 2 * d1
           l3 == d0 + 2 * d1 + 4 * d2
<1>10. b = l0 + 16 * above
  BY <1>5, <1>9
<1>11. /\ h1 \in Nat /\ h2 \in Nat /\ h3 \in Nat /\ above \in Nat
       /\ l0 \in 0 .. 16 - 1 /\ 0 \in 0 .. 1 - 1 /\ l1 \in 0 .. 2 - 1 /\ l2 \in 0 .. 4 - 1 /\ l3 \in 0 .. 8 - 1
  BY <1>8
<1>12. b = above * 16 + l0 /\ b \in Nat /\ b <= 255
  BY <1>10, <1>11
<1>13. /\ MadeOf(b, h3, d0, 1, 0) /\ MadeOf(b, h2, d1, 2, l1) /\ MadeOf(b, h1, d2, 4, l2)
       /\ MadeOf(b, above, d3, 8, l3)
  BY <1>8, <1>10 DEF MadeOf
<1> HIDE DEF h1, h2, h3, l0, l1, l2, l3
<1>14. b \div 16 = above
  <2>1. 16 \in Nat \ {0} /\ above \in Int /\ l0 \in 0 .. 16 - 1
    BY <1>11
  <2>2. (above * 16 + l0) \div 16 = above
    BY <2>1, DivMod
  <2> QED
    BY <1>12, <2>2
<1>15. (b \div 2^0) % 2 = d0
  <2>1. h3 \in Nat /\ d0 \in 0 .. 1 /\ 1 \in Nat \ {0} /\ 0 \in 0 .. 1 - 1 /\ MadeOf(b, h3, d0, 1, 0)
    BY <1>8, <1>11, <1>13
  <2>2. (b \div 1) % 2 = d0
    BY <2>1, Digit, Zenon
  <2> QED
    BY <1>1, <2>2
<1>16. (b \div 2^1) % 2 = d1
  <2>1. h2 \in Nat /\ d1 \in 0 .. 1 /\ 2 \in Nat \ {0} /\ l1 \in 0 .. 2 - 1 /\ MadeOf(b, h2, d1, 2, l1)
    BY <1>8, <1>11, <1>13
  <2>2. (b \div 2) % 2 = d1
    BY <2>1, Digit, Zenon
  <2> QED
    BY <1>1, <2>2
<1>17. (b \div 2^2) % 2 = d2
  <2>1. h1 \in Nat /\ d2 \in 0 .. 1 /\ 4 \in Nat \ {0} /\ l2 \in 0 .. 4 - 1 /\ MadeOf(b, h1, d2, 4, l2)
    BY <1>8, <1>11, <1>13
  <2>2. (b \div 4) % 2 = d2
    BY <2>1, Digit, Zenon
  <2> QED
    BY <1>1, <2>2
<1>18. (b \div 2^3) % 2 = d3
  <2>1. above \in Nat /\ d3 \in 0 .. 1 /\ 8 \in Nat \ {0} /\ l3 \in 0 .. 8 - 1 /\ MadeOf(b, above, d3, 8, l3)
    BY <1>8, <1>11, <1>13
  <2>2. (b \div 8) % 2 = d3
    BY <2>1, Digit, Zenon
  <2> QED
    BY <1>1, <2>2
<1>19. \A s \in Streams : (b \div 2^s) % 2 = 1 <=> s \in r.restarts
  <2>1. \A s \in Streams : s = 0 \/ s = 1 \/ s = 2 \/ s = 3
    BY <1>2
  <2>2. /\ d0 = 1 <=> 0 \in r.restarts
        /\ d1 = 1 <=> 1 \in r.restarts
        /\ d2 = 1 <=> 2 \in r.restarts
        /\ d3 = 1 <=> 3 \in r.restarts
    BY DEF d0, d1, d2, d3
  <2> QED
    BY <1>15, <1>16, <1>17, <1>18, <2>1, <2>2
<1>20. \A z : Restarted(b, z) = [s \in Streams |-> IF s \in r.restarts THEN 0 ELSE z[s]]
  BY <1>19 DEF Restarted
<1> QED
  BY <1>12, <1>14, <1>20 DEF b, Byte

----------------------------------------------------------------------------
(* The colours of a rectangle: every one of them, in some order.           *)
Noting(pal, c) == IF c \in Range(pal) THEN pal ELSE Append(pal, c)

LEMMA NotingIs ==
  ASSUME NEW pal \in Seq(Rgb), Distinct(pal), NEW c \in Rgb
  PROVE  Extends(pal, Noting(pal, c)) /\ c \in Elems(Noting(pal, c))
<1>1. c \in Range(pal) <=> \E k \in DOMAIN pal : pal[k] = c
  BY DEF Range
<1>2. Noting(pal, c) = Noted(pal, c)
  BY <1>1 DEF Noting, Noted
<1> QED
  BY <1>2, NotedIs

LEMMA PalIs ==
  ASSUME NEW px \in Seq(Rgb)
  PROVE  /\ Pal(px) \in Seq(Rgb) /\ Len(Pal(px)) \in Nat /\ DOMAIN Pal(px) = 1 .. Len(Pal(px))
         /\ \A i \in 1 .. Len(px) : \E k \in 1 .. Len(Pal(px)) : Pal(px)[k] = px[i]
<1> DEFINE n == Len(px)
           D == {p \in Seq(Rgb) : Distinct(p)}
           G == [x \in D \X (1 .. n) |-> Noting(x[1], px[x[2]])]
<1>1. n \in Nat /\ DOMAIN px = 1 .. n /\ \A k \in 1 .. n : px[k] \in Rgb
  BY LenProperties, ElementOfSeq
<1> HIDE DEF n
<1>2. \A v \in D, k \in 1 .. n : Noting(v, px[k]) \in D
  BY <1>1, NotingIs DEF Extends
<1>3. G \in [D \X (1 .. n) -> D] /\ <<>> \in D
  <2>1. <<>> \in Seq(Rgb) /\ Distinct(<<>>)
    BY EmptySeq DEF Distinct
  <2> HIDE DEF D
  <2>2. G \in [D \X (1 .. n) -> D]
    BY <1>2
  <2> QED
    BY <2>1, <2>2 DEF D
<1>4. \A v \in D, k \in 1 .. n : G[<<v, k>>] = Noting(v, px[k])
  OBVIOUS
<1> HIDE DEF G, D
<1>5. PICK g \in [0 .. n -> D] : Chain(g, <<>>, G, n)
  BY <1>1, <1>3, Recursion
<1>6. g[0] = <<>> /\ \A k \in 1 .. n : g[k] = Noting(g[k - 1], px[k])
  <2>1. g[0] = <<>> /\ \A k \in 1 .. n : g[k] = G[<<g[k - 1], k>>]
    BY <1>5, Zenon DEF Chain
  <2>2. \A k \in 1 .. n : g[k - 1] \in D
    BY <1>1
  <2> QED
    BY <1>4, <2>1, <2>2
<1> DEFINE Step(f, k) == IF k = 0 THEN <<>> ELSE Noting(f[k - 1], px[k])
           h == [k \in 0 .. n |-> Step(g, k)]
<1>7. g = h
  <2>1. ASSUME NEW k \in 0 .. n
        PROVE  g[k] = h[k]
    <3>1. k = 0 \/ k \in 1 .. n
      BY <1>1
    <3> QED
      BY <1>6, <3>1
  <2> QED
    BY <2>1
<1> DEFINE noted == CHOOSE f : f = [k \in 0 .. n |-> Step(f, k)]
<1>8. noted = [k \in 0 .. n |-> Step(noted, k)]
  BY <1>7
<1>9. Pal(px) = noted[n]
  BY DEF Pal, Noting, n
<1> HIDE DEF noted
<1>10. noted[0] = <<>> /\ \A k \in 1 .. n : noted[k] = Noting(noted[k - 1], px[k])
  <2>1. 0 \in 0 .. n /\ \A k \in 1 .. n : k \in 0 .. n /\ k # 0
    BY <1>1
  <2> QED
    BY <1>8, <2>1
<1> DEFINE T == {k \in Nat : /\ noted[k] \in Seq(Rgb) /\ Distinct(noted[k])
                            /\ \A j \in 1 .. k : px[j] \in Elems(noted[k])}
<1>11. 0 \in T
  <2>1. <<>> \in Seq(Rgb) /\ Distinct(<<>>)
    BY EmptySeq DEF Distinct
  <2>2. noted[0] \in Seq(Rgb) /\ Distinct(noted[0])
    BY <1>10, <2>1, Zenon
  <2>3. \A j \in 1 .. 0 : px[j] \in Elems(noted[0])
    OBVIOUS
  <2> QED
    BY <2>2, <2>3
<1>12. ASSUME NEW k \in 1 .. n, k - 1 \in T
       PROVE  k \in T
  <2>1. noted[k - 1] \in Seq(Rgb) /\ Distinct(noted[k - 1]) /\ \A j \in 1 .. k - 1 : px[j] \in Elems(noted[k - 1])
    BY <1>12
  <2>2. noted[k] = Noting(noted[k - 1], px[k])
    BY <1>10
  <2>3. Extends(noted[k - 1], noted[k]) /\ px[k] \in Elems(noted[k])
    BY <1>1, <2>1, <2>2, NotingIs
  <2>4. noted[k] \in Seq(Rgb) /\ Distinct(noted[k]) /\ Elems(noted[k - 1]) \subseteq Elems(noted[k])
    BY <2>3 DEF Extends
  <2>5. \A j \in 1 .. k : j \in 1 .. k - 1 \/ j = k
    OBVIOUS
  <2>6. \A j \in 1 .. k : px[j] \in Elems(noted[k])
    BY <2>1, <2>3, <2>4, <2>5
  <2> QED
    BY <2>4, <2>6
<1>13. \A k \in 0 .. n : k \in T
  <2> HIDE DEF T
  <2> QED
    BY <1>1, <1>11, <1>12, Climb
<1>14. noted[n] \in Seq(Rgb) /\ \A j \in 1 .. n : px[j] \in Elems(noted[n])
  <2>1. n \in 0 .. n
    BY <1>1
  <2> QED
    BY <1>13, <2>1
<1>15. Len(noted[n]) \in Nat /\ DOMAIN noted[n] = 1 .. Len(noted[n])
  BY <1>14, LenProperties
<1>16. \A j \in 1 .. n : \E k \in 1 .. Len(noted[n]) : noted[n][k] = px[j]
  BY <1>14, <1>15 DEF Elems
<1> QED
  BY <1>9, <1>14, <1>15, <1>16 DEF n

----------------------------------------------------------------------------
(* Eight pixels in a byte.                                                 *)

(* A bit a pixel, every row in bytes of its own.                           *)
Lit(on, w, S, k) ==
  {c \in 0 .. 7 : /\ 8 * ((k - 1) % S) + c < w
                  /\ ((k - 1) \div S) * w + (8 * ((k - 1) % S) + c) + 1 \in on}
BitAt(data, w, S, i) ==
  (data[((i - 1) \div w) * S + (((i - 1) % w) \div 8) + 1] \div 2^(7 - (((i - 1) % w) % 8))) % 2

Packs(data, on, w, h, S) ==
  /\ S = DivUp(w, 8)
  /\ data = [k \in 1 .. S * h |-> SumFunction(BitsOf(Lit(on, w, S, k)))]

LEMMA BitsBack ==
  ASSUME NEW w \in Nat \ {0}, NEW h \in Nat \ {0}, NEW on, NEW S, NEW data, Packs(data, on, w, h, S)
  PROVE  /\ data \in Seq(Byte) /\ Len(data) = S * h
         /\ \A i \in 1 .. w * h : BitAt(data, w, S, i) = IF i \in on THEN 1 ELSE 0
<1>0. S = DivUp(w, 8) /\ data = [k \in 1 .. S * h |-> SumFunction(BitsOf(Lit(on, w, S, k)))]
  BY DEF Packs
<1>1. S \in Nat \ {0} /\ \A j \in 0 .. w - 1 : j \div 8 \in 0 .. S - 1 /\ j % 8 \in 0 .. 7
                                           /\ j = 8 * (j \div 8) + (j % 8)
  BY <1>0 DEF DivUp
<1>2. S * h \in Nat
  BY <1>1
<1>3. data \in [1 .. S * h -> Byte]
  <2>1. \A k \in 1 .. S * h : SumFunction(BitsOf(Lit(on, w, S, k))) \in Byte
    BY EightBits DEF Byte
  <2> QED
    BY <1>0, <2>1
<1>4. data \in Seq(Byte) /\ Len(data) = S * h
  BY <1>2, <1>3, AsSeq
<1>5. ASSUME NEW i \in 1 .. w * h
      PROVE  BitAt(data, w, S, i) = IF i \in on THEN 1 ELSE 0
  <2> DEFINE r == (i - 1) \div w
             j == (i - 1) % w
             q == j \div 8
             m == j % 8
             k == r * S + q + 1
  <2>1. w * h \in Nat /\ i - 1 \in 0 .. w * h - 1
    OBVIOUS
  <2>2. r \in 0 .. h - 1 /\ j \in 0 .. w - 1 /\ i - 1 = r * w + j
    BY <2>1, RowCol
  <2>0. BitAt(data, w, S, i) = (data[k] \div 2^(7 - m)) % 2
    BY DEF BitAt
  <2> HIDE DEF r, j
  <2>3. q \in 0 .. S - 1 /\ m \in 0 .. 7 /\ j = 8 * q + m
    BY <1>1, <2>2
  <2> HIDE DEF q, m
  <2>4. r * S \in Nat /\ r * S <= (h - 1) * S /\ (h - 1) * S = S * h - S /\ S * h \in Nat
    <3>1. r * S <= (h - 1) * S
      <4>1. r \in Int /\ h - 1 \in Int /\ r <= h - 1 /\ S \in Nat
        BY <1>1, <2>2
      <4> QED
        BY <4>1, TimesUp
    <3>2. r * S \in Nat /\ S * h \in Nat
      BY <1>1, <2>2
    <3>3. (h - 1) * S = S * h - S
      BY <1>1
    <3> QED
      BY <3>1, <3>2, <3>3
  <2>5. k \in 1 .. S * h /\ k - 1 = r * S + q
    <3> DEFINE a == r * S
               b == S * h
    <3>1. a \in Nat /\ b \in Nat /\ a <= b - S
      BY <1>1, <2>4
    <3>2. k = a + q + 1
      OBVIOUS
    <3> HIDE DEF a, b, k
    <3>3. k \in 1 .. b /\ k - 1 = a + q
      BY <1>1, <2>3, <3>1, <3>2
    <3> QED
      BY <3>3 DEF a, b
  <2>6. (k - 1) \div S = r /\ (k - 1) % S = q
    <3>1. r \in Int /\ (r * S + q) \div S = r /\ (r * S + q) % S = q
      <4>1. r \in Int /\ S \in Nat \ {0} /\ q \in 0 .. S - 1
        BY <1>1, <2>2, <2>3
      <4> QED
        BY <4>1, DivMod, Zenon
    <3> HIDE DEF k
    <3> QED
      BY <2>5, <3>1
  <2> HIDE DEF k
  <2> DEFINE P == Lit(on, w, S, k)
  <2>7. data[k] = SumFunction(BitsOf(P))
    BY <1>0, <2>5
  <2>8. m \in P <=> i \in on
    <3>1. 8 * q + m < w /\ r * w + (8 * q + m) + 1 = i
      <4>1. r * w \in Int
        BY <2>2
      <4> QED
        BY <2>2, <2>3, <4>1
    <3> QED
      BY <2>3, <2>6, <3>1 DEF Lit
  <2> HIDE DEF P
  <2>9. (SumFunction(BitsOf(P)) \div 2^(7 - m)) % 2 = IF m \in P THEN 1 ELSE 0
    BY <2>3, EightBits
  <2> QED
    BY <2>0, <2>7, <2>8, <2>9
<1> QED
  BY <1>4, <1>5

----------------------------------------------------------------------------
(* A rectangle that may be sent.                                           *)
LEMMA RectIs ==
  ASSUME NEW r \in TightRects
  PROVE  /\ r.px \in Seq(Rgb) /\ r.w \in Nat \ {0} /\ r.h \in Nat \ {0} /\ r.w * r.h \in Nat \ {0}
         /\ Len(r.px) = r.w * r.h /\ r.stream \in 0 .. 3
         /\ r.len \in Nat /\ r.len < 128 * 128 * 256
         /\ r.form \in {"copy", "gradient", "palette", "fill", "jpeg"}
         /\ r.form = "palette" => Len(Pal(r.px)) <= 256
         /\ r.form = "fill" => \A k \in DOMAIN r.px : r.px[k] = r.px[1]
         /\ r.grey \in BOOLEAN
         /\ r.form = "jpeg" /\ r.grey => \A k \in DOMAIN r.px : \A c \in 1..3 : r.px[k][c] = r.px[k][1]
<1>1. Rgb = [1..3 -> 0..255]
  BY DEF Rgb, Byte
<1>2. r.px \in Seq([1..3 -> 0..255])
  BY DEF TightRects
<1>3. r.w \in Nat \ {0} /\ r.h \in Nat \ {0} /\ r.stream \in 0 .. 3
  BY DEF TightRects, Streams
<1>4. r.w * r.h \in Nat \ {0}
  BY <1>3
<1>5. r.len \in 0 .. 128 * 128 * 256 - 1
  BY DEF TightRects
<1>6. r.len \in Nat /\ r.len < 128 * 128 * 256
  <2> DEFINE n == r.len
             most == 128 * 128 * 256
  <2>0. most \in Nat
    <3>1. 128 * 128 \in Nat
      OBVIOUS
    <3> DEFINE a == 128 * 128
    <3> HIDE DEF a
    <3>2. a * 256 \in Nat
      BY <3>1 DEF a
    <3> QED
      BY <3>2 DEF a
  <2>1. most \in Nat /\ n \in 0 .. most - 1
    BY <1>5, <2>0
  <2> HIDE DEF n, most
  <2>2. n \in Nat /\ n < most
    BY <2>1
  <2> QED
    BY <2>2 DEF n, most
<1>7. /\ r.form = "palette" => Len(Pal(r.px)) <= 256
      /\ r.form = "fill" => \A k \in DOMAIN r.px : r.px[k] = r.px[1]
      /\ r.form = "jpeg" /\ r.grey => \A k \in DOMAIN r.px : \A c \in 1..3 : r.px[k][c] = r.px[k][1]
  BY DEF TightRects
<1>8. r.form \in {"copy", "gradient", "palette", "fill", "jpeg"} /\ Len(r.px) = r.w * r.h /\ r.grey \in BOOLEAN
  BY DEF TightRects
<1> QED
  BY <1>1, <1>2, <1>3, <1>4, <1>6, <1>7, <1>8, Zenon

(* What a rectangle's data are read with, and how much of them there is.   *)
Means(r, data, filter, pal, need) ==
  /\ data \in Seq(Byte) /\ Len(data) = need /\ need \in Nat
  /\ TightPixels(filter, pal, data, r.w, r.h) = {r.px}

LEMMA CopyMeans ==
  ASSUME NEW r \in TightRects, r.form = "copy", NEW pal
  PROVE  Means(r, Payload(r), 0, pal, 3 * r.w * r.h)
<1> DEFINE n == r.w * r.h
           b == Bytes(r.px)
<1>1. r.px \in Seq(Rgb) /\ n \in Nat \ {0} /\ Len(r.px) = n /\ r.w \in Nat /\ r.h \in Nat
  BY RectIs
<1>2. b \in Seq(Byte) /\ Len(b) = 3 * Len(r.px)
  BY <1>1, BytesAre
<1>3. Payload(r) = b
  BY DEF Payload
<1>4. Holds(b, 1, b)
  BY <1>2, HoldsItself
<1>5. Tpixels(b, 1, Len(r.px)) = r.px
  <2>1. 1 \in Nat \ {0} /\ Holds(b, 1, Bytes(r.px))
    BY <1>4
  <2> HIDE DEF b
  <2> QED
    BY <1>1, <1>2, <2>1, PixelsBack
<1>6. 3 * r.w * r.h = 3 * n
  BY <1>1
<1> HIDE DEF b
<1>7. TightPixels(0, pal, b, r.w, r.h) = {Tpixels(b, 1, n)}
  BY DEF TightPixels
<1> HIDE DEF n
<1>8. Len(b) = 3 * n /\ 3 * n \in Nat
  BY <1>1, <1>2
<1> QED
  BY <1>1, <1>2, <1>3, <1>5, <1>6, <1>7, <1>8 DEF Means

----------------------------------------------------------------------------
(* Indices.                                                                *)

IndexOf(r, i) == (CHOOSE k \in DOMAIN Pal(r.px) : Pal(r.px)[k] = r.px[i]) - 1

LEMMA IndexIs ==
  ASSUME NEW r \in TightRects, r.form = "palette", NEW i \in 1 .. r.w * r.h
  PROVE  /\ IndexOf(r, i) \in Nat /\ IndexOf(r, i) < Len(Pal(r.px)) /\ IndexOf(r, i) \in Byte
         /\ Pal(r.px)[IndexOf(r, i) + 1] = r.px[i]
<1> DEFINE pal == Pal(r.px)
           n == Len(pal)
           k == CHOOSE k \in DOMAIN pal : pal[k] = r.px[i]
<1>1. r.px \in Seq(Rgb) /\ i \in 1 .. Len(r.px) /\ n <= 256
  BY RectIs
<1>2. n \in Nat /\ DOMAIN pal = 1 .. n /\ \E x \in 1 .. n : pal[x] = r.px[i]
  BY <1>1, PalIs
<1>3. k \in 1 .. n /\ pal[k] = r.px[i]
  <2> HIDE DEF pal, n
  <2> QED
    BY <1>2
<1>4. IndexOf(r, i) = k - 1
  BY DEF IndexOf
<1> HIDE DEF k, n
<1>5. k - 1 \in Nat /\ k - 1 < n /\ k - 1 <= 255 /\ k - 1 + 1 = k
  BY <1>1, <1>2, <1>3
<1>6. IndexOf(r, i) \in Byte
  BY <1>4, <1>5 DEF Byte
<1> QED
  BY <1>3, <1>4, <1>5, <1>6 DEF n

LEMMA IndexMeans ==
  ASSUME NEW r \in TightRects, r.form = "palette", Len(Pal(r.px)) # 2
  PROVE  Means(r, Payload(r), 1, Pal(r.px), r.w * r.h)
<1> DEFINE n == r.w * r.h
           pal == Pal(r.px)
           b == [i \in 1 .. Len(r.px) |-> IndexOf(r, i)]
<1>1. r.px \in Seq(Rgb) /\ n \in Nat /\ Len(r.px) = n
  BY RectIs
<1>2. Payload(r) = b
  BY DEF Payload, IndexOf
<1>3. ASSUME NEW i \in 1 .. n
      PROVE  /\ b[i] \in Byte /\ ~(b[i] >= Len(pal)) /\ pal[b[i] + 1] = r.px[i]
  <2>1. /\ IndexOf(r, i) \in Nat /\ IndexOf(r, i) < Len(Pal(r.px)) /\ IndexOf(r, i) \in Byte
        /\ Pal(r.px)[IndexOf(r, i) + 1] = r.px[i]
    BY IndexIs
  <2>2. b[i] = IndexOf(r, i)
    BY <1>1
  <2>3. Len(pal) \in Nat
    BY <1>1, PalIs
  <2> HIDE DEF b
  <2> QED
    BY <2>1, <2>2, <2>3
<1>4. b \in [1 .. n -> Byte]
  <2>1. b = [i \in 1 .. n |-> b[i]]
    BY <1>1
  <2> HIDE DEF b
  <2> QED
    BY <1>3, <2>1
<1> HIDE DEF b
<1>5. b \in Seq(Byte) /\ Len(b) = n
  BY <1>1, <1>4, AsSeq
<1>6. r.px = [k \in 1 .. n |-> r.px[k]]
  BY <1>1
<1>7. [k \in 1 .. n |-> pal[b[k] + 1]] = [k \in 1 .. n |-> r.px[k]]
  BY <1>3
<1>8. TightPixels(1, pal, b, r.w, r.h) = {[k \in 1 .. n |-> pal[b[k] + 1]]}
  <2>1. ~\E k \in 1 .. n : b[k] >= Len(pal)
    BY <1>3
  <2>2. TightPixels(1, pal, b, r.w, r.h) =
          IF \E k \in 1 .. n : b[k] >= Len(pal) THEN {} ELSE {[k \in 1 .. n |-> pal[b[k] + 1]]}
    BY DEF TightPixels
  <2> QED
    BY <2>1, <2>2
<1> HIDE DEF n, pal
<1>9. TightPixels(1, pal, b, r.w, r.h) = {r.px}
  BY <1>6, <1>7, <1>8
<1> QED
  BY <1>1, <1>2, <1>5, <1>9 DEF Means, n, pal

LEMMA PairMeans ==
  ASSUME NEW r \in TightRects, r.form = "palette", Len(Pal(r.px)) = 2
  PROVE  Means(r, Payload(r), 1, Pal(r.px), DivUp(r.w, 8) * r.h)
<1> DEFINE n == r.w * r.h
           pal == Pal(r.px)
           S == DivUp(r.w, 8)
           on == {i \in Int : IndexOf(r, i) = 1}
           set(row, col) == col < r.w /\ IndexOf(r, row * r.w + col + 1) = 1
           b == [k \in 1 .. S * r.h |->
                   SumFunction([c \in 0 .. 7 |->
                     IF set((k - 1) \div S, 8 * ((k - 1) % S) + c) THEN 2^(7 - c) ELSE 0])]
<1>1. r.px \in Seq(Rgb) /\ n \in Nat /\ Len(r.px) = n /\ r.w \in Nat \ {0} /\ r.h \in Nat \ {0}
  BY RectIs
<1>2. Payload(r) = b
  BY DEF Payload, IndexOf
<1>3. S \in Nat \ {0} /\ S * r.h \in Nat
  <2>1. S \in Nat \ {0}
    BY <1>1 DEF DivUp
  <2> HIDE DEF S
  <2> QED
    BY <1>1, <2>1
<1> HIDE DEF S
<1>4. ASSUME NEW k \in 1 .. S * r.h
      PROVE  b[k] = SumFunction(BitsOf(Lit(on, r.w, S, k)))
  <2> DEFINE row == (k - 1) \div S
             x == 8 * ((k - 1) % S)
             f == [c \in 0 .. 7 |-> IF set(row, x + c) THEN 2^(7 - c) ELSE 0]
             P == Lit(on, r.w, S, k)
  <2>1. row \in Int /\ x \in Int
    BY <1>3
  <2>2. \A c \in 0 .. 7 : set(row, x + c) <=> c \in P
    <3> SUFFICES ASSUME NEW c \in 0 .. 7 PROVE set(row, x + c) <=> c \in P
      OBVIOUS
    <3>1. row * r.w + (x + c) + 1 \in Int
      <4> HIDE DEF row, x
      <4>1. row * r.w \in Int
        BY <1>1, <2>1
      <4> DEFINE a == row * r.w
      <4> HIDE DEF a
      <4>2. a + (x + c) + 1 \in Int
        BY <2>1, <4>1 DEF a
      <4> QED
        BY <4>2 DEF a
    <3>2. c \in P <=> x + c < r.w /\ row * r.w + (x + c) + 1 \in on
      BY DEF Lit
    <3> HIDE DEF P, row, x
    <3> QED
      BY <3>1, <3>2
  <2>3. b[k] = SumFunction(f)
    OBVIOUS
  <2> HIDE DEF b, set, P
  <2>4. f = BitsOf(P)
    BY <2>2 DEF BitsOf
  <2> HIDE DEF f
  <2> QED
    BY <2>3, <2>4 DEF P
<1>5. b = [k \in 1 .. S * r.h |-> SumFunction(BitsOf(Lit(on, r.w, S, k)))]
  <2>1. b = [k \in 1 .. S * r.h |-> b[k]]
    OBVIOUS
  <2> HIDE DEF b
  <2> QED
    BY <1>4, <2>1
<1> HIDE DEF b, on
<1>6. /\ b \in Seq(Byte) /\ Len(b) = S * r.h
      /\ \A i \in 1 .. r.w * r.h : BitAt(b, r.w, S, i) = IF i \in on THEN 1 ELSE 0
  <2>1. Packs(b, on, r.w, r.h, S)
    BY <1>5 DEF S, Packs
  <2>2. r.w \in Nat \ {0} /\ r.h \in Nat \ {0}
    BY <1>1
  <2> QED
    BY <2>1, <2>2, BitsBack
<1>7. ASSUME NEW i \in 1 .. n
      PROVE  pal[BitAt(b, r.w, S, i) + 1] = r.px[i]
  <2>1. IndexOf(r, i) \in Nat /\ IndexOf(r, i) < 2 /\ pal[IndexOf(r, i) + 1] = r.px[i]
    BY IndexIs
  <2>2. i \in on <=> IndexOf(r, i) = 1
    BY DEF on
  <2>3. BitAt(b, r.w, S, i) = IndexOf(r, i)
    BY <1>6, <2>1, <2>2
  <2> QED
    BY <2>1, <2>3
<1>8. TightPixels(1, pal, b, r.w, r.h) = {[k \in 1 .. n |-> pal[BitAt(b, r.w, S, k) + 1]]}
  BY DEF TightPixels, BitAt, S
<1>9. r.px = [k \in 1 .. n |-> r.px[k]]
  BY <1>1
<1>10. [k \in 1 .. n |-> pal[BitAt(b, r.w, S, k) + 1]] = [k \in 1 .. n |-> r.px[k]]
  BY <1>7
<1> HIDE DEF n, pal
<1>11. TightPixels(1, pal, b, r.w, r.h) = {r.px}
  BY <1>8, <1>9, <1>10
<1> QED
  BY <1>2, <1>3, <1>6, <1>11 DEF Means, pal, S

----------------------------------------------------------------------------
(* The gradient.                                                           *)

LEMMA GuessIs ==
  ASSUME NEW x \in Int, NEW y \in Int, NEW z \in Int
  PROVE  Guess(x, y, z) \in 0 .. 255
<1> DEFINE t == x + y - z
           A == {255, t}
           lo == CHOOSE a \in A : \A b \in A : a <= b
           B == {0, lo}
           hi == CHOOSE a \in B : \A b \in B : a >= b
<1>1. t \in Int
  OBVIOUS
<1> HIDE DEF t
<1>2. \E a \in A : \A b \in A : a <= b
  <2>1. CASE t <= 255
    BY <1>1, <2>1
  <2>2. CASE ~(t <= 255)
    BY <1>1, <2>2
  <2> QED
    BY <2>1, <2>2
<1>3. lo \in A /\ \A b \in A : lo <= b
  <2> HIDE DEF A
  <2> QED
    BY <1>2
<1>4. lo \in Int /\ lo <= 255
  BY <1>1, <1>3
<1>5. lo = Min(A)
  BY DEF Min
<1> HIDE DEF lo
<1>6. \E a \in B : \A b \in B : a >= b
  <2>1. CASE lo <= 0
    BY <1>4, <2>1
  <2>2. CASE ~(lo <= 0)
    BY <1>4, <2>2
  <2> QED
    BY <2>1, <2>2
<1>7. hi \in B /\ \A b \in B : hi >= b
  <2> HIDE DEF B
  <2> QED
    BY <1>6
<1>8. hi \in 0 .. 255
  BY <1>4, <1>7
<1>9. hi = Max(B)
  BY DEF Max
<1>10. Guess(x, y, z) = Max({0, Min({255, x + y - z})})
  BY DEF Guess
<1> HIDE DEF hi
<1> QED
  BY <1>5, <1>8, <1>9, <1>10 DEF t

(* What is added to a guess is what was taken from it.                     *)
LEMMA GuessAdded ==
  ASSUME NEW v \in 0 .. 255, NEW g \in 0 .. 255
  PROVE  /\ (v - g + 256) % 256 \in 0 .. 255
         /\ (((v - g + 256) % 256) + g) % 256 = v
<1>1. CASE g <= v
  <2>1. (v - g + 256) % 256 = v - g
    BY <1>1
  <2> QED
    BY <1>1, <2>1
<1>2. CASE v < g
  <2>1. (v - g + 256) % 256 = v - g + 256
    BY <1>2
  <2> QED
    BY <1>2, <2>1
<1> QED
  BY <1>1, <1>2

----------------------------------------------------------------------------
(* The neighbours of a component, among the components before it.          *)
GuessAt(f, w, k) ==
  LET i == (k - 1) \div 3
  IN  Guess(IF i % w > 0 THEN f[k - 3] ELSE 0,
            IF i >= w THEN f[k - 3 * w] ELSE 0,
            IF i % w > 0 /\ i >= w THEN f[k - 3 * w - 3] ELSE 0)

LEMMA ComponentOf ==
  ASSUME NEW n \in Nat, NEW k \in 1 .. 3 * n
  PROVE  /\ (k - 1) \div 3 \in 0 .. n - 1 /\ ((k - 1) % 3) + 1 \in 1 .. 3
         /\ k = 3 * ((k - 1) \div 3) + ((k - 1) % 3) + 1
OBVIOUS

LEMMA DifferencesAre ==
  ASSUME NEW px \in Seq(Rgb), NEW w \in Nat \ {0}
  PROVE  /\ Differences(px, w) \in Seq(Byte) /\ Len(Differences(px, w)) = 3 * Len(px)
         /\ \A k \in 1 .. 3 * Len(px) :
              /\ Bytes(px)[k] \in 0 .. 255 /\ GuessAt(Bytes(px), w, k) \in 0 .. 255
              /\ Differences(px, w)[k] = (Bytes(px)[k] - GuessAt(Bytes(px), w, k) + 256) % 256
<1> DEFINE n == Len(px)
           q == Bytes(px)
           d == Differences(px, w)
<1>1. /\ q \in Seq(Byte) /\ Len(q) = 3 * n /\ n \in Nat
      /\ \A k \in 1 .. n, c \in 1 .. 3 : 3 * (k - 1) + c \in 1 .. 3 * n /\ q[3 * (k - 1) + c] = px[k][c]
  BY BytesAre
<1>2. \A k \in 1 .. 3 * n : q[k] \in 0 .. 255
  <2>1. \A k \in 1 .. 3 * n : q[k] \in Byte
    BY <1>1, ElementOfSeq
  <2> QED
    BY <2>1 DEF Byte
<1>3. d = [k \in 1 .. 3 * n |->
             LET i == (k - 1) \div 3
                 c == ((k - 1) % 3) + 1
                 left   == IF i % w > 0 THEN px[i][c] ELSE 0
                 up     == IF i >= w THEN px[i + 1 - w][c] ELSE 0
                 upleft == IF i % w > 0 /\ i >= w THEN px[i - w][c] ELSE 0
             IN  (px[i + 1][c] - Guess(left, up, upleft) + 256) % 256]
  BY DEF Differences
<1> HIDE DEF n, q, d
<1>4. ASSUME NEW k \in 1 .. 3 * n
      PROVE  /\ GuessAt(q, w, k) \in 0 .. 255
             /\ d[k] = (q[k] - GuessAt(q, w, k) + 256) % 256
  <2> DEFINE i == (k - 1) \div 3
             c == ((k - 1) % 3) + 1
  <2>1. i \in 0 .. n - 1 /\ c \in 1 .. 3 /\ k = 3 * i + c
    BY <1>1, ComponentOf
  <2>2. d[k] = (px[i + 1][c] - Guess(IF i % w > 0 THEN px[i][c] ELSE 0,
                                     IF i >= w THEN px[i + 1 - w][c] ELSE 0,
                                     IF i % w > 0 /\ i >= w THEN px[i - w][c] ELSE 0) + 256) % 256
    BY <1>3
  <2>3. GuessAt(q, w, k) = Guess(IF i % w > 0 THEN q[k - 3] ELSE 0,
                                 IF i >= w THEN q[k - 3 * w] ELSE 0,
                                 IF i % w > 0 /\ i >= w THEN q[k - 3 * w - 3] ELSE 0)
    BY DEF GuessAt
  <2> HIDE DEF i, c
  <2>4. \A a \in 1 .. n : \A x : x = 3 * (a - 1) + c => x \in 1 .. 3 * n /\ q[x] = px[a][c]
    BY <1>1, <2>1
  <2>5. q[k] = px[i + 1][c]
    <3>8. i + 1 \in 1 .. n /\ k = 3 * (i + 1 - 1) + c
      BY <1>1, <2>1
    <3> DEFINE a == i + 1
               x == k
    <3>9. a \in 1 .. n /\ x = 3 * (a - 1) + c
      BY <1>1, <2>1, <3>8
    <3> HIDE DEF a, x
    <3>10. x \in 1 .. 3 * n /\ q[x] = px[a][c]
      BY <2>4, <3>9
    <3> QED
      BY <3>10 DEF a, x
  <2>6. i % w > 0 => k - 3 \in 1 .. 3 * n /\ q[k - 3] = px[i][c]
    <3> SUFFICES ASSUME i % w > 0 PROVE k - 3 \in 1 .. 3 * n /\ q[k - 3] = px[i][c]
      OBVIOUS
    <3>1. i # 0
      <4>1. 0 % w = 0
        OBVIOUS
      <4> QED
        BY <4>1
    <3>8. i \in 1 .. n /\ k - 3 = 3 * (i - 1) + c
      BY <1>1, <2>1, <3>1
    <3> DEFINE a == i
               x == k - 3
    <3>9. a \in 1 .. n /\ x = 3 * (a - 1) + c
      BY <1>1, <2>1, <3>8
    <3> HIDE DEF a, x
    <3>10. x \in 1 .. 3 * n /\ q[x] = px[a][c]
      BY <2>4, <3>9
    <3> QED
      BY <3>10 DEF a, x
  <2>7. i >= w => k - 3 * w \in 1 .. 3 * n /\ q[k - 3 * w] = px[i + 1 - w][c]
    <3> SUFFICES ASSUME i >= w PROVE k - 3 * w \in 1 .. 3 * n /\ q[k - 3 * w] = px[i + 1 - w][c]
      OBVIOUS
    <3>8. i + 1 - w \in 1 .. n /\ k - 3 * w = 3 * (i + 1 - w - 1) + c
      BY <1>1, <2>1
    <3> DEFINE a == i + 1 - w
               x == k - 3 * w
    <3>9. a \in 1 .. n /\ x = 3 * (a - 1) + c
      BY <1>1, <2>1, <3>8
    <3> HIDE DEF a, x
    <3>10. x \in 1 .. 3 * n /\ q[x] = px[a][c]
      BY <2>4, <3>9
    <3> QED
      BY <3>10 DEF a, x
  <2>8. i % w > 0 /\ i >= w => k - 3 * w - 3 \in 1 .. 3 * n /\ q[k - 3 * w - 3] = px[i - w][c]
    <3> SUFFICES ASSUME i % w > 0, i >= w
                 PROVE  k - 3 * w - 3 \in 1 .. 3 * n /\ q[k - 3 * w - 3] = px[i - w][c]
      OBVIOUS
    <3>1. i # w
      <4>1. w % w = 0
        <5>1. 1 \in Int /\ 0 \in 0 .. w - 1 /\ 1 * w + 0 = w
          OBVIOUS
        <5>2. (1 * w + 0) % w = 0
          BY <5>1, DivMod
        <5> QED
          BY <5>1, <5>2
      <4> QED
        BY <4>1
    <3>8. i - w \in 1 .. n /\ k - 3 * w - 3 = 3 * (i - w - 1) + c
      BY <1>1, <2>1, <3>1
    <3> DEFINE a == i - w
               x == k - 3 * w - 3
    <3>9. a \in 1 .. n /\ x = 3 * (a - 1) + c
      BY <1>1, <2>1, <3>8
    <3> HIDE DEF a, x
    <3>10. x \in 1 .. 3 * n /\ q[x] = px[a][c]
      BY <2>4, <3>9
    <3> QED
      BY <3>10 DEF a, x
  <2> DEFINE left == IF i % w > 0 THEN q[k - 3] ELSE 0
             up == IF i >= w THEN q[k - 3 * w] ELSE 0
             upleft == IF i % w > 0 /\ i >= w THEN q[k - 3 * w - 3] ELSE 0
  <2>9. /\ left = (IF i % w > 0 THEN px[i][c] ELSE 0)
        /\ up = (IF i >= w THEN px[i + 1 - w][c] ELSE 0)
        /\ upleft = (IF i % w > 0 /\ i >= w THEN px[i - w][c] ELSE 0)
    BY <2>6, <2>7, <2>8
  <2>10. left \in Int /\ up \in Int /\ upleft \in Int
    <3>0. \A x \in 1 .. 3 * n : q[x] \in Int
      <4>1. \A b \in 0 .. 255 : b \in Int
        OBVIOUS
      <4> QED
        BY <1>2, <4>1, Zenon
    <3>1. left \in Int
      BY <2>6, <3>0
    <3> DEFINE y == k - 3 * w
               z == k - 3 * w - 3
    <3>2. (i >= w => q[y] \in Int) /\ (i % w > 0 /\ i >= w => q[z] \in Int)
      <4> HIDE DEF y, z
      <4>1. (i >= w => y \in 1 .. 3 * n) /\ (i % w > 0 /\ i >= w => z \in 1 .. 3 * n)
        BY <2>7, <2>8 DEF y, z
      <4> QED
        BY <3>0, <4>1
    <3>3. up = (IF i >= w THEN q[y] ELSE 0) /\ upleft = (IF i % w > 0 /\ i >= w THEN q[z] ELSE 0)
      OBVIOUS
    <3> HIDE DEF y, z, left, up, upleft
    <3> QED
      BY <3>1, <3>2, <3>3
  <2>11. GuessAt(q, w, k) = Guess(left, up, upleft)
    BY <2>3
  <2>12. d[k] = (q[k] - Guess(left, up, upleft) + 256) % 256
    BY <2>2, <2>5, <2>9
  <2> HIDE DEF left, up, upleft
  <2> QED
    BY <2>10, <2>11, <2>12, GuessIs, ZenonT(60)
<1>5. ASSUME NEW k \in 1 .. 3 * n
      PROVE  d[k] \in Byte
  <2> DEFINE v == q[k]
             g == GuessAt(q, w, k)
  <2>1. v \in 0 .. 255 /\ g \in 0 .. 255 /\ d[k] = (v - g + 256) % 256
    BY <1>2, <1>4
  <2> HIDE DEF v, g
  <2>2. (v - g + 256) % 256 \in 0 .. 255
    BY <2>1, GuessAdded, ZenonT(60)
  <2> QED
    BY <2>1, <2>2 DEF Byte
<1>6. d \in [1 .. 3 * n -> Byte] /\ 3 * n \in Nat
  <2>1. d = [k \in 1 .. 3 * n |-> d[k]]
    BY <1>3
  <2> QED
    BY <1>1, <1>5, <2>1
<1>7. d \in Seq(Byte) /\ Len(d) = 3 * n
  BY <1>6, AsSeq
<1> QED
  BY <1>2, <1>4, <1>7 DEF d, n, q

----------------------------------------------------------------------------
(* The gradient, undone.                                                   *)

LEMMA GuessAgrees ==
  ASSUME NEW f, NEW q, NEW w \in Nat \ {0}, NEW n \in Nat, NEW k \in 1 .. 3 * n,
         \A j \in 1 .. k - 1 : f[j] = q[j]
  PROVE  GuessAt(f, w, k) = GuessAt(q, w, k)
<1> DEFINE i == (k - 1) \div 3
           c == ((k - 1) % 3) + 1
<1>1. i \in 0 .. n - 1 /\ c \in 1 .. 3 /\ k = 3 * i + c
  BY ComponentOf
<1>2. \A g : GuessAt(g, w, k) = Guess(IF i % w > 0 THEN g[k - 3] ELSE 0,
                                      IF i >= w THEN g[k - 3 * w] ELSE 0,
                                      IF i % w > 0 /\ i >= w THEN g[k - 3 * w - 3] ELSE 0)
  BY DEF GuessAt
<1> HIDE DEF i, c
<1>3. i % w > 0 => k - 3 \in 1 .. k - 1
  <2> SUFFICES ASSUME i % w > 0 PROVE k - 3 \in 1 .. k - 1
    OBVIOUS
  <2>1. i # 0
    <3>1. 0 % w = 0
      OBVIOUS
    <3> QED
      BY <3>1
  <2> QED
    BY <1>1, <2>1
<1>4. i >= w => k - 3 * w \in 1 .. k - 1
  BY <1>1
<1>5. i % w > 0 /\ i >= w => k - 3 * w - 3 \in 1 .. k - 1
  <2> SUFFICES ASSUME i % w > 0, i >= w PROVE k - 3 * w - 3 \in 1 .. k - 1
    OBVIOUS
  <2>1. i # w
    <3>1. 1 \in Int /\ 0 \in 0 .. w - 1 /\ 1 * w + 0 = w
      OBVIOUS
    <3>2. (1 * w + 0) % w = 0
      BY <3>1, DivMod
    <3>3. w % w = 0
      BY <3>1, <3>2
    <3> QED
      BY <3>3
  <2> QED
    BY <1>1, <2>1
<1> DEFINE x == k - 3
           y == k - 3 * w
           z == k - 3 * w - 3
           left(g) == IF i % w > 0 THEN g[x] ELSE 0
           up(g) == IF i >= w THEN g[y] ELSE 0
           upleft(g) == IF i % w > 0 /\ i >= w THEN g[z] ELSE 0
<1>6. \A g : GuessAt(g, w, k) = Guess(left(g), up(g), upleft(g))
  BY <1>2
<1>7. /\ i % w > 0 => x \in 1 .. k - 1
      /\ i >= w => y \in 1 .. k - 1
      /\ i % w > 0 /\ i >= w => z \in 1 .. k - 1
  BY <1>3, <1>4, <1>5
<1> HIDE DEF x, y, z
<1>8. left(f) = left(q) /\ up(f) = up(q) /\ upleft(f) = upleft(q)
  BY <1>7
<1> HIDE DEF left, up, upleft
<1> QED
  BY <1>6, <1>8

LEMMA GradientBack ==
  ASSUME NEW px \in Seq(Rgb), NEW w \in Nat \ {0}, NEW h \in Nat \ {0}, Len(px) = w * h
  PROVE  Gradient(Differences(px, w), w, h) = px
<1> DEFINE n == Len(px)
           m == 3 * w * h
           q == Bytes(px)
           d == Differences(px, w)
<1>1. n \in Nat /\ m = 3 * n /\ m \in Nat
  <2>1. n \in Nat
    BY LenProperties
  <2>2. m = 3 * n
    OBVIOUS
  <2> HIDE DEF m, n
  <2> QED
    BY <2>1, <2>2
<1>2. q \in Seq(Byte) /\ Len(q) = m
  <2>1. q \in Seq(Byte) /\ Len(q) = 3 * n
    BY BytesAre
  <2> HIDE DEF m, n, q
  <2> QED
    BY <1>1, <2>1
<1>3. \A k \in 1 .. m : /\ q[k] \in 0 .. 255 /\ GuessAt(q, w, k) \in 0 .. 255
                        /\ d[k] = (q[k] - GuessAt(q, w, k) + 256) % 256
  <2>1. \A k \in 1 .. 3 * n : /\ q[k] \in 0 .. 255 /\ GuessAt(q, w, k) \in 0 .. 255
                              /\ d[k] = (q[k] - GuessAt(q, w, k) + 256) % 256
    BY DifferencesAre
  <2>2. m = 3 * n
    BY <1>1
  <2> HIDE DEF m, n, q, d
  <2> QED
    BY <2>1, <2>2
<1> DEFINE Step(f, k) == (d[k] + GuessAt(f, w, k)) % 256
           value == CHOOSE f : f = [k \in 1 .. m |-> Step(f, k)]
<1>4. Gradient(d, w, h) = Tpixels([k \in 1 .. m |-> value[k]], 1, w * h)
  BY DEF Gradient, GuessAt
<1> HIDE DEF q, d, m, n
<1>5. ASSUME NEW k \in 1 .. m
      PROVE  Step(q, k) = q[k]
  <2> DEFINE v == q[k]
             g == GuessAt(q, w, k)
  <2>1. v \in 0 .. 255 /\ g \in 0 .. 255 /\ d[k] = (v - g + 256) % 256
    BY <1>3
  <2>2. Step(q, k) = (d[k] + g) % 256
    OBVIOUS
  <2> HIDE DEF v, g, Step
  <2>3. (((v - g + 256) % 256) + g) % 256 = v
    BY <2>1, GuessAdded, ZenonT(60)
  <2>4. Step(q, k) = v
    BY <2>1, <2>2, <2>3
  <2> QED
    BY <2>4 DEF v
<1>6. q = [k \in 1 .. m |-> q[k]]
  BY <1>2
<1>7. q = [k \in 1 .. m |-> Step(q, k)]
  <2> HIDE DEF Step
  <2> QED
    BY <1>5, <1>6
<1>8. value = [k \in 1 .. m |-> Step(value, k)]
  <2> HIDE DEF Step
  <2> QED
    BY <1>7
<1> HIDE DEF value
<1> DEFINE T == {k \in Nat : \A j \in 1 .. k : value[j] = q[j]}
<1>9. 0 \in T
  OBVIOUS
<1>10. ASSUME NEW k \in 1 .. m, k - 1 \in T
       PROVE  k \in T
  <2>1. \A j \in 1 .. k - 1 : value[j] = q[j]
    BY <1>10
  <2>2. GuessAt(value, w, k) = GuessAt(q, w, k)
    <3>1. k \in 1 .. 3 * n
      BY <1>1
    <3> QED
      BY <1>1, <2>1, <3>1, GuessAgrees, ZenonT(60)
  <2>3. value[k] = Step(value, k)
    <3> HIDE DEF Step
    <3> QED
      BY <1>8
  <2>4. value[k] = q[k]
    BY <1>5, <2>2, <2>3
  <2>5. \A j \in 1 .. k : j \in 1 .. k - 1 \/ j = k
    OBVIOUS
  <2> QED
    BY <2>1, <2>4, <2>5
<1>11. \A k \in 0 .. m : k \in T
  <2> HIDE DEF T
  <2> QED
    BY <1>1, <1>9, <1>10, Climb
<1>12. \A k \in 1 .. m : value[k] = q[k]
  <2>1. m \in 0 .. m
    BY <1>1
  <2> QED
    BY <1>11, <2>1
<1>13. [k \in 1 .. m |-> value[k]] = q
  BY <1>6, <1>12
<1>14. Gradient(d, w, h) = Tpixels(q, 1, Len(px))
  BY <1>4, <1>13
<1>15. Holds(q, 1, Bytes(px)) /\ 1 \in Nat \ {0}
  <2>1. Holds(q, 1, q)
    BY <1>2, HoldsItself
  <2> QED
    BY <2>1 DEF q
<1>16. Tpixels(q, 1, Len(px)) = px
  BY <1>2, <1>15, PixelsBack
<1> QED
  BY <1>14, <1>16 DEF d

LEMMA GradientMeans ==
  ASSUME NEW r \in TightRects, r.form = "gradient", NEW pal
  PROVE  Means(r, Payload(r), 2, pal, 3 * r.w * r.h)
<1> DEFINE d == Differences(r.px, r.w)
           m == 3 * r.w * r.h
           n == Len(r.px)
<1>1. r.px \in Seq(Rgb) /\ r.w \in Nat \ {0} /\ r.h \in Nat \ {0} /\ n = r.w * r.h /\ n \in Nat
  BY RectIs
<1>2. m = 3 * n /\ m \in Nat
  <2>1. m = 3 * (r.w * r.h)
    BY <1>1
  <2> HIDE DEF m, n
  <2> QED
    BY <1>1, <2>1
<1>3. Payload(r) = d
  BY DEF Payload
<1>4. d \in Seq(Byte) /\ Len(d) = 3 * n
  BY <1>1, DifferencesAre
<1>5. Gradient(d, r.w, r.h) = r.px
  BY <1>1, GradientBack
<1> HIDE DEF d, m, n
<1>6. TightPixels(2, pal, d, r.w, r.h) = {Gradient(d, r.w, r.h)}
  BY DEF TightPixels
<1> QED
  BY <1>2, <1>3, <1>4, <1>5, <1>6 DEF Means, m

----------------------------------------------------------------------------
(* What stands before and behind; one colour.                              *)

Before(r, z) == [s \in Streams |-> IF s \in r.restarts THEN 0 ELSE z[s]]
RectBack(r, z) ==
  LET m == TightWrite(r, z)
  IN  /\ m.bytes \in Seq(Byte) /\ m.z \in [Streams -> Nat]
      /\ TightRead(m, z, r.w, r.h) = [px |-> {r.px}, z |-> m.z]

LEMMA BeforeIs ==
  ASSUME NEW r \in TightRects, NEW z \in [Streams -> Nat]
  PROVE  /\ Before(r, z) \in [Streams -> Nat] /\ r.stream \in Streams
         /\ Before(r, z)[r.stream] \in Nat
         /\ [Before(r, z) EXCEPT ![r.stream] = @ + 1] \in [Streams -> Nat]
<1>1. Before(r, z) \in [Streams -> Nat]
  BY DEF Before
<1>2. r.stream \in Streams
  BY DEF TightRects
<1> DEFINE f == Before(r, z)
           s == r.stream
<1> HIDE DEF f, s
<1>3. f \in [Streams -> Nat] /\ s \in Streams
  BY <1>1, <1>2 DEF f, s
<1>4. f[s] \in Nat /\ [f EXCEPT ![s] = @ + 1] \in [Streams -> Nat]
  BY <1>3
<1> QED
  BY <1>3, <1>4 DEF f, s

(* One sequence behind another.                                            *)
LEMMA BothThere ==
  ASSUME NEW head \in Seq(Byte), NEW t \in Seq(Byte), NEW b \in Seq(Byte), NEW a, a = 1, Holds(b, a, head \o t)
  PROVE  /\ Len(head) \in Nat /\ Len(t) \in Nat /\ Len(head \o t) = Len(head) + Len(t)
         /\ Holds(b, 1, head) /\ Holds(b, Len(head) + 1, t)
<1>1. a \in Nat \ {0}
  OBVIOUS
<1> DEFINE S == Byte
<1>2. b \in Seq(S) /\ head \in Seq(S) /\ t \in Seq(S)
  OBVIOUS
<1> HIDE DEF S
<1>3. /\ Holds(b, a, head) /\ Holds(b, a + Len(head), t) /\ Len(head \o t) = Len(head) + Len(t)
      /\ Len(head) \in Nat /\ Len(t) \in Nat
  BY <1>1, <1>2, HoldsBoth
<1>4. a + Len(head) = Len(head) + 1
  BY <1>3
<1> QED
  BY <1>3, <1>4

LEMMA Behind ==
  ASSUME NEW head \in Seq(Byte), NEW t \in Seq(Byte), NEW b, b = head \o t
  PROVE  /\ b \in Seq(Byte) /\ Len(head) \in Nat /\ Len(t) \in Nat /\ Len(b) = Len(head) + Len(t)
         /\ Holds(b, 1, head) /\ Holds(b, Len(head) + 1, t)
         /\ SubSeq(b, Len(head) + 1, Len(b)) = t
<1>1. b \in Seq(Byte)
  BY ConcatProperties
<1>2. Holds(b, 1, head \o t)
  BY <1>1, HoldsItself
<1>3. /\ Len(head) \in Nat /\ Len(t) \in Nat /\ Len(head \o t) = Len(head) + Len(t)
      /\ Holds(b, 1, head) /\ Holds(b, Len(head) + 1, t)
  BY <1>1, <1>2, BothThere, Zenon
<1> DEFINE i == Len(head) + 1
<1>4. i \in Nat \ {0} /\ Holds(b, i, t) /\ i + Len(t) - 1 = Len(b)
  BY <1>3
<1> HIDE DEF i
<1>5. SubSeq(b, i, i + Len(t) - 1) = t
  BY <1>1, <1>4, HoldsThere
<1> QED
  BY <1>1, <1>3, <1>4, <1>5 DEF i

LEMMA FirstColour ==
  ASSUME NEW r \in TightRects
  PROVE  r.px[1] \in Rgb /\ r.px[1] \in Seq(Byte) /\ 1 \in DOMAIN r.px /\ DOMAIN r.px = 1 .. r.w * r.h
<1> DEFINE n == r.w * r.h
<1>1. r.px \in Seq(Rgb) /\ Len(r.px) = n /\ n \in Nat \ {0}
  BY RectIs
<1> HIDE DEF n
<1>2. 1 \in 1 .. n /\ DOMAIN r.px = 1 .. n
  BY <1>1, LenProperties
<1>3. r.px[1] \in Rgb
  BY <1>1, <1>2, ElementOfSeq
<1> QED
  BY <1>2, <1>3, ColourBytes DEF n

(* What the client makes of a rectangle, by its control byte.              *)
Above(m) == m.bytes[1] \div 16
Ready(m, z) == Restarted(m.bytes[1], z)
TightFill(m, ready, w, h) == [px |-> {[k \in 1 .. w * h |-> Tpixels(m.bytes, 2, 1)[1]]}, z |-> ready]

LEMMA ReadBy ==
  ASSUME NEW m, NEW z, NEW w, NEW h
  PROVE  /\ Above(m) = 8 => TightRead(m, z, w, h) = TightFill(m, Ready(m, z), w, h)
         /\ Above(m) = 9 => TightRead(m, z, w, h) = TightJpeg(m, Ready(m, z), w, h)
         /\ Above(m) \in 4 .. 7 =>
              TightRead(m, z, w, h) = TightBasic(m, 3, m.bytes[2], Above(m) % 4, Ready(m, z), w, h)
         /\ Above(m) \in 0 .. 3 =>
              TightRead(m, z, w, h) = TightBasic(m, 2, 0, Above(m) % 4, Ready(m, z), w, h)
<1> DEFINE above == Above(m)
           ready == Ready(m, z)
           fill == TightFill(m, ready, w, h)
           jpeg == TightJpeg(m, ready, w, h)
           filtered == TightBasic(m, 3, m.bytes[2], above % 4, ready, w, h)
           plain == TightBasic(m, 2, 0, above % 4, ready, w, h)
<1>1. TightRead(m, z, w, h) =
        CASE above = 8 -> fill
          [] above = 9 -> jpeg
          [] above >= 10 -> [px |-> {}, z |-> ready]
          [] OTHER -> IF (above \div 4) % 2 = 1 THEN filtered ELSE plain
  BY DEF TightRead, TightFill, Above, Ready
<1> HIDE DEF above, ready, fill, jpeg, filtered, plain
<1>2. above = 8 => TightRead(m, z, w, h) = fill
  BY <1>1
<1>3. above = 9 => TightRead(m, z, w, h) = jpeg
  BY <1>1
<1>4. above \in 4 .. 7 => TightRead(m, z, w, h) = filtered
  <2> SUFFICES ASSUME above \in 4 .. 7 PROVE TightRead(m, z, w, h) = filtered
    OBVIOUS
  <2>1. above # 8 /\ above # 9 /\ ~(above >= 10) /\ (above \div 4) % 2 = 1
    OBVIOUS
  <2> QED
    BY <1>1, <2>1
<1>5. above \in 0 .. 3 => TightRead(m, z, w, h) = plain
  <2> SUFFICES ASSUME above \in 0 .. 3 PROVE TightRead(m, z, w, h) = plain
    OBVIOUS
  <2>1. above # 8 /\ above # 9 /\ ~(above >= 10) /\ (above \div 4) % 2 # 1
    OBVIOUS
  <2> QED
    BY <1>1, <2>1
<1> QED
  BY <1>2, <1>3, <1>4, <1>5 DEF above, ready, fill, jpeg, filtered, plain

LEMMA FillBack ==
  ASSUME NEW r \in TightRects, r.form = "fill", NEW z \in [Streams -> Nat]
  PROVE  RectBack(r, z)
<1> DEFINE c == r.px[1]
           ctl == Control(r, 8)
           b == <<ctl>> \o c
           m == TightWrite(r, z)
           n == r.w * r.h
<1>1. c \in Rgb /\ c \in Seq(Byte) /\ 1 \in DOMAIN r.px /\ DOMAIN r.px = 1 .. n
  BY FirstColour
<1>2. ctl \in Byte /\ ctl \div 16 = 8 /\ Restarted(ctl, z) = Before(r, z)
  <2>1. 8 \in Nat /\ 8 <= 15
    OBVIOUS
  <2> QED
    BY <2>1, ControlIs DEF Before
<1>3. m = [bytes |-> b, block |-> NoBlock, z |-> Before(r, z)]
  BY DEF TightWrite, Before
<1> HIDE DEF m, ctl, c
<1>4. <<ctl>> \in Seq(Byte) /\ Len(<<ctl>>) = 1 /\ <<ctl>>[1] = ctl
  BY <1>2
<1> DEFINE head == <<ctl>>
<1> HIDE DEF head
<1>5. b \in Seq(Byte) /\ Holds(b, 1, head) /\ Holds(b, 2, c)
  <2>1. b = head \o c /\ head \in Seq(Byte) /\ Len(head) = 1
    BY <1>4 DEF head
  <2> HIDE DEF b
  <2>2. b \in Seq(Byte) /\ Holds(b, 1, head) /\ Holds(b, Len(head) + 1, c)
    BY <1>1, <2>1, Behind
  <2> QED
    BY <2>1, <2>2
<1> HIDE DEF b
<1>6. b[1] = ctl
  <2>1. head[1] = ctl /\ Len(head) = 1
    BY <1>4 DEF head
  <2>2. b[1 + 1 - 1] = head[1]
    BY <1>5, <2>1 DEF Holds
  <2> QED
    BY <2>1, <2>2
<1>7. Tpixels(b, 2, 1)[1] = c
  <2> DEFINE one == <<c>>
  <2>1. one \in Seq(Rgb) /\ Len(one) = 1 /\ one[1] = c
    BY <1>1
  <2>2. Bytes(one) = c
    BY <1>1, FlatOne DEF Bytes
  <2> HIDE DEF one
  <2>3. 2 \in Nat \ {0} /\ Holds(b, 2, Bytes(one))
    BY <1>5, <2>2
  <2>4. Tpixels(b, 2, Len(one)) = one
    BY <1>5, <2>1, <2>3, PixelsBack
  <2> QED
    BY <2>1, <2>4
<1>8. r.px = [k \in 1 .. n |-> c]
  <2>1. \A k \in 1 .. n : r.px[k] = c
    BY <1>1, RectIs DEF c
  <2>2. r.px = [k \in 1 .. n |-> r.px[k]]
    BY <1>1, RectIs
  <2> HIDE DEF n
  <2> QED
    BY <2>1, <2>2
<1>9. TightRead(m, z, r.w, r.h) = [px |-> {[k \in 1 .. n |-> c]}, z |-> Before(r, z)]
  <2>1. m.bytes = b
    BY <1>3
  <2>2. Above(m) = 8 /\ Ready(m, z) = Before(r, z)
    BY <1>2, <1>6, <2>1 DEF Above, Ready
  <2> HIDE DEF n
  <2>3. TightRead(m, z, r.w, r.h) = TightFill(m, Ready(m, z), r.w, r.h)
    BY <2>2, ReadBy
  <2>4. TightFill(m, Ready(m, z), r.w, r.h) = [px |-> {[k \in 1 .. n |-> c]}, z |-> Before(r, z)]
    BY <1>7, <2>1, <2>2 DEF TightFill, n
  <2> QED
    BY <2>3, <2>4
<1>10. m.z = Before(r, z) /\ m.bytes = b
  BY <1>3
<1>11. m.z \in [Streams -> Nat]
  BY <1>10, BeforeIs
<1> HIDE DEF n
<1>12. TightRead(m, z, r.w, r.h) = [px |-> {r.px}, z |-> m.z]
  BY <1>8, <1>9, <1>10
<1> QED
  BY <1>5, <1>10, <1>11, <1>12 DEF RectBack, m

----------------------------------------------------------------------------
(* A picture in the block.                                                 *)

(* A control byte in front, and what it says.                              *)
Heads(m, r, above, t) == m.bytes = <<Control(r, above)>> \o t

LEMMA Controlled ==
  ASSUME NEW r, NEW above \in Nat, above <= 15, NEW t \in Seq(Byte), NEW m, NEW z, Heads(m, r, above, t)
  PROVE  /\ m.bytes \in Seq(Byte) /\ Holds(m.bytes, 2, t) /\ Len(t) \in Nat /\ Len(m.bytes) = 1 + Len(t)
         /\ Above(m) = above /\ Ready(m, z) = Before(r, z)
<1> DEFINE ctl == Control(r, above)
           b == m.bytes
           head == <<ctl>>
<1>1. ctl \in Byte /\ ctl \div 16 = above /\ Restarted(ctl, z) = Before(r, z)
  BY ControlIs DEF Before
<1>2. b = head \o t
  BY DEF Heads
<1> HIDE DEF ctl, b
<1>3. head \in Seq(Byte) /\ Len(head) = 1 /\ head[1] = ctl
  BY <1>1
<1> HIDE DEF head
<1>4. /\ b \in Seq(Byte) /\ Len(t) \in Nat /\ Len(b) = Len(head) + Len(t)
      /\ Holds(b, 1, head) /\ Holds(b, Len(head) + 1, t)
  BY <1>2, <1>3, Behind
<1>5. b[1] = ctl
  <2>1. b[1 + 1 - 1] = head[1]
    BY <1>3, <1>4 DEF Holds
  <2> QED
    BY <1>3, <2>1
<1>6. Above(m) = above /\ Ready(m, z) = Before(r, z)
  BY <1>1, <1>5 DEF Above, Ready, b
<1>7. Holds(b, 2, t) /\ Len(b) = 1 + Len(t)
  BY <1>3, <1>4
<1> QED
  BY <1>4, <1>6, <1>7 DEF b

(* The picture a JPEG image holds, and its length.                         *)
Shaded(r) == IF r.grey THEN [i \in 1 .. Len(r.px) |-> r.px[i][1]] ELSE Bytes(r.px)

LEMMA ShadedIs ==
  ASSUME NEW r \in TightRects, r.form = "jpeg"
  PROVE  /\ Len(Shaded(r)) = r.w * r.h <=> r.grey
         /\ r.grey => [k \in 1 .. r.w * r.h |-> <<Shaded(r)[k], Shaded(r)[k], Shaded(r)[k]>>] = r.px
         /\ ~r.grey => Tpixels(Shaded(r), 1, r.w * r.h) = r.px
<1> DEFINE n == r.w * r.h
           b == Bytes(r.px)
           g == [i \in 1 .. Len(r.px) |-> r.px[i][1]]
<1>1. r.px \in Seq(Rgb) /\ n \in Nat \ {0} /\ Len(r.px) = n /\ r.grey \in BOOLEAN
  BY RectIs
<1>2. CASE r.grey
  <2>1. Shaded(r) = g
    BY <1>2 DEF Shaded
  <2>2. \A k \in 1 .. n : r.px[k] \in Rgb /\ \A c \in 1..3 : r.px[k][c] = r.px[k][1]
    <3>1. DOMAIN r.px = 1 .. n
      BY FirstColour
    <3>2. \A k \in 1 .. n : r.px[k] \in Rgb
      BY <1>1, ElementOfSeq
    <3> QED
      BY <1>2, <3>1, <3>2, RectIs
  <2>3. ASSUME NEW k \in 1 .. n
        PROVE  <<g[k], g[k], g[k]>> = r.px[k]
    <3> DEFINE x == r.px[k]
               v == g[k]
               t == <<v, v, v>>
    <3>1. x \in Rgb /\ x[1] = v /\ x[2] = v /\ x[3] = v
      BY <1>1, <2>2
    <3> HIDE DEF x, v
    <3>2. x = [c \in 1..3 |-> x[c]]
      BY <3>1 DEF Rgb
    <3>3. t = [c \in 1..3 |-> t[c]] /\ t[1] = v /\ t[2] = v /\ t[3] = v
      OBVIOUS
    <3>4. \A c \in 1..3 : c = 1 \/ c = 2 \/ c = 3
      OBVIOUS
    <3> HIDE DEF t
    <3>5. \A c \in 1..3 : x[c] = t[c]
      BY <3>1, <3>3, <3>4
    <3>6. x = t
      BY <3>2, <3>3, <3>5
    <3> QED
      BY <3>6 DEF t, x, v
  <2>4. Len(g) = n
    BY <1>1
  <2> HIDE DEF g
  <2>5. [k \in 1 .. n |-> <<g[k], g[k], g[k]>>] = [k \in 1 .. n |-> r.px[k]]
    BY <2>3
  <2>6. r.px = [k \in 1 .. n |-> r.px[k]]
    BY <1>1
  <2> QED
    BY <1>2, <2>1, <2>4, <2>5, <2>6
<1>3. CASE ~r.grey
  <2>1. Shaded(r) = b
    BY <1>3 DEF Shaded
  <2>2. b \in Seq(Byte) /\ Len(b) = 3 * Len(r.px)
    BY <1>1, BytesAre
  <2>3. Holds(b, 1, Bytes(r.px)) /\ 1 \in Nat \ {0}
    BY <2>2, HoldsItself
  <2> HIDE DEF b
  <2>4. Tpixels(b, 1, Len(r.px)) = r.px
    BY <1>1, <2>2, <2>3, PixelsBack
  <2>5. Len(b) # n
    <3> HIDE DEF n
    <3> QED
      BY <1>1, <2>2
  <2> QED
    BY <1>1, <1>3, <2>1, <2>4, <2>5
<1> QED
  BY <1>2, <1>3

LEMMA JpegBack ==
  ASSUME NEW r \in TightRects, r.form = "jpeg", NEW z \in [Streams -> Nat]
  PROVE  RectBack(r, z)
<1> DEFINE t == Compact(r.len)
           m == TightWrite(r, z)
           block == [len |-> r.len, at |-> 0, w |-> r.w, h |-> r.h, data |-> Shaded(r)]
           b == <<Control(r, 9)>> \o t
           before == Before(r, z)
<1>1. m = [bytes |-> b, block |-> block, z |-> before]
  BY DEF TightWrite, Before, Shaded
<1>2. r.len \in Nat /\ r.len < 128 * 128 * 256
  BY RectIs
<1>3. /\ t \in Seq(Byte) /\ Len(t) \in Nat
      /\ \A s \in Seq(Byte), i \in Nat \ {0} : Holds(s, i, t) => CompactLen(s, i) = [len |-> r.len, next |-> i + Len(t)]
  BY <1>2, CompactBack
<1> HIDE DEF t, m, b, before
<1>4. m.bytes = b /\ m.z = before /\ m.block.len = r.len /\ m.block.w = r.w /\ m.block.h = r.h /\ m.block.data = Shaded(r)
  BY <1>1
<1>5. /\ m.bytes \in Seq(Byte) /\ Holds(m.bytes, 2, t) /\ Above(m) = 9 /\ Ready(m, z) = before
  <2> DEFINE u == 9
  <2>1. u \in Nat /\ u <= 15 /\ u = 9
    OBVIOUS
  <2>2. Heads(m, r, u, t)
    BY <1>4 DEF b, Heads
  <2> HIDE DEF u
  <2>3. /\ m.bytes \in Seq(Byte) /\ Holds(m.bytes, 2, t) /\ Above(m) = u /\ Ready(m, z) = Before(r, z)
    BY <1>3, <2>1, <2>2, Controlled
  <2> QED
    BY <2>1, <2>3 DEF before
<1>6. CompactLen(m.bytes, 2).len = r.len
  <2>1. 2 \in Nat \ {0}
    OBVIOUS
  <2>2. CompactLen(m.bytes, 2) = [len |-> r.len, next |-> 2 + Len(t)]
    BY <1>3, <1>5, <2>1
  <2> QED
    BY <2>2
<1>7. TightRead(m, z, r.w, r.h) = TightJpeg(m, before, r.w, r.h)
  BY <1>5, ReadBy
<1> DEFINE n == r.w * r.h
           d == Shaded(r)
<1>8. TightJpeg(m, before, r.w, r.h) =
        [px |-> IF Len(d) = n THEN {[k \in 1 .. n |-> <<d[k], d[k], d[k]>>]} ELSE {Tpixels(d, 1, n)},
         z |-> before]
  <2>1. ~(CompactLen(m.bytes, 2).len # m.block.len \/ m.block.w # r.w \/ m.block.h # r.h)
    BY <1>4, <1>6
  <2>2. m.block.data = d
    BY <1>4
  <2> HIDE DEF d
  <2> QED
    BY <2>1, <2>2 DEF TightJpeg
<1>9. /\ Len(d) = n <=> r.grey
      /\ r.grey => [k \in 1 .. n |-> <<d[k], d[k], d[k]>>] = r.px
      /\ ~r.grey => Tpixels(d, 1, n) = r.px
  BY ShadedIs
<1>10. r.grey \in BOOLEAN
  BY RectIs
<1> HIDE DEF n, d
<1>11. TightRead(m, z, r.w, r.h) = [px |-> {r.px}, z |-> m.z]
  <2>1. CASE r.grey
    BY <1>4, <1>7, <1>8, <1>9, <2>1
  <2>2. CASE ~r.grey
    BY <1>4, <1>7, <1>8, <1>9, <2>2
  <2> QED
    BY <2>1, <2>2
<1>12. m.z \in [Streams -> Nat]
  BY <1>4, BeforeIs DEF before
<1> QED
  BY <1>5, <1>11, <1>12 DEF RectBack, m

----------------------------------------------------------------------------
(* Data behind a head.                                                     *)

(* A rectangle of data behind a head: short data as they are, long ones in *)
(* a block.                                                                *)
Behinds(r, head, before) ==
  IF Len(Payload(r)) < 12
  THEN [bytes |-> head \o Payload(r), block |-> NoBlock, z |-> before]
  ELSE [bytes |-> head \o Compact(r.len),
        block |-> [len |-> r.len, at |-> before[r.stream], w |-> 0, h |-> 0, data |-> Payload(r)],
        z     |-> [before EXCEPT ![r.stream] = @ + 1]]

(* What the client reads off a head, up to where the data start.           *)
Colours3(b, i, filter) == IF filter = 1 THEN b[i] + 1 ELSE 0
BodyAt(b, i, filter) == IF filter = 1 THEN i + 1 + 3 * Colours3(b, i, filter) ELSE i
Needed(n, w, h) == IF n = 2 THEN DivUp(w, 8) * h ELSE IF n > 0 THEN w * h ELSE 3 * w * h

Says(b, i, filter, pal, body, need, w, h) ==
  /\ Tpixels(b, i + 1, Colours3(b, i, filter)) = pal
  /\ BodyAt(b, i, filter) = body
  /\ Needed(Colours3(b, i, filter), w, h) = need

BasicOf(m, filter, s, z, w, h, pal, body, need) ==
  LET c    == CompactLen(m.bytes, body)
      data == IF need < 12 THEN SubSeq(m.bytes, body, Len(m.bytes)) ELSE m.block.data
      good == IF need < 12 THEN Len(data) = need
              ELSE /\ c.next = Len(m.bytes) + 1 /\ c.len = m.block.len
                   /\ z[s] = m.block.at /\ Len(data) >= need
  IN  [px |-> IF good THEN TightPixels(filter, pal, data, w, h) ELSE {},
       z  |-> IF need < 12 THEN z ELSE [z EXCEPT ![s] = @ + 1]]

LEMMA BasicIs ==
  ASSUME NEW m, NEW i, NEW filter, NEW s, NEW z, NEW w, NEW h, NEW pal, NEW body, NEW need,
         Says(m.bytes, i, filter, pal, body, need, w, h)
  PROVE  TightBasic(m, i, filter, s, z, w, h) = BasicOf(m, filter, s, z, w, h, pal, body, need)
<1> DEFINE n == Colours3(m.bytes, i, filter)
           p == Tpixels(m.bytes, i + 1, n)
           at == BodyAt(m.bytes, i, filter)
           expect == Needed(n, w, h)
<1>1. TightBasic(m, i, filter, s, z, w, h) =
        LET c    == CompactLen(m.bytes, at)
            data == IF expect < 12 THEN SubSeq(m.bytes, at, Len(m.bytes)) ELSE m.block.data
            good == IF expect < 12 THEN Len(data) = expect
                    ELSE /\ c.next = Len(m.bytes) + 1 /\ c.len = m.block.len
                         /\ z[s] = m.block.at /\ Len(data) >= expect
        IN  [px |-> IF good THEN TightPixels(filter, p, data, w, h) ELSE {},
             z  |-> IF expect < 12 THEN z ELSE [z EXCEPT ![s] = @ + 1]]
  BY DEF TightBasic, Colours3, BodyAt, Needed
<1>2. p = pal /\ at = body /\ expect = need
  BY DEF Says
<1> HIDE DEF p, at, expect, n
<1> QED
  BY <1>1, <1>2 DEF BasicOf

Explains(m, r, head, before, i, filter, pal, need) ==
  /\ Means(r, Payload(r), filter, pal, need)
  /\ m = Behinds(r, head, before)
  /\ Says(m.bytes, i, filter, pal, Len(head) + 1, need, r.w, r.h)
Returns(m, r, before, i, filter) ==
  /\ m.bytes \in Seq(Byte) /\ m.z \in [Streams -> Nat]
  /\ TightBasic(m, i, filter, r.stream, before, r.w, r.h) = [px |-> {r.px}, z |-> m.z]

LEMMA BehindBack ==
  ASSUME NEW r \in TightRects, NEW head \in Seq(Byte), NEW before \in [Streams -> Nat],
         NEW i, NEW filter, NEW pal, NEW need, NEW m, Explains(m, r, head, before, i, filter, pal, need)
  PROVE  Returns(m, r, before, i, filter)
<1> DEFINE d == Payload(r)
           body == Len(head) + 1
           c == CompactLen(m.bytes, body)
           data == IF need < 12 THEN SubSeq(m.bytes, body, Len(m.bytes)) ELSE m.block.data
           good == IF need < 12 THEN Len(data) = need
                   ELSE /\ c.next = Len(m.bytes) + 1 /\ c.len = m.block.len
                        /\ before[r.stream] = m.block.at /\ Len(data) >= need
           next == [before EXCEPT ![r.stream] = @ + 1]
           q == TightPixels(filter, pal, data, r.w, r.h)
<1>0. /\ Means(r, Payload(r), filter, pal, need) /\ m = Behinds(r, head, before)
      /\ Says(m.bytes, i, filter, pal, Len(head) + 1, need, r.w, r.h)
  BY DEF Explains
<1>1. TightBasic(m, i, filter, r.stream, before, r.w, r.h) =
        [px |-> IF good THEN q ELSE {}, z |-> IF need < 12 THEN before ELSE next]
  <2>1. TightBasic(m, i, filter, r.stream, before, r.w, r.h) =
          BasicOf(m, filter, r.stream, before, r.w, r.h, pal, body, need)
    <3> DEFINE s == r.stream
               w == r.w
               h == r.h
    <3>1. Says(m.bytes, i, filter, pal, body, need, w, h)
      BY <1>0
    <3> HIDE DEF s, w, h, body
    <3>2. TightBasic(m, i, filter, s, before, w, h) = BasicOf(m, filter, s, before, w, h, pal, body, need)
      BY <3>1, BasicIs
    <3> QED
      BY <3>2 DEF s, w, h, body
  <2> QED
    BY <2>1 DEF BasicOf
<1>2. /\ d \in Seq(Byte) /\ Len(d) = need /\ need \in Nat
      /\ TightPixels(filter, pal, d, r.w, r.h) = {r.px}
  BY <1>0 DEF Means
<1>3. r.stream \in Streams /\ next \in [Streams -> Nat]
  <2>1. r.stream \in Streams
    BY DEF TightRects
  <2> DEFINE s == r.stream
  <2> HIDE DEF s
  <2>2. s \in Streams
    BY <2>1 DEF s
  <2>3. [before EXCEPT ![s] = @ + 1] \in [Streams -> Nat]
    BY <2>2
  <2> QED
    BY <2>1, <2>3 DEF s
<1> HIDE DEF next
<1>4. CASE need < 12
  <2>1. m = [bytes |-> head \o d, block |-> NoBlock, z |-> before]
    BY <1>0, <1>2, <1>4 DEF Behinds
  <2>2. m.bytes = head \o d /\ m.z = before
    BY <2>1
  <2> DEFINE b == m.bytes
  <2> HIDE DEF b
  <2>3. b = head \o d
    BY <2>2 DEF b
  <2>4. b \in Seq(Byte) /\ SubSeq(b, body, Len(b)) = d
    BY <1>2, <2>3, Behind
  <2>5. data = d
    BY <1>4, <2>4 DEF b
  <2> HIDE DEF data
  <2>6. good /\ q = {r.px}
    BY <1>2, <1>4, <2>5
  <2> HIDE DEF good, q
  <2>7. TightBasic(m, i, filter, r.stream, before, r.w, r.h) = [px |-> {r.px}, z |-> m.z]
    BY <1>1, <1>4, <2>2, <2>6
  <2> QED
    BY <2>2, <2>4, <2>7 DEF b, Returns
<1>5. CASE ~(need < 12)
  <2> DEFINE t == Compact(r.len)
             block == [len |-> r.len, at |-> before[r.stream], w |-> 0, h |-> 0, data |-> d]
  <2>1. m = [bytes |-> head \o t, block |-> block, z |-> next]
    BY <1>0, <1>2, <1>5 DEF Behinds, next
  <2>2. r.len \in Nat /\ r.len < 128 * 128 * 256
    BY RectIs
  <2>3. /\ t \in Seq(Byte) /\ Len(t) \in Nat
        /\ \A s \in Seq(Byte), j \in Nat \ {0} : Holds(s, j, t) => CompactLen(s, j) = [len |-> r.len, next |-> j + Len(t)]
    BY <2>2, CompactBack
  <2> HIDE DEF t
  <2>4. /\ m.bytes = head \o t /\ m.z = next /\ m.block.len = r.len /\ m.block.at = before[r.stream]
        /\ m.block.data = d
    BY <2>1
  <2> DEFINE b == m.bytes
  <2> HIDE DEF b
  <2>5. b = head \o t
    BY <2>4 DEF b
  <2>6. b \in Seq(Byte) /\ Len(head) \in Nat /\ Len(b) = Len(head) + Len(t) /\ Holds(b, Len(head) + 1, t)
    BY <2>3, <2>5, Behind
  <2>7. body \in Nat \ {0} /\ Holds(b, body, t)
    BY <2>6
  <2> DEFINE e == CompactLen(b, body)
  <2>8. e = [len |-> r.len, next |-> body + Len(t)]
    BY <2>3, <2>6, <2>7
  <2>9. body + Len(t) = Len(b) + 1
    BY <2>3, <2>6
  <2>10. e.next = Len(b) + 1 /\ e.len = r.len
    BY <2>8, <2>9
  <2>11. c.next = Len(m.bytes) + 1 /\ c.len = m.block.len
    BY <2>4, <2>10 DEF b
  <2> HIDE DEF c, e
  <2>12. data = d
    BY <1>5, <2>4
  <2> HIDE DEF data, d
  <2>13. good
    BY <1>2, <1>5, <2>4, <2>11, <2>12
  <2>14. q = {r.px}
    BY <1>2, <2>12
  <2> HIDE DEF good, q
  <2>15. TightBasic(m, i, filter, r.stream, before, r.w, r.h) = [px |-> {r.px}, z |-> m.z]
    BY <1>1, <1>5, <2>4, <2>13, <2>14
  <2> QED
    BY <1>3, <2>4, <2>6, <2>15 DEF b, Returns
<1> QED
  BY <1>4, <1>5

----------------------------------------------------------------------------
(* Pixels as they are.                                                     *)

LEMMA TailIs ==
  ASSUME NEW r \in TightRects, NEW head, NEW before, Payload(r) \in Seq(Byte)
  PROVE  \E t \in Seq(Byte) : Behinds(r, head, before).bytes = head \o t
<1>1. CASE Len(Payload(r)) < 12
  <2>1. Behinds(r, head, before) = [bytes |-> head \o Payload(r), block |-> NoBlock, z |-> before]
    BY <1>1 DEF Behinds
  <2>2. Behinds(r, head, before).bytes = head \o Payload(r)
    BY <2>1
  <2> QED
    BY <2>2
<1>2. CASE ~(Len(Payload(r)) < 12)
  <2> DEFINE t == Compact(r.len)
  <2>1. r.len \in Nat /\ r.len < 128 * 128 * 256
    BY RectIs
  <2>2. t \in Seq(Byte)
    BY <2>1, CompactBack
  <2>3. Behinds(r, head, before).bytes = head \o t
    BY <1>2 DEF Behinds
  <2> QED
    BY <2>2, <2>3
<1> QED
  BY <1>1, <1>2

(* A head that starts with a control byte.                                 *)
Begins3(head, r, above) == head \in Seq(Byte) /\ Len(head) >= 1 /\ head[1] = Control(r, above)

LEMMA HeadThere ==
  ASSUME NEW r \in TightRects, NEW above \in Nat, above <= 15, NEW head, Begins3(head, r, above),
         NEW z, NEW m, m = Behinds(r, head, Before(r, z)), Payload(r) \in Seq(Byte)
  PROVE  /\ Above(m) = above /\ Ready(m, z) = Before(r, z)
         /\ m.bytes \in Seq(Byte) /\ Len(head) \in Nat /\ Holds(m.bytes, 1, head)
         /\ \A k \in 1 .. Len(head) : m.bytes[k] = head[k]
<1>1. head \in Seq(Byte) /\ Len(head) >= 1 /\ head[1] = Control(r, above)
  BY DEF Begins3
<1>2. PICK t \in Seq(Byte) : m.bytes = head \o t
  BY TailIs
<1> DEFINE b == m.bytes
<1> HIDE DEF b
<1>3. b = head \o t
  BY <1>2 DEF b
<1>4. b \in Seq(Byte) /\ Len(head) \in Nat /\ Holds(b, 1, head)
  BY <1>1, <1>3, Behind
<1>5. \A k \in 1 .. Len(head) : b[k] = head[k]
  <2> SUFFICES ASSUME NEW k \in 1 .. Len(head) PROVE b[k] = head[k]
    OBVIOUS
  <2>1. b[1 + k - 1] = head[k] /\ 1 + k - 1 = k
    BY <1>4 DEF Holds
  <2> QED
    BY <2>1
<1> DEFINE ctl == Control(r, above)
<1>6. ctl \div 16 = above /\ Restarted(ctl, z) = Before(r, z)
  BY ControlIs DEF Before
<1> HIDE DEF ctl
<1>7. b[1] = ctl
  <2>1. 1 \in 1 .. Len(head)
    BY <1>1, <1>4
  <2>2. b[1] = head[1]
    BY <1>5, <2>1
  <2> QED
    BY <1>1, <2>2 DEF ctl
<1>8. Above(m) = above /\ Ready(m, z) = Before(r, z)
  BY <1>6, <1>7 DEF Above, Ready, b
<1> QED
  BY <1>4, <1>5, <1>8 DEF b

LEMMA CopyBack ==
  ASSUME NEW r \in TightRects, r.form = "copy", NEW z \in [Streams -> Nat]
  PROVE  RectBack(r, z)
<1> DEFINE s == r.stream
           head == <<Control(r, s)>>
           before == Before(r, z)
           m == TightWrite(r, z)
           need == 3 * r.w * r.h
           pal == Tpixels(m.bytes, 3, 0)
<1>1. m = Behinds(r, head, before)
  BY DEF TightWrite, Before, Behinds
<1>2. s \in 0 .. 3 /\ s \in Nat /\ s <= 15 /\ s % 4 = s
  <2>1. s \in 0 .. 3
    BY RectIs
  <2> HIDE DEF s
  <2> QED
    BY <2>1
<1>3. Control(r, s) \in Byte
  BY <1>2, ControlIs
<1>4. Begins3(head, r, s) /\ Len(head) = 1 /\ Len(head) + 1 = 2 /\ head \in Seq(Byte)
  <2> DEFINE c == Control(r, s)
             q == <<c>>
  <2> HIDE DEF c
  <2>1. q \in Seq(Byte) /\ Len(q) = 1 /\ q[1] = c
    BY <1>3 DEF c
  <2>2. head = q
    BY DEF c
  <2> HIDE DEF head, q
  <2>3. head \in Seq(Byte) /\ Len(head) = 1 /\ head[1] = c
    BY <2>1, <2>2
  <2>4. head[1] = Control(r, s)
    BY <2>3 DEF c
  <2> QED
    BY <2>3, <2>4 DEF Begins3
<1> HIDE DEF head, m, before, s
<1>5. Means(r, Payload(r), 0, pal, need)
  <2> HIDE DEF pal
  <2> QED
    BY CopyMeans
<1>6. Payload(r) \in Seq(Byte)
  BY <1>5 DEF Means
<1>7. Above(m) = s /\ Ready(m, z) = before
  BY <1>1, <1>2, <1>4, <1>6, HeadThere DEF before
<1> DEFINE b == m.bytes
<1> HIDE DEF need
<1>8. Says(b, 2, 0, pal, 2, need, r.w, r.h)
  <2>1. Colours3(b, 2, 0) = 0 /\ BodyAt(b, 2, 0) = 2
    BY DEF Colours3, BodyAt
  <2>2. Needed(0, r.w, r.h) = need
    BY DEF Needed, need
  <2>3. Tpixels(b, 2 + 1, 0) = pal
    OBVIOUS
  <2> HIDE DEF b, pal
  <2> QED
    BY <2>1, <2>2, <2>3 DEF Says
<1> HIDE DEF pal
<1>9. Says(m.bytes, 2, 0, pal, Len(head) + 1, need, r.w, r.h)
  BY <1>4, <1>8
<1>10. before \in [Streams -> Nat]
  BY BeforeIs DEF before
<1> DEFINE i == 2
           filter == 0
<1>11. Explains(m, r, head, before, i, filter, pal, need)
  BY <1>1, <1>5, <1>9 DEF Explains
<1> HIDE DEF i, filter
<1>12. /\ m.bytes \in Seq(Byte) /\ m.z \in [Streams -> Nat]
       /\ TightBasic(m, i, filter, r.stream, before, r.w, r.h) = [px |-> {r.px}, z |-> m.z]
  BY <1>4, <1>10, <1>11, BehindBack DEF Returns
<1>13. TightRead(m, z, r.w, r.h) = TightBasic(m, i, filter, s, before, r.w, r.h)
  <2>1. Above(m) \in 0 .. 3
    BY <1>2, <1>7
  <2>2. TightRead(m, z, r.w, r.h) = TightBasic(m, 2, 0, Above(m) % 4, Ready(m, z), r.w, r.h)
    BY <2>1, ReadBy
  <2> QED
    BY <1>2, <1>7, <2>2 DEF i, filter
<1>14. TightRead(m, z, r.w, r.h) = [px |-> {r.px}, z |-> m.z]
  BY <1>12, <1>13 DEF s
<1> QED
  BY <1>12, <1>14 DEF RectBack, m

----------------------------------------------------------------------------
(* Filtered pixels.                                                        *)

LEMMA FilterIs ==
  ASSUME NEW r \in TightRects
  PROVE  /\ r.stream + 4 \in 4 .. 7 /\ r.stream + 4 \in Nat /\ r.stream + 4 <= 15
         /\ (r.stream + 4) % 4 = r.stream
<1> DEFINE s == r.stream
<1>1. s \in 0 .. 3
  BY RectIs
<1> HIDE DEF s
<1>2. s + 4 \in 4 .. 7 /\ s + 4 \in Nat /\ s + 4 <= 15 /\ (s + 4) % 4 = s
  BY <1>1
<1> QED
  BY <1>2 DEF s

LEMMA GradientRectBack ==
  ASSUME NEW r \in TightRects, r.form = "gradient", NEW z \in [Streams -> Nat]
  PROVE  RectBack(r, z)
<1> DEFINE s == r.stream + 4
           head == <<Control(r, s), 2>>
           before == Before(r, z)
           m == TightWrite(r, z)
           need == 3 * r.w * r.h
           pal == Tpixels(m.bytes, 4, 0)
<1>1. m = Behinds(r, head, before)
  BY DEF TightWrite, Before, Behinds
<1>2. s \in 4 .. 7 /\ s \in Nat /\ s <= 15 /\ s % 4 = r.stream
  BY FilterIs
<1> HIDE DEF s
<1>3. Control(r, s) \in Byte
  BY <1>2, ControlIs
<1>4. Begins3(head, r, s) /\ Len(head) = 2 /\ Len(head) + 1 = 3 /\ head \in Seq(Byte) /\ head[2] = 2
  <2> DEFINE c == Control(r, s)
             q == <<c, 2>>
  <2> HIDE DEF c
  <2>1. 2 \in Byte
    BY DEF Byte
  <2>2. q \in Seq(Byte) /\ Len(q) = 2 /\ q[1] = c /\ q[2] = 2
    BY <1>3, <2>1 DEF c
  <2>3. head = q
    BY DEF c
  <2> HIDE DEF head, q
  <2>4. head \in Seq(Byte) /\ Len(head) = 2 /\ head[1] = c /\ head[2] = 2
    BY <2>2, <2>3
  <2>5. head[1] = Control(r, s)
    BY <2>4 DEF c
  <2> QED
    BY <2>4, <2>5 DEF Begins3
<1> HIDE DEF head, m, before
<1>5. Means(r, Payload(r), 2, pal, need)
  <2> HIDE DEF pal
  <2> QED
    BY GradientMeans
<1>6. Payload(r) \in Seq(Byte)
  BY <1>5 DEF Means
<1>7. Above(m) = s /\ Ready(m, z) = before /\ \A k \in 1 .. Len(head) : m.bytes[k] = head[k]
  BY <1>1, <1>2, <1>4, <1>6, HeadThere DEF before
<1> DEFINE b == m.bytes
<1>8. b[2] = 2
  <2>1. 2 \in 1 .. Len(head)
    BY <1>4
  <2> QED
    BY <1>4, <1>7, <2>1
<1> HIDE DEF need
<1>9. Says(b, 3, 2, pal, 3, need, r.w, r.h)
  <2>1. Colours3(b, 3, 2) = 0 /\ BodyAt(b, 3, 2) = 3
    BY DEF Colours3, BodyAt
  <2>2. Needed(0, r.w, r.h) = need
    BY DEF Needed, need
  <2>3. Tpixels(b, 3 + 1, 0) = pal
    OBVIOUS
  <2> HIDE DEF b, pal
  <2> QED
    BY <2>1, <2>2, <2>3 DEF Says
<1> HIDE DEF pal
<1>10. Says(m.bytes, 3, 2, pal, Len(head) + 1, need, r.w, r.h)
  BY <1>4, <1>9
<1>11. before \in [Streams -> Nat]
  BY BeforeIs DEF before
<1> DEFINE i == 3
           filter == 2
<1>12. Explains(m, r, head, before, i, filter, pal, need)
  BY <1>1, <1>5, <1>10 DEF Explains
<1> HIDE DEF i, filter
<1>13. /\ m.bytes \in Seq(Byte) /\ m.z \in [Streams -> Nat]
       /\ TightBasic(m, i, filter, r.stream, before, r.w, r.h) = [px |-> {r.px}, z |-> m.z]
  BY <1>4, <1>11, <1>12, BehindBack DEF Returns
<1>14. TightRead(m, z, r.w, r.h) = TightBasic(m, i, filter, r.stream, before, r.w, r.h)
  <2>1. Above(m) \in 4 .. 7
    BY <1>2, <1>7
  <2>2. TightRead(m, z, r.w, r.h) = TightBasic(m, 3, m.bytes[2], Above(m) % 4, Ready(m, z), r.w, r.h)
    BY <2>1, ReadBy
  <2> QED
    BY <1>2, <1>7, <1>8, <2>2 DEF i, filter
<1>15. TightRead(m, z, r.w, r.h) = [px |-> {r.px}, z |-> m.z]
  BY <1>13, <1>14
<1> QED
  BY <1>13, <1>15 DEF RectBack, m

----------------------------------------------------------------------------
(* A palette in front of the data.                                         *)
LEMMA PaletteMeans ==
  ASSUME NEW r \in TightRects, r.form = "palette", NEW n, n = Len(Pal(r.px))
  PROVE  /\ n \in Nat /\ n > 0 /\ n <= 256 /\ Pal(r.px) \in Seq(Rgb)
         /\ Means(r, Payload(r), 1, Pal(r.px), Needed(n, r.w, r.h))
<1>1. r.px \in Seq(Rgb) /\ Len(r.px) = r.w * r.h /\ r.w * r.h \in Nat \ {0} /\ n <= 256
  BY RectIs
<1>2. Pal(r.px) \in Seq(Rgb) /\ n \in Nat /\ \A i \in 1 .. Len(r.px) : \E k \in 1 .. n : Pal(r.px)[k] = r.px[i]
  BY <1>1, PalIs
<1>3. n > 0
  <2> DEFINE a == r.w * r.h
  <2>1. a \in Nat \ {0} /\ Len(r.px) = a
    BY <1>1
  <2> HIDE DEF a
  <2>2. 1 \in 1 .. Len(r.px)
    BY <2>1
  <2>3. PICK k \in 1 .. n : Pal(r.px)[k] = r.px[1]
    BY <1>2, <2>2
  <2> QED
    BY <1>2, <2>3
<1>4. CASE n = 2
  <2>1. Needed(n, r.w, r.h) = DivUp(r.w, 8) * r.h
    BY <1>4 DEF Needed
  <2>2. Means(r, Payload(r), 1, Pal(r.px), DivUp(r.w, 8) * r.h)
    BY <1>4, PairMeans
  <2> QED
    BY <1>1, <1>2, <1>3, <2>1, <2>2
<1>5. CASE n # 2
  <2>1. Needed(n, r.w, r.h) = r.w * r.h
    BY <1>3, <1>5 DEF Needed
  <2>2. Means(r, Payload(r), 1, Pal(r.px), r.w * r.h)
    BY <1>5, IndexMeans
  <2> QED
    BY <1>1, <1>2, <1>3, <2>1, <2>2
<1> QED
  BY <1>4, <1>5

(* Three bytes and the palette's colours.                                  *)
PalHead(ctl, pal) == <<ctl, 1, Len(pal) - 1>> \o Bytes(pal)

LEMMA PalHeadIs ==
  ASSUME NEW ctl \in Byte, NEW pal \in Seq(Rgb), Len(pal) > 0, Len(pal) <= 256
  PROVE  LET head == PalHead(ctl, pal)
         IN  /\ head \in Seq(Byte) /\ Len(head) = 3 + 3 * Len(pal)
             /\ head[1] = ctl /\ head[2] = 1 /\ head[3] + 1 = Len(pal)
             /\ \A b \in Seq(Byte) : Holds(b, 1, head) => Holds(b, 4, Bytes(pal))
<1> DEFINE n == Len(pal)
           c == Bytes(pal)
           q == <<ctl, 1, n - 1>>
           head == q \o c
<1>1. c \in Seq(Byte) /\ Len(c) = 3 * n /\ n \in Nat
  BY BytesAre
<1>0. n > 0 /\ n <= 256
  OBVIOUS
<1> HIDE DEF n, c
<1>2. n - 1 \in Byte /\ 1 \in Byte /\ n - 1 + 1 = n
  <2>1. n - 1 \in Byte
    BY <1>0, <1>1 DEF Byte
  <2>2. 1 \in Byte
    BY DEF Byte
  <2>3. n - 1 + 1 = n
    BY <1>1
  <2> QED
    BY <2>1, <2>2, <2>3
<1>3. q \in Seq(Byte) /\ Len(q) = 3 /\ q[1] = ctl /\ q[2] = 1 /\ q[3] = n - 1
  BY <1>2
<1> HIDE DEF q
<1> DEFINE g == q \o c
<1> HIDE DEF g
<1>4. /\ g \in Seq(Byte) /\ Len(g) = Len(q) + Len(c) /\ Holds(g, 1, q)
  <2>1. g = q \o c
    BY DEF g
  <2> QED
    BY <1>1, <1>3, <2>1, Behind
<1>5. g[1] = ctl /\ g[2] = 1 /\ g[3] = n - 1
  <2>1. g[1 + 1 - 1] = q[1] /\ g[1 + 2 - 1] = q[2] /\ g[1 + 3 - 1] = q[3]
    BY <1>3, <1>4 DEF Holds
  <2>2. 1 + 1 - 1 = 1 /\ 1 + 2 - 1 = 2 /\ 1 + 3 - 1 = 3
    OBVIOUS
  <2> QED
    BY <1>3, <2>1, <2>2
<1>6. \A b \in Seq(Byte) : Holds(b, 1, q \o c) => Holds(b, 4, c)
  <2> SUFFICES ASSUME NEW b \in Seq(Byte), Holds(b, 1, q \o c) PROVE Holds(b, 4, c)
    OBVIOUS
  <2> DEFINE a == 1
  <2>1. a = 1 /\ Holds(b, a, q \o c)
    OBVIOUS
  <2> HIDE DEF a
  <2>2. Holds(b, Len(q) + 1, c)
    BY <1>1, <1>3, <2>1, BothThere
  <2> QED
    BY <1>3, <2>2
<1>7. Len(g) = 3 + 3 * n
  BY <1>1, <1>3, <1>4
<1>8. PalHead(ctl, pal) = g
  BY DEF PalHead, g, q, c, n
<1>9. \A b \in Seq(Byte) : Holds(b, 1, g) => Holds(b, 4, c)
  BY <1>6 DEF g
<1> QED
  BY <1>2, <1>4, <1>5, <1>7, <1>8, <1>9 DEF n, c

----------------------------------------------------------------------------
(* A palette.                                                              *)

LEMMA PaletteRectBack ==
  ASSUME NEW r \in TightRects, r.form = "palette", NEW z \in [Streams -> Nat]
  PROVE  RectBack(r, z)
<1> DEFINE s == r.stream + 4
           c == Control(r, s)
           pal == Pal(r.px)
           n == Len(pal)
           head == PalHead(c, pal)
           before == Before(r, z)
           m == TightWrite(r, z)
           need == Needed(n, r.w, r.h)
<1>1. m = Behinds(r, head, before)
  BY DEF TightWrite, Before, Behinds, PalHead
<1>2. s \in 4 .. 7 /\ s \in Nat /\ s <= 15 /\ s % 4 = r.stream
  BY FilterIs
<1> HIDE DEF s
<1>3. c \in Byte
  BY <1>2, ControlIs
<1>4. n \in Nat /\ n > 0 /\ n <= 256 /\ pal \in Seq(Rgb) /\ Means(r, Payload(r), 1, pal, need)
  <2> DEFINE count == n
  <2>1. count = Len(Pal(r.px))
    OBVIOUS
  <2> HIDE DEF count
  <2>2. /\ count \in Nat /\ count > 0 /\ count <= 256 /\ Pal(r.px) \in Seq(Rgb)
        /\ Means(r, Payload(r), 1, Pal(r.px), Needed(count, r.w, r.h))
    BY <2>1, PaletteMeans
  <2> QED
    BY <2>2 DEF count
<1> HIDE DEF c, m, before, need
<1>5. /\ head \in Seq(Byte) /\ Len(head) = 3 + 3 * n
      /\ head[1] = c /\ head[2] = 1 /\ head[3] + 1 = n
      /\ \A b \in Seq(Byte) : Holds(b, 1, head) => Holds(b, 4, Bytes(pal))
  <2> HIDE DEF pal
  <2> QED
    BY <1>3, <1>4, PalHeadIs
<1> HIDE DEF head, n, pal
<1>6. Begins3(head, r, s) /\ Len(head) + 1 = 4 + 3 * n
  <2>1. Len(head) >= 1 /\ Len(head) + 1 = 4 + 3 * n
    BY <1>4, <1>5
  <2> QED
    BY <1>5, <2>1 DEF Begins3, c
<1>7. Payload(r) \in Seq(Byte)
  BY <1>4 DEF Means
<1>8. /\ Above(m) = s /\ Ready(m, z) = before /\ m.bytes \in Seq(Byte) /\ Holds(m.bytes, 1, head)
      /\ \A k \in 1 .. Len(head) : m.bytes[k] = head[k]
  BY <1>1, <1>2, <1>6, <1>7, HeadThere DEF before
<1> DEFINE b == m.bytes
<1> HIDE DEF b
<1>9. b \in Seq(Byte) /\ b[2] = 1 /\ b[3] + 1 = n /\ Holds(b, 4, Bytes(pal))
  <2>1. 2 \in 1 .. Len(head) /\ 3 \in 1 .. Len(head)
    BY <1>4, <1>5
  <2>2. b[2] = head[2] /\ b[3] = head[3] /\ b \in Seq(Byte) /\ Holds(b, 1, head)
    BY <1>8, <2>1 DEF b
  <2> QED
    BY <1>5, <2>2
<1>10. Tpixels(b, 4, n) = pal
  <2> DEFINE four == 4
  <2>1. four \in Nat \ {0} /\ four = 4
    OBVIOUS
  <2> HIDE DEF four
  <2>2. Holds(b, four, Bytes(pal))
    BY <1>9, <2>1
  <2>3. Tpixels(b, four, Len(pal)) = pal
    BY <1>4, <1>9, <2>1, <2>2, PixelsBack
  <2> QED
    BY <2>1, <2>3 DEF n
<1>11. Says(b, 3, 1, pal, Len(head) + 1, need, r.w, r.h)
  <2>1. Colours3(b, 3, 1) = n
    BY <1>9 DEF Colours3
  <2>2. BodyAt(b, 3, 1) = 4 + 3 * n
    BY <1>4, <2>1 DEF BodyAt
  <2>3. 3 + 1 = 4
    OBVIOUS
  <2>4. Tpixels(b, 3 + 1, Colours3(b, 3, 1)) = pal
    BY <1>10, <2>1, <2>3
  <2>5. Needed(Colours3(b, 3, 1), r.w, r.h) = need
    BY <2>1 DEF need
  <2> QED
    BY <1>6, <2>2, <2>4, <2>5 DEF Says
<1>12. before \in [Streams -> Nat]
  BY BeforeIs DEF before
<1> DEFINE i == 3
           filter == 1
<1>13. Explains(m, r, head, before, i, filter, pal, need)
  BY <1>1, <1>4, <1>11 DEF Explains, b
<1> HIDE DEF i, filter
<1>14. /\ m.bytes \in Seq(Byte) /\ m.z \in [Streams -> Nat]
       /\ TightBasic(m, i, filter, r.stream, before, r.w, r.h) = [px |-> {r.px}, z |-> m.z]
  BY <1>5, <1>12, <1>13, BehindBack DEF Returns
<1>15. TightRead(m, z, r.w, r.h) = TightBasic(m, i, filter, r.stream, before, r.w, r.h)
  <2>1. Above(m) \in 4 .. 7
    BY <1>2, <1>8
  <2>2. TightRead(m, z, r.w, r.h) = TightBasic(m, 3, m.bytes[2], Above(m) % 4, Ready(m, z), r.w, r.h)
    BY <2>1, ReadBy
  <2> QED
    BY <1>2, <1>8, <1>9, <2>2 DEF i, filter, b
<1>16. TightRead(m, z, r.w, r.h) = [px |-> {r.px}, z |-> m.z]
  BY <1>14, <1>15
<1> QED
  BY <1>14, <1>16 DEF RectBack, m

(* Whatever the rectangle, and whatever its streams have carried before.   *)
LEMMA RectComesBack ==
  ASSUME NEW r \in TightRects, NEW z \in [Streams -> Nat]
  PROVE  RectBack(r, z)
<1>1. r.form = "copy" \/ r.form = "gradient" \/ r.form = "palette" \/ r.form = "fill" \/ r.form = "jpeg"
  BY RectIs
<1> QED
  BY <1>1, CopyBack, GradientRectBack, PaletteRectBack, FillBack, JpegBack

----------------------------------------------------------------------------
(* Rectangles one after the other.                                         *)

(* Rectangles one after the other: what the streams carried before the     *)
(* k-th one, and a message from which it comes back.                       *)
Came(m, k, z) == IF k = 1 THEN z ELSE m[k - 1].z
Sound(r, m, z) ==
  /\ m.bytes \in Seq(Byte) /\ m.z \in [Streams -> Nat]
  /\ TightRead(m, z, r.w, r.h) = [px |-> {r.px}, z |-> m.z]

LEMMA WritesSound ==
  ASSUME NEW r \in TightRects, NEW z \in [Streams -> Nat]
  PROVE  Sound(r, TightWrite(r, z), z)
BY RectComesBack DEF RectBack, Sound

LEMMA MessagesAre ==
  ASSUME NEW rects \in Seq(TightRects), NEW z \in [Streams -> Nat], NEW n, n = Len(rects)
  PROVE  /\ n \in Nat /\ Writes(rects, z) = [k \in 1 .. n |-> Writes(rects, z)[k]]
         /\ \A k \in 1 .. n : Sound(rects[k], Writes(rects, z)[k], Came(Writes(rects, z), k, z))
<1> DEFINE ZZ == [Streams -> Nat]
           G == [x \in ZZ \X (1 .. n) |-> TightWrite(rects[x[2]], x[1]).z]
<1>1. n \in Nat /\ \A k \in 1 .. n : rects[k] \in TightRects
  BY LenProperties, ElementOfSeq
<1>2. \A v \in ZZ, k \in 1 .. n : TightWrite(rects[k], v).z \in ZZ
  BY <1>1, WritesSound DEF Sound
<1>3. G \in [ZZ \X (1 .. n) -> ZZ]
  <2> HIDE DEF ZZ
  <2> QED
    BY <1>2
<1>4. \A v \in ZZ, k \in 1 .. n : G[<<v, k>>] = TightWrite(rects[k], v).z
  OBVIOUS
<1>5. z \in ZZ
  OBVIOUS
<1> HIDE DEF G, ZZ
<1>6. PICK g \in [0 .. n -> ZZ] : Chain(g, z, G, n)
  BY <1>1, <1>3, <1>5, Recursion
<1>7. g[0] = z /\ \A k \in 1 .. n : g[k] = TightWrite(rects[k], g[k - 1]).z
  <2>1. g[0] = z /\ \A k \in 1 .. n : g[k] = G[<<g[k - 1], k>>]
    BY <1>6, Zenon DEF Chain
  <2>2. \A k \in 1 .. n : g[k - 1] \in ZZ
    BY <1>1
  <2> QED
    BY <1>4, <2>1, <2>2
<1> DEFINE Step(f, k) == TightWrite(rects[k], IF k = 1 THEN z ELSE f[k - 1].z)
           w == [k \in 1 .. n |-> TightWrite(rects[k], g[k - 1])]
<1>8. w = [k \in 1 .. n |-> Step(w, k)]
  <2>1. ASSUME NEW k \in 1 .. n
        PROVE  w[k] = Step(w, k)
    <3>1. CASE k = 1
      BY <1>7, <3>1
    <3>2. CASE k # 1
      <4> DEFINE i == k - 1
      <4>1. i \in 1 .. n
        BY <1>1, <3>2
      <4>2. w[k] = TightWrite(rects[k], g[i])
        OBVIOUS
      <4> HIDE DEF i
      <4>3. w[i] = TightWrite(rects[i], g[i - 1])
        BY <4>1
      <4>4. w[i].z = g[i]
        BY <1>7, <4>1, <4>3
      <4> HIDE DEF w
      <4>5. Step(w, k) = TightWrite(rects[k], w[i].z)
        BY <3>2 DEF i
      <4> QED
        BY <4>2, <4>4, <4>5
    <3> QED
      BY <3>1, <3>2
  <2> QED
    BY <2>1
<1> HIDE DEF w
<1> DEFINE wrote == CHOOSE f : f = [k \in 1 .. n |-> Step(f, k)]
<1>9. wrote = [k \in 1 .. n |-> Step(wrote, k)]
  BY <1>8
<1>10. Writes(rects, z) = [k \in 1 .. n |-> wrote[k]]
  BY DEF Writes
<1> HIDE DEF wrote
<1> DEFINE m == Writes(rects, z)
<1> HIDE DEF m
<1>11. m = [k \in 1 .. n |-> m[k]] /\ \A k \in 1 .. n : m[k] = wrote[k]
  BY <1>10 DEF m
<1>12. \A k \in 1 .. n : m[k] = TightWrite(rects[k], Came(m, k, z))
  <2> SUFFICES ASSUME NEW k \in 1 .. n PROVE m[k] = TightWrite(rects[k], Came(m, k, z))
    OBVIOUS
  <2>1. m[k] = Step(wrote, k)
    BY <1>9, <1>11
  <2>2. CASE k = 1
    BY <2>1, <2>2 DEF Came
  <2>3. CASE k # 1
    <3>1. k - 1 \in 1 .. n
      BY <1>1, <2>3
    <3>2. wrote[k - 1] = m[k - 1]
      BY <1>11, <3>1
    <3> QED
      BY <2>1, <2>3, <3>2 DEF Came
  <2> QED
    BY <2>2, <2>3
<1> DEFINE T == {k \in Nat : \A j \in 1 .. k : Sound(rects[j], m[j], Came(m, j, z))}
<1>13. 0 \in T
  OBVIOUS
<1>14. ASSUME NEW k \in 1 .. n, k - 1 \in T
       PROVE  k \in T
  <2>1. k \in Nat /\ \A j \in 1 .. k : j \in 1 .. k - 1 \/ j = k
    BY <1>1
  <2>2. Came(m, k, z) \in ZZ
    <3>1. CASE k = 1
      BY <1>5, <3>1 DEF Came
    <3>2. CASE k # 1
      <4>1. k - 1 \in 1 .. k - 1
        BY <1>1, <3>2
      <4>2. Sound(rects[k - 1], m[k - 1], Came(m, k - 1, z))
        BY <1>14, <4>1
      <4>3. m[k - 1].z \in ZZ
        BY <4>2 DEF Sound, ZZ
      <4> QED
        BY <3>2, <4>3 DEF Came
    <3> QED
      BY <3>1, <3>2
  <2> DEFINE before == Came(m, k, z)
  <2>3. m[k] = TightWrite(rects[k], before) /\ rects[k] \in TightRects
    BY <1>1, <1>12
  <2>4. Sound(rects[k], TightWrite(rects[k], before), before)
    <3> HIDE DEF before
    <3>1. before \in [Streams -> Nat]
      BY <2>2 DEF ZZ, before
    <3> QED
      BY <2>3, <3>1, WritesSound
  <2>5. Sound(rects[k], m[k], Came(m, k, z))
    BY <2>3, <2>4
  <2>6. \A j \in 1 .. k - 1 : Sound(rects[j], m[j], Came(m, j, z))
    BY <1>14
  <2> QED
    BY <2>1, <2>5, <2>6, Zenon
<1>15. \A k \in 0 .. n : k \in T
  <2> HIDE DEF T
  <2> QED
    BY <1>1, <1>13, <1>14, Climb
<1>16. \A k \in 1 .. n : Sound(rects[k], m[k], Came(m, k, z))
  <2>1. n \in T
    <3> HIDE DEF T
    <3>1. n \in 0 .. n
      BY <1>1
    <3> QED
      BY <1>15, <3>1
  <2> QED
    BY <2>1
<1> QED
  BY <1>1, <1>11, <1>16 DEF m

(* What the client makes of such messages.                                 *)
LEMMA ReadsAre ==
  ASSUME NEW rects, NEW z, NEW m, NEW n \in Nat, n = Len(rects),
         \A k \in 1 .. n : Sound(rects[k], m[k], Came(m, k, z))
  PROVE  Reads(rects, m, z) = [k \in 1 .. n |-> {rects[k].px}]
<1> DEFINE Step(f, k) == TightRead(m[k], IF k = 1 THEN z ELSE f[k - 1].z, rects[k].w, rects[k].h)
           w == [k \in 1 .. n |-> [px |-> {rects[k].px}, z |-> m[k].z]]
<1>1. \A k \in 1 .. n : TightRead(m[k], Came(m, k, z), rects[k].w, rects[k].h) = [px |-> {rects[k].px}, z |-> m[k].z]
  BY DEF Sound
<1>2. \A k \in 1 .. n : w[k] = [px |-> {rects[k].px}, z |-> m[k].z] /\ w[k].z = m[k].z
                          /\ w[k].px = {rects[k].px}
  OBVIOUS
<1>3. \A k \in 1 .. n : k # 1 => k - 1 \in 1 .. n
  OBVIOUS
<1>4. w = [k \in 1 .. n |-> w[k]]
  OBVIOUS
<1> HIDE DEF w
<1>5. \A k \in 1 .. n : Step(w, k) = w[k]
  <2> SUFFICES ASSUME NEW k \in 1 .. n PROVE Step(w, k) = w[k]
    OBVIOUS
  <2>1. (IF k = 1 THEN z ELSE w[k - 1].z) = Came(m, k, z)
    BY <1>2, <1>3 DEF Came
  <2> QED
    BY <1>1, <1>2, <2>1
<1>6. w = [k \in 1 .. n |-> Step(w, k)]
  BY <1>4, <1>5
<1> DEFINE read == CHOOSE f : f = [k \in 1 .. n |-> Step(f, k)]
<1>7. read = [k \in 1 .. n |-> Step(read, k)]
  BY <1>6
<1>8. Reads(rects, m, z) = [k \in 1 .. n |-> read[k].px]
  BY DEF Reads
<1> HIDE DEF read
<1> DEFINE T == {k \in Nat : \A j \in 1 .. k : read[j] = w[j]}
<1>9. 0 \in T
  OBVIOUS
<1>10. ASSUME NEW k \in 1 .. n, k - 1 \in T
       PROVE  k \in T
  <2>1. k \in Nat /\ \A j \in 1 .. k : j \in 1 .. k - 1 \/ j = k
    OBVIOUS
  <2>2. \A j \in 1 .. k - 1 : read[j] = w[j]
    BY <1>10
  <2>3. read[k] = Step(read, k)
    BY <1>7
  <2>4. Step(read, k) = Step(w, k)
    <3>1. CASE k = 1
      BY <3>1
    <3>2. CASE k # 1
      <4>1. k - 1 \in 1 .. k - 1
        BY <3>2
      <4>2. read[k - 1] = w[k - 1]
        BY <2>2, <4>1
      <4> QED
        BY <4>2
    <3> QED
      BY <3>1, <3>2
  <2>5. read[k] = w[k]
    <3> HIDE DEF Step
    <3> QED
      BY <1>5, <2>3, <2>4
  <2> QED
    BY <2>1, <2>2, <2>5, Zenon
<1>11. \A k \in 0 .. n : k \in T
  <2> HIDE DEF T
  <2> QED
    BY <1>9, <1>10, Climb
<1>12. \A k \in 1 .. n : read[k] = w[k]
  <2>1. n \in T
    <3> HIDE DEF T
    <3>1. n \in 0 .. n
      OBVIOUS
    <3> QED
      BY <1>11, <3>1
  <2> QED
    BY <2>1
<1>13. \A k \in 1 .. n : w[k].px = {rects[k].px}
  BY <1>2
<1> QED
  BY <1>8, <1>12, <1>13

----------------------------------------------------------------------------
(* The rectangles of the jobs.                                             *)

LEMMA TightsArrive ==
  ASSUME IInv
  PROVE  TightArrives /\ (job.kind = "tight" => TypeOK)
<1> SUFFICES ASSUME job.kind = "tight" PROVE TightArrives /\ TypeOK
  BY DEF TightArrives
<1> DEFINE rects == job.of
           n == Len(rects)
           z == Fresh
           m == Writes(rects, z)
<1>1. rects \in Seq(TightRects)
  BY JobIs, CodecsAssumption DEF IInv
<1>2. /\ coded # Nothing => coded = m
      /\ seen # Nothing => seen = Reads(rects, m, z)
  BY DEF IInv, TightInv, Half
<1>3. z \in [Streams -> Nat]
  BY DEF Fresh
<1> HIDE DEF rects, z
<1>4. /\ n \in Nat /\ m = [k \in 1 .. n |-> m[k]]
      /\ \A k \in 1 .. n : Sound(rects[k], m[k], Came(m, k, z))
  <2> DEFINE len == n
  <2>1. len = Len(rects)
    OBVIOUS
  <2> HIDE DEF len
  <2>2. /\ len \in Nat /\ Writes(rects, z) = [k \in 1 .. len |-> Writes(rects, z)[k]]
        /\ \A k \in 1 .. len : Sound(rects[k], Writes(rects, z)[k], Came(Writes(rects, z), k, z))
    BY <1>1, <1>3, <2>1, MessagesAre
  <2> QED
    BY <2>2 DEF len
<1> HIDE DEF m
<1>5. Reads(rects, m, z) = [k \in 1 .. n |-> {rects[k].px}]
  <2> DEFINE len == n
  <2>1. len = Len(rects) /\ len \in Nat /\ \A k \in 1 .. len : Sound(rects[k], m[k], Came(m, k, z))
    BY <1>4
  <2> HIDE DEF len
  <2>2. Reads(rects, m, z) = [k \in 1 .. len |-> {rects[k].px}]
    BY <2>1, ReadsAre
  <2> QED
    BY <2>2 DEF len
<1> HIDE DEF n
<1>6. seen # Nothing => \A k \in DOMAIN seen : seen[k] = {rects[k].px}
  <2> SUFFICES ASSUME seen = [k \in 1 .. n |-> {rects[k].px}]
               PROVE  \A k \in DOMAIN seen : seen[k] = {rects[k].px}
    BY <1>2, <1>5
  <2> QED
    OBVIOUS
<1>7. TightArrives
  BY <1>6 DEF TightArrives, rects
<1>8. DOMAIN m = 1 .. n
  BY <1>4
<1>9. \A i \in DOMAIN m : \A k \in DOMAIN m[i].bytes : m[i].bytes[k] \in 0 .. 255
  <2> SUFFICES ASSUME NEW i \in 1 .. n, NEW k \in DOMAIN m[i].bytes PROVE m[i].bytes[k] \in Byte
    BY <1>8 DEF Byte
  <2> DEFINE b == m[i].bytes
  <2>1. b \in Seq(Byte)
    BY <1>4 DEF Sound
  <2> HIDE DEF b
  <2>2. \A c \in DOMAIN b : b[c] \in Byte
    BY <2>1, LenProperties, ElementOfSeq
  <2> QED
    BY <2>2 DEF b
<1>10. coded # Nothing => \A i \in DOMAIN coded : \A k \in DOMAIN coded[i].bytes : coded[i].bytes[k] \in 0 .. 255
  BY <1>2, <1>9
<1>11. TypeOK
  BY <1>10 DEF TypeOK
<1> QED
  BY <1>7, <1>11

(* Whatever the job.                                                       *)
LEMMA JobsArrive ==
  ASSUME IInv
  PROVE  Arrives
<1>1. job.kind \in {"tile", "frame", "scroll", "tight", "shape", "wheel"}
  BY DEF IInv, Jobs
<1>2. TypeOK
  <2>1. /\ job.kind = "tile" => TypeOK
        /\ job.kind \in {"frame", "scroll"} => TypeOK
        /\ job.kind = "tight" => TypeOK
        /\ job.kind = "shape" => TypeOK
        /\ job.kind = "wheel" => TypeOK
    BY TilesArrive, PicturesArrive, TightsArrive, ShapesShow, WheelsAdd
  <2> QED
    BY <1>1, <2>1
<1> QED
  BY <1>2, TilesArrive, PicturesArrive, TightsArrive, WheelsAdd DEF Arrives

----------------------------------------------------------------------------
(* What holds of every job.                                                *)

(* Whatever the tile, its form and the client's pixel format, the client   *)
(* gets the colours back and has read every byte when it has               *)
(* (server.rs:1200-1346, rfb.rs:1465-1549).                                *)
THEOREM TilesComeBack == Spec => []TileArrives
<1>1. IInv => TileArrives
  BY TilesArrive
<1> QED
  BY <1>1, Halves, PTL

(* The update made of two pictures turns the client's into the server's,   *)
(* whatever the pictures and their sizes, raw or in tiles, with CopyRect   *)
(* or without (server.rs:2417-2458, rfb.rs:1197-1223).                     *)
THEOREM PicturesComeBack == Spec => []PictureArrives
<1>1. IInv => PictureArrives
  BY PicturesArrive
<1> QED
  BY <1>1, Halves, PTL

(* What is copied is right where it lands, whatever rows hash alike        *)
(* (server.rs:1068-1070).                                                  *)
THEOREM CopiesAreRight == Spec => []CopyIsRight
<1>1. IInv => CopyIsRight
  BY PicturesArrive
<1> QED
  BY <1>1, Halves, PTL

(* A window that scrolled, however far and whatever is new in it, is sent  *)
(* as a copy of all the rows that are still there: the search looks up the *)
(* first and the last row that changed, one of which has moved             *)
(* (server.rs:1061-1144).                                                  *)
THEOREM ScrollsAreFound == Spec => []ScrollFound
<1>1. IInv => ScrollFound
  BY ScrollsArrive
<1> QED
  BY <1>1, Halves, PTL

(* Rectangles from other servers are drawn as they were meant, whatever    *)
(* their pixels and sizes, in every form that suits them and on any of the *)
(* streams, whichever the server restarted when (rfb.rs:1228-1395,         *)
(* 2114-2117).                                                             *)
THEOREM RectanglesComeBack == Spec => []TightArrives
<1>1. IInv => TightArrives
  BY TightsArrive
<1> QED
  BY <1>1, Halves, PTL

(* What one end makes of the bytes of the other is what was meant by them, *)
(* and all that is written as a byte is one: tiles, pictures, rectangles   *)
(* and the wheel (server.rs:1200-1346, rfb.rs:1228-1549, client.rs:436).   *)
THEOREM EverythingArrives == Spec => []Arrives
<1>1. IInv => Arrives
  BY JobsArrive
<1> QED
  BY <1>1, Halves, PTL

(* The form that is chosen for a tile is the shortest it can have: the     *)
(* costs that the choice goes by are what the forms take on the wire       *)
(* (server.rs:1223-1340).                                                  *)
THEOREM ShortestForm == Spec => []Thrift
<1>1. IInv => Thrift
  BY TilesArrive
<1> QED
  BY <1>1, Halves, PTL

(* The client draws the pixels of the pointer that Windows would draw, at  *)
(* their places, and taking it off leaves the picture as it was, for       *)
(* cursors and screens of any size (rfb.rs:949-988).                       *)
THEOREM PointerShown == Spec => []ShapeShown
<1>1. IInv => ShapeShown
  BY ShapesShow
<1> QED
  BY <1>1, Halves, PTL

(* However the turning of a wheel is cut into events, and however large a  *)
(* notch, the server's notches and what is carried add up to it            *)
(* (client.rs:436-442).                                                    *)
THEOREM NothingTurnedIsLost == Spec => []WheelAdds
<1>1. IInv => WheelAdds
  BY WheelsAdd
<1> QED
  BY <1>1, Halves, PTL
=============================================================================
