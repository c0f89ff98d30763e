------------------------------- MODULE Scroll -------------------------------
(***************************************************************************)
(* How the server finds out what changed between two pictures when the     *)
(* capture cannot say: find_scroll, dominant_cols, changed_rects and the   *)
(* part of send_frames that puts them together.                            *)
(*                                                                         *)
(* A picture of w by h is a function of its rows, from 0, and a row one of *)
(* its pixels. key says what the hash of a row tells apart: colours with   *)
(* the same key hash alike, as unlucky rows do.                            *)
(***************************************************************************)
EXTENDS Integers, Sequences, FiniteSets, FiniteSetsExt, SequencesExt

CONSTANTS
  Tile,         (* TILE, the side of a tile: 64                            *)
  MinScroll,    (* MIN_SCROLL, the rows a scroll must move: 64             *)
  Probes,       (* PROBES, the rows that are looked up: 8                  *)
  Tries         (* how many equal rows are tried for each of them: 8       *)

ASSUME ScrollAssumption ==
  /\ Tile \in Nat \ {0} /\ MinScroll \in Nat \ {0}
  /\ Probes \in Nat \ {0, 1} /\ Tries \in Nat \ {0}

RowHash(row, cols, key) == [x \in cols[1] .. cols[2] - 1 |-> key[row[x]]]

RowsMatch_hash(prev, cur, cols, sy, dy, n) == TRUE

RowsMatch(prev, cur, cols, sy, dy, n) ==
  \A i \in 0 .. n - 1, x \in cols[1] .. cols[2] - 1 :
    prev[sy + i][x] = cur[dy + i][x]

(* The rows around probe that all moved as far as the one from src did.    *)
Grown(ph, ch, probe, src, h) ==
  LET shift == probe - src
      agrees(y) == y - shift \in 0 .. h - 1 /\ ch[y] = ph[y - shift]
      a == Min({y \in 0..probe : \A z \in y .. probe - 1 : agrees(z)})
      b == Max({y \in probe .. h - 1 : \A z \in probe + 1 .. y : agrees(z)})
  IN  [dst |-> a, src |-> a - shift, n |-> b - a + 1]

(* The candidates of a probe row: where the rows equal to it were.         *)
Sources(ph, ch, probe, h) ==
  LET equal == {src \in 0 .. h - 1 : ph[src] = ch[probe]}
  IN  {src \in equal : Cardinality({s \in equal : s < src}) < Tries} \ {probe}

Probe(first, last, k) == first + ((last - first) * k) \div (Probes - 1)

(* At most one band of rows that moved: [dst, src, n].                     *)
FindScroll(prev, cur, w, h, cols, key) ==
  LET ph == [y \in 0 .. h - 1 |-> RowHash(prev[y], cols, key)]
      ch == [y \in 0 .. h - 1 |-> RowHash(cur[y], cols, key)]
      differ == {y \in 0 .. h - 1 : ph[y] # ch[y]}
      first  == Min(differ)
      last   == Max(differ)
      tries  == UNION {{<<k, src>> :
                          src \in Sources(ph, ch, Probe(first, last, k), h)} :
                       k \in 0 .. Probes - 1}
      found  == [t \in tries |-> Grown(ph, ch, Probe(first, last, t[1]), t[2], h)]
      long   == {t \in tries : found[t].n >= MinScroll}
      before(t, u) == t[1] < u[1] \/ (t[1] = u[1] /\ t[2] < u[2])
      best   == {t \in long : \A u \in long \ {t} :
                   \/ found[t].n > found[u].n
                   \/ found[t].n = found[u].n /\ before(t, u)}
  IN  IF \/ h < MinScroll \/ cols[2] <= cols[1] \/ differ = {}
         \/ last - first + 1 < MinScroll
      THEN {}
      ELSE {b \in {found[t] : t \in best} :
              RowsMatch(prev, cur, cols, b.src, b.dst, b.n)}

(* The changed tiles, side by side ones as one rectangle.                  *)
ChangedRects(prev, cur, w, h) ==
  LET across == (w + Tile - 1) \div Tile
      down   == (h + Tile - 1) \div Tile
      right(c) == Min({w, c * Tile})
      bottom(r) == Min({h, r * Tile})
      changed(r, c) ==
        /\ c \in 1..across
        /\ \E y \in (r - 1) * Tile .. bottom(r) - 1 :
             \E x \in (c - 1) * Tile .. right(c) - 1 : prev[y][x] # cur[y][x]
      start(r, c) == changed(r, c) /\ ~changed(r, c - 1)
      end(r, c) == right(Min({d \in c..across : ~changed(r, d + 1)}))
      rect(r, c) == [x |-> (c - 1) * Tile, y |-> (r - 1) * Tile,
                     w |-> end(r, c) - (c - 1) * Tile,
                     h |-> bottom(r) - (r - 1) * Tile]
      row(r) == FlattenSeq([c \in 1..across |-> IF start(r, c) THEN <<rect(r, c)>> ELSE <<>>])
  IN  FlattenSeq([r \in 1..down |-> row(r)])

(* The range of columns with the largest changed area; of ranges with the  *)
(* same, the one that turned up last.                                      *)
DominantCols(rects) ==
  LET cols(i)  == <<rects[i].x, rects[i].x + rects[i].w>>
      same(i)  == {j \in DOMAIN rects : cols(j) = cols(i)}
      area(i)  == SumFunction([j \in same(i) |-> rects[j].w * rects[j].h])
      groups   == {i \in DOMAIN rects : i = Min(same(i))}
      largest  == {i \in groups : \A j \in groups : area(i) >= area(j)}
  IN  IF rects = <<>> THEN <<0, 0>> ELSE cols(Max(largest))

(* prev once the band has moved: through a scratch buffer.                 *)
Shifted(px, w, h, p) ==
  [y \in 0 .. h - 1 |-> [x \in 0 .. w - 1 |->
     IF x \in p.x .. p.x + p.w - 1 /\ y \in p.y .. p.y + p.h - 1
     THEN px[y - p.y + p.sy][x - p.x + p.sx] ELSE px[y][x]]]

(* A copy comes before the pixels that put right what it left over.        *)
Ordered(copies, rects) == SetToSeq(copies) \o rects

(* The parts of an update that turns prev into cur.                        *)
Diff(prev, cur, w, h, copyrect, key) ==
  LET rects  == ChangedRects(prev, cur, w, h)
      top    == Min({rects[i].y : i \in DOMAIN rects})
      bottom == Max({rects[i].y + rects[i].h : i \in DOMAIN rects})
      cols   == DominantCols(rects)
      scroll == IF rects # <<>> /\ copyrect /\ bottom - top >= MinScroll
                THEN FindScroll(prev, cur, w, h, cols, key) ELSE {}
      copy(b) == [kind |-> "copy", x |-> cols[1], y |-> b.dst,
                  w |-> cols[2] - cols[1], h |-> b.n, sx |-> cols[1], sy |-> b.src]
      copies == {copy(b) : b \in scroll}
      base   == IF copies = {} THEN prev
                ELSE Shifted(prev, w, h, CHOOSE c \in copies : TRUE)
      left   == ChangedRects(base, cur, w, h)
  IN  Ordered(copies, [i \in 1..Len(left) |->
               [kind |-> "pixels", x |-> left[i].x, y |-> left[i].y,
                w |-> left[i].w, h |-> left[i].h, sx |-> 0, sy |-> 0]])
=============================================================================
