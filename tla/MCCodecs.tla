----------------------------- MODULE MCCodecs -----------------------------
EXTENDS Codecs

A == <<10, 20, 30>>
B == <<200, 100, 50>>
C == <<0, 255, 128>>

----------------------------------------------------------------------------
(* Tiles: all small ones of three colours; long runs, many colours and     *)
(* narrow columns, at and around the limits of the forms.                  *)
Formats == {Default, [big |-> TRUE, shift |-> <<16, 8, 0>>],
            [big |-> FALSE, shift |-> <<0, 8, 16>>], [big |-> TRUE, shift |-> <<0, 16, 8>>],
            [big |-> FALSE, shift |-> <<24, 16, 8>>], [big |-> TRUE, shift |-> <<8, 0, 24>>]}

Small(f, w, h) == [f : {f}, w : {w}, h : {h}, px : [1 .. w * h -> {A, B, C}]]

Job(w, h, colour(_)) == [f |-> Default, w |-> w, h |-> h,
                         px |-> [k \in 1 .. w * h |-> colour(k)]]
Hue(i) == <<i, 7, 255 - i>>

LongRuns == {Job(64, 9, LAMBDA k : IF k <= n THEN A ELSE B) :
               n \in {1, 2, 255, 256, 257, 510, 511, 512, 576}}
Mixed    == {Job(w, h, LAMBDA k : Hue(k % n)) : w \in {1, 5, 8, 9}, h \in {9, 12},
               n \in {2, 3, 4, 5, 16, 17}}
Stripes  == {Job(14, 10, LAMBDA k : Hue(Min({n, 1 + (k - 1) \div r}))) :
               n \in {16, 17, 126, 127, 128, 140}, r \in {1, 2, 8}}
Columns  == {Job(1, h, LAMBDA k : IF (k \div r) % 2 = 0 THEN A ELSE B) :
               h \in {10, 64}, r \in {1, 2, 3, 5}}

MCTileJobs == UNION {Small(Default, w, h) : w \in 1..3, h \in 1..2}
                \cup UNION {Small(f, 2, 2) : f \in Formats}
                \cup LongRuns \cup Mixed \cup Stripes \cup Columns

----------------------------------------------------------------------------
(* Pictures: columns of rows, with and without a hash that confuses two    *)
(* colours, and pictures of several tiles.                                 *)
Sharp == [c \in {A, B, C} |-> c]
Blunt == [Sharp EXCEPT ![B] = A]

Picture(w, h, colours) == [0 .. h - 1 -> [0 .. w - 1 -> colours]]

Thin(h, key) ==
  {[w |-> 1, h |-> h, prev |-> p, cur |-> c, key |-> key, copyrect |-> TRUE, zrle |-> TRUE] :
     p \in Picture(1, h, {A, B, C}), c \in Picture(1, h, {A, B, C})}

Plain(w, h, c) == [y \in 0 .. h - 1 |-> [x \in 0 .. w - 1 |-> c]]
Slope(w, h) == [y \in 0 .. h - 1 |-> [x \in 0 .. w - 1 |-> IF x < y THEN A ELSE B]]

Wide(w, h, zrle) ==
  {[w |-> w, h |-> h, prev |-> p, cur |-> c, key |-> Sharp, copyrect |-> zrle, zrle |-> zrle] :
     p \in {Plain(w, h, A), Slope(w, h)}, c \in Picture(w, h, {A, B})}

MCFrameJobs == Thin(4, Sharp) \cup Thin(4, Blunt)
                 \cup Wide(3, 3, TRUE) \cup Wide(3, 3, FALSE) \cup Wide(5, 2, TRUE)

(* A window of the columns a to b, rows top to bottom, that scrolls by d.  *)
Row(y) == <<y, y, y>>
Before(w, h) == [y \in 0 .. h - 1 |-> [x \in 0 .. w - 1 |-> Row(y)]]
After(w, h, a, b, top, bottom, d) ==
  [y \in 0 .. h - 1 |-> [x \in 0 .. w - 1 |->
     IF x \in a .. b - 1 /\ y \in top..bottom
     THEN IF y - d \in top..bottom THEN Row(y - d) ELSE Row(100 + y) ELSE Row(y)]]
Everything == [c \in {Row(y) : y \in 0..120} |-> c]

MCScrollJobs ==
  LET w == 5
      h == 8
      frame(a, b, top, bottom, d) ==
        [w |-> w, h |-> h, prev |-> Before(w, h), cur |-> After(w, h, a, b, top, bottom, d),
         key |-> Everything, copyrect |-> TRUE, zrle |-> TRUE, a |-> a, b |-> b,
         dst |-> IF d > 0 THEN top + d ELSE top, src |-> IF d > 0 THEN top ELSE top - d,
         n |-> bottom - top + 1 - Abs(d)]
      windows == {<<a, b, top, bottom, d>> \in {0, 2, 4} \X {2, 4, 5} \X (0..7) \X (0..7) \X (-6..6) :
                    a < b /\ d # 0 /\ bottom - top + 1 - Abs(d) >= MinScroll}
  IN  {frame(v[1], v[2], v[3], v[4], v[5]) : v \in windows}

----------------------------------------------------------------------------
(* Two rectangles after each other, in every form, on streams that the     *)
(* server restarts between them, or does not.                              *)
TightRect(form, px, w, h, stream, restarts, len) ==
  [form |-> form, px |-> px, w |-> w, h |-> h, stream |-> stream,
   restarts |-> restarts, len |-> len, grey |-> FALSE]

Slanted(n) == [k \in 1..n |-> <<(37 * k) % 256, (251 * k) % 256, 255 - 20 * k>>]
Two(n) == [k \in 1..n |-> IF k % 3 = 0 THEN A ELSE B]
Three(n) == [k \in 1..n |-> Hue(k % 3)]

Forms(stream, restarts, len) ==
  {TightRect("copy", Slanted(8), 4, 2, stream, restarts, len),
   TightRect("copy", Slanted(3), 3, 1, stream, restarts, len),
   TightRect("gradient", Slanted(9), 3, 3, stream, restarts, len),
   TightRect("palette", Two(18), 9, 2, stream, restarts, len),
   TightRect("palette", Two(63), 9, 7, stream, restarts, len),
   TightRect("palette", Three(12), 4, 3, stream, restarts, len),
   TightRect("palette", [k \in 1..12 |-> A], 4, 3, stream, restarts, len),
   TightRect("fill", [k \in 1..4 |-> C], 2, 2, stream, restarts, len),
   TightRect("jpeg", Slanted(6), 3, 2, stream, restarts, len),
   [TightRect("jpeg", [k \in 1..6 |-> <<k, k, k>>], 3, 2, stream, restarts, len)
      EXCEPT !.grey = TRUE]}

MCTightJobs ==
  LET first  == UNION {Forms(s, {}, 20) : s \in {0, 3}}
      second == UNION {Forms(s, r, len) : s \in {0, 3}, r \in {{}, {0}, {0, 3}},
                                          len \in {127, 128, 16383, 16384}}
      third  == {TightRect("copy", Slanted(8), 4, 2, s, {}, 1048576) : s \in {0, 3}}
  IN  {<<a, b, c>> : a \in first, b \in second, c \in third}

----------------------------------------------------------------------------
(* Cursors of one and two bytes to a row, half off every edge of a screen. *)
Bitmap(w, h, mono, alpha, and) ==
  [w |-> w, h |-> h, mono |-> mono, alpha |-> alpha, and |-> and,
   px |-> [k \in 1 .. w * h |-> IF mono THEN (IF k % 2 = 0 THEN White ELSE Black)
                                ELSE <<k, 0, k>>]]

Even(w, h, a, b) == [k \in 1 .. w * h |-> IF k % 2 = 0 THEN a ELSE b]

MCShapeJobs ==
  LET sizes == {<<2, 2>>, <<8, 2>>, <<9, 2>>}
      hidden == Bitmap(0, 0, FALSE, <<>>, <<>>)
      bitmaps(w, h) ==
        {Bitmap(w, h, TRUE, Even(w, h, 0, 0), Even(w, h, TRUE, FALSE)),
         Bitmap(w, h, FALSE, Even(w, h, 0, 0), Even(w, h, FALSE, TRUE)),
         Bitmap(w, h, FALSE, Even(w, h, 255, 127), Even(w, h, TRUE, TRUE)),
         Bitmap(w, h, FALSE, Even(w, h, 128, 255), Even(w, h, TRUE, TRUE))}
  IN  [bm : {hidden} \cup UNION {bitmaps(z[1], z[2]) : z \in sizes},
       at : {<<-1, -1>>, <<0, 0>>, <<2, 1>>, <<-7, 0>>}, w : {3}, h : {2}]

----------------------------------------------------------------------------
Deltas == {-30, -12, -5, -1, 1, 7, 12, 25}
MCWheelJobs == [deltas : [1..3 -> Deltas], mask : {0, 1, 6}]
=============================================================================
