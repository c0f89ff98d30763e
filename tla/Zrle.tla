-------------------------------- MODULE Zrle --------------------------------
(***************************************************************************)
(* A ZRLE tile, as the server writes it (encode_tile, with PixFmt for the  *)
(* pixels) and as the client reads it (zrle_tile).                         *)
(*                                                                         *)
(* A colour is <<red, green, blue>>, bytes; a tile of w by h is the        *)
(* sequence of its colours in the order the pixels go out. The limits are  *)
(* those of the code: 255 to an instalment of a run length, 127 colours to *)
(* a palette, 16 to a packed one.                                          *)
(***************************************************************************)
EXTENDS Integers, Sequences, FiniteSets, FiniteSetsExt, SequencesExt

----------------------------------------------------------------------------
(* Pixel formats. shift is where red, green and blue go in a pixel of 32   *)
(* bits: multiples of eight, no two alike.                                 *)

Byte == 0..255
Rgb == [1..3 -> Byte]
PixFmts == [big : BOOLEAN,
            shift : {s \in [1..3 -> {0, 8, 16, 24}] : \A i, j \in 1..3 : s[i] = s[j] => i = j}]

Default == [big |-> FALSE, shift |-> <<16, 8, 0>>]

Swapped(b) == [k \in 1..Len(b) |-> b[Len(b) + 1 - k]]

Pixel(f, c) ==
  LET byte(k) == {c[i] : i \in {i \in 1..3 : f.shift[i] = 8 * (k - 1)}}
      little  == [k \in 1..4 |-> IF byte(k) = {} THEN 0
                                 ELSE CHOOSE b \in byte(k) : TRUE]
  IN  IF f.big THEN Swapped(little) ELSE little

(* Whether the colour fits into the low three bytes; a client with another *)
(* format gets raw pixels.                                                 *)
HasCpixel(f) == \A i \in 1..3 : f.shift[i] <= 16

Cpixel(f, c) ==
  IF f.big THEN SubSeq(Pixel(f, c), 2, 4) ELSE SubSeq(Pixel(f, c), 1, 3)

(* What a client that asked for the format f takes three bytes for; the    *)
(* one of this repository asks for Default and reads blue, green, red.     *)
ReadCpixel(f, b) ==
  LET little == IF f.big THEN Swapped(b) ELSE b
  IN  [i \in 1..3 |-> little[(f.shift[i] \div 8) + 1]]

----------------------------------------------------------------------------
(* The encoder.                                                            *)

(* A tile is gone through row by row, each from left to right.             *)
Line(px, w, row) == SubSeq(px, (row - 1) * w + 1, row * w)

(* The colours in the order they turn up; none when they are too many.     *)
Noted(pal, c) == IF \E k \in DOMAIN pal : pal[k] = c THEN pal ELSE Append(pal, c)

NotedAlong(pal, s) ==
  LET seen[k \in 0..Len(s)] == IF k = 0 THEN pal ELSE Noted(seen[k - 1], s[k])
  IN  IF Len(pal) > 127 THEN pal ELSE seen[Len(s)]

Palette(px, w, h) ==
  LET seen[row \in 0..h] ==
        IF row = 0 THEN <<>> ELSE NotedAlong(seen[row - 1], Line(px, w, row))
      pal == seen[h]
  IN  IF Len(pal) > 127 THEN <<>> ELSE pal

(* The runs of one colour, which flow from one row into the next.          *)
Joined(runs, more) ==
  IF runs # <<>> /\ more # <<>> /\ runs[Len(runs)].colour = more[1].colour
  THEN [runs EXCEPT ![Len(runs)].len = @ + more[1].len] \o Tail(more)
  ELSE runs \o more

LineRuns(s) ==
  LET met[k \in 0..Len(s)] ==
        IF k = 0 THEN <<>> ELSE Joined(met[k - 1], <<[colour |-> s[k], len |-> 1]>>)
  IN  met[Len(s)]

Runs(px, w, h) ==
  LET met[row \in 0..h] ==
        IF row = 0 THEN <<>> ELSE Joined(met[row - 1], LineRuns(Line(px, w, row)))
  IN  met[h]

Bits(n) == IF n = 2 THEN 1 ELSE IF n \in 3..4 THEN 2 ELSE 4

RunBytes(len) == 1 + ((len - 1) \div 255)

WriteRun_255(len) ==
  LET full == IF len = 1 THEN 0 ELSE (len - 2) \div 255
  IN  [k \in 1..full |-> 255] \o <<len - 1 - 255 * full>>

WriteRun(len) ==
  [k \in 1 .. (len - 1) \div 255 |-> 255] \o <<(len - 1) % 255>>

DivCeil(a, b) == (a + b - 1) \div b
Never == 1000000             (* usize::MAX: the tile has no such form       *)

(* What each form would cost, less the byte that names it.                 *)
Cost_padsTile(px, w, h) ==
  LET n    == Len(Palette(px, w, h))
      runs == Runs(px, w, h)
      plain(len) == 3 + RunBytes(len)
      short(len) == IF len = 1 THEN 1 ELSE 1 + RunBytes(len)
  IN  [raw     |-> 3 * w * h,
       plain   |-> SumFunction([k \in DOMAIN runs |-> plain(runs[k].len)]),
       indexed |-> IF n \notin 2..127 THEN Never
                   ELSE 3 * n + SumFunction([k \in DOMAIN runs |-> short(runs[k].len)]),
       packed  |-> IF n \notin 2..16 THEN Never
                   ELSE 3 * n + DivCeil(h * w * Bits(n), 8)]

Cost(px, w, h) ==
  LET n    == Len(Palette(px, w, h))
      runs == Runs(px, w, h)
      plain(len) == 3 + RunBytes(len)
      short(len) == IF len = 1 THEN 1 ELSE 1 + RunBytes(len)
  IN  [raw     |-> 3 * w * h,
       plain   |-> SumFunction([k \in DOMAIN runs |-> plain(runs[k].len)]),
       indexed |-> IF n \notin 2..127 THEN Never
                   ELSE 3 * n + SumFunction([k \in DOMAIN runs |-> short(runs[k].len)]),
       packed  |-> IF n \notin 2..16 THEN Never
                   ELSE 3 * n + h * DivCeil(w * Bits(n), 8)]

Choice(px, w, h) ==
  LET cost == Cost(px, w, h)
      best == Min({cost.raw, cost.plain, cost.indexed, cost.packed})
  IN  IF Len(Palette(px, w, h)) = 1 THEN "solid"
      ELSE IF best = cost.packed THEN "packed"
      ELSE IF best = cost.indexed THEN "indexed"
      ELSE IF best = cost.plain THEN "plain"
      ELSE "raw"

Colours(f, cs) == [k \in 1 .. 3 * Len(cs) |-> Cpixel(f, cs[DivCeil(k, 3)])[((k - 1) % 3) + 1]]

(* The bytes of a tile in a given form.                                    *)
Written(form, f, px, w, h) ==
  LET pal      == Palette(px, w, h)
      runs     == Runs(px, w, h)
      index(c) == (CHOOSE k \in DOMAIN pal : pal[k] = c) - 1
      bits     == Bits(Len(pal))
      per      == 8 \div bits          (* indices to a byte, the first on top *)
      byte(row, k) ==
        SumFunction([c \in 0 .. per - 1 |->
          IF k * per + c >= w THEN 0
          ELSE index(px[row * w + k * per + c + 1]) * 2^(8 - bits - c * bits)])
      line(row) == [k \in 1 .. DivCeil(w, per) |-> byte(row, k - 1)]
      plain(r)  == Cpixel(f, r.colour) \o WriteRun(r.len)
      short(r)  == IF r.len = 1 THEN <<index(r.colour)>>
                   ELSE <<index(r.colour) + 128>> \o WriteRun(r.len)
  IN  CASE form = "solid"   -> <<1>> \o Cpixel(f, pal[1])
        [] form = "packed"  -> <<Len(pal)>> \o Colours(f, pal)
                                 \o FlattenSeq([row \in 1..h |-> line(row - 1)])
        [] form = "indexed" -> <<128 + Len(pal)>> \o Colours(f, pal)
                                 \o FlattenSeq([k \in DOMAIN runs |-> short(runs[k])])
        [] form = "plain"   -> <<128>>
                                 \o FlattenSeq([k \in DOMAIN runs |-> plain(runs[k])])
        [] form = "raw"     -> <<0>> \o Colours(f, px)

EncodeTile(f, px, w, h) == Written(Choice(px, w, h), f, px, w, h)

----------------------------------------------------------------------------
(* The decoder. Each part of it reads the bytes b from position i on and   *)
(* says where it stopped; what is refused ends the connection.             *)

Refused == [ok |-> FALSE, px |-> <<>>, next |-> 0]
Has(b, i, n) == i + n - 1 <= Len(b)

ReadColours(f, b, i, n) ==
  [k \in 1..n |-> ReadCpixel(f, SubSeq(b, i + 3 * (k - 1), i + 3 * k - 1))]

RunLen(b, i) ==
  LET ends == {j \in i..Len(b) : b[j] # 255}
      last == Min(ends)
  IN  IF ends = {} THEN [ok |-> FALSE, len |-> 0, next |-> 0]
      ELSE [ok |-> TRUE, len |-> 1 + 255 * (last - i) + b[last], next |-> last + 1]

(* A colour and its length: three bytes and a run when there is no         *)
(* palette, else an index whose high bit says whether a run follows.       *)
Span(f, b, i, pal) ==
  LET head == IF pal = <<>> THEN 3 ELSE 1
      run  == IF pal = <<>> \/ b[i] >= 128 THEN RunLen(b, i + head)
              ELSE [ok |-> TRUE, len |-> 1, next |-> i + 1]
      at   == (b[i] % 128) + 1
  IN  IF ~Has(b, i, head) \/ (pal # <<>> /\ at > Len(pal)) \/ ~run.ok
      THEN [ok |-> FALSE, colour |-> <<>>, len |-> 0, next |-> 0]
      ELSE [ok     |-> TRUE,
            colour |-> IF pal = <<>> THEN ReadColours(f, b, i, 1)[1] ELSE pal[at],
            len    |-> run.len,
            next   |-> run.next]

(* One span after the other, for as long as there are pixels to come.      *)
Spans(f, b, i, pal, need) ==
  LET full(r) == ~r.ok \/ Len(r.px) = need
      more(r) ==
        LET span == Span(f, b, r.next, pal)
        IN  IF ~Has(b, r.next, 1) \/ ~span.ok \/ span.len > need - Len(r.px) THEN Refused
            ELSE [ok |-> TRUE, px |-> r.px \o [k \in 1..span.len |-> span.colour],
                  next |-> span.next]
      read[n \in 0..need] ==
        IF n = 0 THEN [ok |-> TRUE, px |-> <<>>, next |-> i]
        ELSE LET r == read[n - 1] IN IF full(r) THEN r ELSE more(r)
  IN  read[CHOOSE n \in 0..need : full(read[n])]

Packed(b, i, pal, w, h) ==
  LET bits   == CASE Len(pal) = 2 -> 1 [] Len(pal) \in 3..4 -> 2 [] OTHER -> 4
      stride == DivCeil(w * bits, 8)
      index(k) ==                       (* of the pixel k, from 0          *)
        LET bit == (k % w) * bits
        IN  (b[i + (k \div w) * stride + (bit \div 8)]
               \div 2^(8 - bits - (bit % 8))) % 2^bits
  IN  IF ~Has(b, i, stride * h) \/ \E k \in 0 .. w * h - 1 : index(k) >= Len(pal)
      THEN Refused
      ELSE [ok   |-> TRUE,
            px   |-> [k \in 1 .. w * h |-> pal[index(k - 1) + 1]],
            next |-> i + stride * h]

ZrleTile(f, b, i, w, h) ==
  IF ~Has(b, i, 1) THEN Refused ELSE
  LET n    == b[i] % 128
      rle  == b[i] >= 128
      pal  == ReadColours(f, b, i + 1, n)
      body == i + 1 + 3 * n
  IN  IF ~Has(b, i + 1, 3 * n) THEN Refused ELSE
      CASE ~rle /\ n = 0 ->
             IF ~Has(b, body, 3 * w * h) THEN Refused
             ELSE [ok |-> TRUE, px |-> ReadColours(f, b, body, w * h),
                   next |-> body + 3 * w * h]
        [] ~rle /\ n = 1 ->
             [ok |-> TRUE, px |-> [k \in 1 .. w * h |-> pal[1]], next |-> body]
        [] ~rle /\ n \in 2..16 -> Packed(b, body, pal, w, h)
        [] rle /\ n # 1        -> Spans(f, b, body, pal, w * h)
        [] OTHER               -> Refused
=============================================================================
