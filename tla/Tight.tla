------------------------------- MODULE Tight -------------------------------
(***************************************************************************)
(* A rectangle in Tight, which other servers send and this client reads    *)
(* (Decoder::tight). The encoder is external; what it may send is taken    *)
(* from the encoder in the tests of rfb.rs.                                *)
(*                                                                         *)
(* A message is its bytes and, behind them, at most one opaque block:      *)
(* compressed data, or a JPEG image. Compressed data can be read back only *)
(* by a zlib stream that has read what was written to the stream before    *)
(* it, so a stream is the number of blocks since it was restarted.         *)
(***************************************************************************)
EXTENDS Integers, Sequences, FiniteSets, FiniteSetsExt, SequencesExt

Streams == 0..3
Fresh == [s \in Streams |-> 0]
NoBlock == [len |-> 0, at |-> 0, w |-> 0, h |-> 0, data |-> <<>>]

Bytes(px) == FlattenSeq(px)
DivUp(a, b) == (a + b - 1) \div b

(* What a component is predicted to be from its neighbours.                *)
Guess(left, up, upleft) == Max({0, Min({255, left + up - upleft})})

----------------------------------------------------------------------------
(* The server: rect is what it draws and how it means to send it.          *)

Compact(n) ==
  IF n < 128 THEN <<n>>
  ELSE IF n < 16384 THEN <<(n % 128) + 128, n \div 128>>
  ELSE <<(n % 128) + 128, ((n \div 128) % 128) + 128, n \div 16384>>

(* The colours of a rectangle, in the order they turn up.                  *)
Pal(px) ==
  LET seen[i \in 0..Len(px)] ==
        IF i = 0 THEN <<>>
        ELSE LET pal == seen[i - 1]
             IN  IF px[i] \in Range(pal) THEN pal ELSE Append(pal, px[i])
  IN  seen[Len(px)]

(* What it may send: the form suits the pixels, and a block's length is    *)
(* one that three bytes of it can say.                                     *)
TightRects ==
  {r \in [form : {"copy", "gradient", "palette", "fill", "jpeg"}, px : Seq([1..3 -> 0..255]),
          w : Nat \ {0}, h : Nat \ {0}, stream : Streams, restarts : SUBSET Streams,
          len : 0 .. 128 * 128 * 256 - 1, grey : BOOLEAN] :
     /\ Len(r.px) = r.w * r.h
     /\ r.form = "palette" => Len(Pal(r.px)) <= 256
     /\ r.form = "fill" => \A k \in DOMAIN r.px : r.px[k] = r.px[1]
     /\ r.form = "jpeg" /\ r.grey =>
          \A k \in DOMAIN r.px : \A c \in 1..3 : r.px[k][c] = r.px[k][1]}

Differences(px, w) ==
  [k \in 1 .. 3 * Len(px) |->
     LET i == (k - 1) \div 3
         c == ((k - 1) % 3) + 1
         left   == IF i % w > 0 THEN px[i][c] ELSE 0
         up     == IF i >= w THEN px[i + 1 - w][c] ELSE 0
         upleft == IF i % w > 0 /\ i >= w THEN px[i - w][c] ELSE 0
     IN  (px[i + 1][c] - Guess(left, up, upleft) + 256) % 256]

Payload(rect) ==
  LET pal == Pal(rect.px)
      index(i) == (CHOOSE k \in DOMAIN pal : pal[k] = rect.px[i]) - 1
      set(row, col) == col < rect.w /\ index(row * rect.w + col + 1) = 1
      stride == DivUp(rect.w, 8)
  IN  CASE rect.form = "copy"     -> Bytes(rect.px)
        [] rect.form = "gradient" -> Differences(rect.px, rect.w)
        [] rect.form = "palette" /\ Len(pal) # 2 ->
             [i \in 1..Len(rect.px) |-> index(i)]
        [] rect.form = "palette" /\ Len(pal) = 2 ->
             [k \in 1 .. stride * rect.h |->
                SumFunction([c \in 0..7 |->
                  IF set((k - 1) \div stride, 8 * ((k - 1) % stride) + c)
                  THEN 2^(7 - c) ELSE 0])]

(* The control byte: streams restarted below, what follows above.          *)
Control(rect, above) ==
  SumFunction([s \in Streams |-> IF s \in rect.restarts THEN 2^s ELSE 0]) + 16 * above

TightWrite(rect, z) ==
  LET pal  == Pal(rect.px)
      data == Payload(rect)
      head == CASE rect.form = "copy"     -> <<Control(rect, rect.stream)>>
                [] rect.form = "gradient" -> <<Control(rect, rect.stream + 4), 2>>
                [] rect.form = "palette"  ->
                     <<Control(rect, rect.stream + 4), 1, Len(pal) - 1>> \o Bytes(pal)
      before == [s \in Streams |-> IF s \in rect.restarts THEN 0 ELSE z[s]]
  IN  CASE rect.form = "fill" ->
             [bytes |-> <<Control(rect, 8)>> \o rect.px[1], block |-> NoBlock,
              z |-> before]
        [] rect.form = "jpeg" ->
             [bytes |-> <<Control(rect, 9)>> \o Compact(rect.len),
              block |-> [len |-> rect.len, at |-> 0, w |-> rect.w, h |-> rect.h,
                         data |-> IF rect.grey THEN [i \in 1..Len(rect.px) |-> rect.px[i][1]]
                                  ELSE Bytes(rect.px)],
              z |-> before]
        [] OTHER ->
             IF Len(data) < 12
             THEN [bytes |-> head \o data, block |-> NoBlock, z |-> before]
             ELSE [bytes |-> head \o Compact(rect.len),
                   block |-> [len |-> rect.len, at |-> before[rect.stream],
                              w |-> 0, h |-> 0, data |-> data],
                   z     |-> [before EXCEPT ![rect.stream] = @ + 1]]

----------------------------------------------------------------------------
(* The client. No rectangle is drawn when the message makes no sense.      *)

CompactLen(b, i) ==
  IF b[i] < 128 THEN [len |-> b[i], next |-> i + 1]
  ELSE IF b[i + 1] < 128
  THEN [len |-> (b[i] % 128) + 128 * b[i + 1], next |-> i + 2]
  ELSE [len  |-> (b[i] % 128) + 128 * (b[i + 1] % 128) + 16384 * b[i + 2],
        next |-> i + 3]

Tpixels(b, i, n) == [k \in 1..n |-> SubSeq(b, i + 3 * (k - 1), i + 3 * k - 1)]

Restarted(ctl, z) == [s \in Streams |-> IF (ctl \div 2^s) % 2 = 1 THEN 0 ELSE z[s]]

Gradient(data, w, h) ==
  LET value[k \in 1 .. 3 * w * h] ==
        LET i == (k - 1) \div 3
            left   == IF i % w > 0 THEN value[k - 3] ELSE 0
            up     == IF i >= w THEN value[k - 3 * w] ELSE 0
            upleft == IF i % w > 0 /\ i >= w THEN value[k - 3 * w - 3] ELSE 0
        IN  (data[k] + Guess(left, up, upleft)) % 256
  IN  Tpixels([k \in 1 .. 3 * w * h |-> value[k]], 1, w * h)

(* The pixels that data stands for: {} when an index is past the palette.  *)
TightPixels(filter, pal, data, w, h) ==
  LET stride == DivUp(w, 8)
      bit(k) == (data[(k \div w) * stride + ((k % w) \div 8) + 1]
                   \div 2^(7 - ((k % w) % 8))) % 2
  IN  CASE filter = 1 /\ Len(pal) = 2 -> {[k \in 1 .. w * h |-> pal[bit(k - 1) + 1]]}
        [] filter = 1 /\ Len(pal) # 2 ->
             IF \E k \in 1 .. w * h : data[k] >= Len(pal) THEN {}
             ELSE {[k \in 1 .. w * h |-> pal[data[k] + 1]]}
        [] filter = 2 -> {Gradient(data, w, h)}
        [] filter = 0 -> {Tpixels(data, 1, w * h)}
        [] OTHER -> {}

TightBasic(m, i, filter, stream, z, w, h) ==
  LET n      == IF filter = 1 THEN m.bytes[i] + 1 ELSE 0
      pal    == Tpixels(m.bytes, i + 1, n)
      body   == IF filter = 1 THEN i + 1 + 3 * n ELSE i
      expect == IF n = 2 THEN DivUp(w, 8) * h ELSE IF n > 0 THEN w * h ELSE 3 * w * h
      c      == CompactLen(m.bytes, body)
      data   == IF expect < 12 THEN SubSeq(m.bytes, body, Len(m.bytes)) ELSE m.block.data
      good   == IF expect < 12 THEN Len(data) = expect
                ELSE /\ c.next = Len(m.bytes) + 1 /\ c.len = m.block.len
                     /\ z[stream] = m.block.at /\ Len(data) >= expect
  IN  [px |-> IF good THEN TightPixels(filter, pal, data, w, h) ELSE {},
       z  |-> IF expect < 12 THEN z ELSE [z EXCEPT ![stream] = @ + 1]]

TightJpeg(m, z, w, h) ==
  LET c    == CompactLen(m.bytes, 2)
      data == m.block.data
      grey == Len(data) = w * h
  IN  [px |-> IF c.len # m.block.len \/ m.block.w # w \/ m.block.h # h THEN {}
              ELSE IF grey
              THEN {[k \in 1 .. w * h |-> <<data[k], data[k], data[k]>>]}
              ELSE {Tpixels(data, 1, w * h)},
       z  |-> z]

TightRead(m, z, w, h) ==
  LET ctl    == m.bytes[1]
      above  == ctl \div 16
      ready  == Restarted(ctl, z)
  IN  CASE above = 8 -> [px |-> {[k \in 1 .. w * h |-> Tpixels(m.bytes, 2, 1)[1]]},
                         z |-> ready]
        [] above = 9 -> TightJpeg(m, ready, w, h)
        [] above >= 10 -> [px |-> {}, z |-> ready]
        [] OTHER ->
             IF (above \div 4) % 2 = 1
             THEN TightBasic(m, 3, m.bytes[2], above % 4, ready, w, h)
             ELSE TightBasic(m, 2, 0, above % 4, ready, w, h)
=============================================================================
