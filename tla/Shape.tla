------------------------------- MODULE Shape -------------------------------
(***************************************************************************)
(* The pointer's picture: from the bitmaps of a Windows cursor             *)
(* (cursor_shape) over the wire (read_cursor) into the framebuffer that is *)
(* about to be shown, and out of it again (Cursor::draw, restore).         *)
(*                                                                         *)
(* A bitmap is [w, h, mono, px, alpha, and]: sequences in row order. mono  *)
(* has no colours of its own: px is then its XOR half. and is TRUE where   *)
(* the screen shows through.                                               *)
(***************************************************************************)
EXTENDS Integers, Sequences, FiniteSets, FiniteSetsExt, SequencesExt

Black == <<0, 0, 0>>
White == <<255, 255, 255>>

Stride(w) == (w + 7) \div 8

(* Which pixels of a bitmap are drawn. A colour cursor without any alpha   *)
(* means it to be ignored and has a mask instead.                          *)
Drawn(bm) ==
  LET opaque == \E i \in DOMAIN bm.alpha : bm.alpha[i] # 0
  IN  {i \in DOMAIN bm.px : IF bm.mono \/ ~opaque THEN ~bm.and[i]
                            ELSE bm.alpha[i] >= 128}

Mask_unpadded(bm) ==
  LET set(i) == i \in Drawn(bm)
  IN  [k \in 1 .. Stride(bm.w) * bm.h |->
         SumFunction([c \in 0..7 |-> IF set(8 * (k - 1) + c + 1) THEN 2^(7 - c) ELSE 0])]

(* One bit a pixel, the first on top, each row padded to a byte.           *)
Mask(bm) ==
  LET row(k)    == (k - 1) \div Stride(bm.w)
      col(k, c) == 8 * ((k - 1) % Stride(bm.w)) + c
      set(k, c) == col(k, c) < bm.w /\ row(k) * bm.w + col(k, c) + 1 \in Drawn(bm)
  IN  [k \in 1 .. Stride(bm.w) * bm.h |->
         SumFunction([c \in 0..7 |-> IF set(k, c) THEN 2^(7 - c) ELSE 0])]

CursorShape(bm) ==
  [w |-> bm.w, h |-> bm.h, mask |-> Mask(bm),
   px |-> [i \in DOMAIN bm.px |-> IF i \in Drawn(bm) THEN bm.px[i] ELSE Black]]

(* A client's cursor: on says which pixels to draw.                        *)
Hidden == [w |-> 0, h |-> 0, px |-> <<>>, on |-> {}]

ReadCursor(c) ==
  LET bit(i) == (c.mask[((i - 1) \div c.w) * Stride(c.w) + (((i - 1) % c.w) \div 8) + 1]
                   \div 2^(7 - (((i - 1) % c.w) % 8))) % 2
  IN  IF c.w = 0 \/ c.h = 0 THEN Hidden
      ELSE [w |-> c.w, h |-> c.h, px |-> c.px,
            on |-> {i \in DOMAIN c.px : bit(i) = 1}]

(* Where the pixel i of a cursor lands whose top left is at <<x, y>>.      *)
Lands(c, i, at) == <<at[1] + ((i - 1) % c.w), at[2] + ((i - 1) \div c.w)>>

(* s is a screen, a function of the places on it.                          *)
Visible(c, s, at) == {i \in c.on : Lands(c, i, at) \in DOMAIN s}

Under(c, s, at) == [p \in {Lands(c, i, at) : i \in Visible(c, s, at)} |-> s[p]]

Draw(c, s, at) ==
  [p \in DOMAIN s |->
     LET here == {i \in Visible(c, s, at) : Lands(c, i, at) = p}
     IN  IF here = {} THEN s[p] ELSE c.px[CHOOSE i \in here : TRUE]]

Restore(s, under) ==
  [p \in DOMAIN s |-> IF p \in DOMAIN under THEN under[p] ELSE s[p]]
=============================================================================
