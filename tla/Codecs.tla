------------------------------- MODULE Codecs -------------------------------
(***************************************************************************)
(* What one end works out and the other makes of it: pictures compared,    *)
(* encoded, sent and drawn, tiles in every form, rectangles from other     *)
(* servers, the pointer's picture, the wheel. None of it waits for         *)
(* anything, so a behaviour is one job: the sender's half, then the        *)
(* receiver's.                                                             *)
(***************************************************************************)
EXTENDS Zrle, Scroll, Tight, Shape, Wheel, TLC

CONSTANTS
  TileJobs,     (* [f, w, h, px]: a tile and the format it goes out in     *)
  FrameJobs,    (* [w, h, prev, cur, key, copyrect, zrle]: two pictures    *)
  ScrollJobs,   (* frames in which a window, [a, b] its columns, scrolled  *)
  TightJobs,    (* sequences of rectangles, as TightWrite takes them       *)
  ShapeJobs,    (* [bm, at, w, h]: a cursor and where on which screen      *)
  WheelJobs     (* [deltas, mask]                                          *)

(* A window of the columns a to b has scrolled by n rows, from src to dst: *)
(* the rows of the picture were all different to the hash, those that came *)
(* into the window are like none of them, nothing else changed, and the    *)
(* window ends where tiles do and changed in every one of its tiles.       *)
Scrolls(j) ==
  LET was(y) == RowHash(j.prev[y], <<j.a, j.b>>, j.key)
      is(y)  == RowHash(j.cur[y], <<j.a, j.b>>, j.key)
      window == Min({j.src, j.dst}) .. Max({j.src, j.dst}) + j.n - 1
      differs(y, x) == j.prev[y][x] # j.cur[y][x]
  IN  /\ {j.a, j.b, j.src, j.dst, j.n} \subseteq Nat /\ j.copyrect
      /\ j.a < j.b /\ j.b <= j.w /\ j.a % Tile = 0 /\ (j.b % Tile = 0 \/ j.b = j.w)
      /\ j.src # j.dst /\ j.n >= MinScroll /\ window \subseteq 0 .. j.h - 1
      /\ \A y, z \in 0 .. j.h - 1 : was(y) = was(z) => y = z
      /\ \A i \in 0 .. j.n - 1, x \in j.a .. j.b - 1 :
           j.cur[j.dst + i][x] = j.prev[j.src + i][x]
      /\ \A y \in window \ (j.dst .. j.dst + j.n - 1), z \in 0 .. j.h - 1 : is(y) # was(z)
      /\ \A y \in 0 .. j.h - 1, x \in 0 .. j.w - 1 :
           differs(y, x) => y \in window /\ x \in j.a .. j.b - 1
      /\ \A y \in window, x \in j.a .. j.b - 1 : \E v \in 0 .. j.h - 1, u \in 0 .. j.w - 1 :
           differs(v, u) /\ v \div Tile = y \div Tile /\ u \div Tile = x \div Tile

(* Formats that put a colour's bytes apart, tiles and pictures full of     *)
(* colours, windows that scrolled, rectangles in a form that suits them,   *)
(* bitmaps with a pixel at every place, whole turns of a wheel while some  *)
(* of three buttons are held.                                              *)
ASSUME CodecsAssumption ==
  /\ Tile <= 64
  /\ \A j \in TileJobs :
       /\ j.f \in PixFmts /\ j.w \in 1..64 /\ j.h \in 1..64
       /\ j.px \in [1 .. j.w * j.h -> Rgb]
  /\ \A j \in FrameJobs \cup ScrollJobs :
       /\ j.w \in Nat \ {0} /\ j.h \in Nat \ {0}
       /\ {j.prev, j.cur} \subseteq [0 .. j.h - 1 -> [0 .. j.w - 1 -> Rgb]]
       /\ {j.copyrect, j.zrle} \subseteq BOOLEAN
  /\ \A j \in ScrollJobs : Scrolls(j)
  /\ TightJobs \subseteq Seq(TightRects)
  /\ \A j \in ShapeJobs :
       /\ j.bm.w \in Nat /\ j.bm.h \in Nat /\ DOMAIN j.bm.px = 1 .. j.bm.w * j.bm.h
  /\ \A j \in WheelJobs : j.deltas \in Seq(Int) /\ j.mask \in 0..7

VARIABLES job, coded, seen
vars == <<job, coded, seen>>

Nothing == <<>>

Init ==
  /\ job \in [kind : {"tile"}, of : TileJobs] \cup [kind : {"frame"}, of : FrameJobs]
               \cup [kind : {"scroll"}, of : ScrollJobs] \cup [kind : {"tight"}, of : TightJobs]
               \cup [kind : {"shape"}, of : ShapeJobs] \cup [kind : {"wheel"}, of : WheelJobs]
  /\ coded = Nothing
  /\ seen = Nothing

Starts(kinds) == job.kind \in kinds /\ coded = Nothing
Ends(kinds) == job.kind \in kinds /\ coded # Nothing /\ seen = Nothing

----------------------------------------------------------------------------
(* A tile.                                                                 *)

Encode ==
  /\ Starts({"tile"})
  /\ coded' = IF HasCpixel(job.of.f) THEN EncodeTile(job.of.f, job.of.px, job.of.w, job.of.h)
              ELSE FlattenSeq([i \in DOMAIN job.of.px |-> Pixel(job.of.f, job.of.px[i])])
  /\ UNCHANGED <<job, seen>>

(* Raw pixels, read by a client that asked for the format f.               *)
ReadPixel(f, b) ==
  LET little == IF f.big THEN Swapped(b) ELSE b
  IN  [i \in 1..3 |-> little[(f.shift[i] \div 8) + 1]]
Raw(f, b, n) == [ok |-> TRUE, next |-> 4 * n + 1,
                 px |-> [k \in 1..n |-> ReadPixel(f, SubSeq(b, 4 * k - 3, 4 * k))]]

Decode ==
  /\ Ends({"tile"})
  /\ seen' = <<IF HasCpixel(job.of.f) THEN ZrleTile(job.of.f, coded, 1, job.of.w, job.of.h)
               ELSE Raw(job.of.f, coded, job.of.w * job.of.h)>>
  /\ UNCHANGED <<job, coded>>

----------------------------------------------------------------------------
(* A picture: the update that turns the one the client has into the next.  *)

(* Tile t of a w by h rectangle, tiles counted from 0 in raster order.     *)
Across(w) == (w + Tile - 1) \div Tile
TileCount(w, h) == Across(w) * Across(h)
TileX(w, t) == (t % Across(w)) * Tile
TileY(w, t) == (t \div Across(w)) * Tile

Block(s, x, y, w, h) ==
  [i \in 1 .. w * h |-> s[y + (i - 1) \div w][x + ((i - 1) % w)]]

Tiles(s, p) ==
  FlattenSeq([k \in 1..TileCount(p.w, p.h) |->
    LET tx == TileX(p.w, k - 1)
        ty == TileY(p.w, k - 1)
        tw == Min({Tile, p.w - tx})
        th == Min({Tile, p.h - ty})
    IN  EncodeTile(Default, Block(s, p.x + tx, p.y + ty, tw, th), tw, th)])

(* One update: a part becomes CopyRect, ZRLE or Raw.                       *)
Body(s, p, zrle) ==
  IF p.kind = "copy" THEN <<>>
  ELSE IF zrle THEN Tiles(s, p)
  ELSE FlattenSeq([i \in 1 .. p.w * p.h |-> Pixel(Default, Block(s, p.x, p.y, p.w, p.h)[i])])

Update(parts, s, zrle) ==
  [k \in DOMAIN parts |->
     LET p == parts[k]
     IN  [kind |-> IF p.kind = "copy" THEN "copy" ELSE IF zrle THEN "zrle" ELSE "raw",
          x |-> p.x, y |-> p.y, w |-> p.w, h |-> p.h, sx |-> p.sx, sy |-> p.sy,
          body |-> Body(s, p, zrle)]]

Compare ==
  /\ Starts({"frame", "scroll"})
  /\ coded' = <<Update(Diff(job.of.prev, job.of.cur, job.of.w, job.of.h,
                            job.of.copyrect, job.of.key),
                       job.of.cur, job.of.zrle)>>
  /\ UNCHANGED <<job, seen>>

(* The rows go via a scratch buffer: source and destination may overlap.   *)
CopyRect(s, p) ==
  [row \in DOMAIN s |-> [col \in DOMAIN s[row] |->
     IF row \in p.y .. p.y + p.h - 1 /\ col \in p.x .. p.x + p.w - 1
     THEN s[p.sy + row - p.y][p.sx + col - p.x] ELSE s[row][col]]]

(* The picture s with the pixels px drawn on it as a w by h block.         *)
Put(s, x, y, w, h, px) ==
  [row \in DOMAIN s |-> [col \in DOMAIN s[row] |->
     IF row \in y .. y + h - 1 /\ col \in x .. x + w - 1
     THEN px[(row - y) * w + (col - x) + 1] ELSE s[row][col]]]

(* The tiles one after the other: the picture so far and where in the body *)
(* the next one starts.                                                    *)
PutTiles(s, p) ==
  LET tile(d, t) ==
        LET tw   == Min({Tile, p.w - TileX(p.w, t)})
            th   == Min({Tile, p.h - TileY(p.w, t)})
            read == ZrleTile(Default, p.body, d.next, tw, th)
        IN  IF ~read.ok THEN [s |-> Nothing, next |-> 0]
            ELSE [s |-> Put(d.s, p.x + TileX(p.w, t), p.y + TileY(p.w, t), tw, th, read.px),
                  next |-> read.next]
      drawn[t \in 0..TileCount(p.w, p.h)] ==
        IF t = 0 THEN [s |-> s, next |-> 1]
        ELSE LET d == drawn[t - 1] IN IF d.s = Nothing THEN d ELSE tile(d, t - 1)
  IN  drawn[TileCount(p.w, p.h)].s

(* A rectangle off the picture, or a copy from off it, is refused.         *)
Rect(s, p, w, h) ==
  IF p.x + p.w > w \/ p.y + p.h > h THEN Nothing ELSE
  CASE p.kind = "copy" -> IF p.sx + p.w > w \/ p.sy + p.h > h THEN Nothing
                          ELSE CopyRect(s, p)
    [] p.kind = "zrle" -> PutTiles(s, p)
    [] p.kind = "raw"  -> Put(s, p.x, p.y, p.w, p.h,
                              Raw(Default, p.body, p.w * p.h).px)

Rectangles(s, parts, w, h) ==
  LET drawn[k \in 0..Len(parts)] ==
        IF k = 0 THEN s
        ELSE LET d == drawn[k - 1] IN IF d = Nothing THEN Nothing ELSE Rect(d, parts[k], w, h)
  IN  drawn[Len(parts)]

Redraw ==
  /\ Ends({"frame", "scroll"})
  /\ seen' = <<Rectangles(job.of.prev, coded[1], job.of.w, job.of.h)>>
  /\ UNCHANGED <<job, coded>>

----------------------------------------------------------------------------
(* Rectangles from another server, over streams that outlive them.         *)

Writes(rects, z) ==
  LET wrote[k \in 1..Len(rects)] ==
        TightWrite(rects[k], IF k = 1 THEN z ELSE wrote[k - 1].z)
  IN  [k \in 1..Len(rects) |-> wrote[k]]

Reads(rects, messages, z) ==
  LET read[k \in 1..Len(rects)] ==
        TightRead(messages[k], IF k = 1 THEN z ELSE read[k - 1].z, rects[k].w, rects[k].h)
  IN  [k \in 1..Len(rects) |-> read[k].px]

OtherServer ==
  /\ Starts({"tight"})
  /\ coded' = Writes(job.of, Fresh)
  /\ UNCHANGED <<job, seen>>

ReadTight ==
  /\ Ends({"tight"})
  /\ seen' = Reads(job.of, coded, Fresh)
  /\ UNCHANGED <<job, coded>>

----------------------------------------------------------------------------
(* The pointer's picture, drawn on a screen and taken off it.              *)

Screen == [p \in (0 .. job.of.w - 1) \X (0 .. job.of.h - 1) |-> <<p[1], p[2], 1>>]

SendShape ==
  /\ Starts({"shape"})
  /\ coded' = <<CursorShape(job.of.bm)>>
  /\ UNCHANGED <<job, seen>>

DrawShape ==
  /\ Ends({"shape"})
  /\ LET c  == ReadCursor(coded[1])
         up == Draw(c, Screen, job.of.at)
     IN  seen' = <<up, Restore(up, Under(c, Screen, job.of.at))>>
  /\ UNCHANGED <<job, coded>>

----------------------------------------------------------------------------
(* The wheel. The masks follow the one that was sent last.                 *)

Turn ==
  /\ Starts({"wheel"})
  /\ coded' = <<Clicks(job.of.deltas, job.of.mask)>>
  /\ UNCHANGED <<job, seen>>

Roll ==
  /\ Ends({"wheel"})
  /\ LET masks == <<job.of.mask>> \o coded[1]
         steps == 1 .. Len(masks) - 1
     IN  seen' = <<SumFunction([k \in steps |-> Notches(masks[k], masks[k + 1])]),
                   UNION {Changes(masks[k], masks[k + 1]) : k \in steps}>>
  /\ UNCHANGED <<job, coded>>

Next == Encode \/ Decode \/ Compare \/ Redraw \/ OtherServer \/ ReadTight
          \/ SendShape \/ DrawShape \/ Turn \/ Roll
Spec == Init /\ [][Next]_vars

----------------------------------------------------------------------------
(* Types: what is written as a byte is one - at the limits of palettes and *)
(* runs too - and a part of an update lies on the picture.                 *)
TypeOK ==
  coded # Nothing =>
    CASE job.kind = "tile" -> \A i \in DOMAIN coded : coded[i] \in 0..255
      [] job.kind \in {"frame", "scroll"} ->
           \A i \in DOMAIN coded[1] :
             LET p == coded[1][i]
             IN  /\ p.w > 0 /\ p.h > 0
                 /\ p.x + p.w <= job.of.w /\ p.y + p.h <= job.of.h
                 /\ \A k \in DOMAIN p.body : p.body[k] \in 0..255
      [] job.kind = "tight" ->
           \A i \in DOMAIN coded : \A k \in DOMAIN coded[i].bytes :
             coded[i].bytes[k] \in 0..255
      [] job.kind = "shape" -> \A k \in DOMAIN coded[1].mask : coded[1].mask[k] \in 0..255
      [] job.kind = "wheel" -> \A k \in DOMAIN coded[1] : coded[1][k] \in 0..31

(* Whatever the tile, its form and the pixel format, the client gets the   *)
(* colours back and has read every byte when it has: the next tile starts  *)
(* where this one ended (server.rs:1200-1346, rfb.rs:1465-1549).           *)
TileArrives ==
  job.kind = "tile" /\ seen # Nothing =>
    seen[1] = [ok |-> TRUE, px |-> job.of.px, next |-> Len(coded) + 1]

Legal(form, n) ==
  CASE form = "solid" -> n = 1
    [] form = "packed" -> n \in 2..16
    [] form = "indexed" -> n \in 2..127
    [] OTHER -> TRUE

(* The form that is chosen is the shortest of those the tile can have: the *)
(* costs the choice goes by are the bytes that would be written. "nothing  *)
(* ever reports it, because the output is still correct" (server.rs:1222). *)
Thrift ==
  job.kind = "tile" /\ coded # Nothing /\ HasCpixel(job.of.f) =>
    \A form \in {"solid", "packed", "indexed", "plain", "raw"} :
      Legal(form, Len(Palette(job.of.px, job.of.w, job.of.h))) =>
        Len(coded) <= Len(Written(form, job.of.f, job.of.px, job.of.w, job.of.h))

(* The update that is made of two pictures turns the client's into the     *)
(* server's: a scroll first, then what it left over, tile by tile, and     *)
(* whatever rows hash alike (server.rs:2417-2458, rfb.rs:1197-1223).       *)
PictureArrives ==
  job.kind \in {"frame", "scroll"} /\ seen # Nothing => seen[1] = job.of.cur

(* What is copied is right where it lands: a scroll is never made out of   *)
(* rows that only hash alike (server.rs:1068-1070), part of ScrollFound.   *)
CopyIsRight ==
  job.kind \in {"frame", "scroll"} /\ coded # Nothing =>
    \A i \in DOMAIN coded[1] :
      LET p == coded[1][i] IN
      p.kind = "copy" =>
        \A y \in 0 .. p.h - 1, x \in 0 .. p.w - 1 :
          job.of.prev[p.sy + y][p.sx + x] = job.of.cur[p.y + y][p.x + x]

(* A window of rows that all differ which scrolled, whatever is new in it, *)
(* is sent as a CopyRect of all the rows that are still there              *)
(* (server.rs:1061-1062, 1140-1144); and whatever is copied is right.      *)
ScrollFound ==
  /\ CopyIsRight
  /\ job.kind = "scroll" /\ coded # Nothing =>
    \E i \in DOMAIN coded[1] :
      LET p == coded[1][i]
      IN  /\ p.kind = "copy"
          /\ p.x = job.of.a /\ p.w = job.of.b - job.of.a
          /\ p.y = job.of.dst /\ p.sy = job.of.src /\ p.h = job.of.n

(* Rectangles from other servers are drawn as they were meant, in every    *)
(* form and on any of the streams, whichever of those the server restarted *)
(* when (rfb.rs:1228-1395, 2114-2117).                                     *)
TightArrives ==
  job.kind = "tight" /\ seen # Nothing =>
    \A k \in DOMAIN seen : seen[k] = {job.of[k].px}

(* However the turning of a wheel is cut into events, the notches the      *)
(* server makes of it and what is carried over add up to it, less than a   *)
(* notch is carried, and no other button is touched (client.rs:436-442).   *)
WheelAdds ==
  job.kind = "wheel" /\ seen # Nothing =>
    LET deltas == job.of.deltas
        total  == SumFunction(deltas)
        carry  == Carry(deltas)[Len(deltas)]
    IN  /\ seen[1] * Divisor + carry = total
        /\ Abs(carry) < Divisor
        /\ seen[2] = {}

(* What one end makes of the bytes of the other is what was meant by them: *)
(* tiles, pictures, rectangles and the turning of a wheel all arrive.      *)
Arrives == TypeOK /\ TileArrives /\ PictureArrives /\ TightArrives /\ WheelAdds

(* The client draws the pixels that the pointer's mask or its alpha marks, *)
(* at their places and never on the next row, and taking it off leaves the *)
(* picture as it was (server.rs:441-462, rfb.rs:949-988).  A pixel of a    *)
(* monochrome pointer that Windows inverts is marked by neither.           *)
ShapeShown ==
  job.kind = "shape" /\ seen # Nothing =>
    LET bm == job.of.bm
        at(p) == {i \in Drawn(bm) : Lands(bm, i, job.of.at) = p}
    IN  /\ \A p \in DOMAIN Screen :
             IF at(p) = {} THEN seen[1][p] = Screen[p]
             ELSE \E i \in at(p) : seen[1][p] = bm.px[i]
        /\ seen[2] = Screen
=============================================================================
