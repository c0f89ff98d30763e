-------------------------- MODULE UpdateFlow_proof --------------------------
(***************************************************************************)
(* The pictures of a session and the requests and continuous updates that  *)
(* pay for them, proved for every number and size of regions, every client *)
(* and every bound of UpdateFlow.                                          *)
(***************************************************************************)
EXTENDS UpdateFlow, FiniteSetTheorems, TLAPS

(* The picture the client has when message i of s2c comes to be decoded.   *)
Before(i) == IF i = 1 THEN screen ELSE views[i - 1]

(* Every message on its way leads from the picture before it to the one    *)
(* the history foresees, and names only tiles the former has.              *)
Chain == \A i \in DOMAIN s2c :
           \/ /\ s2c[i].type = "update"
              /\ views[i] = Apply(Before(i), s2c[i].parts)
              /\ FitsOn(Before(i), s2c[i].parts)
           \/ /\ s2c[i].type = "end"
              /\ views[i] = Before(i)

(* What the sender's pictures have to do with the one the client will have *)
(* at each point of the sender's loop.                                     *)
Tracks ==
  /\ prev.on = region /\ cur.on = region
  /\ \/ spc \in {"top", "wait", "look"} /\ Promised = prev
     \/ spc \in {"grab", "done"} /\ (resized \/ Promised = prev)
     \/ /\ spc = "send"
        /\ resized \/ Promised = prev
        /\ Apply(Promised, upd) = cur
        /\ FitsOn(Promised, upd)
     \/ spc = "settle" /\ Promised = cur

IInv == TypeOK /\ Chain /\ Tracks /\ FrameIsScreen
----------------------------------------------------------------------------
(* Pictures.                                                               *)

LEMMA PictureFacts ==
  ASSUME NEW p \in Picture
  PROVE  /\ p.on \in Screens
         /\ p.px \in [Tiles(p.on) -> Value]
         /\ p = [on |-> p.on, px |-> p.px]
<1>1. PICK s \in Screens : p \in [on : {s}, px : [Tiles(s) -> Value]]
  BY DEF Picture
<1>2. p.on = s
  BY <1>1
<1> QED
  BY <1>1, <1>2

LEMMA PictureMade ==
  ASSUME NEW s \in Screens, NEW f \in [Tiles(s) -> Value]
  PROVE  [on |-> s, px |-> f] \in Picture
BY DEF Picture

LEMMA BlankIsPicture ==
  ASSUME NEW s \in Screens
  PROVE  /\ Blank(s) \in Picture
         /\ Blank(s).on = s
         /\ Blank(s).px = [t \in Tiles(s) |-> 0]
<1>1. 0 \in Value
  BY FlowAssumption DEF Value
<1>2. [t \in Tiles(s) |-> 0] \in [Tiles(s) -> Value]
  BY <1>1
<1> QED
  BY <1>2, PictureMade DEF Blank

LEMMA ShotIsPicture ==
  ASSUME NEW s \in Screens, TypeOK
  PROVE  Shot(s) \in Picture /\ Shot(s).on = s
BY PictureMade DEF Shot, TypeOK, DesktopOK

LEMMA RegionIsScreen == TypeOK => Region(pick) \in Screens
BY DEF TypeOK, Region, DesktopOK, ReaderOK

(* What the client has once it has read everything is a picture.           *)
LEMMA PromisedIsPicture == TypeOK => Promised \in Picture
<1> SUFFICES ASSUME TypeOK PROVE Promised \in Picture
  OBVIOUS
<1>1. CASE s2c = <<>>
  BY <1>1 DEF Promised, TypeOK, ClientOK
<1>2. CASE s2c # <<>>
  <2>1. Len(views) \in 1 .. Len(views)
    BY <1>2 DEF TypeOK, WireOK
  <2> QED
    BY <1>2, <2>1 DEF Promised, TypeOK, WireOK
<1> QED
  BY <1>1, <1>2

----------------------------------------------------------------------------
(* Updates.                                                                *)

LEMMA RegionTiles == \A s \in Screens : Tiles(s) \subseteq AllTiles
BY DEF AllTiles

(* A scrolled band lies on the picture it was found in.                    *)
LEMMA ScrollsFit ==
  ASSUME NEW p \in Picture, NEW c, NEW f \in Scrolls(p, c)
  PROVE  DOMAIN f \subseteq DOMAIN p.px /\ f \in [DOMAIN f -> DOMAIN p.px]
<1>1. p.on \in Screens /\ DOMAIN p.px = Tiles(p.on)
  BY PictureFacts
<1>2. PICK a \in DOMAIN p.px, b \in DOMAIN p.px : f \in [a .. b -> DOMAIN p.px]
  BY DEF Scrolls
<1>3. a .. b \subseteq DOMAIN p.px
  BY <1>1, <1>2, FlowAssumption DEF Tiles
<1> QED
  BY <1>2, <1>3

(* An update may be built from picture c, a band that moved and the tiles  *)
(* to send, for a client that has p of the same region; q is what it will  *)
(* be decoded over: p, or anything if the update announces the region.     *)
Sound(p, c, q, res, copy, tiles) ==
  /\ p \in Picture /\ c \in Picture /\ q \in Picture /\ p.on = c.on
  /\ res \in BOOLEAN /\ (res \/ q = p)
  /\ copy \in [DOMAIN copy -> DOMAIN p.px] /\ DOMAIN copy \subseteq DOMAIN p.px
  /\ tiles \subseteq DOMAIN c.px
  /\ IF res THEN tiles = DOMAIN c.px ELSE Changed(Moved(p.px, copy), c) \subseteq tiles

(* Such an update, decoded, gives the newer picture.                       *)
LEMMA BuiltFacts ==
  ASSUME TypeOK, NEW p, NEW c, NEW q, NEW res, NEW copy, NEW tiles,
         Sound(p, c, q, res, copy, tiles), NEW full \in BOOLEAN
  PROVE  /\ Built(res, c, copy, tiles, full) \in Updates
         /\ Apply(q, Built(res, c, copy, tiles, full)) = c
         /\ FitsOn(q, Built(res, c, copy, tiles, full))
<1> USE DEF Sound
<1> DEFINE u == Built(res, c, copy, tiles, full)
<1>1. /\ u = [resized |-> res, on |-> c.on, copy |-> copy,
               px |-> [t \in tiles |-> c.px[t]], full |-> full, free |-> cont]
      /\ cont \in BOOLEAN
  BY DEF Built, TypeOK, SenderOK
<1>2. /\ c.on \in Screens /\ c.px \in [Tiles(c.on) -> Value] /\ c = [on |-> c.on, px |-> c.px]
      /\ p.px \in [Tiles(c.on) -> Value] /\ q.px \in [Tiles(q.on) -> Value]
  <2>1. p \in Picture /\ c \in Picture /\ q \in Picture /\ p.on = c.on
    OBVIOUS
  <2> QED
    BY <2>1, PictureFacts
<1>3. Tiles(c.on) \subseteq AllTiles
  BY <1>2, RegionTiles
<1>4. copy \in Part(AllTiles)
  BY <1>2, <1>3 DEF Part
<1>5. [t \in tiles |-> c.px[t]] \in [tiles -> Value] /\ tiles \in SUBSET AllTiles
  BY <1>2, <1>3
<1>6. [t \in tiles |-> c.px[t]] \in Part(Value)
  BY <1>5 DEF Part
<1>7. u \in Updates
  BY <1>1, <1>2, <1>4, <1>6 DEF Updates
<1> DEFINE base == IF res THEN Blank(c.on) ELSE q
<1>8. base.on = c.on /\ DOMAIN base.px = Tiles(c.on)
  BY <1>2, BlankIsPicture
<1>9. Apply(q, u) = [on |-> base.on, px |-> [t \in Tiles(c.on) |->
           IF t \in tiles THEN c.px[t] ELSE Moved(base.px, copy)[t]]]
  <2>1. /\ u.resized = res /\ u.on = c.on /\ u.copy = copy
        /\ DOMAIN u.px = tiles /\ \A t \in tiles : u.px[t] = c.px[t]
    BY <1>1
  <2>2. DOMAIN Moved(base.px, copy) = Tiles(c.on)
    BY <1>8 DEF Moved
  <2> HIDE DEF u
  <2> QED
    BY <2>1, <2>2 DEF Apply
<1>10. \A t \in Tiles(c.on) : t \notin tiles => Moved(base.px, copy)[t] = c.px[t]
  BY <1>2, <1>8 DEF Changed
<1>11. [t \in Tiles(c.on) |-> IF t \in tiles THEN c.px[t] ELSE Moved(base.px, copy)[t]] = c.px
  BY <1>2, <1>10
<1>12. FitsOn(q, u)
  BY <1>1, <1>2 DEF FitsOn
<1> QED
  BY <1>2, <1>7, <1>8, <1>9, <1>11, <1>12

(* What the sender has in hand once it has captured.                       *)
LEMMA GrabFacts ==
  ASSUME TypeOK, prev.on = region, Grab,
         NEW q \in Picture, resized \/ q = prev
  PROVE  /\ cur' = Shot(region) /\ cur' \in Picture /\ cur'.on = region
         /\ \/ /\ spc' = "send"
               /\ upd' \in Updates /\ Apply(q, upd') = cur' /\ FitsOn(q, upd')
            \/ spc' = "top" /\ ~resized /\ upd' = upd
<1>1. region \in Screens /\ prev \in Picture /\ resized \in BOOLEAN
  BY DEF TypeOK, SenderOK
<1>2. cur' = Shot(region) /\ cur' \in Picture /\ cur'.on = region
  BY <1>1, ShotIsPicture DEF Grab
<1>3. /\ DOMAIN prev.px = Tiles(region) /\ DOMAIN cur'.px = Tiles(region)
      /\ prev.px \in [Tiles(region) -> Value]
  BY <1>1, <1>2, PictureFacts
<1>4. NoCopy \in [DOMAIN NoCopy -> DOMAIN prev.px] /\ DOMAIN NoCopy = {}
  BY DEF NoCopy
<1> HIDE DEF NoCopy
<1>5. CASE upd' = Built(resized, cur', NoCopy, DOMAIN cur'.px, TRUE) /\ spc' = "send"
  <2>1. Sound(prev, cur', q, resized, NoCopy, DOMAIN cur'.px)
    BY <1>1, <1>2, <1>3, <1>4 DEF Sound, Changed
  <2>2. \A full \in BOOLEAN :
          LET u == Built(resized, cur', NoCopy, DOMAIN cur'.px, full) IN
          u \in Updates /\ Apply(q, u) = cur' /\ FitsOn(q, u)
    BY <2>1, BuiltFacts
  <2>3. upd' \in Updates /\ Apply(q, upd') = cur' /\ FitsOn(q, upd')
    BY <1>5, <2>2
  <2> QED
    BY <1>2, <1>5, <2>3
<1>6. CASE /\ ~resized /\ spc' = "send"
           /\ \E copy \in {NoCopy} \cup Scrolls(prev, cur'), tiles \in SUBSET DOMAIN cur'.px :
                /\ Changed(Moved(prev.px, copy), cur') \subseteq tiles
                /\ upd' = Built(FALSE, cur', copy, tiles, FALSE)
  <2>1. PICK copy \in {NoCopy} \cup Scrolls(prev, cur'), tiles \in SUBSET DOMAIN cur'.px :
                /\ Changed(Moved(prev.px, copy), cur') \subseteq tiles
                /\ upd' = Built(FALSE, cur', copy, tiles, FALSE)
    BY <1>6
  <2>2. copy \in [DOMAIN copy -> DOMAIN prev.px] /\ DOMAIN copy \subseteq DOMAIN prev.px
    BY <1>1, <1>4, ScrollsFit
  <2>3. resized = FALSE /\ Sound(prev, cur', q, resized, copy, tiles)
    BY <1>1, <1>2, <1>6, <2>1, <2>2 DEF Sound
  <2>4. \A full \in BOOLEAN :
          LET u == Built(resized, cur', copy, tiles, full) IN
          u \in Updates /\ Apply(q, u) = cur' /\ FitsOn(q, u)
    BY <2>3, BuiltFacts
  <2>5. upd' \in Updates /\ Apply(q, upd') = cur' /\ FitsOn(q, upd')
    BY <2>1, <2>3, <2>4
  <2> QED
    BY <1>2, <1>6, <2>5
<1>7. CASE ~resized /\ spc' = "top" /\ upd' = upd
  BY <1>2, <1>7
<1> QED
  BY <1>5, <1>6, <1>7 DEF Grab

----------------------------------------------------------------------------
(* Types.                                                                  *)

LEMMA DrawTyping == TypeOK /\ Draw => TypeOK'
<1> SUFFICES ASSUME TypeOK, Draw PROVE TypeOK'
  OBVIOUS
<1>1. UNCHANGED <<client, wire, shared, sender, rpc, plugged, primary, news, layouts>>
  BY DEF Draw
<1>2. ClientOK' /\ WireOK' /\ ReaderOK' /\ SenderOK'
  BY <1>1 DEF TypeOK, ClientOK, WireOK, ReaderOK, SenderOK, client, wire, shared, sender
<1>3. draws \in Nat /\ draws < MaxDraws /\ draws' = draws + 1
  BY FlowAssumption DEF Draw, TypeOK, DesktopOK
<1>4. draws' \in 0 .. MaxDraws /\ draws + 2 \in Value
  BY <1>3, FlowAssumption DEF Value
<1>5. PICK s \in Screens :
        \/ \E t \in Tiles(s) : desk' = [desk EXCEPT ![s][t] = draws + 2]
        \/ desk' = [desk EXCEPT ![s] = [t \in Tiles(s) |->
                        IF t < Size[s] THEN desk[s][t + 1] ELSE draws + 2]]
  BY DEF Draw
<1>6. \A t \in Tiles(s) : t < Size[s] => t + 1 \in Tiles(s)
  BY FlowAssumption DEF Tiles
<1>7. DOMAIN desk' = Screens
  BY <1>5 DEF TypeOK, DesktopOK
<1>8. \A r \in Screens : desk[r] \in [Tiles(r) -> Value]
  BY DEF TypeOK, DesktopOK
<1>9. desk'[s] \in [Tiles(s) -> Value]
  <2>1. CASE \E t \in Tiles(s) : desk' = [desk EXCEPT ![s][t] = draws + 2]
    <3>1. PICK t \in Tiles(s) : desk' = [desk EXCEPT ![s][t] = draws + 2]
      BY <2>1
    <3>2. desk'[s] = [desk[s] EXCEPT ![t] = draws + 2]
      BY <3>1 DEF TypeOK, DesktopOK
    <3> QED
      BY <3>2, <1>8, <1>4
  <2>2. CASE desk' = [desk EXCEPT ![s] = [t \in Tiles(s) |->
                        IF t < Size[s] THEN desk[s][t + 1] ELSE draws + 2]]
    <3>1. desk'[s] = [t \in Tiles(s) |->
                        IF t < Size[s] THEN desk[s][t + 1] ELSE draws + 2]
      BY <2>2 DEF TypeOK, DesktopOK
    <3> QED
      BY <3>1, <1>4, <1>6, <1>8
  <2> QED
    BY <1>5, <2>1, <2>2
<1>10. \A r \in Screens \ {s} : desk'[r] = desk[r]
  BY <1>5 DEF TypeOK, DesktopOK
<1>11. DesktopOK'
  BY <1>1, <1>4, <1>7, <1>8, <1>9, <1>10 DEF TypeOK, DesktopOK
<1> QED
  BY <1>2, <1>11 DEF TypeOK

LEMMA LayoutTyping == TypeOK /\ Layout => TypeOK'
<1> SUFFICES ASSUME TypeOK, Layout PROVE TypeOK'
  OBVIOUS
<1>1. DesktopOK'
  BY FlowAssumption DEF Layout, TypeOK, DesktopOK
<1>2. ClientOK' /\ WireOK' /\ ReaderOK' /\ SenderOK'
  BY DEF Layout, TypeOK, ClientOK, WireOK, ReaderOK, SenderOK, client, wire, shared, sender
<1> QED
  BY <1>1, <1>2 DEF TypeOK

LEMMA DropTyping == TypeOK /\ Drop => TypeOK'
<1> SUFFICES ASSUME TypeOK, Drop PROVE TypeOK'
  OBVIOUS
<1>1. WireOK'
  BY DEF Drop, TypeOK, WireOK
<1>2. DesktopOK' /\ ClientOK' /\ ReaderOK' /\ SenderOK'
  BY DEF Drop, TypeOK, DesktopOK, ClientOK, ReaderOK, SenderOK,
     desktop, client, shared, sender
<1> QED
  BY <1>1, <1>2 DEF TypeOK

(* What a client writes is a sequence of well-formed messages.             *)
LEMMA MessagesAreTyped ==
  /\ \A b \in BOOLEAN : Request(b) \in ClientMsg /\ Enable(b) \in ClientMsg
  /\ \A s \in Screens \cup {NoPick} : SetEncodings(s) \in ClientMsg
  /\ \A f \in {0, 1} : SetPixelFormat(f) \in ClientMsg
BY FlowAssumption DEF Request, Enable, SetEncodings, SetPixelFormat, ClientMsg

LEMMA ShortSequences ==
  ASSUME NEW S
  PROVE  /\ <<>> \in Seq(S)
         /\ \A m \in S : <<m>> \in Seq(S)
         /\ \A m, n \in S : <<m, n>> \in Seq(S)
OBVIOUS

LEMMA ExtraTyping == TypeOK /\ Extra => TypeOK'
<1> SUFFICES ASSUME TypeOK, Extra PROVE TypeOK'
  OBVIOUS
<1>1. PICK m \in ClientMsg : c2s' = c2s \o <<m>>
  BY MessagesAreTyped DEF Extra, ClientSends
<1>2. WireOK'
  BY <1>1 DEF Extra, TypeOK, WireOK
<1>3. ClientOK'
  BY FlowAssumption DEF Extra, TypeOK, ClientOK
<1>4. DesktopOK' /\ ReaderOK' /\ SenderOK'
  BY DEF Extra, TypeOK, DesktopOK, ReaderOK, SenderOK, desktop, shared, sender
<1> QED
  BY <1>2, <1>3, <1>4 DEF TypeOK

LEMMA HelloTyping == TypeOK /\ Hello => TypeOK'
<1> SUFFICES ASSUME TypeOK, Hello PROVE TypeOK'
  OBVIOUS
<1>1. PICK ms \in Seq(ClientMsg) : c2s' = c2s \o ms
  <2>1. Request(FALSE) \in ClientMsg /\ Request(TRUE) \in ClientMsg
    BY MessagesAreTyped
  <2>2. <<Request(FALSE)>> \in Seq(ClientMsg)
        /\ <<Request(FALSE), Request(TRUE)>> \in Seq(ClientMsg)
    BY <2>1, ShortSequences
  <2>3. c2s' = c2s \o <<Request(FALSE)>> \/ c2s' = c2s \o <<Request(FALSE), Request(TRUE)>>
    BY DEF Hello, ClientSends
  <2> QED
    BY <2>2, <2>3
<1>2. WireOK'
  BY <1>1 DEF Hello, TypeOK, WireOK
<1>3. ClientOK'
  BY DEF Hello, TypeOK, ClientOK
<1>4. DesktopOK' /\ ReaderOK' /\ SenderOK'
  BY DEF Hello, TypeOK, DesktopOK, ReaderOK, SenderOK, desktop, shared, sender
<1> QED
  BY <1>2, <1>3, <1>4 DEF TypeOK

(* The client's screen becomes the picture the history foresees.           *)
LEMMA PumpShows ==
  ASSUME TypeOK, Chain, Pump
  PROVE  /\ s2c # <<>> /\ s2c' = Tail(s2c) /\ views' = Tail(views)
         /\ screen' = views[1]
         /\ \/ Update(Head(s2c))
            \/ EndOfContinuous(Head(s2c)) /\ UNCHANGED <<screen, frame>>
<1>1. s2c # <<>> /\ (Update(Head(s2c)) \/ EndOfContinuous(Head(s2c)))
  BY DEF Pump
<1>2. 1 \in DOMAIN s2c /\ Head(s2c) = s2c[1]
  BY <1>1 DEF TypeOK, WireOK
<1>3. CASE Update(Head(s2c))
  <2>1. s2c[1].type = "update" /\ screen' = Apply(screen, s2c[1].parts)
    BY <1>2, <1>3 DEF Update
  <2>2. views[1] = Apply(Before(1), s2c[1].parts)
    BY <1>2, <2>1 DEF Chain
  <2> QED
    BY <1>1, <1>3, <2>1, <2>2 DEF Before, Update, Received
<1>4. CASE EndOfContinuous(Head(s2c))
  <2>1. s2c[1].type = "end" /\ UNCHANGED <<screen, frame>>
    BY <1>2, <1>4 DEF EndOfContinuous
  <2>2. views[1] = Before(1)
    BY <1>2, <2>1 DEF Chain
  <2> QED
    BY <1>1, <1>4, <2>1, <2>2 DEF Before, EndOfContinuous, Received
<1> QED
  BY <1>1, <1>3, <1>4

LEMMA PumpTyping == TypeOK /\ Chain /\ Pump => TypeOK'
<1> SUFFICES ASSUME TypeOK, Chain, Pump PROVE TypeOK'
  OBVIOUS
<1>1. s2c # <<>> /\ s2c' = Tail(s2c) /\ views' = Tail(views) /\ screen' = views[1]
  BY PumpShows
<1>2. 1 \in 1 .. Len(views)
  BY <1>1 DEF TypeOK, WireOK
<1>3. PICK ms \in Seq(ClientMsg) : c2s' = c2s \o ms
  <2>0. Request(TRUE) \in ClientMsg /\ Enable(TRUE) \in ClientMsg
    BY MessagesAreTyped
  <2>1. NextRequest \in Seq(ClientMsg) /\ <<Enable(TRUE)>> \in Seq(ClientMsg)
        /\ <<Request(TRUE)>> \in Seq(ClientMsg)
    BY <2>0, ShortSequences DEF NextRequest
  <2>2. c2s' = c2s \o NextRequest \/ c2s' = c2s \o <<Enable(TRUE)>>
        \/ c2s' = c2s \o <<Request(TRUE)>> \/ c2s' = c2s
    BY DEF Pump, Update, EndOfContinuous, ClientSends
  <2>3. c2s = c2s \o <<>> /\ <<>> \in Seq(ClientMsg)
    BY DEF TypeOK, WireOK
  <2> QED
    BY <2>1, <2>2, <2>3
<1>4. WireOK'
  <2>1. c2s' \in Seq(ClientMsg)
    BY <1>3 DEF TypeOK, WireOK
  <2>2. s2c' \in Seq(ServerMsg) /\ Len(s2c') = Len(s2c) - 1
    BY <1>1 DEF TypeOK, WireOK
  <2>3. views' \in Seq(Picture) /\ Len(views') = Len(views) - 1
    BY <1>1, <1>2 DEF TypeOK, WireOK
  <2>4. Len(s2c') <= Room
    BY <2>2, FlowAssumption DEF TypeOK, WireOK
  <2> QED
    BY <2>1, <2>2, <2>3, <2>4 DEF Pump, TypeOK, WireOK
<1>5. ClientOK'
  <2>1. screen' \in Picture
    BY <1>1, <1>2 DEF TypeOK, WireOK
  <2>2. UNCHANGED <<cpc, extras>> /\ ccont' \in {ccont, "on", "stopped"}
    BY DEF Pump, Update, EndOfContinuous
  <2> QED
    BY <2>1, <2>2 DEF TypeOK, ClientOK
<1>6. DesktopOK' /\ ReaderOK' /\ SenderOK'
  BY DEF Pump, TypeOK, DesktopOK, ReaderOK, SenderOK, desktop, shared, sender
<1> QED
  BY <1>4, <1>5, <1>6 DEF TypeOK

LEMMA ClientLeavesTyping == TypeOK /\ ClientLeaves => TypeOK'
<1> SUFFICES ASSUME TypeOK, ClientLeaves PROVE TypeOK'
  OBVIOUS
<1>1. ClientOK'
  BY DEF ClientLeaves, TypeOK, ClientOK
<1>2. DesktopOK' /\ WireOK' /\ ReaderOK' /\ SenderOK'
  BY DEF ClientLeaves, TypeOK, DesktopOK, WireOK, ReaderOK, SenderOK,
     desktop, wire, shared, sender
<1> QED
  BY <1>1, <1>2 DEF TypeOK

LEMMA ReadTyping == TypeOK /\ Read => TypeOK'
<1> SUFFICES ASSUME TypeOK, Read PROVE TypeOK'
  OBVIOUS
<1>1. Head(c2s) \in ClientMsg /\ Tail(c2s) \in Seq(ClientMsg)
  BY DEF Read, TypeOK, WireOK
<1>2. WireOK'
  BY <1>1 DEF Read, TypeOK, WireOK
<1>3. ReaderOK'
  <2>1. CASE ReadFormat(Head(c2s))
    BY <1>1, <2>1 DEF ReadFormat, NextMessage, ClientMsg, TypeOK, ReaderOK
  <2>2. CASE ReadEncodings(Head(c2s))
    BY <1>1, <2>2 DEF ReadEncodings, Asked, NextMessage, ClientMsg, TypeOK, ReaderOK
  <2>3. CASE ReadRequest(Head(c2s))
    BY <1>1, <2>3 DEF ReadRequest, ClientMsg, TypeOK, ReaderOK
  <2>4. CASE ReadContinuous(Head(c2s))
    BY <1>1, <2>4 DEF ReadContinuous, NextMessage, ClientMsg, TypeOK, ReaderOK
  <2> QED
    BY <2>1, <2>2, <2>3, <2>4 DEF Read
<1>4. DesktopOK' /\ ClientOK' /\ SenderOK'
  BY DEF Read, TypeOK, DesktopOK, ClientOK, SenderOK, desktop, client, sender
<1> QED
  BY <1>2, <1>3, <1>4 DEF TypeOK

LEMMA AskTyping == TypeOK /\ Ask => TypeOK'
<1> SUFFICES ASSUME TypeOK, Ask PROVE TypeOK'
  OBVIOUS
<1>1. ReaderOK'
  BY DEF Ask, Asked, NextMessage, TypeOK, ReaderOK
<1>2. DesktopOK' /\ ClientOK' /\ WireOK' /\ SenderOK'
  BY DEF Ask, TypeOK, DesktopOK, ClientOK, WireOK, SenderOK,
     desktop, client, wire, sender
<1> QED
  BY <1>1, <1>2 DEF TypeOK

LEMMA WriteEndTyping == TypeOK /\ WriteEnd => TypeOK'
<1> SUFFICES ASSUME TypeOK, WriteEnd PROVE TypeOK'
  OBVIOUS
<1>1. End(rpc) \in ServerMsg
  BY DEF WriteEnd, End, ServerMsg
<1>2. Promised \in Picture
  BY PromisedIsPicture
<1>3. WireOK'
  BY <1>1, <1>2, FlowAssumption DEF WriteEnd, TypeOK, WireOK
<1>4. ReaderOK'
  BY DEF WriteEnd, NextMessage, TypeOK, ReaderOK, shared
<1>5. DesktopOK' /\ ClientOK' /\ SenderOK'
  BY DEF WriteEnd, TypeOK, DesktopOK, ClientOK, SenderOK, desktop, client, sender
<1> QED
  BY <1>3, <1>4, <1>5 DEF TypeOK

LEMMA ReaderFailsTyping == TypeOK /\ ReaderFails => TypeOK'
<1> SUFFICES ASSUME TypeOK, ReaderFails PROVE TypeOK'
  OBVIOUS
<1>1. ReaderOK'
  BY DEF ReaderFails, TypeOK, ReaderOK
<1>2. DesktopOK' /\ ClientOK' /\ WireOK' /\ SenderOK'
  BY DEF ReaderFails, TypeOK, DesktopOK, ClientOK, WireOK, SenderOK,
     desktop, client, wire, sender
<1> QED
  BY <1>1, <1>2 DEF TypeOK

(* The steps of the sender before it captures.                             *)
LEMMA WaitTyping == TypeOK /\ (Top \/ Consume \/ WaitEnds) => TypeOK'
<1> SUFFICES ASSUME TypeOK, Top \/ Consume \/ WaitEnds PROVE TypeOK'
  OBVIOUS
<1>1. SenderOK'
  BY DEF Top, Consume, WaitEnds, TypeOK, ReaderOK, SenderOK
<1>2. ReaderOK'
  BY DEF Top, Consume, WaitEnds, TypeOK, ReaderOK, shared
<1>3. DesktopOK' /\ ClientOK' /\ WireOK'
  BY DEF Top, Consume, WaitEnds, TypeOK, DesktopOK, ClientOK, WireOK,
     desktop, client, wire
<1> QED
  BY <1>1, <1>2, <1>3 DEF TypeOK

LEMMA LookTyping == TypeOK /\ Look => TypeOK'
<1> SUFFICES ASSUME TypeOK, Look PROVE TypeOK'
  OBVIOUS
<1>1. Region(pick) \in Screens
  BY RegionIsScreen
<1>2. Blank(Region(pick)) \in Picture
  BY <1>1, BlankIsPicture
<1>3. SenderOK'
  BY <1>1, <1>2 DEF Look, TypeOK, SenderOK
<1>4. ReaderOK'
  BY DEF Look, TypeOK, ReaderOK
<1>5. DesktopOK' /\ ClientOK' /\ WireOK'
  BY DEF Look, TypeOK, DesktopOK, ClientOK, WireOK, desktop, client, wire
<1> QED
  BY <1>3, <1>4, <1>5 DEF TypeOK

LEMMA GrabTyping == TypeOK /\ Tracks /\ Grab => TypeOK'
<1> SUFFICES ASSUME TypeOK, Tracks, Grab PROVE TypeOK'
  OBVIOUS
<1>1. prev \in Picture /\ prev.on = region
  BY DEF TypeOK, SenderOK, Tracks
<1>2. /\ cur' \in Picture
      /\ \/ spc' = "send" /\ upd' \in Updates
         \/ spc' = "top" /\ upd' = upd
  BY <1>1, GrabFacts
<1>3. SenderOK'
  BY <1>2 DEF Grab, TypeOK, SenderOK
<1>4. ReaderOK'
  BY DEF Grab, TypeOK, ReaderOK, SenderOK
<1>5. DesktopOK'
  BY DEF Grab, TypeOK, DesktopOK
<1>6. ClientOK' /\ WireOK'
  BY DEF Grab, TypeOK, ClientOK, WireOK, client, wire
<1> QED
  BY <1>3, <1>4, <1>5, <1>6 DEF TypeOK

LEMMA SendTyping == TypeOK /\ Send => TypeOK'
<1> SUFFICES ASSUME TypeOK, Send PROVE TypeOK'
  OBVIOUS
<1>1. Frame(upd, fmt) \in ServerMsg
  BY DEF Send, Frame, ServerMsg, TypeOK, SenderOK, ReaderOK
<1>2. WireOK'
  BY <1>1, FlowAssumption DEF Send, TypeOK, WireOK, SenderOK
<1>3. SenderOK'
  BY DEF Send, TypeOK, SenderOK
<1>4. DesktopOK' /\ ClientOK' /\ ReaderOK'
  BY DEF Send, TypeOK, DesktopOK, ClientOK, ReaderOK, desktop, client, shared
<1> QED
  BY <1>2, <1>3, <1>4 DEF TypeOK

LEMMA SettleTyping == TypeOK /\ (SendFails \/ Settle) => TypeOK'
<1> SUFFICES ASSUME TypeOK, SendFails \/ Settle PROVE TypeOK'
  OBVIOUS
<1>1. SenderOK'
  BY DEF SendFails, Settle, TypeOK, SenderOK
<1>2. ReaderOK'
  BY DEF SendFails, Settle, TypeOK, ReaderOK
<1>3. DesktopOK' /\ ClientOK' /\ WireOK'
  BY DEF SendFails, Settle, TypeOK, DesktopOK, ClientOK, WireOK, desktop, client, wire
<1> QED
  BY <1>1, <1>2, <1>3 DEF TypeOK

----------------------------------------------------------------------------
(* The chain of pictures on their way.                                     *)

LEMMA WireUnchanged ==
  ASSUME UNCHANGED <<s2c, views, screen>>
  PROVE  Promised' = Promised /\ (Chain => Chain')
BY DEF Promised, Chain, Before

LEMMA WireAppends ==
  ASSUME TypeOK, Chain, NEW m \in ServerMsg, NEW v \in Picture,
         s2c' = Append(s2c, m), views' = Append(views, v), screen' = screen,
         \/ /\ m.type = "update"
            /\ v = Apply(Promised, m.parts)
            /\ FitsOn(Promised, m.parts)
         \/ m.type = "end" /\ v = Promised
  PROVE  Promised' = v /\ Chain'
<1>0. PICK n \in Nat : n = Len(s2c)
  BY DEF TypeOK, WireOK
<1>1. /\ n \in Nat /\ s2c \in Seq(ServerMsg) /\ views \in Seq(Picture) /\ Len(views) = n
      /\ DOMAIN s2c = 1 .. n
  BY <1>0 DEF TypeOK, WireOK
<1>2. /\ DOMAIN s2c' = 1 .. n + 1 /\ Len(views') = n + 1
      /\ s2c'[n + 1] = m /\ views'[n + 1] = v
      /\ \A i \in 1 .. n : s2c'[i] = s2c[i] /\ views'[i] = views[i]
  BY <1>1
<1>3. Promised' = v
  <2>1. s2c' # <<>>
    BY <1>1, <1>2
  <2> QED
    BY <1>2, <2>1 DEF Promised
<1>4. \A i \in 1 .. n : Before(i)' = Before(i)
  BY <1>1, <1>2 DEF Before
<1>5. Before(n + 1)' = Promised
  <2>1. CASE n = 0
    <3>1. s2c = <<>> /\ n + 1 = 1
      BY <1>0, <1>1, <2>1
    <3> QED
      BY <3>1 DEF Before, Promised
  <2>2. CASE n # 0
    <3>1. s2c # <<>> /\ n \in 1 .. n /\ n + 1 # 1 /\ (n + 1) - 1 = n
      BY <1>1, <2>2
    <3>2. Promised = views[n]
      BY <1>1, <3>1 DEF Promised
    <3>3. Before(n + 1)' = views'[n]
      BY <3>1 DEF Before
    <3> QED
      BY <1>2, <3>1, <3>2, <3>3
  <2> QED
    BY <2>1, <2>2
<1>6. ASSUME NEW i \in 1 .. n + 1
      PROVE  \/ /\ s2c'[i].type = "update"
                /\ views'[i] = Apply(Before(i)', s2c'[i].parts)
                /\ FitsOn(Before(i)', s2c'[i].parts)
             \/ /\ s2c'[i].type = "end"
                /\ views'[i] = Before(i)'
  <2>1. CASE i \in 1 .. n
    <3>1. s2c'[i] = s2c[i] /\ views'[i] = views[i] /\ Before(i)' = Before(i)
      BY <1>2, <1>4, <2>1
    <3> QED
      BY <1>1, <2>1, <3>1 DEF Chain
  <2>2. CASE i = n + 1
    BY <1>2, <1>5, <2>2
  <2> QED
    BY <1>1, <2>1, <2>2
<1>7. Chain'
  BY <1>2, <1>6 DEF Chain, Apply, FitsOn
<1> QED
  BY <1>3, <1>7

LEMMA WireReceives ==
  ASSUME TypeOK, Chain, s2c # <<>>,
         s2c' = Tail(s2c), views' = Tail(views), screen' = views[1]
  PROVE  Promised' = Promised /\ Chain'
<1>0. PICK n \in Nat : n = Len(s2c)
  BY DEF TypeOK, WireOK
<1>1. /\ n \in Nat \ {0} /\ s2c \in Seq(ServerMsg) /\ views \in Seq(Picture)
      /\ Len(views) = n /\ DOMAIN s2c = 1 .. n /\ views # <<>> /\ Len(s2c) = n
  BY <1>0 DEF TypeOK, WireOK
<1>2. /\ DOMAIN s2c' = 1 .. n - 1 /\ Len(views') = n - 1 /\ Len(s2c') = n - 1
      /\ \A i \in 1 .. n - 1 : s2c'[i] = s2c[i + 1] /\ views'[i] = views[i + 1]
  BY <1>1
<1>3. Promised' = Promised
  <2>1. CASE n = 1
    BY <1>1, <1>2, <2>1 DEF Promised
  <2>2. CASE n # 1
    <3>1. s2c' # <<>> /\ n - 1 \in 1 .. n - 1 /\ (n - 1) + 1 = n
      BY <1>1, <1>2, <2>2
    <3> QED
      BY <1>1, <1>2, <3>1 DEF Promised
  <2> QED
    BY <2>1, <2>2
<1>4. \A i \in 1 .. n - 1 : Before(i)' = Before(i + 1)
  <2> TAKE i \in 1 .. n - 1
  <2>1. CASE i = 1
    BY <2>1 DEF Before
  <2>2. CASE i # 1
    <3>1. i - 1 \in 1 .. n - 1 /\ (i - 1) + 1 = i /\ i + 1 # 1 /\ (i + 1) - 1 = i
      BY <1>1, <2>2
    <3> QED
      BY <1>2, <2>2, <3>1 DEF Before
  <2> QED
    BY <2>1, <2>2
<1>5. \A i \in 1 .. n - 1 : i + 1 \in DOMAIN s2c
  BY <1>1
<1>6. ASSUME NEW i \in 1 .. n - 1
      PROVE  \/ /\ s2c'[i].type = "update"
                /\ views'[i] = Apply(Before(i)', s2c'[i].parts)
                /\ FitsOn(Before(i)', s2c'[i].parts)
             \/ /\ s2c'[i].type = "end"
                /\ views'[i] = Before(i)'
  BY <1>2, <1>4, <1>5 DEF Chain
<1>7. Chain'
  BY <1>2, <1>6 DEF Chain, Apply, FitsOn
<1> QED
  BY <1>3, <1>7

----------------------------------------------------------------------------
(* The invariant is inductive: one lemma for the start, one for the steps  *)
(* that leave the pictures alone, one for each that does not.              *)

LEMMA InitInv == Init => IInv
<1> SUFFICES ASSUME Init PROVE IInv
  OBVIOUS
<1>1. /\ Primary \in Screens /\ Blank(Primary) \in Picture /\ Blank(Primary).on = Primary
      /\ 1 \in Value
  <2>1. Primary \in Screens /\ 1 \in Value
    BY FlowAssumption DEF Value
  <2> QED
    BY <2>1, BlankIsPicture
<1>2. c2s \in Seq(ClientMsg)
  <2>1. SetPixelFormat(0) \in ClientMsg /\ SetEncodings(NoPick) \in ClientMsg
    BY MessagesAreTyped
  <2> QED
    BY <2>1, ShortSequences DEF Init
<1>3. DesktopOK
  <2>1. \A s \in Screens : desk[s] = [t \in Tiles(s) |-> 1]
    BY DEF Init
  <2>2. \A s \in Screens : desk[s] \in [Tiles(s) -> Value]
    BY <1>1, <2>1
  <2> QED
    BY <1>1, <2>2, FlowAssumption DEF Init, DesktopOK
<1>4. WireOK
  BY <1>2, FlowAssumption DEF Init, WireOK
<1>5. ClientOK /\ ReaderOK /\ SenderOK
  <2>1. ClientOK
    BY <1>1, FlowAssumption DEF Init, ClientOK
  <2>2. ReaderOK
    BY DEF Init, ReaderOK
  <2>3. SenderOK
    BY <1>1 DEF Init, SenderOK
  <2> QED
    BY <2>1, <2>2, <2>3
<1>6. Chain /\ Tracks /\ FrameIsScreen
  BY <1>1 DEF Init, Chain, Tracks, Promised, FrameIsScreen
<1> QED
  BY <1>3, <1>4, <1>5, <1>6 DEF IInv, TypeOK

LEMMA TracksKept ==
  ASSUME Tracks, Promised' = Promised, UNCHANGED sender
  PROVE  Tracks'
BY DEF Tracks, sender, Apply, FitsOn

(* Steps of the desktop, the reader and the client that move no picture.   *)
LEMMA QuietStep ==
  ASSUME IInv,
         \/ Draw \/ Layout \/ Drop \/ Extra \/ Hello \/ ClientLeaves
         \/ Read \/ Ask \/ ReaderFails
  PROVE  IInv'
<1>1. TypeOK'
  BY DrawTyping, LayoutTyping, DropTyping, ExtraTyping, HelloTyping,
     ClientLeavesTyping, ReadTyping, AskTyping, ReaderFailsTyping DEF IInv
<1>2. UNCHANGED <<s2c, views, screen, frame>> /\ UNCHANGED sender
  BY DEF Draw, Layout, Drop, Extra, Hello, ClientLeaves, Read, Ask, ReaderFails, client, wire
<1>3. Promised' = Promised /\ Chain'
  BY <1>2, WireUnchanged DEF IInv
<1>4. Tracks'
  BY <1>2, <1>3, TracksKept DEF IInv
<1>5. FrameIsScreen'
  BY <1>2 DEF IInv, FrameIsScreen
<1> QED
  BY <1>1, <1>3, <1>4, <1>5 DEF IInv

LEMMA PumpStep == ASSUME IInv, Pump PROVE IInv'
<1>1. TypeOK /\ Chain /\ Tracks /\ frame = screen.px
  BY DEF IInv, FrameIsScreen
<1>2. /\ s2c # <<>> /\ s2c' = Tail(s2c) /\ views' = Tail(views) /\ screen' = views[1]
      /\ \/ Update(Head(s2c))
         \/ EndOfContinuous(Head(s2c)) /\ UNCHANGED <<screen, frame>>
  BY <1>1, PumpShows
<1>3. TypeOK'
  BY <1>1, PumpTyping
<1>4. Promised' = Promised /\ Chain'
  BY <1>1, <1>2, WireReceives
<1>5. Tracks'
  BY <1>1, <1>4, TracksKept DEF Pump
<1>6. FrameIsScreen'
  <2>1. CASE Update(Head(s2c))
    <3> DEFINE u == Head(s2c).parts
    <3>1. screen' = Apply(screen, u) /\ frame' = Publish(frame, screen', u)
      BY <2>1 DEF Update
    <3>2. screen \in Picture /\ screen' \in Picture
      BY <1>1, <1>3 DEF TypeOK, ClientOK
    <3>3. screen'.px = [t \in DOMAIN screen'.px |-> screen'.px[t]]
      BY <3>2, PictureFacts
    <3>4. CASE DOMAIN frame = DOMAIN screen'.px
      <4>1. \A t \in DOMAIN screen'.px : t \notin Touched(u) => screen'.px[t] = frame[t]
        <5> HIDE DEF u
        <5>1. u.resized => DOMAIN screen'.px = Tiles(u.on)
          BY <3>1 DEF Apply, Moved, Blank
        <5> QED
          BY <1>1, <3>1, <3>4, <5>1 DEF Apply, Moved, Touched
      <4>2. frame' = [t \in DOMAIN frame |-> IF t \in Touched(u) THEN screen'.px[t] ELSE frame[t]]
        BY <3>1, <3>4 DEF Publish
      <4> HIDE DEF u
      <4> QED
        BY <3>3, <3>4, <4>1, <4>2 DEF FrameIsScreen
    <3>5. CASE DOMAIN frame # DOMAIN screen'.px
      BY <3>1, <3>5 DEF Publish, FrameIsScreen
    <3> QED
      BY <3>4, <3>5
  <2>2. CASE UNCHANGED <<screen, frame>>
    BY <1>1, <2>2 DEF FrameIsScreen
  <2> QED
    BY <1>2, <2>1, <2>2
<1> QED
  BY <1>3, <1>4, <1>5, <1>6 DEF IInv

LEMMA WriteEndStep == ASSUME IInv, WriteEnd PROVE IInv'
<1>1. TypeOK /\ Chain /\ Tracks
  BY DEF IInv
<1>2. End(rpc) \in ServerMsg /\ End(rpc).type = "end" /\ Promised \in Picture
  BY <1>1, PromisedIsPicture DEF WriteEnd, End, ServerMsg
<1>3. /\ s2c' = Append(s2c, End(rpc)) /\ views' = Append(views, Promised)
      /\ UNCHANGED <<screen, frame>> /\ UNCHANGED sender
  BY DEF WriteEnd, client
<1>4. Promised' = Promised /\ Chain'
  BY <1>1, <1>2, <1>3, WireAppends
<1>5. Tracks'
  BY <1>1, <1>3, <1>4, TracksKept
<1> QED
  BY <1>1, <1>3, <1>4, <1>5, WriteEndTyping DEF IInv, FrameIsScreen

(* Steps of the sender that put nothing on the wire.                       *)
LEMMA SenderStays ==
  ASSUME IInv, Top \/ Consume \/ WaitEnds \/ Look \/ Grab \/ SendFails \/ Settle
  PROVE  IInv'
<1>1. TypeOK /\ Chain /\ Tracks /\ FrameIsScreen
  BY DEF IInv
<1>2. UNCHANGED <<s2c, views, screen, frame>>
  BY DEF Top, Consume, WaitEnds, Look, Grab, SendFails, Settle, client, wire
<1>3. Promised' = Promised /\ Chain'
  BY <1>1, <1>2, WireUnchanged
<1>4. FrameIsScreen'
  BY <1>1, <1>2 DEF FrameIsScreen
<1>5. TypeOK'
  BY <1>1, WaitTyping, LookTyping, GrabTyping, SettleTyping
<1>6. CASE Top
  <2>1. Tracks'
    BY <1>1, <1>3, <1>6 DEF Tracks, Top
  <2> QED
    BY <1>3, <1>4, <1>5, <2>1 DEF IInv
<1>7. CASE Consume
  <2>1. Tracks'
    BY <1>1, <1>3, <1>7 DEF Tracks, Consume
  <2> QED
    BY <1>3, <1>4, <1>5, <2>1 DEF IInv
<1>8. CASE WaitEnds
  <2>1. Tracks'
    BY <1>1, <1>3, <1>8 DEF Tracks, WaitEnds
  <2> QED
    BY <1>3, <1>4, <1>5, <2>1 DEF IInv
<1>9. CASE Look
  <2>1. Region(pick) \in Screens /\ Blank(Region(pick)).on = Region(pick)
    BY <1>1, RegionIsScreen, BlankIsPicture
  <2>2. Tracks'
    BY <1>1, <1>3, <1>9, <2>1 DEF Tracks, Look
  <2> QED
    BY <1>3, <1>4, <1>5, <2>2 DEF IInv
<1>10. CASE Grab
  <2>1. /\ Promised \in Picture /\ prev.on = region /\ spc = "grab"
        /\ (resized \/ Promised = prev)
    BY <1>1, <1>10, PromisedIsPicture DEF Tracks, Grab
  <2>2. /\ cur'.on = region
        /\ \/ /\ spc' = "send"
              /\ Apply(Promised, upd') = cur' /\ FitsOn(Promised, upd')
           \/ spc' = "top" /\ ~resized
    BY <1>1, <1>10, <2>1, GrabFacts
  <2>3. UNCHANGED <<region, prev, resized>>
    BY <1>10 DEF Grab
  <2>4. Apply(Promised', upd') = cur' \/ spc' = "top"
    BY <1>3, <2>2
  <2>5. FitsOn(Promised', upd') \/ spc' = "top"
    BY <1>3, <2>2
  <2>6. Tracks'
    BY <1>3, <2>1, <2>2, <2>3, <2>4, <2>5 DEF Tracks, Apply, FitsOn
  <2> QED
    BY <1>3, <1>4, <1>5, <2>6 DEF IInv
<1>11. CASE SendFails
  <2>1. Tracks'
    BY <1>1, <1>3, <1>11 DEF Tracks, SendFails
  <2> QED
    BY <1>3, <1>4, <1>5, <2>1 DEF IInv
<1>12. CASE Settle
  <2>1. Tracks'
    BY <1>1, <1>3, <1>12 DEF Tracks, Settle
  <2> QED
    BY <1>3, <1>4, <1>5, <2>1 DEF IInv
<1> QED
  BY <1>3, <1>4, <1>5, <1>6, <1>7, <1>8, <1>9, <1>10, <1>11, <1>12 DEF IInv

LEMMA SendStep == ASSUME IInv, Send PROVE IInv'
<1>1. TypeOK /\ Chain /\ Tracks /\ FrameIsScreen /\ spc = "send"
  BY DEF IInv, Send
<1>2. /\ Apply(Promised, upd) = cur /\ FitsOn(Promised, upd)
      /\ prev.on = region /\ cur.on = region
  BY <1>1 DEF Tracks
<1>3. /\ cur \in Picture /\ Frame(upd, fmt) \in ServerMsg
      /\ Frame(upd, fmt).type = "update" /\ Frame(upd, fmt).parts = upd
  BY <1>1 DEF Frame, ServerMsg, TypeOK, SenderOK, ReaderOK
<1>4. /\ s2c' = Append(s2c, Frame(upd, fmt)) /\ views' = Append(views, cur)
      /\ UNCHANGED <<screen, frame, region, prev, cur>> /\ spc' = "settle"
  BY DEF Send, client
<1>5. Promised' = cur /\ Chain'
  BY <1>1, <1>2, <1>3, <1>4, WireAppends
<1>6. Tracks'
  BY <1>2, <1>4, <1>5 DEF Tracks
<1> QED
  BY <1>1, <1>4, <1>5, <1>6, SendTyping DEF IInv, FrameIsScreen

LEMMA NextInv == IInv /\ [Next]_vars => IInv'
<1> SUFFICES ASSUME IInv, [Next]_vars PROVE IInv'
  OBVIOUS
<1>1. CASE ClientStep
  BY <1>1, QuietStep, PumpStep DEF ClientStep
<1>2. CASE ReaderStep
  BY <1>2, QuietStep, WriteEndStep DEF ReaderStep
<1>3. CASE SenderStep
  BY <1>3, SenderStays, SendStep DEF SenderStep
<1>4. CASE Environment
  BY <1>4, QuietStep DEF Environment
<1>5. CASE UNCHANGED vars
  <2>1. /\ UNCHANGED <<desktop, client, wire, shared, sender, rpc>>
        /\ UNCHANGED <<s2c, views, screen, frame>>
    BY <1>5 DEF vars, wire, client
  <2>2. DesktopOK' /\ ClientOK'
    BY <2>1 DEF desktop, client, IInv, TypeOK, DesktopOK, ClientOK
  <2>3. WireOK' /\ ReaderOK'
    BY <2>1 DEF wire, shared, IInv, TypeOK, WireOK, ReaderOK
  <2>4. SenderOK'
    BY <2>1 DEF sender, IInv, TypeOK, SenderOK
  <2>5. Promised' = Promised /\ Chain'
    BY <2>1, WireUnchanged DEF IInv
  <2>6. Tracks'
    BY <2>1, <2>5, TracksKept DEF IInv
  <2>7. FrameIsScreen'
    BY <2>1 DEF IInv, FrameIsScreen
  <2> QED
    BY <2>2, <2>3, <2>4, <2>5, <2>6, <2>7 DEF IInv, TypeOK
<1> QED
  BY <1>1, <1>2, <1>3, <1>4, <1>5 DEF Next

LEMMA Invariance == Spec => []IInv
BY InitInv, NextInv, PTL DEF Spec

----------------------------------------------------------------------------
(* The results.                                                            *)

(* The state of a session keeps its types: queues of well-formed messages  *)
(* no longer than the connection buffers, whole pictures on both sides.    *)
THEOREM Typing == Spec => []TypeOK
<1>1. IInv => TypeOK
  BY DEF IInv
<1> QED
  BY <1>1, Invariance, PTL

(* Client and server never disagree about what the client has: once every  *)
(* message is decoded the screen is the picture send_frames diffs against, *)
(* or the next update replaces all of it.                                  *)
THEOREM Synchronised == Spec => []InSync
<1>1. IInv => InSync
  <2> SUFFICES ASSUME IInv, s2c = <<>>
               PROVE  \/ spc = "settle" /\ screen = cur
                      \/ spc \in {"grab", "send", "done"} /\ resized
                      \/ spc # "settle" /\ screen = prev
    BY DEF InSync
  <2>1. Promised = screen
    BY DEF Promised
  <2> QED
    BY <2>1 DEF IInv, Tracks
<1> QED
  BY <1>1, Invariance, PTL

(* No update names a tile outside the framebuffer it finds at the client,  *)
(* whatever was resized or picked while it was on its way: the bounds      *)
(* checks of Decoder never end a session with our own server.              *)
THEOREM AlwaysDecodable == Spec => []Decodable
<1>1. IInv => Decodable
  <2> SUFFICES ASSUME IInv, s2c # <<>>, Head(s2c).type = "update"
               PROVE  FitsOn(screen, Head(s2c).parts)
    BY DEF Decodable
  <2>1. 1 \in DOMAIN s2c /\ Head(s2c) = s2c[1]
    BY DEF IInv, TypeOK, WireOK
  <2> QED
    BY <2>1 DEF IInv, Chain, Before
<1> QED
  BY <1>1, Invariance, PTL

(* The window's copy, of which session refreshes only the touched regions, *)
(* is the client's screen.                                                 *)
THEOREM WindowIsScreen == Spec => []FrameIsScreen
<1>1. IInv => FrameIsScreen
  BY DEF IInv
<1> QED
  BY <1>1, Invariance, PTL

----------------------------------------------------------------------------
(* A session implements Mirror.                                            *)

Taken == {views[i] : i \in DOMAIN views} \cup (IF spc = "send" THEN {cur} ELSE {})

LEMMA MirrorInit == Init => Mirrored!Init
<1> SUFFICES ASSUME Init PROVE Mirrored!Init
  OBVIOUS
<1>1. Primary \in Screens
  BY FlowAssumption
<1>2. DOMAIN desk[Primary] = Tiles(Primary)
  BY <1>1 DEF Init
<1>3. screen = [on |-> Primary, px |-> [t \in DOMAIN desk[Primary] |-> 0]]
  BY <1>2 DEF Init, Blank
<1>4. views = <<>> /\ spc # "send"
  BY DEF Init
<1>5. {views[i] : i \in DOMAIN views} = {}
  BY <1>4
<1> QED
  BY <1>1, <1>3, <1>4, <1>5 DEF Mirrored!Init

LEMMA MirrorStep == IInv /\ [Next]_vars => [Mirrored!Next]_<<desk, Taken, screen>>
<1> SUFFICES ASSUME IInv, [Next]_vars PROVE [Mirrored!Next]_<<desk, Taken, screen>>
  OBVIOUS
<1> USE DEF Mirrored!Next
<1>0. TypeOK /\ Chain /\ Tracks
  BY DEF IInv
<1>1. CASE Draw
  <2>1. UNCHANGED <<views, screen, spc, cur>>
    BY <1>1 DEF Draw, client, wire, sender
  <2> QED
    BY <2>1 DEF Mirrored!Draw, Taken
<1>2. CASE Pump
  <2>1. /\ s2c # <<>> /\ views' = Tail(views) /\ screen' = views[1]
        /\ UNCHANGED <<desk, spc, cur>>
    BY <1>0, <1>2, PumpShows DEF Pump, desktop, sender
  <2>2. 1 \in DOMAIN views /\ views \in Seq(Picture)
    BY <1>0, <2>1 DEF TypeOK, WireOK
  <2>3. {views'[i] : i \in DOMAIN views'} \subseteq {views[i] : i \in DOMAIN views}
    <3>1. \A i \in DOMAIN views' : i + 1 \in DOMAIN views /\ views'[i] = views[i + 1]
      BY <2>1, <2>2
    <3> QED
      BY <3>1
  <2>4. screen' \in Taken /\ Taken' \subseteq Taken
    BY <2>1, <2>2, <2>3 DEF Taken
  <2> QED
    BY <2>1, <2>4 DEF Mirrored!Show, Taken
<1>3. CASE WriteEnd
  <2>1. views' = Append(views, Promised) /\ UNCHANGED <<desk, screen, spc, cur>>
    BY <1>3 DEF WriteEnd, desktop, client, sender
  <2>2. Promised \in {screen} \cup {views[i] : i \in DOMAIN views}
    BY <1>0 DEF Promised, TypeOK, WireOK
  <2>3. {views'[i] : i \in DOMAIN views'} \subseteq {views[i] : i \in DOMAIN views} \cup {Promised}
    BY <1>0, <2>1 DEF TypeOK, WireOK
  <2>4. Taken' \subseteq Taken \cup {screen}
    BY <2>1, <2>2, <2>3 DEF Taken
  <2> QED
    BY <2>1, <2>4 DEF Mirrored!Take, Taken
<1>4. CASE Send
  <2>1. /\ views' = Append(views, cur) /\ spc = "send"
        /\ UNCHANGED <<desk, screen, cur>> /\ spc' = "settle"
    BY <1>4 DEF Send, desktop, client
  <2>2. {views'[i] : i \in DOMAIN views'} \subseteq {views[i] : i \in DOMAIN views} \cup {cur}
    BY <1>0, <2>1 DEF TypeOK, WireOK
  <2>3. Taken' \subseteq Taken
    BY <2>1, <2>2 DEF Taken
  <2> QED
    BY <2>1, <2>3 DEF Mirrored!Take, Taken
<1>5. CASE Grab
  <2>1. cur' = Shot(region) /\ region \in Screens /\ UNCHANGED <<desk, screen, views>>
    BY <1>0, <1>5 DEF Grab, client, wire, TypeOK, SenderOK
  <2>2. cur' \in Mirrored!Shots
    BY <2>1 DEF Mirrored!Shots, Shot
  <2>3. spc = "grab"
    BY <1>5 DEF Grab
  <2>4. Taken' \subseteq Taken \cup {cur'}
    BY <2>1, <2>3 DEF Taken
  <2> QED
    BY <2>1, <2>2, <2>4 DEF Mirrored!Take, Taken
<1>6. CASE \/ Layout \/ Drop \/ Extra \/ Hello \/ ClientLeaves \/ Read \/ Ask \/ ReaderFails
           \/ Top \/ Consume \/ WaitEnds \/ Look \/ SendFails \/ Settle
  <2>1. UNCHANGED <<desk, screen, views>>
    BY <1>6 DEF Layout, Drop, Extra, Hello, ClientLeaves, Read, Ask, ReaderFails, Top, Consume,
       WaitEnds, Look, SendFails, Settle, desktop, client, wire
  <2>2. spc' # "send" \/ UNCHANGED <<spc, cur>>
    BY <1>6 DEF Layout, Drop, Extra, Hello, ClientLeaves, Read, Ask, ReaderFails, Top, Consume,
       WaitEnds, Look, SendFails, Settle, sender
  <2>3. Taken' \subseteq Taken
    BY <2>1, <2>2 DEF Taken
  <2> QED
    BY <2>1, <2>3 DEF Mirrored!Take, Taken
<1>7. CASE UNCHANGED vars
  BY <1>7 DEF vars, desktop, client, wire, sender, Taken
<1> QED
  BY <1>1, <1>2, <1>3, <1>4, <1>5, <1>6, <1>7
     DEF Next, ClientStep, ReaderStep, SenderStep, Environment

(* The detailed session implements the abstract one: whatever interleaving *)
(* of threads, messages and switches, the client goes from one picture a   *)
(* shared region really had to another such picture.                       *)
THEOREM Implements == Spec => MirrorsDesktop
BY MirrorInit, MirrorStep, Invariance, PTL DEF Spec, MirrorsDesktop, Mirrored!Spec, Taken

----------------------------------------------------------------------------
(* Who pays for the pictures: requests while continuous updates are off,   *)
(* and what may still come once they were turned off again.                *)

(* A session of requests only: VNC_NO_CONTINUOUS at our client, or a       *)
(* client that does not list the pseudo-encoding.                          *)
RequestsOnly == ~Continuous \/ "continuous" \notin Asks

(* In it nothing turns continuous updates on.                              *)
Prompted ==
  /\ ccont = "off" /\ ~continuous /\ ~cont /\ rpc # "reply"
  /\ \A i \in DOMAIN c2s : /\ c2s[i].type # "continuous"
                           /\ c2s[i].type = "encodings" => c2s[i].encs = Asks
  /\ "continuous" \notin Asks => /\ rpc \notin {"announce", "offer"}
                                 /\ \A i \in DOMAIN s2c : s2c[i].type # "end"

(* What the client is still going to ask for unprompted.                   *)
ToCome == IF cpc = "hello" THEN (IF Pipeline THEN 1 ELSE 2) ELSE 0
Paid == /\ Tokens + ToCome <= (IF Pipeline THEN 2 ELSE 3) + extras
        /\ alive /\ linked => Tokens >= 1

RInv == TypeOK /\ Prompted /\ Paid
----------------------------------------------------------------------------
(* A client enables continuous updates once and disables them once.        *)
Switched(q) == {i \in DOMAIN q : q[i].type = "continuous"}
OnceIn(c, q) ==
  /\ \A i, j \in Switched(q) : i < j => q[i].on /\ ~q[j].on
  /\ c = "off" => Switched(q) = {}
  /\ c = "on" => \A i \in Switched(q) : q[i].on
Once == OnceIn(ccont, c2s)

(* Once the reader has read that, nothing turns them on again.             *)
IsReply(m) == m.type = "end" /\ m.why = "reply"
Replied(q) == \E i \in DOMAIN q : IsReply(q[i])
Disabled == rpc = "reply" \/ ccont = "stopped" \/ Replied(s2c)
Final == Disabled => ~continuous /\ ccont \in {"stopping", "stopped"} /\ Switched(c2s) = {}

(* The sender's copy of the flag outlives its picture by nothing, and its  *)
(* picture says what the copy said.                                        *)
Fresh == /\ spc = "wait" => ~cont
         /\ spc = "send" => upd.free = cont

LInv == TypeOK /\ Once /\ Final /\ Fresh /\ OneLateFrame
----------------------------------------------------------------------------
(* Counting messages.                                                      *)

LEMMA SubsetCard ==
  ASSUME NEW n \in Nat, NEW A \in SUBSET (1 .. n)
  PROVE  IsFiniteSet(A) /\ Cardinality(A) \in Nat
<1>1. IsFiniteSet(1 .. n)
  BY FS_Interval
<1>2. IsFiniteSet(A)
  BY <1>1, FS_Subset
<1> QED
  BY <1>2, FS_CardinalityType

(* Places counted in a queue that loses its first element.                 *)
LEMMA ShiftedCard ==
  ASSUME NEW n \in Nat, NEW A \in SUBSET (1 .. n + 1), NEW B \in SUBSET (1 .. n),
         \A j \in 1 .. n : j \in B <=> j + 1 \in A
  PROVE  Cardinality(A) = Cardinality(B) + One(1 \in A)
<1>1. IsFiniteSet(A) /\ IsFiniteSet(B) /\ Cardinality(A) \in Nat /\ Cardinality(B) \in Nat
  BY SubsetCard
<1> DEFINE f == [j \in B |-> j + 1]
<1>2. f \in [B -> A \ {1}]
  OBVIOUS
<1>3. ASSUME NEW i \in B, NEW j \in B, f[i] = f[j] PROVE i = j
  BY <1>3
<1>4. ASSUME NEW k \in A \ {1} PROVE \E j \in B : f[j] = k
  <2>1. k - 1 \in 1 .. n /\ (k - 1) + 1 = k
    OBVIOUS
  <2>2. k - 1 \in B
    BY <2>1
  <2> QED
    BY <2>1, <2>2
<1>5. f \in Bijection(B, A \ {1})
  BY <1>2, <1>3, <1>4 DEF Bijection, Injection, Surjection, IsInjective
<1>6. Cardinality(A \ {1}) = Cardinality(B)
  BY <1>1, <1>5, FS_Bijection DEF ExistsBijection
<1>7. Cardinality(A \ {1}) = IF 1 \in A THEN Cardinality(A) - 1 ELSE Cardinality(A)
  BY <1>1, FS_RemoveElement
<1> QED
  BY <1>1, <1>6, <1>7 DEF One

LEMMA CountAppended ==
  ASSUME NEW S, NEW q \in Seq(S), NEW m, NEW T
  PROVE  /\ Count(q, T) \in Nat
         /\ Count(Append(q, m), T) = Count(q, T) + One(m.type \in T)
<1> DEFINE n == Len(q)
           A == {i \in 1 .. n : q[i].type \in T}
           p == Append(q, m)
           B == {i \in 1 .. n + 1 : p[i].type \in T}
<1>1. n \in Nat /\ DOMAIN q = 1 .. n
  OBVIOUS
<1>2. DOMAIN p = 1 .. n + 1 /\ p[n + 1] = m /\ \A i \in 1 .. n : p[i] = q[i]
  OBVIOUS
<1>3. Count(q, T) = Cardinality(A) /\ Count(p, T) = Cardinality(B)
  BY <1>1, <1>2 DEF Count
<1>4. B = IF m.type \in T THEN A \cup {n + 1} ELSE A
  <2>1. \A i \in 1 .. n + 1 : i \in 1 .. n \/ i = n + 1
    BY <1>1
  <2> HIDE DEF p, n
  <2> QED
    BY <1>1, <1>2, <2>1
<1> HIDE DEF p, n
<1>5. IsFiniteSet(A) /\ Cardinality(A) \in Nat /\ n + 1 \notin A
  <2>1. A \in SUBSET (1 .. n) /\ n \in Nat /\ n + 1 \notin A
    BY <1>1
  <2> HIDE DEF A
  <2> QED
    BY <2>1, SubsetCard
<1> HIDE DEF A, B
<1>6. Cardinality(A \cup {n + 1}) = Cardinality(A) + 1
  BY <1>5, FS_AddElement
<1>7. Cardinality(B) = Cardinality(A) + One(m.type \in T)
  <2>1. CASE m.type \in T
    BY <1>4, <1>6, <2>1 DEF One
  <2>2. CASE m.type \notin T
    BY <1>4, <1>5, <2>2 DEF One
  <2> QED
    BY <2>1, <2>2
<1> QED
  BY <1>3, <1>5, <1>7 DEF p

LEMMA CountReceived ==
  ASSUME NEW S, NEW q \in Seq(S), q # <<>>, NEW T
  PROVE  Count(q, T) = Count(Tail(q), T) + One(Head(q).type \in T)
<1> DEFINE n == Len(q) - 1
           p == Tail(q)
           A == {i \in 1 .. n + 1 : q[i].type \in T}
           B == {i \in 1 .. n : p[i].type \in T}
<1>1. /\ n \in Nat /\ DOMAIN q = 1 .. n + 1 /\ DOMAIN p = 1 .. n
      /\ Head(q) = q[1] /\ \A i \in 1 .. n : p[i] = q[i + 1]
  OBVIOUS
<1> HIDE DEF n, p
<1>2. Count(q, T) = Cardinality(A) /\ Count(p, T) = Cardinality(B)
  BY <1>1 DEF Count
<1>3. Cardinality(A) = Cardinality(B) + One(1 \in A)
  <2>1. A \in SUBSET (1 .. n + 1) /\ B \in SUBSET (1 .. n)
        /\ \A j \in 1 .. n : j \in B <=> j + 1 \in A
    BY <1>1
  <2> HIDE DEF A, B
  <2> QED
    BY <1>1, <2>1, ShiftedCard
<1>4. 1 \in A <=> Head(q).type \in T
  BY <1>1
<1> QED
  BY <1>2, <1>3, <1>4 DEF One, p

(* The pictures nobody asked for that are in a queue after place i.        *)
IsFree(m) == m.type = "update" /\ m.parts.free
Late(q, i) == {j \in DOMAIN q : j > i /\ IsFree(q[j])}

LEMMA FreeIsLate ==
  \A i : FreeAfter(i) = Cardinality(Late(s2c, i)) /\ FreeAfter(i)' = Cardinality(Late(s2c', i))
BY DEF FreeAfter, Late, IsFree

LEMMA LateFacts ==
  ASSUME NEW S, NEW q \in Seq(S), NEW i \in Nat
  PROVE  /\ Late(q, i) \in SUBSET (1 .. Len(q)) /\ IsFiniteSet(Late(q, i))
         /\ Cardinality(Late(q, i)) \in Nat
         /\ i >= Len(q) => Cardinality(Late(q, i)) = 0
         /\ Cardinality(Late(q, i + 1)) <= Cardinality(Late(q, i))
<1>1. Len(q) \in Nat /\ DOMAIN q = 1 .. Len(q)
  OBVIOUS
<1>2. Late(q, i) \in SUBSET (1 .. Len(q)) /\ Late(q, i + 1) \in SUBSET Late(q, i)
  BY <1>1 DEF Late
<1>3. IsFiniteSet(Late(q, i)) /\ Cardinality(Late(q, i)) \in Nat
  BY <1>1, <1>2, SubsetCard
<1>4. i >= Len(q) => Late(q, i) = {}
  BY <1>1 DEF Late
<1> QED
  BY <1>2, <1>3, <1>4, FS_EmptySet, FS_Subset

LEMMA LateAppended ==
  ASSUME NEW S, NEW q \in Seq(S), NEW m, NEW i \in 0 .. Len(q)
  PROVE  Cardinality(Late(Append(q, m), i)) = Cardinality(Late(q, i)) + One(IsFree(m))
<1> DEFINE n == Len(q)
           p == Append(q, m)
<1>1. /\ n \in Nat /\ DOMAIN q = 1 .. n /\ i \in 0 .. n
      /\ DOMAIN p = 1 .. n + 1 /\ p[n + 1] = m /\ \A j \in 1 .. n : p[j] = q[j]
  OBVIOUS
<1>2. Late(q, i) \in SUBSET (1 .. n) /\ IsFiniteSet(Late(q, i)) /\ Cardinality(Late(q, i)) \in Nat
  BY <1>1, LateFacts
<1> HIDE DEF n, p
<1>3. Late(p, i) = IF IsFree(m) THEN Late(q, i) \cup {n + 1} ELSE Late(q, i)
  <2>1. \A j \in 1 .. n + 1 : j \in 1 .. n \/ j = n + 1
    BY <1>1
  <2> QED
    BY <1>1, <2>1 DEF Late
<1>4. n + 1 \notin Late(q, i)
  BY <1>1, <1>2
<1>5. Cardinality(Late(q, i) \cup {n + 1}) = Cardinality(Late(q, i)) + 1
  BY <1>2, <1>4, FS_AddElement
<1>6. CASE IsFree(m)
  BY <1>3, <1>5, <1>6 DEF One, p
<1>7. CASE ~IsFree(m)
  BY <1>2, <1>3, <1>7 DEF One, p
<1> QED
  BY <1>6, <1>7

LEMMA LateReceived ==
  ASSUME NEW S, NEW q \in Seq(S), q # <<>>, NEW i \in Nat
  PROVE  Cardinality(Late(Tail(q), i)) = Cardinality(Late(q, i + 1))
<1> DEFINE n == Len(q) - 1
           p == Tail(q)
<1>1. /\ n \in Nat /\ DOMAIN q = 1 .. n + 1 /\ DOMAIN p = 1 .. n
      /\ \A j \in 1 .. n : p[j] = q[j + 1]
  OBVIOUS
<1> HIDE DEF n, p
<1>2. Late(p, i) \in SUBSET (1 .. n) /\ Late(q, i + 1) \in SUBSET (1 .. n + 1)
      /\ \A j \in 1 .. n : j \in Late(p, i) <=> j + 1 \in Late(q, i + 1)
  BY <1>1 DEF Late
<1>3. 1 \notin Late(q, i + 1)
  BY DEF Late
<1>4. Cardinality(Late(q, i + 1)) = Cardinality(Late(p, i)) + One(1 \in Late(q, i + 1))
  BY <1>1, <1>2, ShiftedCard
<1>5. Cardinality(Late(p, i)) \in Nat
  BY <1>1, <1>2, SubsetCard
<1> QED
  BY <1>3, <1>4, <1>5 DEF One, p

----------------------------------------------------------------------------
(* Requests only: what a step does to the tokens.                          *)

Paying == {"request", "encodings"}

(* The five places a token can be.                                         *)
Owed == Count(c2s, Paying)
Coming == Count(s2c, {"update"})
Standing == One(wants)
Asking == One(rpc \in {"ask", "announce"})
Making == One(spc \in {"look", "grab", "send"})

LEMMA Account ==
  ASSUME TypeOK, TypeOK'
  PROVE  /\ Owed \in Nat /\ Coming \in Nat /\ Owed' \in Nat /\ Coming' \in Nat
         /\ Standing \in {0, 1} /\ Asking \in {0, 1} /\ Making \in {0, 1}
         /\ Standing' \in {0, 1} /\ Asking' \in {0, 1} /\ Making' \in {0, 1}
         /\ Tokens = Owed + Coming + Standing + Asking + Making
         /\ Tokens' = Owed' + Coming' + Standing' + Asking' + Making'
         /\ ToCome \in Nat /\ ToCome' \in Nat /\ extras \in Nat /\ extras' \in Nat
<1>1. Owed \in Nat /\ Owed' \in Nat
  BY CountAppended DEF TypeOK, WireOK, Owed
<1>2. Coming \in Nat /\ Coming' \in Nat
  BY CountAppended DEF TypeOK, WireOK, Coming
<1>3. /\ Standing \in {0, 1} /\ Asking \in {0, 1} /\ Making \in {0, 1}
      /\ Standing' \in {0, 1} /\ Asking' \in {0, 1} /\ Making' \in {0, 1}
  BY DEF Standing, Asking, Making, One
<1>4. /\ Tokens = Owed + Coming + Standing + Asking + Making
      /\ Tokens' = Owed' + Coming' + Standing' + Asking' + Making'
  BY DEF Tokens, Owed, Coming, Standing, Asking, Making, Paying
<1>5. ToCome \in Nat /\ ToCome' \in Nat
  BY DEF ToCome
<1>6. extras \in Nat /\ extras' \in Nat
  BY FlowAssumption DEF TypeOK, ClientOK
<1> QED
  BY <1>1, <1>2, <1>3, <1>4, <1>5, <1>6

LEMMA Amounts ==
  ASSUME TypeOK
  PROVE  Tokens \in Nat /\ ToCome \in Nat /\ extras \in Nat
<1>1. Owed \in Nat /\ Coming \in Nat
  BY CountAppended DEF TypeOK, WireOK, Owed, Coming
<1>2. Standing \in {0, 1} /\ Asking \in {0, 1} /\ Making \in {0, 1}
  BY DEF Standing, Asking, Making, One
<1>3. Tokens = Owed + Coming + Standing + Asking + Making
  BY DEF Tokens, Owed, Coming, Standing, Asking, Making, Paying
<1>4. ToCome \in Nat /\ extras \in Nat
  BY FlowAssumption DEF ToCome, TypeOK, ClientOK
<1> QED
  BY <1>1, <1>2, <1>3, <1>4

(* No step makes a token but the one an extra message brings, and a        *)
(* session that stays up stays with at least one.                          *)
Balanced ==
  /\ Tokens' + ToCome' + extras <= Tokens + ToCome + extras'
  /\ alive' /\ linked' => alive /\ linked /\ (Tokens' >= Tokens \/ Tokens' >= 1)

(* Where neither the queues nor the flags change nothing else can.         *)
LEMMA SameTokens ==
  ASSUME TypeOK, TypeOK', UNCHANGED <<c2s, s2c, wants, cpc, extras>>,
         Asking' = Asking, Making' = Making,
         alive' /\ linked' => alive /\ linked
  PROVE  Balanced
<1>1. Owed' = Owed /\ Coming' = Coming /\ Standing' = Standing /\ ToCome' = ToCome
  BY DEF Owed, Coming, Standing, ToCome
<1> QED
  BY <1>1, Account DEF Balanced

LEMMA DesktopBalanced ==
  ASSUME TypeOK, TypeOK', Draw \/ Layout \/ Drop \/ UNCHANGED vars
  PROVE  Balanced
<1>1. UNCHANGED <<client, c2s, s2c, wants, rpc, spc, alive>> /\ (linked' => linked)
  BY DEF Draw, Layout, Drop, vars, desktop, client, wire, shared, sender
<1>2. Asking' = Asking /\ Making' = Making
  BY <1>1 DEF Asking, Making
<1> QED
  BY <1>1, <1>2, SameTokens DEF client

(* What a message the client writes adds.                                  *)
LEMMA PaysForOne ==
  ASSUME NEW q \in Seq(ClientMsg), NEW m \in ClientMsg
  PROVE  /\ q \o <<m>> \in Seq(ClientMsg) /\ q \o <<m>> = Append(q, m)
         /\ Count(q \o <<m>>, Paying) = Count(q, Paying) + One(m.type \in Paying)
<1>1. q \o <<m>> = Append(q, m) /\ Append(q, m) \in Seq(ClientMsg)
  OBVIOUS
<1> QED
  BY <1>1, CountAppended

LEMMA AppendedTwo ==
  ASSUME NEW S, NEW q \in Seq(S)
  PROVE  \A m, n \in S : q \o <<m, n>> = Append(q \o <<m>>, n)
OBVIOUS

LEMMA PaysForTwo ==
  ASSUME NEW q \in Seq(ClientMsg), NEW m \in ClientMsg, NEW n \in ClientMsg,
         m.type \in Paying, n.type \in Paying
  PROVE  Count(q \o <<m, n>>, Paying) = Count(q, Paying) + 2
<1> DEFINE p == q \o <<m>>
           z == q \o <<m, n>>
<1>1. p \in Seq(ClientMsg) /\ Count(p, Paying) = Count(q, Paying) + 1
  BY PaysForOne DEF One
<1>2. z = Append(p, n)
  BY AppendedTwo
<1>3. Count(q, Paying) \in Nat
  BY CountAppended
<1> HIDE DEF p, z
<1>4. Count(Append(p, n), Paying) = Count(p, Paying) + 1
  BY <1>1, CountAppended DEF One
<1>5. Count(z, Paying) = Count(q, Paying) + 2
  BY <1>1, <1>2, <1>3, <1>4
<1> QED
  BY <1>5 DEF z

LEMMA MessageTypes ==
  /\ \A b \in BOOLEAN : Request(b).type \in Paying /\ Enable(b).type \notin Paying
  /\ \A s : SetEncodings(s).type \in Paying
  /\ \A f : SetPixelFormat(f).type \notin Paying
  /\ \A w : End(w).type \notin {"update"}
  /\ \A u, f : Frame(u, f).type \in {"update"}
BY DEF Request, Enable, SetEncodings, SetPixelFormat, End, Frame, Paying

LEMMA HelloBalanced ==
  ASSUME TypeOK, TypeOK', Hello
  PROVE  Balanced
<1>1. c2s \in Seq(ClientMsg) /\ Request(FALSE) \in ClientMsg /\ Request(TRUE) \in ClientMsg
  BY MessagesAreTyped DEF TypeOK, WireOK
<1>2. /\ UNCHANGED <<s2c, wants, rpc, spc, extras, alive, linked>> /\ cpc = "hello" /\ cpc' = "live"
      /\ c2s' = c2s \o (IF Pipeline THEN <<Request(FALSE)>> ELSE <<Request(FALSE), Request(TRUE)>>)
  BY DEF Hello, ClientSends, shared, sender
<1>3. Coming' = Coming /\ Standing' = Standing /\ Asking' = Asking /\ Making' = Making
  BY <1>2 DEF Coming, Standing, Asking, Making
<1>4. CASE Pipeline
  <2>1. Owed' = Owed + 1
    BY <1>1, <1>2, <1>4, PaysForOne, MessageTypes DEF Owed, One
  <2>2. ToCome = 1 /\ ToCome' = 0
    BY <1>2, <1>4 DEF ToCome
  <2> QED
    BY <1>2, <1>3, <2>1, <2>2, Account DEF Balanced
<1>5. CASE ~Pipeline
  <2>1. Owed' = Owed + 2
    BY <1>1, <1>2, <1>5, PaysForTwo, MessageTypes DEF Owed
  <2>2. ToCome = 2 /\ ToCome' = 0
    BY <1>2, <1>5 DEF ToCome
  <2> QED
    BY <1>2, <1>3, <2>1, <2>2, Account DEF Balanced
<1> QED
  BY <1>4, <1>5

LEMMA ExtraBalanced ==
  ASSUME TypeOK, TypeOK', Extra
  PROVE  Balanced
<1>1. PICK m \in ClientMsg : c2s' = c2s \o <<m>>
  BY MessagesAreTyped DEF Extra, ClientSends
<1>2. UNCHANGED <<s2c, wants, rpc, spc, cpc, alive, linked>> /\ extras' = extras + 1
  BY DEF Extra, shared, sender
<1>3. Coming' = Coming /\ Standing' = Standing /\ Asking' = Asking /\ Making' = Making
      /\ ToCome' = ToCome
  BY <1>2 DEF Coming, Standing, Asking, Making, ToCome
<1>4. Owed' = Owed + One(m.type \in Paying)
  BY <1>1, PaysForOne DEF Owed, TypeOK, WireOK
<1>5. Owed' = Owed \/ Owed' = Owed + 1
  BY <1>4, Account DEF One
<1> QED
  BY <1>2, <1>3, <1>5, Account DEF Balanced

(* An update is answered with one request; an end of continuous updates    *)
(* is neither expected nor answered.                                       *)
LEMMA PumpBalanced ==
  ASSUME TypeOK, TypeOK', RequestsOnly, Prompted, Pump
  PROVE  Balanced /\ ccont' = ccont /\ (c2s' = c2s \/ c2s' = c2s \o <<Request(TRUE)>>)
<1>1. /\ c2s \in Seq(ClientMsg) /\ Request(TRUE) \in ClientMsg
      /\ s2c \in Seq(ServerMsg) /\ s2c # <<>> /\ Head(s2c) = s2c[1] /\ 1 \in DOMAIN s2c
  <2>1. c2s \in Seq(ClientMsg) /\ Request(TRUE) \in ClientMsg
    BY MessagesAreTyped DEF TypeOK, WireOK
  <2>2. s2c \in Seq(ServerMsg) /\ s2c # <<>>
    BY DEF Pump, TypeOK, WireOK
  <2>3. Head(s2c) = s2c[1] /\ 1 \in DOMAIN s2c
    BY <2>2
  <2> QED
    BY <2>1, <2>2, <2>3
<1>2. UNCHANGED <<wants, rpc, spc, extras, cpc, alive, linked>> /\ s2c' = Tail(s2c)
  BY DEF Pump, Update, EndOfContinuous, Received, shared, sender
<1>3. Standing' = Standing /\ Asking' = Asking /\ Making' = Making /\ ToCome' = ToCome
  BY <1>2 DEF Standing, Asking, Making, ToCome
<1>4. Coming = Coming' + One(Head(s2c).type \in {"update"})
  BY <1>1, <1>2, CountReceived DEF Coming
<1>5. CASE Update(Head(s2c))
  <2>1. c2s' = c2s \o <<Request(TRUE)>> /\ Head(s2c).type = "update" /\ ccont' = ccont
    BY <1>5 DEF Update, ClientSends, NextRequest, Prompted
  <2>2. Owed' = Owed + 1
    BY <1>1, <2>1, PaysForOne, MessageTypes DEF Owed, One
  <2>3. Coming = Coming' + 1
    BY <1>4, <2>1 DEF One
  <2>4. Balanced
    <3>1. Tokens' = Tokens
      BY <1>3, <2>2, <2>3, Account
    <3> QED
      BY <1>2, <1>3, <3>1, Account DEF Balanced
  <2> QED
    BY <2>1, <2>4
<1>6. CASE EndOfContinuous(Head(s2c))
  <2>1. Head(s2c).type = "end" /\ ccont = "off"
    BY <1>6 DEF EndOfContinuous, Prompted
  <2>2. ~Continuous
    BY <1>1, <2>1 DEF RequestsOnly, Prompted
  <2>3. c2s' = c2s /\ ccont' = ccont
    BY <1>6, <2>1, <2>2 DEF EndOfContinuous
  <2>4. Coming = Coming'
    BY <1>4, <2>1, Account DEF One
  <2>5. Owed' = Owed
    BY <2>3 DEF Owed
  <2>6. Balanced
    <3>1. Tokens' = Tokens
      BY <1>3, <2>4, <2>5, Account
    <3> QED
      BY <1>2, <1>3, <3>1, Account DEF Balanced
  <2> QED
    BY <2>3, <2>6
<1> QED
  BY <1>5, <1>6 DEF Pump

LEMMA ClientLeavesBalanced ==
  ASSUME TypeOK, TypeOK', ClientLeaves
  PROVE  Balanced
<1>1. UNCHANGED <<c2s, s2c, wants, rpc, spc, extras, linked>> /\ ~linked /\ cpc' = "gone"
  BY DEF ClientLeaves, wire, shared, sender
<1>2. /\ Owed' = Owed /\ Coming' = Coming /\ Standing' = Standing
      /\ Asking' = Asking /\ Making' = Making /\ ToCome' = 0
  BY <1>1 DEF Owed, Coming, Standing, Asking, Making, ToCome
<1> QED
  BY <1>1, <1>2, Account DEF Balanced

LEMMA ReadBalanced ==
  ASSUME TypeOK, TypeOK', Read
  PROVE  Balanced
<1>1. c2s \in Seq(ClientMsg) /\ c2s # <<>> /\ rpc = "read" /\ c2s' = Tail(c2s)
  BY DEF Read, TypeOK, WireOK
<1>2. UNCHANGED <<wants, spc, extras, cpc, alive, linked, s2c>>
  BY DEF Read, ReadFormat, ReadEncodings, ReadRequest, ReadContinuous, client, sender
<1>3. Standing' = Standing /\ Making' = Making /\ ToCome' = ToCome /\ Coming' = Coming /\ Asking = 0
  BY <1>1, <1>2 DEF Standing, Asking, Making, ToCome, Coming, One
<1>4. Owed = Owed' + One(Head(c2s).type \in Paying)
  BY <1>1, CountReceived DEF Owed
<1>5. CASE ReadEncodings(Head(c2s)) \/ ReadRequest(Head(c2s))
  <2>1. Asking' = 1
    BY <1>5 DEF ReadEncodings, ReadRequest, Asking, One
  <2>2. Owed = Owed' + 1
    BY <1>4, <1>5 DEF ReadEncodings, ReadRequest, Paying, One
  <2> QED
    BY <1>2, <1>3, <2>1, <2>2, Account DEF Balanced
<1>6. CASE ReadFormat(Head(c2s)) \/ ReadContinuous(Head(c2s))
  <2>1. Asking' = 0
    BY <1>6 DEF ReadFormat, ReadContinuous, NextMessage, Asking, One
  <2>2. Owed = Owed'
    BY <1>4, <1>6, Account DEF ReadFormat, ReadContinuous, Paying, One
  <2> QED
    BY <1>2, <1>3, <2>1, <2>2, Account DEF Balanced
<1> QED
  BY <1>5, <1>6 DEF Read

LEMMA AskBalanced ==
  ASSUME TypeOK, TypeOK', Ask
  PROVE  Balanced
<1>1. UNCHANGED <<spc, extras, cpc, alive, linked, c2s, s2c>> /\ wants' = TRUE
  BY DEF Ask, Asked, client, sender, wire
<1>2. /\ Owed' = Owed /\ Making' = Making /\ ToCome' = ToCome /\ Coming' = Coming
  BY <1>1 DEF Owed, Making, ToCome, Coming
<1>3. Asking = 1 /\ Asking' = 0 /\ Standing' = 1
  BY <1>1 DEF Ask, NextMessage, Asking, Standing, One
<1> QED
  BY <1>1, <1>2, <1>3, Account DEF Balanced

LEMMA WriteEndBalanced ==
  ASSUME TypeOK, TypeOK', WriteEnd
  PROVE  Balanced
<1>1. UNCHANGED <<wants, spc, extras, cpc, alive, linked, c2s>> /\ s2c' = Append(s2c, End(rpc))
  BY DEF WriteEnd, client, sender, shared
<1>2. /\ Owed' = Owed /\ Making' = Making /\ ToCome' = ToCome /\ Standing' = Standing
  BY <1>1 DEF Owed, Making, ToCome, Standing
<1>3. Asking = 0 /\ Asking' = 0
  BY DEF WriteEnd, NextMessage, Asking, One
<1>4. Coming' = Coming + One(End(rpc).type \in {"update"})
  BY <1>1, CountAppended DEF Coming, TypeOK, WireOK
<1>5. Coming' = Coming
  BY <1>4, MessageTypes, Account DEF One
<1> QED
  BY <1>1, <1>2, <1>3, <1>5, Account DEF Balanced

LEMMA ReaderFailsBalanced ==
  ASSUME TypeOK, TypeOK', ReaderFails
  PROVE  Balanced
<1>1. UNCHANGED <<wants, spc, extras, cpc, linked, c2s, s2c>> /\ ~linked
  BY DEF ReaderFails, client, sender, wire
<1>2. Asking' = Asking /\ Making' = Making
  BY <1>1 DEF ReaderFails, Asking, Making, One
<1> QED
  BY <1>1, <1>2, SameTokens

(* The sender's loop: a request becomes a picture, and a picture a message *)
(* or, with nothing to send, a request again.                              *)
LEMMA WaitBalanced ==
  ASSUME TypeOK, TypeOK', Prompted, Top \/ WaitEnds \/ Settle
  PROVE  Balanced
<1>1. UNCHANGED <<wants, rpc, extras, cpc, linked, alive, c2s, s2c>>
  BY DEF Top, WaitEnds, Settle, client, wire, shared
<1>2. Asking' = Asking
  BY <1>1 DEF Asking
<1>3. Making' = Making
  BY DEF Top, WaitEnds, Settle, Making, One, Prompted
<1> QED
  BY <1>1, <1>2, <1>3, SameTokens

LEMMA ConsumeBalanced ==
  ASSUME TypeOK, TypeOK', Consume
  PROVE  Balanced
<1>1. UNCHANGED <<rpc, extras, cpc, linked, alive, c2s, s2c>>
  BY DEF Consume, client, wire
<1>2. Owed' = Owed /\ Asking' = Asking /\ ToCome' = ToCome /\ Coming' = Coming
  BY <1>1 DEF Owed, Asking, ToCome, Coming
<1>3. Standing = 1 /\ Standing' = 0 /\ Making = 0 /\ Making' = 1
  BY DEF Consume, Standing, Making, One
<1> QED
  BY <1>1, <1>2, <1>3, Account DEF Balanced

LEMMA MakeBalanced ==
  ASSUME TypeOK, TypeOK', Prompted, Look \/ Grab \/ SendFails
  PROVE  Balanced
<1>1. UNCHANGED <<rpc, extras, cpc, linked, c2s, s2c>>
  BY DEF Look, Grab, SendFails, client, wire
<1>4. alive' => alive
  <2>1. CASE Look
    BY <2>1 DEF Look
  <2>2. CASE Grab
    BY <2>2 DEF Grab
  <2>3. CASE SendFails
    BY <2>3 DEF SendFails
  <2> QED
    BY <2>1, <2>2, <2>3
<1>2. Owed' = Owed /\ Asking' = Asking /\ ToCome' = ToCome /\ Coming' = Coming /\ Making = 1
  BY <1>1 DEF Owed, Asking, ToCome, Coming, Look, Grab, SendFails, Making, One
<1>3. \/ Standing' = Standing /\ Making' = 1
      \/ Standing' = 1 /\ Making' = 0
      \/ Standing' = Standing /\ Making' = 0 /\ ~alive'
  <2>1. CASE Look
    BY <2>1 DEF Look, Standing, Making, One
  <2>2. CASE Grab
    <3>1. \/ spc' = "send" /\ wants' = wants
          \/ spc' = "top" /\ wants' = (wants \/ ~cont)
      BY <2>2 DEF Grab
    <3>2. ~cont
      BY DEF Prompted
    <3>3. CASE spc' = "send" /\ wants' = wants
      BY <3>3 DEF Standing, Making, One
    <3>4. CASE spc' = "top" /\ wants' = (wants \/ ~cont)
      BY <3>2, <3>4 DEF Standing, Making, One
    <3> QED
      BY <3>1, <3>3, <3>4
  <2>3. CASE SendFails
    BY <2>3 DEF SendFails, Standing, Making, One
  <2> QED
    BY <2>1, <2>2, <2>3
<1> QED
  BY <1>1, <1>2, <1>3, <1>4, Account DEF Balanced

LEMMA SendBalanced ==
  ASSUME TypeOK, TypeOK', Send
  PROVE  Balanced
<1>1. UNCHANGED <<wants, rpc, extras, cpc, linked, alive, c2s>> /\ s2c' = Append(s2c, Frame(upd, fmt))
  BY DEF Send, client, shared
<1>2. Owed' = Owed /\ Asking' = Asking /\ ToCome' = ToCome /\ Standing' = Standing
  BY <1>1 DEF Owed, Asking, ToCome, Standing
<1>3. Making = 1 /\ Making' = 0
  BY DEF Send, Making, One
<1>4. Coming' = Coming + One(Frame(upd, fmt).type \in {"update"})
  BY <1>1, CountAppended DEF Coming, TypeOK, WireOK
<1>5. Coming' = Coming + 1
  BY <1>4, MessageTypes DEF One
<1> QED
  BY <1>1, <1>2, <1>3, <1>5, Account DEF Balanced

LEMMA NextBalanced ==
  ASSUME TypeOK, TypeOK', RequestsOnly, Prompted, [Next]_vars
  PROVE  Balanced
BY DesktopBalanced, HelloBalanced, ExtraBalanced, PumpBalanced, ClientLeavesBalanced,
   ReadBalanced, AskBalanced, WriteEndBalanced, ReaderFailsBalanced, WaitBalanced,
   ConsumeBalanced, MakeBalanced, SendBalanced
   DEF Next, ClientStep, ReaderStep, SenderStep, Environment

----------------------------------------------------------------------------
(* Nothing turns continuous updates on.                                    *)

(* What the client adds to its queue in such a session.                    *)
Plain(m) == m.type # "continuous" /\ (m.type = "encodings" => m.encs = Asks)
AllPlain(q) == \A i \in DOMAIN q : Plain(q[i])
NoOffer(q) == \A i \in DOMAIN q : q[i].type # "end"

LEMMA Prompting ==
  /\ Prompted <=>
       /\ ccont = "off" /\ ~continuous /\ ~cont /\ rpc # "reply" /\ AllPlain(c2s)
       /\ "continuous" \notin Asks => rpc \notin {"announce", "offer"} /\ NoOffer(s2c)
  /\ Prompted' <=>
       /\ ccont' = "off" /\ ~continuous' /\ ~cont' /\ rpc' # "reply" /\ AllPlain(c2s')
       /\ "continuous" \notin Asks => rpc' \notin {"announce", "offer"} /\ NoOffer(s2c')
BY DEF Prompted, AllPlain, Plain, NoOffer

LEMMA PlainMessages ==
  /\ \A b \in BOOLEAN : Plain(Request(b))
  /\ \A s : Plain(SetEncodings(s))
  /\ \A f : Plain(SetPixelFormat(f))
BY DEF Plain, Request, SetEncodings, SetPixelFormat

LEMMA PlainQueues ==
  ASSUME NEW S, NEW q \in Seq(S), AllPlain(q)
  PROVE  /\ \A m : Plain(m) => AllPlain(q \o <<m>>)
         /\ \A m, n : Plain(m) /\ Plain(n) => AllPlain(q \o <<m, n>>)
         /\ q # <<>> => AllPlain(Tail(q)) /\ Plain(Head(q))
<1>1. ASSUME NEW m, Plain(m) PROVE AllPlain(q \o <<m>>)
  BY <1>1 DEF AllPlain
<1>2. ASSUME NEW m, NEW n, Plain(m), Plain(n) PROVE AllPlain(q \o <<m, n>>)
  BY <1>2 DEF AllPlain
<1>3. ASSUME q # <<>> PROVE AllPlain(Tail(q)) /\ Plain(Head(q))
  BY <1>3 DEF AllPlain
<1> QED
  BY <1>1, <1>2, <1>3

LEMMA OfferQueues ==
  ASSUME NEW S, NEW q \in Seq(S), NoOffer(q)
  PROVE  /\ \A m : m.type # "end" => NoOffer(Append(q, m))
         /\ q # <<>> => NoOffer(Tail(q))
BY DEF NoOffer

(* What the client does.                                                   *)
LEMMA ClientPrompted ==
  ASSUME TypeOK, TypeOK', RequestsOnly, Prompted, Hello \/ Extra \/ Pump \/ ClientLeaves
  PROVE  Prompted'
<1>1. c2s \in Seq(ClientMsg) /\ s2c \in Seq(ServerMsg)
  BY DEF TypeOK, WireOK
<1>2. UNCHANGED <<continuous, cont, rpc>>
  BY DEF Hello, Extra, Pump, ClientLeaves, shared, sender
<1>3. ccont' = "off" /\ AllPlain(c2s')
  <2>1. CASE Hello
    BY <1>1, <2>1, Prompting, PlainMessages, PlainQueues DEF Hello, ClientSends
  <2>2. CASE Extra
    BY <1>1, <2>2, Prompting, PlainMessages, PlainQueues DEF Extra, ClientSends
  <2>3. CASE Pump
    BY <1>1, <2>3, Prompting, PumpBalanced, PlainMessages, PlainQueues
  <2>4. CASE ClientLeaves
    BY <2>4, Prompting DEF ClientLeaves, wire
  <2> QED
    BY <2>1, <2>2, <2>3, <2>4
<1>4. s2c' = s2c \/ (s2c # <<>> /\ s2c' = Tail(s2c))
  BY DEF Hello, Extra, Pump, Update, EndOfContinuous, Received, ClientLeaves, wire
<1>5. NoOffer(s2c) => NoOffer(s2c')
  BY <1>1, <1>4, OfferQueues
<1> QED
  BY <1>2, <1>3, <1>5, Prompting

(* What the reader does.                                                   *)
LEMMA ReadPrompted ==
  ASSUME TypeOK, TypeOK', Prompted, Read
  PROVE  Prompted'
<1>1. c2s \in Seq(ClientMsg) /\ c2s # <<>> /\ c2s' = Tail(c2s)
  BY DEF Read, TypeOK, WireOK
<1>2. AllPlain(c2s') /\ Plain(Head(c2s))
  BY <1>1, Prompting, PlainQueues
<1>3. UNCHANGED <<ccont, cont, s2c>>
  BY DEF Read, client, sender
<1>4. continuous' = continuous /\ rpc' # "reply"
      /\ ("continuous" \notin Asks => rpc' \notin {"announce", "offer"})
  BY <1>2 DEF Read, Plain, ReadFormat, ReadEncodings, ReadRequest, ReadContinuous, NextMessage
<1> QED
  BY <1>2, <1>3, <1>4, Prompting

LEMMA ReaderPrompted ==
  ASSUME TypeOK, TypeOK', Prompted, Ask \/ WriteEnd \/ ReaderFails
  PROVE  Prompted'
<1>1. UNCHANGED <<ccont, cont, c2s, continuous>> /\ rpc' # "reply"
  BY DEF Ask, WriteEnd, ReaderFails, NextMessage, client, sender, wire, shared
<1>2. ASSUME "continuous" \notin Asks
      PROVE  rpc' \notin {"announce", "offer"} /\ s2c' = s2c
  BY <1>2, Prompting DEF Ask, WriteEnd, ReaderFails, NextMessage, wire
<1> QED
  BY <1>1, <1>2, Prompting

(* What the sender and the desktop do.                                     *)
LEMMA SenderPrompted ==
  ASSUME TypeOK, TypeOK', Prompted, SenderStep \/ Draw \/ Layout \/ Drop \/ UNCHANGED vars
  PROVE  Prompted'
<1>1. UNCHANGED <<ccont, c2s, continuous, rpc>>
  BY DEF SenderStep, Top, Consume, WaitEnds, Look, Grab, Send, SendFails, Settle,
         Draw, Layout, Drop, vars, client, sender, wire, shared
<1>2. ~cont'
  BY Prompting DEF SenderStep, Top, Consume, WaitEnds, Look, Grab, Send, SendFails, Settle,
         Draw, Layout, Drop, vars, sender
<1>3. NoOffer(s2c) => NoOffer(s2c')
  <2>1. s2c' = s2c \/ s2c' = Append(s2c, Frame(upd, fmt))
    BY DEF SenderStep, Top, Consume, WaitEnds, Look, Grab, Send, SendFails, Settle,
           Draw, Layout, Drop, vars, wire
  <2>2. Frame(upd, fmt).type # "end" /\ s2c \in Seq(ServerMsg)
    BY DEF Frame, TypeOK, WireOK
  <2> QED
    BY <2>1, <2>2, OfferQueues
<1> QED
  BY <1>1, <1>2, <1>3, Prompting

LEMMA NextPrompted ==
  ASSUME TypeOK, TypeOK', RequestsOnly, Prompted, [Next]_vars
  PROVE  Prompted'
BY ClientPrompted, ReadPrompted, ReaderPrompted, SenderPrompted
   DEF Next, ClientStep, ReaderStep, Environment

LEMMA InitRequests == ASSUME Init PROVE Prompted /\ Paid
<1>1. c2s = <<SetPixelFormat(0), SetEncodings(NoPick)>> /\ s2c = <<>> /\ rpc = "read" /\ spc = "top"
      /\ ~wants /\ ~continuous /\ ~cont /\ cpc = "hello" /\ ccont = "off" /\ extras = 0
  BY DEF Init
<1>2. Prompted
  BY <1>1 DEF Prompted, SetPixelFormat, SetEncodings
<1>3. Count(c2s, {"request", "encodings"}) = 1
  <2>1. {i \in DOMAIN c2s : c2s[i].type \in {"request", "encodings"}} = {2}
    BY <1>1 DEF SetPixelFormat, SetEncodings
  <2> QED
    BY <2>1, FS_Singleton DEF Count
<1>4. Count(s2c, {"update"}) = 0
  <2>1. {i \in DOMAIN s2c : s2c[i].type \in {"update"}} = {}
    BY <1>1
  <2> QED
    BY <2>1, FS_EmptySet DEF Count
<1>5. Tokens = 1
  BY <1>1, <1>3, <1>4 DEF Tokens, One
<1> QED
  BY <1>1, <1>2, <1>5 DEF Paid, ToCome

LEMMA NextRequests ==
  ASSUME RequestsOnly, TypeOK, TypeOK', Prompted /\ Paid, [Next]_vars
  PROVE  (Prompted /\ Paid)'
<1>1. Balanced /\ Prompted'
  BY NextBalanced, NextPrompted
<1>2. Tokens' + ToCome' <= (IF Pipeline THEN 2 ELSE 3) + extras'
  <2>1. PICK before \in Nat, after \in Nat, x \in Nat, y \in Nat :
          before = Tokens + ToCome /\ after = Tokens' + ToCome' /\ x = extras /\ y = extras'
    <3>1. Tokens \in Nat /\ Tokens' \in Nat
      BY Account
    <3>2. Tokens + ToCome \in Nat /\ Tokens' + ToCome' \in Nat
      BY <3>1, Account
    <3>3. extras \in Nat /\ extras' \in Nat
      BY Account
    <3> QED
      BY <3>2, <3>3
  <2>2. PICK start \in Nat : start = IF Pipeline THEN 2 ELSE 3
    OBVIOUS
  <2>3. before <= start + x
    BY <2>1, <2>2 DEF Paid
  <2>4. after + x <= before + y
    BY <1>1, <2>1 DEF Balanced
  <2>5. after <= start + y
    BY <2>3, <2>4
  <2> QED
    BY <2>1, <2>2, <2>5
<1>3. alive' /\ linked' => Tokens' >= 1
  <2>1. Tokens \in Nat /\ Tokens' \in Nat
    BY Account
  <2> QED
    BY <1>1, <2>1 DEF Balanced, Paid
<1> QED
  BY <1>1, <1>2, <1>3 DEF Paid

LEMMA RequestsInvariance == ASSUME RequestsOnly PROVE Spec => []RInv
<1>1. Init /\ TypeOK => RInv
  BY InitRequests DEF RInv
<1>2. RInv /\ TypeOK' /\ [Next]_vars => RInv'
  BY NextRequests DEF RInv
<1> QED
  BY <1>1, <1>2, Typing, PTL DEF Spec

(* In a session of requests there are never more pictures asked for, in    *)
(* the making and on their way than the client started with and the person *)
(* added (pump asks for the next frame when one arrives, and asked only    *)
(* sets a flag), so no queue of pictures builds up on a slow connection.   *)
THEOREM Bounded == ASSUME RequestsOnly PROVE Spec => []PipelineBounded
<1>1. RInv => PipelineBounded
  <2> SUFFICES ASSUME TypeOK, Paid PROVE PipelineBounded
    BY DEF RInv
  <2>1. Tokens \in Nat /\ ToCome \in Nat /\ extras \in Nat
    BY Amounts
  <2> QED
    BY <2>1 DEF Paid, PipelineBounded
<1> QED
  BY <1>1, RequestsInvariance, PTL

(* And while the session is up there is at least one: a request that comes *)
(* while a picture goes out is kept by the flag, one that finds nothing    *)
(* new is put back, and so the pictures never stop coming.                 *)
THEOREM KeepsGoing == ASSUME RequestsOnly PROVE Spec => []NeverStalls
<1>1. RInv => NeverStalls
  BY DEF RInv, Paid, NeverStalls
<1> QED
  BY <1>1, RequestsInvariance, PTL

----------------------------------------------------------------------------
(* Turning them off: the client's queue.                                   *)

(* p is q and a message m after it.                                        *)
Grown(q, m, p) ==
  /\ Switched(p) = IF m.type = "continuous" THEN Switched(q) \cup {Len(q) + 1} ELSE Switched(q)
  /\ \A i \in Switched(q) : p[i] = q[i]
  /\ Switched(q) \subseteq 1 .. Len(q) /\ Len(q) \in Nat
  /\ p[Len(q) + 1] = m

LEMMA SwitchedFacts ==
  ASSUME NEW q \in Seq(ClientMsg), NEW m \in ClientMsg, NEW p, p = Append(q, m)
  PROVE  Grown(q, m, p)
<1> DEFINE n == Len(q)
<1>1. /\ DOMAIN p = 1 .. n + 1 /\ DOMAIN q = 1 .. n /\ n \in Nat
      /\ p[n + 1] = m /\ \A i \in 1 .. n : p[i] = q[i]
  OBVIOUS
<1>2. \A i \in 1 .. n + 1 : i \in 1 .. n \/ i = n + 1
  BY <1>1
<1> HIDE DEF n
<1>3. Switched(p) = IF m.type = "continuous" THEN Switched(q) \cup {n + 1} ELSE Switched(q)
  BY <1>1, <1>2 DEF Switched
<1>4. \A i \in Switched(q) : p[i] = q[i]
  BY <1>1 DEF Switched
<1>5. Switched(q) \subseteq 1 .. n
  BY <1>1 DEF Switched
<1> QED
  BY <1>1, <1>3, <1>4, <1>5 DEF n, Grown

LEMMA OnceSent ==
  ASSUME NEW q \in Seq(ClientMsg), NEW c, OnceIn(c, q), NEW m \in ClientMsg,
         NEW p, p = Append(q, m)
  PROVE  /\ m.type # "continuous" => OnceIn(c, p) /\ Switched(p) = Switched(q)
         /\ c = "off" /\ m = Enable(TRUE) => OnceIn("on", p)
         /\ c = "on" /\ m = Enable(FALSE) => OnceIn("stopping", p)
<1> DEFINE n == Len(q)
<1>1. /\ Switched(p) = IF m.type = "continuous" THEN Switched(q) \cup {n + 1} ELSE Switched(q)
      /\ \A i \in Switched(q) : p[i] = q[i]
      /\ Switched(q) \subseteq 1 .. n /\ n \in Nat
      /\ p[n + 1] = m
  <2>1. Grown(q, m, p)
    BY SwitchedFacts
  <2> QED
    BY <2>1 DEF Grown
<1> HIDE DEF n
<1>2. ASSUME m.type # "continuous" PROVE OnceIn(c, p) /\ Switched(p) = Switched(q)
  BY <1>1, <1>2 DEF OnceIn
<1>3. ASSUME c = "off", m = Enable(TRUE) PROVE OnceIn("on", p)
  <2>1. m.type = "continuous" /\ m.on
    BY <1>3 DEF Enable
  <2>2. Switched(p) = {n + 1}
    BY <1>1, <1>3, <2>1 DEF OnceIn
  <2>3. \A i, j \in Switched(p) : ~(i < j)
    BY <1>1, <2>2
  <2> QED
    BY <1>1, <2>1, <2>2, <2>3 DEF OnceIn
<1>4. ASSUME c = "on", m = Enable(FALSE) PROVE OnceIn("stopping", p)
  <2>1. Switched(p) = Switched(q) \cup {n + 1} /\ ~p[n + 1].on /\ \A i \in Switched(q) : p[i].on
    <3>1. m.type = "continuous" /\ ~m.on
      BY <1>4 DEF Enable
    <3> QED
      BY <1>1, <1>4, <3>1 DEF OnceIn
  <2>2. ASSUME NEW i \in Switched(p), NEW j \in Switched(p), i < j PROVE p[i].on /\ ~p[j].on
    <3>1. i # n + 1
      BY <1>1, <2>1, <2>2
    <3>2. j \notin Switched(q)
      BY <1>1, <1>4, <2>1, <2>2, <3>1 DEF OnceIn
    <3> QED
      BY <2>1, <3>1, <3>2
  <2> QED
    BY <2>2 DEF OnceIn
<1> QED
  BY <1>2, <1>3, <1>4

LEMMA OnceRead ==
  ASSUME NEW q \in Seq(ClientMsg), q # <<>>, NEW c, OnceIn(c, q)
  PROVE  /\ OnceIn(c, Tail(q))
         /\ Switched(q) = {} => Switched(Tail(q)) = {} /\ Head(q).type # "continuous"
         /\ Head(q).type = "continuous" /\ ~Head(q).on =>
              Switched(Tail(q)) = {} /\ c \notin {"off", "on"}
<1> DEFINE p == Tail(q)
           n == Len(q) - 1
<1>1. /\ n \in Nat /\ DOMAIN q = 1 .. n + 1 /\ DOMAIN p = 1 .. n
      /\ Head(q) = q[1] /\ \A i \in 1 .. n : p[i] = q[i + 1]
  OBVIOUS
<1> HIDE DEF p, n
<1>2. \A i \in Switched(p) : i + 1 \in Switched(q) /\ p[i] = q[i + 1] /\ i \in 1 .. n
  BY <1>1 DEF Switched
<1>3. OnceIn(c, p)
  <2>1. ASSUME NEW i \in Switched(p), NEW j \in Switched(p), i < j PROVE p[i].on /\ ~p[j].on
    <3>1. i + 1 < j + 1
      BY <1>2, <2>1
    <3> QED
      BY <1>2, <3>1 DEF OnceIn
  <2> QED
    BY <1>2, <2>1 DEF OnceIn
<1>4. ASSUME Switched(q) = {} PROVE Switched(p) = {} /\ Head(q).type # "continuous"
  BY <1>1, <1>2, <1>4 DEF Switched
<1>5. ASSUME Head(q).type = "continuous", ~Head(q).on
      PROVE  Switched(p) = {} /\ c \notin {"off", "on"}
  <2>1. 1 \in Switched(q)
    BY <1>1, <1>5 DEF Switched
  <2>2. \A i \in Switched(p) : 1 < i + 1
    BY <1>2
  <2>3. Switched(p) = {}
    BY <1>1, <1>2, <1>5, <2>1, <2>2 DEF OnceIn
  <2> QED
    BY <1>1, <1>5, <2>1, <2>3 DEF OnceIn
<1> QED
  BY <1>3, <1>4, <1>5 DEF p

(* The server's queue, when the sender has k pictures in the making that   *)
(* nobody asked for.                                                       *)
LateOK(c, q, k) ==
  /\ c = "stopped" => Cardinality(Late(q, 0)) + k <= 1
  /\ \A i \in DOMAIN q : IsReply(q[i]) => Cardinality(Late(q, i)) + k <= 1

LEMMA LateIs ==
  /\ OneLateFrame <=> LateOK(ccont, s2c, InTheMaking)
  /\ OneLateFrame' <=> LateOK(ccont', s2c', InTheMaking')
BY FreeIsLate DEF OneLateFrame, LateOK, IsReply

LEMMA NobodyLate ==
  ASSUME NEW c, NEW q, NEW k, c # "stopped", ~Replied(q)
  PROVE  LateOK(c, q, k)
BY DEF LateOK, Replied

LEMMA LateLess ==
  ASSUME NEW S, NEW q \in Seq(S), NEW c, NEW k \in {0, 1}, NEW l \in {0, 1}, LateOK(c, q, k), l = k \/ l = 0
  PROVE  LateOK(c, q, l)
<1>1. \A i \in Nat : Cardinality(Late(q, i)) \in Nat
  BY LateFacts
<1>2. \A n \in Nat : n + k <= 1 => n + l <= 1
  OBVIOUS
<1>3. 0 \in Nat /\ DOMAIN q \subseteq Nat
  OBVIOUS
<1> QED
  BY <1>1, <1>2, <1>3 DEF LateOK

LEMMA LateWritten ==
  ASSUME NEW S, NEW q \in Seq(S), NEW c, NEW k \in {0, 1}, NEW l \in {0, 1}, LateOK(c, q, k),
         NEW m, One(IsFree(m)) + l = k
  PROVE  LateOK(c, Append(q, m), l)
<1> DEFINE p == Append(q, m)
<1>1. /\ Len(q) \in Nat /\ DOMAIN q = 1 .. Len(q) /\ DOMAIN p = 1 .. Len(q) + 1
      /\ \A i \in 1 .. Len(q) : p[i] = q[i]
  OBVIOUS
<1>2. \A i \in 0 .. Len(q) : /\ Cardinality(Late(p, i)) = Cardinality(Late(q, i)) + One(IsFree(m))
                             /\ Cardinality(Late(q, i)) \in Nat
  BY LateAppended, LateFacts
<1>3. Cardinality(Late(p, Len(q) + 1)) = 0
  <2>1. p \in Seq(S \cup {m}) /\ Len(p) = Len(q) + 1
    OBVIOUS
  <2> HIDE DEF p
  <2> QED
    BY <2>1, LateFacts
<1> HIDE DEF p
<1>4. One(IsFree(m)) \in {0, 1}
  BY DEF One
<1>5. \A i \in 0 .. Len(q) : Cardinality(Late(q, i)) + k <= 1 => Cardinality(Late(p, i)) + l <= 1
  <2> SUFFICES ASSUME NEW i \in 0 .. Len(q), Cardinality(Late(q, i)) + k <= 1
               PROVE  Cardinality(Late(p, i)) + l <= 1
    OBVIOUS
  <2>1. PICK a \in Nat, b \in {0, 1} : a = Cardinality(Late(q, i)) /\ b = One(IsFree(m))
    BY <1>2, <1>4
  <2>2. Cardinality(Late(p, i)) = a + b /\ b + l = k /\ a + k <= 1
    BY <1>2, <2>1
  <2> QED
    BY <2>2
<1>6. ASSUME NEW i \in DOMAIN p, IsReply(p[i]) PROVE Cardinality(Late(p, i)) + l <= 1
  <2>1. CASE i \in 1 .. Len(q)
    BY <1>1, <1>5, <1>6, <2>1 DEF LateOK
  <2>2. CASE i = Len(q) + 1
    BY <1>3, <2>2
  <2> QED
    BY <1>1, <1>6, <2>1, <2>2
<1>7. c = "stopped" => Cardinality(Late(p, 0)) + l <= 1
  BY <1>1, <1>5 DEF LateOK
<1>8. LateOK(c, p, l)
  BY <1>6, <1>7 DEF LateOK
<1> QED
  BY <1>8 DEF p

LEMMA LateRead ==
  ASSUME NEW S, NEW q \in Seq(S), q # <<>>, NEW c, NEW k \in {0, 1}, LateOK(c, q, k)
  PROVE  /\ LateOK(c, Tail(q), k)
         /\ IsReply(Head(q)) => LateOK("stopped", Tail(q), k)
<1> DEFINE p == Tail(q)
<1>1. /\ Len(q) \in Nat /\ DOMAIN q = 1 .. Len(q) /\ DOMAIN p = 1 .. Len(q) - 1
      /\ Head(q) = q[1] /\ 1 \in DOMAIN q /\ \A i \in DOMAIN p : p[i] = q[i + 1] /\ i + 1 \in DOMAIN q
  OBVIOUS
<1>2. \A i \in Nat : /\ Cardinality(Late(p, i)) = Cardinality(Late(q, i + 1))
                     /\ Cardinality(Late(q, i + 1)) <= Cardinality(Late(q, i))
                     /\ Cardinality(Late(q, i + 1)) \in Nat /\ Cardinality(Late(q, i)) \in Nat
  <2> SUFFICES ASSUME NEW i \in Nat
               PROVE  /\ Cardinality(Late(p, i)) = Cardinality(Late(q, i + 1))
                      /\ Cardinality(Late(q, i + 1)) <= Cardinality(Late(q, i))
                      /\ Cardinality(Late(q, i + 1)) \in Nat /\ Cardinality(Late(q, i)) \in Nat
    OBVIOUS
  <2>1. Cardinality(Late(p, i)) = Cardinality(Late(q, i + 1))
    BY LateReceived
  <2>2. i + 1 \in Nat
    OBVIOUS
  <2>3. Cardinality(Late(q, i + 1)) <= Cardinality(Late(q, i)) /\ Cardinality(Late(q, i)) \in Nat
    BY LateFacts
  <2>4. Cardinality(Late(q, i + 1)) \in Nat
    BY <2>2, LateFacts
  <2> QED
    BY <2>1, <2>3, <2>4
<1> HIDE DEF p
<1>3. \A i \in DOMAIN p : IsReply(p[i]) => Cardinality(Late(p, i)) + k <= 1
  BY <1>1, <1>2 DEF LateOK
<1>4. c = "stopped" => Cardinality(Late(p, 0)) + k <= 1
  <2> SUFFICES ASSUME c = "stopped" PROVE Cardinality(Late(p, 0)) + k <= 1
    OBVIOUS
  <2>1. PICK a \in Nat, b \in Nat : a = Cardinality(Late(q, 1)) /\ b = Cardinality(Late(q, 0))
    BY <1>2
  <2>2. a <= b /\ b + k <= 1 /\ Cardinality(Late(p, 0)) = a
    BY <1>2, <2>1 DEF LateOK
  <2>3. a + k <= 1
    BY <2>2
  <2> QED
    BY <2>2, <2>3
<1>5. IsReply(Head(q)) => Cardinality(Late(p, 0)) + k <= 1
  <2>1. Cardinality(Late(p, 0)) = Cardinality(Late(q, 1))
    BY <1>2
  <2>2. IsReply(q[1]) => Cardinality(Late(q, 1)) + k <= 1
    BY <1>1 DEF LateOK
  <2> QED
    BY <1>1, <2>1, <2>2
<1> QED
  BY <1>3, <1>4, <1>5 DEF LateOK, p

LEMMA ReplyFacts ==
  ASSUME NEW S, NEW q \in Seq(S)
  PROVE  /\ \A m : Replied(Append(q, m)) => Replied(q) \/ IsReply(m)
         /\ q # <<>> => (Replied(Tail(q)) => Replied(q)) /\ (IsReply(Head(q)) => Replied(q))
<1>1. ASSUME NEW m, Replied(Append(q, m)) PROVE Replied(q) \/ IsReply(m)
  BY <1>1 DEF Replied
<1>2. ASSUME q # <<>>, Replied(Tail(q)) PROVE Replied(q)
  BY <1>2 DEF Replied
<1>3. ASSUME q # <<>>, IsReply(Head(q)) PROVE Replied(q)
  BY <1>3 DEF Replied
<1> QED
  BY <1>1, <1>2, <1>3

----------------------------------------------------------------------------
(* Turning them off: the steps.                                            *)

LEMMA MakingIs ==
  /\ InTheMaking \in {0, 1} /\ InTheMaking' \in {0, 1}
  /\ ~cont' \/ spc' \notin {"look", "grab", "send"} => InTheMaking' = 0
  /\ ~cont \/ spc \notin {"look", "grab", "send"} => InTheMaking = 0
  /\ cont' = cont /\ spc \in {"look", "grab", "send"} /\ spc' \in {"look", "grab", "send"}
       => InTheMaking' = InTheMaking
BY DEF InTheMaking, One

(* Steps of nobody who has to do with it.                                  *)
LEMMA Keeps ==
  ASSUME LInv, TypeOK', UNCHANGED <<ccont, s2c, continuous, cont, spc, upd>>,
         rpc' = "reply" => rpc = "reply",
         OnceIn(ccont, c2s'), Switched(c2s) = {} => Switched(c2s') = {}
  PROVE  LInv'
<1>1. Once' /\ Fresh'
  BY DEF LInv, Once, Fresh
<1>2. Disabled' => Disabled
  BY DEF Disabled
<1>3. Final'
  BY <1>2 DEF LInv, Final
<1>4. OneLateFrame'
  <2>1. InTheMaking' = InTheMaking
    BY DEF InTheMaking
  <2> QED
    BY <2>1, LateIs DEF LInv
<1> QED
  BY <1>1, <1>3, <1>4 DEF LInv

LEMMA KeepsStep ==
  ASSUME LInv, TypeOK',
         Draw \/ Layout \/ Drop \/ UNCHANGED vars \/ ClientLeaves \/ Ask \/ ReaderFails
  PROVE  LInv'
<1>1. UNCHANGED <<ccont, s2c, continuous, cont, spc, upd, c2s>>
  BY DEF Draw, Layout, Drop, vars, ClientLeaves, Ask, ReaderFails, desktop, client, wire, shared, sender
<1>2. rpc' = "reply" => rpc = "reply"
  BY DEF Draw, Layout, Drop, vars, ClientLeaves, Ask, ReaderFails, NextMessage
<1>3. OnceIn(ccont, c2s')
  BY <1>1 DEF LInv, Once
<1> QED
  BY <1>1, <1>2, <1>3, Keeps

(* What a client writes besides.                                           *)
LEMMA SaysMore ==
  ASSUME LInv, NEW m \in ClientMsg, m.type # "continuous"
  PROVE  /\ OnceIn(ccont, c2s \o <<m>>)
         /\ Switched(c2s \o <<m>>) = Switched(c2s)
<1>1. c2s \in Seq(ClientMsg) /\ OnceIn(ccont, c2s)
  BY DEF LInv, TypeOK, WireOK, Once
<1> DEFINE p == c2s \o <<m>>
<1>2. p = Append(c2s, m)
  BY <1>1, PaysForOne
<1> HIDE DEF p
<1>3. OnceIn(ccont, p) /\ Switched(p) = Switched(c2s)
  BY <1>1, <1>2, OnceSent
<1> QED
  BY <1>3 DEF p

LEMMA SaysTwice ==
  ASSUME LInv, NEW m \in ClientMsg, NEW n \in ClientMsg,
         m.type # "continuous", n.type # "continuous"
  PROVE  /\ OnceIn(ccont, c2s \o <<m, n>>)
         /\ Switched(c2s \o <<m, n>>) = Switched(c2s)
<1> DEFINE p == c2s \o <<m>>
           z == c2s \o <<m, n>>
<1>1. OnceIn(ccont, p) /\ Switched(p) = Switched(c2s)
  BY SaysMore
<1>2. c2s \in Seq(ClientMsg)
  BY DEF LInv, TypeOK, WireOK
<1>3. p \in Seq(ClientMsg) /\ z = Append(p, n)
  BY <1>2, PaysForOne, AppendedTwo
<1> HIDE DEF p, z
<1>4. OnceIn(ccont, z) /\ Switched(z) = Switched(p)
  BY <1>1, <1>3, OnceSent
<1> QED
  BY <1>1, <1>4 DEF z

LEMMA NotSwitches ==
  /\ \A b \in BOOLEAN : Request(b).type # "continuous"
  /\ \A s : SetEncodings(s).type # "continuous"
  /\ \A f : SetPixelFormat(f).type # "continuous"
BY DEF Request, SetEncodings, SetPixelFormat

LEMMA HelloLate == ASSUME LInv, TypeOK', Hello PROVE LInv'
<1>1. UNCHANGED <<ccont, s2c, continuous, cont, spc, upd, rpc>>
  BY DEF Hello, shared, sender
<1>2. OnceIn(ccont, c2s') /\ Switched(c2s') = Switched(c2s)
  <2>1. CASE Pipeline
    BY <2>1, SaysMore, MessagesAreTyped, NotSwitches DEF Hello, ClientSends
  <2>2. CASE ~Pipeline
    BY <2>2, SaysTwice, MessagesAreTyped, NotSwitches DEF Hello, ClientSends
  <2> QED
    BY <2>1, <2>2
<1> QED
  BY <1>1, <1>2, Keeps

(* A client that disables: what its queue says of that it says last.       *)
LEMMA ExtraLate == ASSUME LInv, TypeOK', Extra PROVE LInv'
<1>1. UNCHANGED <<s2c, continuous, cont, spc, upd, rpc>>
  BY DEF Extra, shared, sender
<1>2. CASE \E m \in ClientMsg : m.type # "continuous" /\ ClientSends(<<m>>) /\ UNCHANGED ccont
  <2>1. OnceIn(ccont, c2s') /\ Switched(c2s') = Switched(c2s)
    BY <1>2, SaysMore DEF ClientSends
  <2> QED
    BY <1>1, <1>2, <2>1, Keeps
<1>3. CASE ccont = "on" /\ ClientSends(<<Enable(FALSE)>>) /\ ccont' = "stopping"
  <2>1. c2s' = Append(c2s, Enable(FALSE))
    BY <1>3, PaysForOne, MessagesAreTyped DEF ClientSends, LInv, TypeOK, WireOK
  <2>2. Once'
    BY <1>3, <2>1, OnceSent, MessagesAreTyped DEF LInv, TypeOK, WireOK, Once
  <2>3. ~Disabled /\ ~Disabled'
    BY <1>1, <1>3 DEF LInv, Final, Disabled
  <2>4. Final' /\ Fresh'
    BY <1>1, <2>3 DEF LInv, Final, Fresh
  <2>5. OneLateFrame'
    BY <2>3, NobodyLate, LateIs DEF Disabled
  <2> QED
    BY <2>2, <2>4, <2>5 DEF LInv
<1> QED
  BY <1>2, <1>3, MessagesAreTyped, NotSwitches DEF Extra

(* The client reads the reply, and asks for what it wants from now on.     *)
LEMMA PumpLate == ASSUME LInv, TypeOK', Pump PROVE LInv'
<1>1. /\ s2c \in Seq(ServerMsg) /\ s2c # <<>> /\ s2c' = Tail(s2c)
      /\ UNCHANGED <<continuous, cont, spc, upd, rpc>>
  BY DEF Pump, Update, EndOfContinuous, Received, LInv, TypeOK, WireOK, shared, sender
<1>2. InTheMaking' = InTheMaking /\ InTheMaking \in {0, 1} /\ Fresh'
  BY <1>1, MakingIs DEF InTheMaking, Fresh, LInv
<1>3. /\ LateOK(ccont, s2c', InTheMaking')
      /\ IsReply(Head(s2c)) => LateOK("stopped", s2c', InTheMaking')
  BY <1>1, <1>2, LateRead, LateIs DEF LInv
<1>4. (Replied(s2c') => Replied(s2c)) /\ (IsReply(Head(s2c)) => Replied(s2c))
  BY <1>1, ReplyFacts
<1>5. c2s \in Seq(ClientMsg) /\ OnceIn(ccont, c2s)
  BY DEF LInv, TypeOK, WireOK, Once
<1>6. CASE /\ ccont' = ccont
           /\ c2s' = c2s \/ c2s' = c2s \o <<Request(TRUE)>>
  <2>1. OnceIn(ccont, c2s') /\ Switched(c2s') = Switched(c2s)
    <3>1. CASE c2s' = c2s
      BY <1>5, <3>1
    <3>2. CASE c2s' = c2s \o <<Request(TRUE)>>
      BY <3>2, SaysMore, MessagesAreTyped, NotSwitches
    <3> QED
      BY <1>6, <3>1, <3>2
  <2>2. Disabled' => Disabled
    BY <1>1, <1>4, <1>6 DEF Disabled
  <2>3. Once' /\ Final'
    BY <1>1, <1>6, <2>1, <2>2 DEF LInv, Once, Final
  <2> QED
    BY <1>2, <1>3, <1>6, <2>3, LateIs DEF LInv
<1>7. CASE ccont = "off" /\ ccont' = "on" /\ c2s' = c2s \o <<Enable(TRUE)>>
  <2>1. ~Disabled /\ ~Disabled'
    BY <1>1, <1>4, <1>7 DEF LInv, Final, Disabled
  <2>2. c2s' = Append(c2s, Enable(TRUE))
    BY <1>5, <1>7, PaysForOne, MessagesAreTyped
  <2>3. Once'
    BY <1>5, <1>7, <2>2, OnceSent, MessagesAreTyped DEF Once
  <2>4. OneLateFrame' /\ Final'
    BY <2>1, NobodyLate, LateIs DEF Disabled, Final
  <2> QED
    BY <1>2, <2>3, <2>4 DEF LInv
<1>8. CASE /\ ccont = "stopping" /\ ccont' = "stopped" /\ IsReply(Head(s2c))
           /\ c2s' = c2s \o <<Request(TRUE)>>
  <2>1. OnceIn(ccont, c2s') /\ Switched(c2s') = Switched(c2s)
    BY <1>8, SaysMore, MessagesAreTyped, NotSwitches
  <2>2. Once'
    BY <1>8, <2>1 DEF Once, OnceIn
  <2>3. Disabled
    BY <1>4, <1>8 DEF Disabled
  <2>4. Final'
    BY <1>1, <1>8, <2>1, <2>3 DEF LInv, Final
  <2> QED
    BY <1>2, <1>3, <1>8, <2>2, <2>4, LateIs DEF LInv
<1>9. \/ ccont' = ccont /\ (c2s' = c2s \/ c2s' = c2s \o <<Request(TRUE)>>)
      \/ ccont = "off" /\ ccont' = "on" /\ c2s' = c2s \o <<Enable(TRUE)>>
      \/ ccont = "stopping" /\ ccont' = "stopped" /\ IsReply(Head(s2c))
         /\ c2s' = c2s \o <<Request(TRUE)>>
  <2>1. CASE Update(Head(s2c))
    <3>1. c2s \o <<>> = c2s
      BY <1>5
    <3> QED
      BY <2>1, <3>1 DEF Update, ClientSends, NextRequest
  <2>2. CASE EndOfContinuous(Head(s2c))
    BY <2>2 DEF EndOfContinuous, ClientSends, IsReply
  <2> QED
    BY <2>1, <2>2 DEF Pump
<1> QED
  BY <1>6, <1>7, <1>8, <1>9

(* The reader reads a switch: on, only if none off was read; off, only if  *)
(* the client wrote it, and it is the last.                                *)
LEMMA ReadLate == ASSUME LInv, TypeOK', Read PROVE LInv'
<1>1. /\ c2s \in Seq(ClientMsg) /\ c2s # <<>> /\ c2s' = Tail(c2s) /\ OnceIn(ccont, c2s)
      /\ rpc = "read" /\ UNCHANGED <<ccont, s2c, cont, spc, upd>>
  BY DEF Read, LInv, TypeOK, WireOK, Once, client, sender
<1>2. /\ OnceIn(ccont, c2s')
      /\ Switched(c2s) = {} => Switched(c2s') = {} /\ Head(c2s).type # "continuous"
      /\ Head(c2s).type = "continuous" /\ ~Head(c2s).on =>
           Switched(c2s') = {} /\ ccont \notin {"off", "on"}
  BY <1>1, OnceRead
<1>3. CASE ReadFormat(Head(c2s)) \/ ReadEncodings(Head(c2s)) \/ ReadRequest(Head(c2s))
  <2>1. continuous' = continuous /\ rpc' # "reply"
    BY <1>3 DEF ReadFormat, ReadEncodings, ReadRequest, NextMessage
  <2> QED
    BY <1>1, <1>2, <2>1, Keeps
<1>4. CASE ReadContinuous(Head(c2s))
  <2>1. Once' /\ Fresh' /\ OneLateFrame'
    <3>1. InTheMaking' = InTheMaking
      BY <1>1 DEF InTheMaking
    <3> QED
      BY <1>1, <1>2, <3>1, LateIs DEF LInv, Once, Fresh
  <2>2. CASE Head(c2s).on
    <3>1. ~Disabled /\ rpc' # "reply"
      BY <1>2, <1>4, <2>2 DEF LInv, Final, ReadContinuous, NextMessage
    <3>2. Final'
      BY <1>1, <3>1 DEF Final, Disabled
    <3> QED
      BY <2>1, <3>2 DEF LInv
  <2>3. CASE ~Head(c2s).on
    <3>1. ~continuous' /\ Switched(c2s') = {} /\ ccont \notin {"off", "on"}
      BY <1>2, <1>4, <2>3 DEF ReadContinuous
    <3>2. Final'
      BY <1>1, <3>1 DEF LInv, TypeOK, ClientOK, Final
    <3> QED
      BY <2>1, <3>2 DEF LInv
  <2> QED
    BY <2>2, <2>3
<1> QED
  BY <1>3, <1>4 DEF Read

LEMMA WriteEndLate == ASSUME LInv, TypeOK', WriteEnd PROVE LInv'
<1>1. /\ s2c \in Seq(ServerMsg) /\ s2c' = Append(s2c, End(rpc)) /\ rpc \in {"offer", "reply"}
      /\ UNCHANGED <<ccont, c2s, continuous, cont, spc, upd>> /\ rpc' # "reply"
  BY DEF WriteEnd, NextMessage, LInv, TypeOK, WireOK, client, shared, sender
<1>2. InTheMaking' = InTheMaking /\ InTheMaking \in {0, 1} /\ One(IsFree(End(rpc))) + InTheMaking = InTheMaking
  BY <1>1, MakingIs DEF InTheMaking, One, IsFree, End
<1>3. OneLateFrame'
  BY <1>1, <1>2, LateWritten, LateIs DEF LInv
<1>4. Disabled' => Disabled
  <2>1. IsReply(End(rpc)) => rpc = "reply"
    BY DEF IsReply, End
  <2> QED
    BY <1>1, <2>1, ReplyFacts DEF Disabled
<1>5. Once' /\ Fresh' /\ Final'
  BY <1>1, <1>4 DEF LInv, Once, Fresh, Final
<1> QED
  BY <1>3, <1>5 DEF LInv

(* The sender: the picture it makes with its copy of the flag is the one   *)
(* that may come after the reply; the next it makes for a request.         *)
LEMMA SenderLate == ASSUME LInv, TypeOK', SenderStep PROVE LInv'
<1>1. UNCHANGED <<ccont, c2s, continuous, rpc>>
  BY DEF SenderStep, Top, Consume, WaitEnds, Look, Grab, Send, SendFails, Settle, client, wire, shared
<1>2. Once'
  BY <1>1 DEF LInv, Once
<1>3. s2c \in Seq(ServerMsg)
  BY DEF LInv, TypeOK, WireOK
<1>4. CASE Top /\ continuous
  <2>1. ~Disabled /\ s2c' = s2c
    BY <1>4 DEF LInv, Final, Top, wire
  <2>2. ~Disabled'
    BY <1>1, <2>1 DEF Disabled
  <2>3. Final' /\ OneLateFrame'
    BY <2>2, NobodyLate, LateIs DEF Final, Disabled
  <2>4. Fresh'
    BY <1>4 DEF Top, Fresh
  <2> QED
    BY <1>2, <2>3, <2>4 DEF LInv
<1>5. CASE Send
  <2>1. s2c' = Append(s2c, Frame(upd, fmt)) /\ spc = "send" /\ spc' = "settle" /\ cont' = cont
    BY <1>5 DEF Send
  <2>2. IsFree(Frame(upd, fmt)) <=> cont
    BY <2>1 DEF IsFree, Frame, LInv, Fresh
  <2>3. One(IsFree(Frame(upd, fmt))) + InTheMaking' = InTheMaking
    BY <2>1, <2>2 DEF One, InTheMaking
  <2>4. OneLateFrame'
    BY <1>1, <1>3, <2>1, <2>3, MakingIs, LateWritten, LateIs DEF LInv
  <2>5. Disabled' => Disabled
    <3>1. ~IsReply(Frame(upd, fmt))
      BY DEF IsReply, Frame
    <3> QED
      BY <1>1, <1>3, <2>1, <3>1, ReplyFacts DEF Disabled
  <2>6. Final' /\ Fresh'
    BY <1>1, <2>1, <2>5 DEF LInv, Final, Fresh
  <2> QED
    BY <1>2, <2>4, <2>6 DEF LInv
<1>6. CASE ~Send /\ ~(Top /\ continuous)
  <2>1. s2c' = s2c
    BY <1>6 DEF SenderStep, Top, Consume, WaitEnds, Look, Grab, Send, SendFails, Settle, wire
  <2>2. Final'
    BY <1>1, <2>1 DEF LInv, Final, Disabled
  <2>3. Fresh'
    <3>1. CASE Grab
      BY <3>1 DEF Grab, Built, Fresh
    <3>2. CASE ~Grab
      BY <1>6, <3>2 DEF LInv, SenderStep, Top, Consume, WaitEnds, Look, SendFails, Settle, Fresh
    <3> QED
      BY <3>1, <3>2
  <2>4. InTheMaking' = InTheMaking \/ InTheMaking' = 0
    <3>1. CASE Consume
      BY <3>1, MakingIs DEF Consume, LInv, Fresh
    <3>2. CASE Look \/ Grab
      BY <3>2, MakingIs DEF Look, Grab
    <3>3. CASE ~Consume /\ ~Look /\ ~Grab
      <4>1. spc' \in {"wait", "done", "top"}
        BY <1>6, <3>3 DEF SenderStep, Top, WaitEnds, SendFails, Settle
      <4> QED
        BY <4>1, MakingIs
    <3> QED
      BY <3>1, <3>2, <3>3
  <2>5. OneLateFrame'
    BY <1>1, <1>3, <2>1, <2>4, MakingIs, LateLess, LateIs DEF LInv
  <2> QED
    BY <1>2, <2>2, <2>3, <2>5 DEF LInv
<1> QED
  BY <1>4, <1>5, <1>6

LEMMA NextLate == ASSUME LInv, TypeOK', [Next]_vars PROVE LInv'
BY KeepsStep, HelloLate, ExtraLate, PumpLate, ReadLate, WriteEndLate, SenderLate
   DEF Next, ClientStep, ReaderStep, Environment

LEMMA InitLate == ASSUME Init, TypeOK PROVE LInv
<1>1. c2s = <<SetPixelFormat(0), SetEncodings(NoPick)>> /\ s2c = <<>> /\ rpc = "read" /\ spc = "top"
      /\ ccont = "off"
  BY DEF Init
<1>2. Switched(c2s) = {}
  BY <1>1 DEF Switched, SetPixelFormat, SetEncodings
<1>3. Once /\ Fresh
  BY <1>1, <1>2 DEF Once, OnceIn, Fresh
<1>4. ~Disabled
  BY <1>1 DEF Disabled, Replied
<1> QED
  BY <1>3, <1>4, NobodyLate, LateIs DEF LInv, Final, Disabled

(* A disable is acknowledged while the sender may be at a picture that no  *)
(* request asked for (read_client answers, send_frames has its own copy of *)
(* the flag): whoever the client, one such picture may come after the      *)
(* reply, and never a second.                                              *)
THEOREM OneComesLate == Spec => []OneLateFrame
<1>1. Init /\ TypeOK => LInv
  BY InitLate
<1>2. LInv /\ TypeOK' /\ [Next]_vars => LInv'
  BY NextLate
<1>3. LInv => OneLateFrame
  BY DEF LInv
<1> QED
  BY <1>1, <1>2, <1>3, Typing, PTL DEF Spec
=============================================================================
