---------------------------- MODULE UpdateFlow ----------------------------
(***************************************************************************)
(* One vncfree session: how pictures of the shared screen get from the     *)
(* server's sender thread (send_frames) to the client (Vnc::pump and       *)
(* session), and how the server's reader thread (read_client) steers it    *)
(* through the flags of Shared.                                            *)
(*                                                                         *)
(* Three threads of control take turns: the sender (spc), the reader (rpc) *)
(* and the client's network thread (cpc); the two directions of the        *)
(* connection are FIFO queues.  A picture is a function from tiles to      *)
(* values; every drawing puts a fresh value on a tile, so an old picture   *)
(* is never taken for a new one.                                           *)
(***************************************************************************)
EXTENDS Naturals, Sequences, FiniteSets

CONSTANTS
  Screens,      (* regions share_region can answer with: monitors, or all  *)
  Size,         (* tiles of each region                                    *)
  Primary,      (* the region shared by default when the session starts    *)
  NoPick,       (* Shared.pick before the client asks for a monitor        *)
  Asks,         (* what the client lists in SetEncodings                   *)
  Pipeline,     (* Vnc.pipeline: VNC_NO_PIPELINE is unset                  *)
  Continuous,   (* the client answers an offer: VNC_NO_CONTINUOUS is unset *)
  Extras,       (* messages the client may add at any time                 *)
  MaxExtras,    (* bound: how many of them                                 *)
  MaxDraws,     (* bound: changes of the desktop's picture                 *)
  MaxLayouts,   (* bound: changes of monitors, resolution, pointer shape   *)
  CanDrop,      (* the connection may break                                *)
  Room          (* updates and acks the connection buffers before a write  *)
                (* blocks                                                  *)

Features == {"copyrect", "resize", "continuous", "aside"}
Kinds == {"pick", "full", "format", "stop"}

ASSUME FlowAssumption ==
  /\ Screens # {} /\ NoPick \notin Screens /\ Primary \in Screens
  /\ Size \in [Screens -> Nat \ {0}]
  /\ Asks \subseteq Features /\ Extras \subseteq Kinds
  /\ Pipeline \in BOOLEAN /\ Continuous \in BOOLEAN /\ CanDrop \in BOOLEAN
  /\ MaxExtras \in Nat /\ MaxDraws \in Nat /\ MaxLayouts \in Nat
  /\ Room \in Nat \ {0}

VARIABLES
  desk,         (* what is on each region of the desktop                   *)
  plugged,      (* the monitors present                                    *)
  primary,      (* the region shared when nothing (valid) is picked        *)
  news,         (* pointer shape or monitor list the client was not told   *)
  draws, layouts, extras,               (* how much of each bound is used  *)
  c2s, s2c,     (* the two directions of the connection                    *)
  linked,       (* the connection is up                                    *)
  cpc,          (* client: "hello", "live" or "gone"                       *)
  ccont,        (* Vnc.continuous: "off", "on"; a third-party client that  *)
                (* disables again is "stopping", then "stopped"            *)
  screen,       (* Vnc.screen                                              *)
  frame,        (* the copy the window draws                               *)
  rpc,          (* reader: at a message, or between two of its effects     *)
  wants, incremental, encs, pick, continuous, fmt, alive,     (* Shared    *)
  spc,          (* sender: where send_frames is in its loop                *)
  cont,         (* its copy of Shared.continuous for this iteration        *)
  region,       (* (ox, oy, w, h), and Shared.origin, which follows it     *)
  prev, cur,    (* what the client has, what was captured                  *)
  first, resized,
  upd,          (* the update built and not yet written                    *)
  views         (* history: the picture the client will have after each    *)
                (* message of s2c                                          *)

desktop == <<desk, plugged, primary, news, draws, layouts>>
client  == <<cpc, ccont, screen, frame, extras>>
wire    == <<c2s, s2c, views, linked>>
shared  == <<wants, incremental, encs, pick, continuous, fmt, alive>>
sender  == <<spc, cont, region, prev, cur, first, resized, upd>>
vars    == <<desktop, client, wire, shared, sender, rpc>>

----------------------------------------------------------------------------
Value == 0 .. (MaxDraws + 1)
Tiles(s) == 1 .. Size[s]
Picture == UNION {[on : {s}, px : [Tiles(s) -> Value]] : s \in Screens}
Blank(s) == [on |-> s, px |-> [t \in Tiles(s) |-> 0]]
Shot(s) == [on |-> s, px |-> desk[s]]

(* share_region: the pick if that monitor is there, the default otherwise. *)
Region(p) == IF p \in plugged THEN p ELSE primary

(* What a CopyRect does to the pixels: copy maps each tile it writes to    *)
(* the tile it reads.                                                      *)
Moved(px, copy) == [t \in DOMAIN px |->
                      IF t \in DOMAIN copy THEN px[copy[t]] ELSE px[t]]

(* What decoding an update does to the client's screen: DesktopSize first, *)
(* then CopyRect, then the pixels that were sent.                          *)
Apply(c, u) ==
  LET base == IF u.resized THEN Blank(u.on) ELSE c
      moved == Moved(base.px, u.copy)
  IN  [on |-> base.on, px |-> [t \in DOMAIN moved |->
                                 IF t \in DOMAIN u.px THEN u.px[t] ELSE moved[t]]]

(* Mutant: a moved region is not reported.                                 *)
Touched_noCopy(u) == IF u.resized THEN Tiles(u.on) ELSE DOMAIN u.px

(* The regions an update touched, as Vnc.dirty lists them.                 *)
Touched(u) == IF u.resized THEN Tiles(u.on) ELSE DOMAIN u.copy \cup DOMAIN u.px

(* session's copy into the frame the window draws: all of it when the size *)
(* changed, the touched regions otherwise.                                 *)
Publish(f, c, u) ==
  IF DOMAIN f # DOMAIN c.px THEN c.px
  ELSE [t \in DOMAIN f |-> IF t \in Touched(u) THEN c.px[t] ELSE f[t]]

Request(inc) == [type |-> "request", incremental |-> inc]
SetEncodings(p) == [type |-> "encodings", encs |-> Asks, pick |-> p]
Enable(on) == [type |-> "continuous", on |-> on]
SetPixelFormat(f) == [type |-> "format", fmt |-> f]
End(why) == [type |-> "end", why |-> why]
Frame(u, f) == [type |-> "update", parts |-> u, fmt |-> f]
NoUpdate == [full |-> FALSE]
NoCopy == [t \in {} |-> t]

----------------------------------------------------------------------------
(* The desktop being shared: Windows, outside the program.                 *)

(* Somebody draws on a region, or scrolls it by a tile.                    *)
Draw == /\ draws < MaxDraws
        /\ draws' = draws + 1
        /\ \E s \in Screens :
             LET fresh == draws + 2 IN
             \/ \E t \in Tiles(s) : desk' = [desk EXCEPT ![s][t] = fresh]
             \/ desk' = [desk EXCEPT ![s] = [t \in Tiles(s) |->
                           IF t < Size[s] THEN desk[s][t + 1] ELSE fresh]]
        /\ UNCHANGED <<plugged, primary, news, layouts>>
        /\ UNCHANGED <<client, wire, shared, sender, rpc>>

(* A monitor comes or goes, the resolution changes, or the pointer takes a *)
(* new shape: the client was told none of it yet.                          *)
Layout == /\ layouts < MaxLayouts
          /\ layouts' = layouts + 1
          /\ primary' \in Screens
          /\ plugged' \in {P \in SUBSET Screens : primary' \in P}
          /\ news' = TRUE
          /\ UNCHANGED <<desk, draws>>
          /\ UNCHANGED <<client, wire, shared, sender, rpc>>

Drop == /\ CanDrop /\ linked
        /\ linked' = FALSE
        /\ UNCHANGED <<c2s, s2c, views>>
        /\ UNCHANGED <<desktop, client, shared, sender, rpc>>

----------------------------------------------------------------------------
(* The client's network thread.                                            *)

ClientSends(ms) == c2s' = c2s \o ms

(* session: one full frame to start with; without pipelining the loop asks *)
(* for the next one before it waits.                                       *)
Hello == /\ cpc = "hello"
         /\ cpc' = "live"
         /\ ClientSends(IF Pipeline THEN <<Request(FALSE)>>
                        ELSE <<Request(FALSE), Request(TRUE)>>)
         /\ UNCHANGED <<ccont, screen, frame, extras, s2c, views, linked>>
         /\ UNCHANGED <<desktop, shared, sender, rpc>>

Received == s2c' = Tail(s2c) /\ views' = Tail(views)

(* Mutant: asking twice for each update.                                   *)
NextRequest_twice == <<Request(TRUE), Request(TRUE)>>
(* pump, message 0: with pipelining the next frame is asked for before     *)
(* this one is decoded, without it by session's loop after; with           *)
(* continuous updates pipelining asks for nothing.                         *)
NextRequest == IF Pipeline /\ ccont \in {"on", "stopping"} THEN <<>>
               ELSE <<Request(TRUE)>>

Update(m) == /\ m.type = "update"
             /\ Received
             /\ ClientSends(NextRequest)
             /\ screen' = Apply(screen, m.parts)
             /\ frame' = Publish(frame, screen', m.parts)
             /\ UNCHANGED <<cpc, ccont, extras>>

(* pump, message 150: unprompted it is the offer, and is taken up.  A      *)
(* client that disabled goes back to requests once it has the reply.       *)
EndOfContinuous(m) ==
  /\ m.type = "end"
  /\ Received
  /\ \/ /\ ccont = "off" /\ Continuous
        /\ ClientSends(<<Enable(TRUE)>>)
        /\ ccont' = "on"
     \/ /\ ccont = "stopping" /\ m.why = "reply"
        /\ ClientSends(<<Request(TRUE)>>)
        /\ ccont' = "stopped"
     \/ /\ ~(ccont = "off" /\ Continuous) /\ ~(ccont = "stopping" /\ m.why = "reply")
        /\ UNCHANGED <<ccont, c2s>>
  /\ UNCHANGED <<cpc, screen, frame, extras>>

Pump == /\ cpc = "live" /\ s2c # <<>>
        /\ Update(Head(s2c)) \/ EndOfContinuous(Head(s2c))
        /\ UNCHANGED linked
        /\ UNCHANGED <<desktop, shared, sender, rpc>>

(* pump fails on a broken connection and session returns.                  *)
ClientLeaves == /\ ~linked /\ cpc # "gone"
                /\ cpc' = "gone"
                /\ UNCHANGED <<ccont, screen, frame, extras>>
                /\ UNCHANGED <<desktop, wire, shared, sender, rpc>>

(* What the person, or a client other than ours, may add: another monitor  *)
(* (share_monitor), a non-incremental request, a new pixel format, or the  *)
(* end of continuous updates.  The program's own clients send only the     *)
(* first.                                                                  *)
Extra == /\ cpc = "live" /\ extras < MaxExtras
         /\ extras' = extras + 1
         /\ \/ /\ "pick" \in Extras
               /\ \E s \in Screens : ClientSends(<<SetEncodings(s)>>)
               /\ UNCHANGED ccont
            \/ /\ "full" \in Extras
               /\ ClientSends(<<Request(FALSE)>>)
               /\ UNCHANGED ccont
            \/ /\ "format" \in Extras
               /\ \E f \in {0, 1} : ClientSends(<<SetPixelFormat(f)>>)
               /\ UNCHANGED ccont
            \/ /\ "stop" \in Extras /\ ccont = "on"
               /\ ClientSends(<<Enable(FALSE)>>)
               /\ ccont' = "stopping"
         /\ UNCHANGED <<cpc, screen, frame, s2c, views, linked>>
         /\ UNCHANGED <<desktop, shared, sender, rpc>>

----------------------------------------------------------------------------
(* The server's reader thread: read_client.                                *)

Asked == wants' = TRUE
(* The loop goes round only while the session is alive; leaving it is      *)
(* followed by Shared::stop.                                               *)
NextMessage == IF alive THEN "read" ELSE "done"

(* The picture the client will have once it has read all of s2c.           *)
Promised == IF s2c = <<>> THEN screen ELSE views[Len(views)]

ReadFormat(m) == /\ m.type = "format"
                 /\ fmt' = m.fmt
                 /\ incremental' = FALSE
                 /\ rpc' = NextMessage
                 /\ UNCHANGED <<wants, encs, pick, continuous, alive>>

(* The stores before asked() are one step: a client lists the same things  *)
(* every time, so after the first message only pick changes.               *)
ReadEncodings(m) == /\ m.type = "encodings"
                    /\ encs' = m.encs /\ pick' = m.pick
                    /\ rpc' = IF "continuous" \in m.encs THEN "announce" ELSE "ask"
                    /\ UNCHANGED <<wants, incremental, continuous, fmt, alive>>

ReadRequest(m) == /\ m.type = "request"
                  /\ incremental' = (incremental /\ m.incremental)
                  /\ rpc' = "ask"
                  /\ UNCHANGED <<wants, encs, pick, continuous, fmt, alive>>

(* Mutant: the flag is read and not kept.                                  *)
ReadContinuous_unkept(m) ==
  /\ m.type = "continuous"
  /\ rpc' = IF m.on THEN NextMessage ELSE "reply"
  /\ UNCHANGED <<wants, incremental, encs, pick, continuous, fmt, alive>>

(* Mutant: a disable is acknowledged and not heeded.                       *)
ReadContinuous_sticky(m) ==
  /\ m.type = "continuous"
  /\ continuous' = (continuous \/ m.on)
  /\ rpc' = IF m.on THEN NextMessage ELSE "reply"
  /\ UNCHANGED <<wants, incremental, encs, pick, fmt, alive>>

ReadContinuous(m) == /\ m.type = "continuous"
                     /\ continuous' = m.on
                     /\ rpc' = IF m.on THEN NextMessage ELSE "reply"
                     /\ UNCHANGED <<wants, incremental, encs, pick, fmt, alive>>

Read == /\ rpc = "read" /\ c2s # <<>>
        /\ c2s' = Tail(c2s)
        /\ \/ ReadFormat(Head(c2s))
           \/ ReadEncodings(Head(c2s))
           \/ ReadRequest(Head(c2s))
           \/ ReadContinuous(Head(c2s))
        /\ UNCHANGED <<s2c, views, linked>>
        /\ UNCHANGED <<desktop, client, sender>>

(* The second half of both: asked() takes the lock and wakes.              *)
Ask == /\ rpc \in {"ask", "announce"}
       /\ Asked
       /\ rpc' = IF rpc = "ask" THEN NextMessage ELSE "offer"
       /\ UNCHANGED <<incremental, encs, pick, continuous, fmt, alive>>
       /\ UNCHANGED <<desktop, client, wire, sender>>

(* EndOfContinuousUpdates, as the offer after SetEncodings or as the reply *)
(* to a disable, written under the lock of the write half.                 *)
WriteEnd == /\ rpc \in {"offer", "reply"} /\ linked /\ Len(s2c) < Room
            /\ s2c' = Append(s2c, End(rpc))
            /\ views' = Append(views, Promised)
            /\ rpc' = NextMessage
            /\ UNCHANGED <<c2s, linked, shared>>
            /\ UNCHANGED <<desktop, client, sender>>

(* Mutant: the reader goes without stopping the sender.                    *)
ReaderFails_alone == /\ ~linked /\ rpc \in {"read", "offer", "reply"}
                     /\ rpc' = "done"
                     /\ UNCHANGED <<shared, desktop, client, wire, sender>>

(* A read or a write fails: read_client returns and serve stops the rest.  *)
ReaderFails == /\ ~linked /\ rpc \in {"read", "offer", "reply"}
               /\ rpc' = "done"
               /\ alive' = FALSE
               /\ UNCHANGED <<wants, incremental, encs, pick, continuous, fmt>>
               /\ UNCHANGED <<desktop, client, wire, sender>>

----------------------------------------------------------------------------
(* The server's sender thread: send_frames.                                *)

(* The top of the loop: still alive, and who decides when to send?         *)
Top == /\ spc = "top"
       /\ IF alive THEN /\ cont' = continuous
                        /\ spc' = IF continuous THEN "look" ELSE "wait"
                   ELSE /\ spc' = "done"
                        /\ UNCHANGED cont
       /\ UNCHANGED <<region, prev, cur, first, resized, upd>>
       /\ UNCHANGED <<desktop, client, wire, shared, rpc>>

(* The request is consumed before capturing, never after sending.          *)
Consume == /\ spc = "wait" /\ wants
           /\ wants' = FALSE
           /\ spc' = "look"
           /\ UNCHANGED <<cont, region, prev, cur, first, resized, upd>>
           /\ UNCHANGED <<incremental, encs, pick, continuous, fmt, alive>>
           /\ UNCHANGED <<desktop, client, wire, rpc>>

WaitEnds == /\ spc = "wait" /\ ~wants /\ ~alive
            /\ spc' = "done"
            /\ UNCHANGED <<cont, region, prev, cur, first, resized, upd>>
            /\ UNCHANGED <<desktop, client, wire, shared, rpc>>

(* Mutant: the client is not told that the region changed.                 *)
Look_unannounced ==
  /\ spc = "look"
  /\ LET now == Region(pick) IN
     /\ region' = now /\ resized' = FALSE /\ spc' = "grab"
     /\ IF now = region THEN UNCHANGED <<prev, cur>>
                        ELSE prev' = Blank(now) /\ cur' = Blank(now)
  /\ UNCHANGED <<cont, first, upd, shared>>
  /\ UNCHANGED <<desktop, client, wire, rpc>>

(* Which region is shared now?  A change restarts the picture, or ends the *)
(* session for a client that cannot be told (send_frames returns an error  *)
(* and the thread calls Shared::stop).                                     *)
Look == /\ spc = "look"
        /\ LET now == Region(pick) IN
           \/ /\ now = region
              /\ resized' = FALSE
              /\ spc' = "grab"
              /\ UNCHANGED <<region, prev, cur, alive>>
           \/ /\ now # region /\ "resize" \in encs
              /\ region' = now
              /\ prev' = Blank(now) /\ cur' = Blank(now)
              /\ resized' = TRUE
              /\ spc' = "grab"
              /\ UNCHANGED alive
           \/ /\ now # region /\ "resize" \notin encs
              /\ alive' = FALSE
              /\ spc' = "done"
              /\ UNCHANGED <<region, prev, cur, resized>>
        /\ UNCHANGED <<cont, first, upd>>
        /\ UNCHANGED <<wants, incremental, encs, pick, continuous, fmt>>
        /\ UNCHANGED <<desktop, client, wire, rpc>>

(* Bands that moved: the rows of find_scroll, each checked against the     *)
(* captured picture, or a move the capture reported.                       *)
Scrolls(p, c) ==
  {f \in UNION {[a .. b -> DOMAIN p.px] : a \in DOMAIN p.px, b \in DOMAIN p.px} :
     /\ \E d \in DOMAIN p.px : \/ \A t \in DOMAIN f : f[t] = t + d
                               \/ \A t \in DOMAIN f : f[t] + d = t
     /\ \A t \in DOMAIN f : c.px[t] = p.px[f[t]]}

(* Mutant: the comparison stops at the first tile that differs.            *)
Changed_first(have, c) ==
  {t \in DOMAIN c.px : have[t] # c.px[t] /\ \A u \in 1 .. t - 1 : have[u] = c.px[u]}

(* The tiles that have to be sent, given what the client has.              *)
Changed(have, c) == {t \in DOMAIN c.px : have[t] # c.px[t]}

Built(res, c, copy, tiles, full) ==
  [resized |-> res, on |-> c.on, copy |-> copy,
   px |-> [t \in tiles |-> c.px[t]], full |-> full, free |-> cont]

(* Capture the region and work out the update.  A full one carries every   *)
(* tile; an incremental one the moved band and at least the tiles that     *)
(* still differ; with nothing to send the request is put back.             *)
Grab ==
  /\ spc = "grab"
  /\ cur' = Shot(region)
  /\ LET full  == first \/ resized \/ ~incremental
         aside == news /\ "aside" \in encs
     IN  \/ /\ full
            /\ upd' = Built(resized, cur', NoCopy, DOMAIN cur'.px, TRUE)
            /\ spc' = "send"
            /\ UNCHANGED wants
         \/ /\ ~full
            /\ \E copy \in {NoCopy} \cup (IF "copyrect" \in encs /\ prev # cur'
                                         THEN Scrolls(prev, cur') ELSE {}),
                  tiles \in SUBSET DOMAIN cur'.px :
                 /\ Changed(Moved(prev.px, copy), cur') \subseteq tiles
                 /\ copy # NoCopy \/ tiles # {} \/ aside
                 /\ upd' = Built(FALSE, cur', copy, tiles, FALSE)
            /\ spc' = "send"
            /\ UNCHANGED wants
         \/ /\ ~full /\ prev = cur' /\ ~aside
            /\ wants' = (wants \/ ~cont)
            /\ spc' = "top"
            /\ UNCHANGED upd
  /\ news' = IF "aside" \in encs THEN FALSE ELSE news
  /\ UNCHANGED <<cont, region, prev, first, resized>>
  /\ UNCHANGED <<desk, plugged, primary, draws, layouts>>
  /\ UNCHANGED <<incremental, encs, pick, continuous, fmt, alive>>
  /\ UNCHANGED <<client, wire, rpc>>

(* Mutant: a write that never waits for room.                              *)
Send_unbounded == /\ spc = "send" /\ linked
                  /\ s2c' = Append(s2c, Frame(upd, fmt))
                  /\ views' = Append(views, cur)
                  /\ spc' = "settle"
                  /\ UNCHANGED <<cont, region, prev, cur, first, resized, upd, c2s, linked>>
                  /\ UNCHANGED <<desktop, client, shared, rpc>>

(* Encode in the format of the moment and write, blocking while the        *)
(* connection is full.                                                     *)
Send == /\ spc = "send" /\ linked /\ Len(s2c) < Room
        /\ s2c' = Append(s2c, Frame(upd, fmt))
        /\ views' = Append(views, cur)
        /\ spc' = "settle"
        /\ UNCHANGED <<cont, region, prev, cur, first, resized, upd>>
        /\ UNCHANGED <<c2s, linked>>
        /\ UNCHANGED <<desktop, client, shared, rpc>>

SendFails == /\ spc = "send" /\ ~linked
             /\ spc' = "done"
             /\ alive' = FALSE
             /\ UNCHANGED <<cont, region, prev, cur, first, resized, upd>>
             /\ UNCHANGED <<wants, incremental, encs, pick, continuous, fmt>>
             /\ UNCHANGED <<desktop, client, wire, rpc>>

(* Mutants: the request is cleared after the send, as an earlier version   *)
(* did; the copy of what the client has is not brought up to date.         *)
Settle_clearsRequest ==
  /\ spc = "settle"
  /\ prev' = cur /\ first' = FALSE /\ incremental' = TRUE /\ wants' = FALSE
  /\ upd' = NoUpdate /\ spc' = "top"
  /\ UNCHANGED <<cont, region, cur, resized, encs, pick, continuous, fmt, alive>>
  /\ UNCHANGED <<desktop, client, wire, rpc>>
Settle_keepsOld ==
  /\ spc = "settle"
  /\ first' = FALSE /\ incremental' = TRUE
  /\ upd' = NoUpdate /\ spc' = "top"
  /\ UNCHANGED <<prev, cont, region, cur, resized, wants, encs, pick, continuous, fmt, alive>>
  /\ UNCHANGED <<desktop, client, wire, rpc>>

(* What was sent is now what the client has.                               *)
Settle == /\ spc = "settle"
          /\ prev' = cur
          /\ first' = FALSE
          /\ incremental' = TRUE
          /\ upd' = NoUpdate
          /\ spc' = "top"
          /\ UNCHANGED <<cont, region, cur, resized>>
          /\ UNCHANGED <<wants, encs, pick, continuous, fmt, alive>>
          /\ UNCHANGED <<desktop, client, wire, rpc>>

----------------------------------------------------------------------------
Init ==
  /\ desk = [s \in Screens |-> [t \in Tiles(s) |-> 1]]
  /\ plugged = Screens /\ primary = Primary /\ news = TRUE
  /\ draws = 0 /\ layouts = 0 /\ extras = 0
  /\ c2s = <<SetPixelFormat(0), SetEncodings(NoPick)>>
  /\ s2c = <<>> /\ views = <<>> /\ linked = TRUE
  /\ cpc = "hello" /\ ccont = "off"
  /\ screen = Blank(Primary) /\ frame = Blank(Primary).px
  /\ rpc = "read"
  /\ wants = FALSE /\ incremental = FALSE /\ encs = {} /\ pick = NoPick
  /\ continuous = FALSE /\ fmt = 0 /\ alive = TRUE
  /\ spc = "top" /\ cont = FALSE /\ region = Primary
  /\ prev = Blank(Primary) /\ cur = Blank(Primary)
  /\ first = TRUE /\ resized = FALSE /\ upd = NoUpdate

ClientStep == Hello \/ Pump \/ ClientLeaves
ReaderStep == Read \/ Ask \/ WriteEnd \/ ReaderFails
SenderStep == Top \/ Consume \/ WaitEnds \/ Look \/ Grab \/ Send \/ SendFails \/ Settle
Environment == Draw \/ Layout \/ Drop \/ Extra

Next == ClientStep \/ ReaderStep \/ SenderStep \/ Environment

Spec == Init /\ [][Next]_vars

(* The operating system runs each of the three threads.                    *)
Fairness == WF_vars(ClientStep) /\ WF_vars(ReaderStep) /\ WF_vars(SenderStep)
FairSpec == Spec /\ Fairness

----------------------------------------------------------------------------
(* What has to hold.                                                       *)

ClientMsg == [type : {"request"}, incremental : BOOLEAN]
   \cup [type : {"encodings"}, encs : SUBSET Features, pick : Screens \cup {NoPick}]
   \cup [type : {"continuous"}, on : BOOLEAN]
   \cup [type : {"format"}, fmt : {0, 1}]

(* A part of an update gives some tiles of a region values from V.         *)
AllTiles == UNION {Tiles(s) : s \in Screens}
Part(V) == UNION {[D -> V] : D \in SUBSET AllTiles}
Updates == [resized : BOOLEAN, on : Screens, copy : Part(AllTiles), px : Part(Value),
            full : BOOLEAN, free : BOOLEAN]
ServerMsg == [type : {"update"}, parts : Updates, fmt : {0, 1}]
   \cup [type : {"end"}, why : {"offer", "reply"}]

(* Types of the state of the session.                                      *)
DesktopOK ==
  /\ DOMAIN desk = Screens /\ \A s \in Screens : desk[s] \in [Tiles(s) -> Value]
  /\ plugged \subseteq Screens /\ primary \in Screens /\ news \in BOOLEAN
  /\ draws \in 0 .. MaxDraws /\ layouts \in 0 .. MaxLayouts
ClientOK ==
  /\ cpc \in {"hello", "live", "gone"} /\ ccont \in {"off", "on", "stopping", "stopped"}
  /\ screen \in Picture /\ extras \in 0 .. MaxExtras
WireOK ==
  /\ c2s \in Seq(ClientMsg) /\ s2c \in Seq(ServerMsg) /\ views \in Seq(Picture)
  /\ Len(views) = Len(s2c) /\ Len(s2c) <= Room
  /\ linked \in BOOLEAN
ReaderOK ==
  /\ rpc \in {"read", "ask", "announce", "offer", "reply", "done"}
  /\ wants \in BOOLEAN /\ incremental \in BOOLEAN /\ encs \subseteq Features
  /\ pick \in Screens \cup {NoPick} /\ continuous \in BOOLEAN /\ fmt \in {0, 1}
  /\ alive \in BOOLEAN
SenderOK ==
  /\ spc \in {"top", "wait", "look", "grab", "send", "settle", "done"}
  /\ cont \in BOOLEAN /\ region \in Screens /\ first \in BOOLEAN /\ resized \in BOOLEAN
  /\ prev \in Picture /\ cur \in Picture
  /\ upd \in Updates \cup {NoUpdate}
  /\ spc \in {"send", "settle"} => upd \in Updates
TypeOK == DesktopOK /\ ClientOK /\ WireOK /\ ReaderOK /\ SenderOK

(* An update never names a tile outside the framebuffer the client has     *)
(* when it gets there: Decoder::rect and copy_rect end the session over    *)
(* one, and a region that changed size is announced ahead of its pixels.   *)
FitsOn(c, u) == LET tiles == IF u.resized THEN Tiles(u.on) ELSE DOMAIN c.px IN
                /\ DOMAIN u.px \subseteq tiles
                /\ DOMAIN u.copy \subseteq tiles
                /\ \A t \in DOMAIN u.copy : u.copy[t] \in tiles
Decodable == s2c # <<>> /\ Head(s2c).type = "update" => FitsOn(screen, Head(s2c).parts)

(* Once everything written has been decoded, the client's screen is the    *)
(* picture the server diffs against: changed tiles, copied bands, resizes  *)
(* and switches of monitor lose nothing and add nothing.                   *)
InSync ==
  s2c = <<>> =>
    \/ spc = "settle" /\ screen = cur
    \/ spc \in {"grab", "send", "done"} /\ resized
    \/ spc # "settle" /\ screen = prev

(* The window's copy, which takes only the touched regions, is the         *)
(* client's screen.                                                        *)
FrameIsScreen == frame = screen.px

(* Without continuous updates, every picture is paid for by a request or a *)
(* SetEncodings: counting requests on their way, the outstanding one, the  *)
(* frame being made and the updates on their way back, there are never     *)
(* more than the client started with, so no queue of pictures builds up... *)
Count(q, T) == Cardinality({i \in DOMAIN q : q[i].type \in T})
One(b) == IF b THEN 1 ELSE 0
Tokens == Count(c2s, {"request", "encodings"}) + Count(s2c, {"update"})
          + One(wants) + One(rpc \in {"ask", "announce"}) + One(spc \in {"look", "grab", "send"})
PipelineBounded == Tokens <= (IF Pipeline THEN 2 ELSE 3) + extras

(* ... and while the session is up there is always at least one, so a      *)
(* request that arrives while a frame goes out survives and the pictures   *)
(* never stop coming.                                                      *)
NeverStalls == cpc = "live" /\ alive /\ linked => Tokens >= 1

(* When the desktop stays as it is, the client ends up showing it.         *)
Converges == <>[](screen = Shot(Region(pick)))

(* A sender that waits for a request which is not coming, though the       *)
(* client turned continuous updates on; but for that and a broken          *)
(* connection a client that picks, refreshes or disables converges too.    *)
Parked == spc = "wait" /\ ~wants /\ continuous
ConvergesUnlessParked == Converges \/ <>Parked \/ <>~linked

(* A disable is acknowledged by the reader while the sender may be making  *)
(* a picture nobody asked for (server.rs:2115): that one may still come    *)
(* after the reply, and no second one, however long the client waits.      *)
FreeAfter(i) == Cardinality({j \in DOMAIN s2c : j > i /\ s2c[j].type = "update"
                                                /\ s2c[j].parts.free})
InTheMaking == One(cont /\ spc \in {"look", "grab", "send"})
OneLateFrame ==
  /\ ccont = "stopped" => FreeAfter(0) + InTheMaking <= 1
  /\ \A i \in DOMAIN s2c : s2c[i].type = "end" /\ s2c[i].why = "reply" =>
                            FreeAfter(i) + InTheMaking <= 1

(* A broken connection ends both of the server's threads and the client's  *)
(* session, wherever each of them was.                                     *)
DropEndsAll == ~linked ~> (cpc = "gone" /\ rpc = "done" /\ spc = "done")

(* Everything the client shows is a picture a shared region really had.    *)
Mirrored == INSTANCE Mirror WITH
  shown <- screen,
  taken <- {views[i] : i \in DOMAIN views} \cup (IF spc = "send" THEN {cur} ELSE {})
MirrorsDesktop == Mirrored!Spec

(* Statements of the source that the code does not keep.                   *)

(* server.rs:1452: nothing may be sent until a request arrives.            *)
NothingBeforeRequest == cpc = "hello" => Count(s2c, {"update"}) = 0

(* server.rs:2051: the update that follows a change of format is full.     *)
NextUpdateIsFull ==
  \A i \in DOMAIN s2c : i > 1 /\ s2c[i].type = "update" /\ s2c[i - 1].type = "update"
                        /\ s2c[i].fmt # s2c[i - 1].fmt => s2c[i].parts.full

(* rfb.rs:606: after the reply to a disable, the last update has been sent *)
(* (one that no request asked for, that is).                               *)
LastUpdateBeforeReply ==
  \A i, j \in DOMAIN s2c : i < j /\ s2c[i].type = "end" /\ s2c[i].why = "reply"
                            /\ s2c[j].type = "update" => ~s2c[j].parts.free

(* server.rs:2249: a sender that gives up ends the session.                *)
SessionEnds == spc = "done" ~> rpc = "done"
=============================================================================
