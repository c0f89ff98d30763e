------------------------------ MODULE Window ------------------------------
(***************************************************************************)
(* The client's window: the loop of run_window, which sends the mouse and  *)
(* draws the remote screen with the pointer on it, beside the network      *)
(* thread that publishes frames and connects again, and what read_client   *)
(* makes of pointer events on the server's machine.                        *)
(***************************************************************************)
EXTENDS Integers, Sequences, FiniteSets, FiniteSetsExt

CONSTANTS
  Rects,        (* the regions: 0 is all of the desktop, k the monitor k   *)
  Win,          (* width and height of the window                          *)
  Spots,        (* where in it the mouse may be                            *)
  Buttons,      (* some of 1, 2 and 4: left, middle and right in the mask  *)
  MaxMoves,     (* bound: movements of the mouse and its buttons           *)
  MaxFrames,    (* bound: updates the server sends                         *)
  MaxUpsets     (* bound: uses of Ctrl-Shift-M, losses of the connection   *)

Monitors == DOMAIN Rects \ {0}
Outside == <<-1, -1>>
Nowhere == <<-1, -1>>
Arrow == -1                   (* a pixel of the pointer                    *)

(* The pointer's picture: pixels relative to its hot spot.                 *)
Shape == {<<0, 0>>, <<1, 0>>, <<0, -1>>}

ASSUME WindowAssumption ==
  /\ Buttons \subseteq {1, 2, 4}
  /\ IsFiniteSet(DOMAIN Rects)
  /\ \E n \in 1 .. Cardinality(DOMAIN Rects) : DOMAIN Rects = 0 .. n
  /\ \A k \in DOMAIN Rects : /\ Rects[k].w \in Nat \ {0} /\ Rects[k].w <= Rects[0].w
                            /\ Rects[k].h \in Nat \ {0} /\ Rects[k].h <= Rects[0].h
  /\ Win[1] \in Nat \ {0} /\ Win[2] \in Nat \ {0}
  /\ Spots \subseteq Int \X Int /\ Outside \notin Spots

VARIABLES
  mouse, down,  (* where the mouse is, the buttons that are down           *)
  upc,          (* the window's loop: "input", "look", "draw" or "blit"    *)
  mask, pos,    (* Input.mask and Input.pos                                *)
  size,         (* size of the frame drawn last                            *)
  at,           (* where the pointer is drawn                              *)
  frame,        (* the frame both threads share: [k, w, h, px], k being    *)
                (* the region it is a picture of                           *)
  under,        (* what the pointer was painted over                       *)
  shown,        (* what is in the window, the pointer left out             *)
  dirty,        (* a frame was published                                   *)
  npc,          (* the network thread: "pump", "publish", "tell" or "wait" *)
  screen,       (* Vnc.screen                                              *)
  touched,      (* the pixels an update touched                            *)
  showing,      (* monitors: the region last published, -1 for none        *)
  backoff,      (* seconds the network thread waits for next time          *)
  c2s, s2c, linked, online, running,
  region,       (* the region the server's sender shares                   *)
  pick,         (* Shared.pick                                             *)
  smask,        (* read_client's mask                                      *)
  pointer,      (* the pointer on the server's machine                     *)
  pressed,      (* the buttons that are down there                         *)
  moves, frames, upsets,                (* how much of each bound is used  *)
  drops         (* history: losses of the connection                       *)

hand == <<mouse, down, moves>>
input == <<mask, pos>>
drawing == <<size, at, shown>>
network == <<npc, screen, touched, backoff>>
link == <<c2s, s2c, linked, online, running>>
machine == <<smask, pointer, pressed>>
server == <<region, pick, frames>>
bounds == <<upsets, drops>>
windowVars == <<hand, upc, input, drawing, frame, under, dirty, showing,
          network, link, server, machine, bounds>>

Blank(k, v) == [k |-> k, w |-> Rects[k].w, h |-> Rects[k].h,
                px |-> [p \in (0 .. Rects[k].w - 1) \X (0 .. Rects[k].h - 1) |-> v]]

WindowInit ==
  /\ mouse = Outside /\ down = {} /\ moves = 0
  /\ upc = "input" /\ mask = 0 /\ pos = <<0, 0>>
  /\ size = <<Rects[1].w, Rects[1].h>> /\ at = Nowhere
  /\ frame = Blank(1, 0) /\ under = <<>> /\ shown = Blank(1, 0) /\ dirty = TRUE
  /\ npc = "pump" /\ screen = Blank(1, 0) /\ touched = {} /\ showing = -1 /\ backoff = 1
  /\ c2s = <<>> /\ s2c = <<>> /\ linked = TRUE /\ online = TRUE /\ running = TRUE
  /\ region = 1 /\ pick = 1 /\ smask = 0 /\ pointer = <<0, 0>> /\ pressed = {}
  /\ frames = 0 /\ upsets = 0 /\ drops = 0

----------------------------------------------------------------------------
(* The person.                                                             *)
Move(s, b) == /\ moves < MaxMoves /\ moves' = moves + 1
              /\ <<s, b>> # <<mouse, down>>
              /\ s = Outside => b \subseteq down      (* released out there *)
              /\ mouse' = s /\ down' = b
              /\ UNCHANGED <<upc, input, drawing, frame, under, dirty, showing,
                             network, link, server, machine, bounds>>

----------------------------------------------------------------------------
(* to_fb: the frame is scaled to fit and centred; what is on the bars      *)
(* beside it counts as its edge.                                           *)
Clamp(x, n) == IF x < 0 THEN 0 ELSE IF x > n - 1 THEN n - 1 ELSE x
Unscaled(m, win, fb, num, den) == (2 * m * num - win * num + fb * den) \div (2 * den)

ToFb(m, fb) ==
  LET num == IF Win[1] * fb[2] <= Win[2] * fb[1] THEN fb[1] ELSE fb[2]
      den == IF Win[1] * fb[2] <= Win[2] * fb[1] THEN Win[1] ELSE Win[2]
  IN  <<Clamp(Unscaled(m[1], Win[1], fb[1], num, den), fb[1]),
        Clamp(Unscaled(m[2], Win[2], fb[2], num, den), fb[2])>>

(* next_monitor *)
NextMonitor(k) == IF k = 0 THEN 1 ELSE IF k >= Cardinality(Monitors) THEN 0 ELSE k + 1

Pointer(m, p) == [type |-> "pointer", mask |-> m, at |-> p]
Share(k) == [type |-> "share", k |-> k]
Bits == SumSet(down)

(* What pump sends: the monitor asked for, and the mouse if anything       *)
(* changed; nothing of a mouse outside the window.                         *)
Asked(hotkey) == IF hotkey /\ showing # -1 THEN <<Share(NextMonitor(showing))>> ELSE <<>>
Moved(p) == IF <<Bits, p>> # <<mask, pos>> THEN <<Pointer(Bits, p)>> ELSE <<>>

Pump(hotkey) ==
  IF mouse = Outside THEN [msgs |-> Asked(hotkey), mask |-> mask, pos |-> pos]
  ELSE LET p == ToFb(mouse, size) IN
       [msgs |-> Asked(hotkey) \o Moved(p), mask |-> Bits, pos |-> p]

(* The top of the loop.  What goes into a broken connection is lost, or    *)
(* the error ends the client.                                              *)
InputStep ==
  /\ running /\ upc = "input" /\ upc' = "look"
  /\ IF ~online THEN UNCHANGED <<input, c2s, running, upsets>>
     ELSE \E hotkey \in BOOLEAN :
       LET out == Pump(hotkey) IN
       /\ upsets' = IF hotkey THEN upsets + 1 ELSE upsets
       /\ upsets' <= MaxUpsets
       /\ mask' = out.mask /\ pos' = out.pos
       /\ c2s' = IF linked THEN c2s \o out.msgs ELSE c2s
       /\ running' \in IF linked \/ out.msgs = <<>> THEN {TRUE} ELSE BOOLEAN
  /\ UNCHANGED <<hand, drawing, frame, under, dirty, showing, network, s2c, linked, online,
                 server, machine, drops>>

(* Whether there is anything to draw: a frame, or the pointer elsewhere.   *)
LookStep ==
  /\ running /\ upc = "look"
  /\ at' = IF mouse = Outside THEN Nowhere ELSE ToFb(mouse, size)
  /\ upc' = IF dirty \/ at' # at THEN "draw" ELSE "input"
  /\ dirty' = FALSE
  /\ UNCHANGED <<hand, input, size, shown, frame, under, showing, network,
                 link, server, machine, bounds>>

(* Cursor::draw: the shape's pixels that are on the screen, each with what *)
(* was under it.                                                           *)
Covered(f, a) == IF a = Nowhere THEN {}
                 ELSE {p \in DOMAIN f.px : <<p[1] - a[1], p[2] - a[2]>> \in Shape}
Painted(f, a) == [f EXCEPT !.px = [p \in DOMAIN @ |-> IF p \in Covered(f, a) THEN Arrow ELSE @[p]]]

(* The frame's lock is taken, the pointer painted.                         *)
DrawStep ==
  /\ upc = "draw" /\ upc' = "blit"
  /\ size' = <<frame.w, frame.h>> /\ shown' = frame
  /\ under' = [p \in Covered(frame, at) |-> frame.px[p]]
  /\ frame' = Painted(frame, at)
  /\ UNCHANGED <<hand, input, at, dirty, showing, network, link, server,
                 machine, bounds>>

(* Mutant: restore forgets the last pixel.                                 *)
Restored_clipped(f) ==
  [f EXCEPT !.px = [p \in DOMAIN @ |-> IF p \in DOMAIN under /\ p[1] + 1 < f.w THEN under[p] ELSE @[p]]]

(* restore *)
Restored(f) == [f EXCEPT !.px = [p \in DOMAIN @ |-> IF p \in DOMAIN under THEN under[p] ELSE @[p]]]

(* The frame is in the window; the pointer is lifted, the lock released.   *)
BlitStep ==
  /\ upc = "blit" /\ upc' = "input"
  /\ frame' = Restored(frame) /\ under' = <<>>
  /\ UNCHANGED <<hand, input, drawing, dirty, showing, network, link, server,
                 machine, bounds>>
Locked == upc = "blit"

----------------------------------------------------------------------------
(* The network thread.                                                     *)

(* An update arrives: all of a region, or some of its pixels.              *)
Decode ==
  /\ running /\ npc = "pump" /\ s2c # <<>> /\ s2c' = Tail(s2c)
  /\ LET u == Head(s2c) IN
     /\ touched' = u.at
     /\ screen' = IF u.whole THEN Blank(u.k, u.value)
                  ELSE [screen EXCEPT !.px = [p \in DOMAIN @ |->
                                                IF p \in u.at THEN u.value ELSE @[p]]]
  /\ npc' = "publish"
  /\ UNCHANGED <<hand, upc, input, drawing, frame, under, dirty, showing, backoff,
                 c2s, linked, online, running, server, machine, bounds>>

(* session copies it to the frame, under its lock: all of it or what was   *)
(* touched.                                                                *)
Publish ==
  /\ running /\ npc = "publish" /\ ~Locked /\ npc' = "tell"
  /\ frame' = IF <<frame.w, frame.h>> # <<screen.w, screen.h>> THEN screen
              ELSE [screen EXCEPT !.px = [p \in DOMAIN @ |->
                                            IF p \in touched THEN @[p] ELSE frame.px[p]]]
  /\ UNCHANGED <<hand, upc, input, drawing, under, dirty, showing, screen, touched,
                 backoff, link, server, machine, bounds>>

(* Mutant: only another monitor is worth drawing.                          *)
Tell_monitor ==
  /\ running /\ npc = "tell" /\ npc' = "pump"
  /\ showing' = screen.k /\ dirty' = (dirty \/ screen.k # showing)
  /\ UNCHANGED <<hand, upc, input, drawing, frame, under, screen, touched, backoff,
                 link, server, machine, bounds>>

(* Then the monitors, then the flag.                                       *)
Tell == /\ running /\ npc = "tell" /\ npc' = "pump"
        /\ showing' = screen.k /\ dirty' = TRUE
        /\ UNCHANGED <<hand, upc, input, drawing, frame, under, screen, touched,
                       backoff, link, server, machine, bounds>>

(* The link breaks, with some of what is on its way.                       *)
Drop == /\ linked /\ upsets < MaxUpsets /\ linked' = FALSE
        /\ upsets' = upsets + 1 /\ drops' = drops + 1
        /\ \E n \in 0 .. Len(c2s) : c2s' = SubSeq(c2s, 1, n)
        /\ \E n \in 0 .. Len(s2c) : s2c' = SubSeq(s2c, 1, n)
        /\ UNCHANGED <<hand, upc, input, drawing, frame, under, dirty, showing,
                       network, online, running, server, machine>>

(* session ends; the writer is withdrawn and the thread waits.             *)
Longer == IF 2 * backoff > 15 THEN 15 ELSE 2 * backoff
Lose == /\ running /\ npc = "pump" /\ s2c = <<>> /\ ~linked
        /\ online' = FALSE /\ npc' = "wait" /\ backoff' = Longer
        /\ UNCHANGED <<hand, upc, input, drawing, frame, under, dirty, showing,
                       screen, touched, c2s, s2c, linked, running, server, machine, bounds>>

(* It tries again: in vain, or to a new session on the same machine, which *)
(* shares the default region and sends all of it.                          *)
TryInVain == /\ running /\ npc = "wait" /\ backoff < 15 /\ backoff' = Longer
             /\ UNCHANGED <<hand, upc, input, drawing, frame, under, dirty, showing,
                            npc, screen, touched, link, server, machine, bounds>>

Whole(k) == [whole |-> TRUE, k |-> k, at |-> DOMAIN Blank(k, 0).px, value |-> frames]
Connect == /\ running /\ npc = "wait" /\ c2s = <<>>
           /\ linked' = TRUE /\ online' = TRUE /\ npc' = "pump" /\ backoff' = 1
           /\ region' = 1 /\ pick' = 1 /\ smask' = 0
           /\ screen' = Blank(1, 0) /\ s2c' = <<Whole(1)>>
           /\ UNCHANGED <<hand, upc, input, drawing, frame, under, dirty, showing,
                          touched, c2s, running, frames, pointer, pressed, bounds>>

----------------------------------------------------------------------------
(* The server.                                                             *)

(* The sender shares another region, or sends a change of this one.        *)
Switch == /\ linked /\ region # pick
          /\ region' = pick /\ s2c' = Append(s2c, Whole(pick))
          /\ UNCHANGED <<hand, upc, input, drawing, frame, under, dirty, showing,
                         network, c2s, linked, online, running, pick, frames, machine, bounds>>
Change(P) == /\ linked /\ region = pick /\ frames < MaxFrames /\ frames' = frames + 1
             /\ s2c' = Append(s2c, [whole |-> FALSE, k |-> region, at |-> P, value |-> frames'])
             /\ UNCHANGED <<hand, upc, input, drawing, frame, under, dirty, showing,
                            network, c2s, linked, online, running, region, pick, machine, bounds>>

(* buttons: the bits that differ from the message before.                  *)
Bit(m, b) == (m \div b) % 2 = 1

(* Mutant: mask is not kept.                                               *)
Handle_noMask(m) ==
  /\ pointer' = <<Rects[region].x + m.at[1], Rects[region].y + m.at[2]>>
  /\ pressed' = {b \in Buttons : IF Bit(m.mask, b) # Bit(smask, b) THEN Bit(m.mask, b)
                                 ELSE b \in pressed}
  /\ UNCHANGED <<smask, pick>>

Handle(m) ==
  /\ pointer' = <<Rects[region].x + m.at[1], Rects[region].y + m.at[2]>>
  /\ pressed' = {b \in Buttons : IF Bit(m.mask, b) # Bit(smask, b) THEN Bit(m.mask, b)
                                 ELSE b \in pressed}
  /\ smask' = m.mask
  /\ UNCHANGED pick

(* read_client, messages 5 and 2.                                          *)
ReadClient ==
  /\ c2s # <<>> /\ c2s' = Tail(c2s)
  /\ \/ Head(c2s).type = "pointer" /\ Handle(Head(c2s))
     \/ Head(c2s).type = "share" /\ pick' = Head(c2s).k /\ UNCHANGED machine
  /\ UNCHANGED <<hand, upc, input, drawing, frame, under, dirty, showing,
                 network, s2c, linked, online, running, region, frames, bounds>>

----------------------------------------------------------------------------
UI == InputStep \/ LookStep \/ DrawStep \/ BlitStep
Network == Decode \/ Publish \/ Tell \/ Lose \/ Connect
WindowNext ==
  \/ \E s \in Spots \cup {Outside}, b \in SUBSET Buttons : Move(s, b)
  \/ UI \/ Network \/ TryInVain \/ Drop
  \/ Switch \/ ReadClient \/ \E p \in DOMAIN Blank(region, 0).px : Change({p})
WindowSpec == WindowInit /\ [][WindowNext]_windowVars

(* Each of the four threads runs, and the lock is not kept from the        *)
(* network thread forever.                                                 *)
FairWindowSpec ==
  /\ WindowSpec /\ WF_windowVars(UI) /\ SF_windowVars(Publish)
  /\ WF_windowVars(Network)
  /\ WF_windowVars(Switch) /\ WF_windowVars(ReadClient)

----------------------------------------------------------------------------
WindowTypeOK ==
  /\ mouse \in Spots \cup {Outside} /\ down \subseteq Buttons /\ pressed \subseteq Buttons
  /\ upc \in {"input", "look", "draw", "blit"}
  /\ npc \in {"pump", "publish", "tell", "wait"}
  /\ frame.k \in DOMAIN Rects /\ screen.k \in DOMAIN Rects /\ region \in DOMAIN Rects
  /\ showing \in DOMAIN Rects \cup {-1} /\ backoff \in {1, 2, 4, 8, 15}
  /\ online => backoff = 1
  /\ \A i \in DOMAIN c2s : c2s[i].type = "pointer" =>
       c2s[i].at \in (0 .. Rects[0].w - 1) \X (0 .. Rects[0].h - 1)
  /\ {dirty, linked, online, running} \subseteq BOOLEAN

(* restore: outside its lock the frame never has a pointer in it, and once *)
(* an update is in it, it is what the session decoded: no pixel that was   *)
(* under the pointer is put back over a newer one, or left for the next    *)
(* partial update to miss.                                                 *)
CleanFrame == ~Locked => /\ \A p \in DOMAIN frame.px : frame.px[p] # Arrow
                         /\ npc = "tell" => frame = screen

(* Every frame that was published is drawn in the end: the flag that says  *)
(* so is not lost between the two threads.                                 *)
LastFrameDrawn == <>[](running => shown = frame /\ (online => frame = screen))

(* The buttons that are down on the server's machine end up as those of a  *)
(* mouse that stays over the window, wherever it has been in between; and  *)
(* unless the monitor was switched the pointer the window draws is where   *)
(* the server has it.                                                      *)
Steady == running /\ mouse # Outside /\ drops = 0
Meets == <<Rects[region].x + at[1], Rects[region].y + at[2]>> = pointer
MouseFollows == <>[](Steady => pressed = down /\ (upsets = 0 => Meets))

(* The same of a link that breaks (not what the code does).                *)
ButtonsFollowAlways == <>[](running /\ online /\ mouse # Outside => pressed = down)

(* client.rs:400: the pointer is drawn where the server has it, after a    *)
(* switch of monitor too (not what the code does).                         *)
PointerMeetsAfterSwitch == <>[](Steady => Meets)
=============================================================================
