------------------------------- MODULE Capture -------------------------------
(***************************************************************************)
(* Where the server's pictures come from: Capture::grab over Desktop       *)
(* Duplication or BitBlt, the pointer that is painted into them for a      *)
(* client which draws none, and the parts of an update that send_frames    *)
(* makes of what the capture reports.  UpdateFlow has the messages around  *)
(* it; here an update reaches the client in the step that makes it.        *)
(*                                                                         *)
(* A picture is a few cells.  A pixel is what is drawn there, and whether  *)
(* a pointer is painted over it.                                           *)
(***************************************************************************)
EXTENDS Naturals, Sequences, FiniteSets

CONSTANTS
  Cells, Inks,      (* places on the shared region and what can be drawn   *)
  Sessions,         (* kinds of session to consider, a set of records:     *)
  (* duplicates   Desktop Duplication is available at first                *)
  (* cursor       the client asked for CursorShape and draws the pointer   *)
  (* copyrect     it asked for CopyRect                                    *)
  Few,              (* cells redrawn up to which a report is trusted: an   *)
                    (* eighth of the region                                *)
  MaxDraws,         (* bound: drawings and moves on the desktop            *)
  MaxPoints         (* bound: moves of the pointer                         *)

Away == "away"      (* the pointer is hidden                               *)
Beyond == "beyond"  (* it is on another monitor                            *)

ASSUME CaptureAssumption ==
  /\ IsFiniteSet(Cells) /\ Cells # {} /\ {Away, Beyond} \cap Cells = {} /\ Inks # {}
  /\ Sessions \subseteq [duplicates : BOOLEAN, cursor : BOOLEAN, copyrect : BOOLEAN]
  /\ Few \in Nat /\ MaxDraws \in Nat /\ MaxPoints \in Nat

VARIABLES
  session,          (* the kind this one is                                *)
  desk, ptr,        (* the desktop, and where its pointer is               *)
  moves, dirty,     (* what DXGI has to report: regions moved, in order,   *)
  pointed,          (* regions redrawn, and whether the pointer moved      *)
  draws, points,    (* how much of the bounds is used                      *)
  pc,               (* send_frames: before the "grab", or about to "paint" *)
  dxgi, primed,     (* Capture.dxgi is there, Capture.primed               *)
  cursor,           (* Capture.cursor: where it was painted last           *)
  dib,              (* Capture.bits                                        *)
  report,           (* grab, between capture and painting: changed,        *)
                    (* precise, and the parts so far                       *)
  cur, prev,        (* send_frames' pictures                               *)
  full,             (* first, or the client asked for all of it            *)
  client            (* the client's screen                                 *)

desktop == <<desk, ptr, moves, dirty, pointed, draws, points>>
capture == <<dxgi, primed, cursor, dib, report>>
vars == <<session, desktop, pc, capture, cur, prev, full, client>>

Pixel == [ink : Inks, pointer : BOOLEAN]
Clean(d) == [c \in Cells |-> [ink |-> d[c], pointer |-> FALSE]]
Paint(pic, at) == [c \in Cells |-> IF c = at THEN [pic[c] EXCEPT !.pointer = TRUE] ELSE pic[c]]
Blank == CHOOSE i \in Inks : TRUE
Black == Clean([c \in Cells |-> Blank])
Nothing == [changed |-> FALSE, precise |-> FALSE, moves |-> <<>>, dirty |-> {}]

Init == /\ session \in Sessions
        /\ desk \in [Cells -> {Blank}] /\ ptr = Away
        /\ moves = <<>> /\ dirty = {} /\ pointed = FALSE
        /\ draws = 0 /\ points = 0
        /\ pc = "grab" /\ dxgi = session.duplicates /\ primed = FALSE /\ cursor = Away
        /\ dib = Black /\ report = Nothing
        /\ cur = Black /\ prev = Black /\ full = TRUE /\ client = Black

----------------------------------------------------------------------------
(* The desktop, and what Duplication will say of it.                       *)

Draw(c, i) == /\ draws < MaxDraws /\ draws' = draws + 1
              /\ desk' = [desk EXCEPT ![c] = i]
              /\ dirty' = dirty \cup {c}
              /\ UNCHANGED <<ptr, moves, pointed, points, pc, capture, cur, prev, full, client>>

(* A window dragged: a move in the report while nothing is redrawn yet,    *)
(* for moves come before redrawn regions, or a region redrawn.             *)
Drag(from, to) ==
  /\ from # to /\ draws < MaxDraws /\ draws' = draws + 1
  /\ desk' = [desk EXCEPT ![to] = desk[from]]
  /\ \/ dirty = {} /\ moves' = Append(moves, <<from, to>>) /\ UNCHANGED dirty
     \/ dirty' = dirty \cup {to} /\ UNCHANGED moves
  /\ UNCHANGED <<ptr, pointed, points, pc, capture, cur, prev, full, client>>

Point(c) == /\ c # ptr /\ points < MaxPoints /\ points' = points + 1
            /\ ptr' = c /\ pointed' = TRUE
            /\ UNCHANGED <<desk, moves, dirty, draws, pc, capture, cur, prev, full, client>>

(* The client asks for a whole picture.                                    *)
Refresh == /\ ~full /\ pc = "grab" /\ full' = TRUE
           /\ UNCHANGED <<desktop, pc, capture, cur, prev, client>>

----------------------------------------------------------------------------
(* grab, up to the pointer.                                                *)

redrawn == moves # <<>> \/ dirty # {}

(* Duplicator::frame and collect: the whole desktop without its pointer if *)
(* something was drawn, and what was.  The first time grab has filled the  *)
(* DIB by BitBlt before, and reports nothing precise.                      *)
Frame ==
  /\ dib' = IF redrawn \/ ~primed THEN Clean(desk) ELSE dib
  /\ report' = [changed |-> ~primed \/ redrawn \/ pointed, precise |-> primed,
                moves |-> moves, dirty |-> dirty]

(* BitBlt: always the screen, never what changed.                          *)
Blit == /\ dib' = Clean(desk)
        /\ report' = [Nothing EXCEPT !.changed = TRUE]

Grab == /\ pc = "grab" /\ pc' = "paint"
        /\ primed' = TRUE
        /\ \/ dxgi /\ Frame /\ UNCHANGED dxgi
           \/ dxgi /\ Blit /\ dxgi' = FALSE        (* duplication was lost *)
           \/ ~dxgi /\ Blit /\ UNCHANGED dxgi
        /\ moves' = <<>> /\ dirty' = {} /\ pointed' = FALSE
        /\ UNCHANGED <<desk, ptr, draws, points, cursor, cur, prev, full, client>>

----------------------------------------------------------------------------
(* grab from the pointer on, and send_frames' update.                      *)

(* clip: the part of the pointer's box that is on the shared region.       *)
Clip(at) == IF at \in Cells THEN at ELSE Away

(* Mutant: only where the pointer is.                                      *)
Spots_new(now) == {now} \ {Away}

(* Where the pointer was and where it is.                                  *)
Spots(now) == {cursor, now} \ {Away}

(* The report as it is, or with moves as pixels.                           *)
Trusted(rep, now) ==
  [moves |-> IF session.copyrect THEN rep.moves ELSE <<>>,
   pixels |-> rep.dirty \cup Spots(now)
                \cup IF session.copyrect THEN {} ELSE {rep.moves[i][2] : i \in DOMAIN rep.moves}]

(* Mutant: a report of much is believed as far as it goes.                 *)
Parts_capped(pic, now) ==
  IF full THEN [moves |-> <<>>, pixels |-> Cells]
  ELSE IF report.precise /\ Cardinality(report.dirty \cup Spots(now)) > Few
  THEN [moves |-> report.moves, pixels |-> Spots(now)]
  ELSE [moves |-> <<>>, pixels |-> {c \in Cells : prev[c] # pic[c]}]

(* All of it, or what was reported if that is little, or what a comparison *)
(* with the picture before finds.                                          *)
Parts(pic, now) ==
  IF full THEN [moves |-> <<>>, pixels |-> Cells]
  ELSE IF report.precise /\ Cardinality(report.dirty \cup Spots(now)) <= Few
  THEN Trusted(report, now)
  ELSE [moves |-> <<>>, pixels |-> {c \in Cells : prev[c] # pic[c]}]

(* A picture after CopyRects, one after the other.                         *)
Slide(pic, m) == [pic EXCEPT ![m[2]] = pic[m[1]]]
Moved(pic, ms) ==
  LET after[n \in 0 .. Len(ms)] == IF n = 0 THEN pic ELSE Slide(after[n - 1], ms[n])
  IN  after[Len(ms)]

(* Mutant: the redrawn regions come first.                                 *)
Updated_pixelsFirst(parts, pic) ==
  Moved([c \in Cells |-> IF c \in parts.pixels THEN pic[c] ELSE client[c]], parts.moves)

(* The client moves, then fills in.                                        *)
Updated(parts, pic) ==
  [c \in Cells |-> IF c \in parts.pixels THEN pic[c] ELSE Moved(client, parts.moves)[c]]

Send(pic, now) ==
  LET parts == Parts(pic, now) IN
  IF parts = [moves |-> <<>>, pixels |-> {}]
  THEN UNCHANGED <<prev, full, client>>
  ELSE prev' = pic /\ full' = FALSE /\ client' = Updated(parts, pic)

(* A report of no change ends the pass unless something else is to be      *)
(* sent: all of it, a pointer's shape, a list of monitors.                 *)
Idle == /\ pc = "paint" /\ ~report.changed
        /\ pc' = "grab"
        /\ \/ ~full /\ UNCHANGED <<prev, full, client>>
           \/ full /\ Send(cur, Away)
        /\ UNCHANGED <<desktop, capture, cur>>

(* The pointer is painted into the DIB where it is at this moment, for a   *)
(* client that draws none itself.                                          *)
Update == /\ pc = "paint" /\ report.changed
          /\ pc' = "grab"
          /\ LET now == IF session.cursor THEN Away ELSE Clip(ptr)
                 pic == Paint(dib, now) IN
             /\ dib' = pic /\ cur' = pic /\ cursor' = now
             /\ Send(pic, now)
          /\ UNCHANGED <<desktop, dxgi, primed, report>>

Sender == (Grab \/ Idle \/ Update) /\ UNCHANGED session
World == /\ \/ \E c \in Cells : \/ \E i \in Inks : Draw(c, i)
                               \/ \E to \in Cells : Drag(c, to)
            \/ \E c \in Cells \cup {Away, Beyond} : Point(c)
            \/ Refresh
         /\ UNCHANGED session
Next == World \/ Sender

Spec == Init /\ [][Next]_vars

(* send_frames runs: a request is outstanding or updates are continuous.   *)
FairSpec == Spec /\ WF_vars(Sender)
----------------------------------------------------------------------------
Picture == [Cells -> Pixel]
TypeOK == /\ session \in Sessions
          /\ desk \in [Cells -> Inks] /\ ptr \in Cells \cup {Away, Beyond}
          /\ dirty \subseteq Cells /\ moves \in Seq(Cells \X Cells)
          /\ cursor \in Cells \cup {Away}
          /\ {dib, cur, prev, client} \subseteq Picture
          /\ {pointed, dxgi, primed, full} \subseteq BOOLEAN /\ pc \in {"grab", "paint"}

(* A pointer is painted into pictures of duplication, which bring no new   *)
(* picture when nothing but the pointer moved.                             *)
Haunted == session.duplicates /\ ~session.cursor

(* The pictures are the same, but for pointers that were left on the one.  *)
Same(pic, other) ==
  \A c \in Cells : \/ pic[c] = other[c]
                   \/ Haunted /\ pic[c] = [other[c] EXCEPT !.pointer = TRUE]

(* What send_frames compares with is what the client has, however the      *)
(* update was made: report or comparison, moves as moves or as pixels,     *)
(* duplication or BitBlt or the loss of the one for the other; and between *)
(* updates that is the whole capture, for the rectangles of a Frame cover  *)
(* every change of the picture.  Where the pointer is painted over         *)
(* duplication the client may have pointers too many, never a pixel of     *)
(* the desktop that is old, and never one pointer too few.                 *)
InSync == ~full => Same(client, prev) /\ (pc = "grab" => prev = cur)

(* design.md:425: where the pointer was and where it is now are repainted; *)
(* an update leaves the client there with what the server has there.       *)
Repainted ==
  [][Update => \A c \in {cursor, cursor'} \cap Cells : client'[c] = cur'[c]]_vars

(* When the desktop stays as it is the client comes to show it, with its   *)
(* pointer where it is, or without one if the client draws it; and without *)
(* another, but for a pointer painted over duplication.                    *)
Shown == Paint(Clean(desk), IF session.cursor THEN Away ELSE ptr)
Converges == <>[]Same(client, Shown)

(* design.md:424-427 and grab's comment (server.rs:682): repainting both   *)
(* places is what keeps an old pointer from staying on the client's        *)
(* screen, where it would smear.                                           *)
OnePointer == pc = "grab" => Cardinality({c \in Cells : client[c].pointer}) <= 1
=============================================================================
