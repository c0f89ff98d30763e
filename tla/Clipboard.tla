----------------------------- MODULE Clipboard -----------------------------
(***************************************************************************)
(* The two clipboards and the text that crosses between them.  Each end    *)
(* polls its own (Input::poll_clipboard in the client's window thread, the *)
(* top of send_frames in the server's sender) and pastes what the other    *)
(* end sends from another thread (session, read_client).  Both threads of  *)
(* an end share the last text that crossed (Clip, Shared.clip).            *)
(*                                                                         *)
(* A poll reads the clipboard and only then compares and notes, a paste    *)
(* notes the text and only then sets the clipboard: overlaps counts the    *)
(* times one of them starts within the other.                              *)
(***************************************************************************)
EXTENDS Naturals, Sequences, FiniteSets

CONSTANTS
  Old,          (* what is on each end's clipboard at first                *)
  Copied,       (* texts somebody may copy at each end                     *)
  ViewOnly,     (* VNC_VIEW_ONLY is set                                    *)
  MaxCopies,    (* bound: how many times anybody copies                    *)
  MaxOverlaps,  (* bound: polls and pastes that overlap                    *)
  MaxFails,     (* bound: clipboards that could not be set                 *)
  MaxDrops      (* bound: losses of the connection                         *)

Ends == {"client", "server"}
Other(e) == IF e = "client" THEN "server" ELSE "client"

(* Lines that end in LF or in CR LF, characters outside Latin-1, the       *)
(* question marks they become, more than MAX_CLIPBOARD, nothing at all.    *)
Texts == {"mine", "yours", "new", "newer", "lf", "crlf", "wide", "marks", "huge", "empty"}
None == "none"

ASSUME ClipboardAssumption ==
  /\ Old \in [Ends -> Texts] /\ Copied \in [Ends -> SUBSET (Texts \ {"empty"})]
  /\ ViewOnly \in BOOLEAN
  /\ MaxCopies \in Nat /\ MaxOverlaps \in Nat /\ MaxFails \in Nat /\ MaxDrops \in Nat

VARIABLES
  board,        (* the system clipboard of each end                        *)
  clip,         (* the last text that crossed, as each end remembers it    *)
  seen,         (* the text a poll has read and not yet compared           *)
  got,          (* the text a paste has noted and not yet set              *)
  at,           (* where the polling thread is                             *)
  to,           (* texts on their way to each end                          *)
  linked,       (* the connection works                                    *)
  online,       (* the client's writer is published                        *)
  running,      (* the client has not ended                                *)
  copies, overlaps, fails, drops,       (* how much of each bound is used  *)
  from,         (* history: who put this text on the clipboard: it was     *)
                (* there before, a person or a paste                       *)
  copiers,      (* history: ends somebody copied at                        *)
  last,         (* history: the text copied last                           *)
  sure          (* history: nothing happened since that may lose it        *)

ends == <<board, clip, seen, got, at>>
link == <<linked, online, running, drops>>
history == <<from, copiers, last, sure>>
clipVars == <<ends, to, link, copies, overlaps, fails, history>>

(* The client seeds Clip before it starts its threads, the server's sender *)
(* seeds Shared.clip when it starts.                                       *)
ClipInit == /\ board = Old /\ clip = [client |-> Old["client"], server |-> "empty"]
        /\ seen = [e \in Ends |-> None] /\ got = [e \in Ends |-> None]
        /\ at = [client |-> "idle", server |-> "seed"]
        /\ to = [e \in Ends |-> <<>>]
        /\ linked = TRUE /\ online = TRUE /\ running = TRUE
        /\ copies = 0 /\ overlaps = 0 /\ fails = 0 /\ drops = 0
        /\ from = [e \in Ends |-> "before"] /\ copiers = {} /\ last = None /\ sure = TRUE

----------------------------------------------------------------------------
(* Somebody copies.  The copy is sure to be told of while the connection   *)
(* works and the server's sender has started, and at a client that waits   *)
(* to reconnect.                                                           *)
Copy(e, t) ==
  /\ copies < MaxCopies /\ t \in Copied[e] /\ t # board[e]
  /\ copies' = copies + 1
  /\ board' = [board EXCEPT ![e] = t]
  /\ from' = [from EXCEPT ![e] = "person"]
  /\ copiers' = copiers \cup {e} /\ last' = t
  /\ sure' = \/ linked /\ (e = "server" => at[e] # "seed")
             \/ e = "client" /\ ~online /\ at[e] = "idle"
  /\ UNCHANGED <<clip, seen, got, at, to, link, overlaps, fails>>

(* A poll and a paste of one end overlap.                                  *)
Overlap(e, other) == /\ overlaps' = IF other THEN overlaps + 1 ELSE overlaps
                     /\ overlaps' <= MaxOverlaps

(* Mutant: the clipboard is polled though there is no connection.          *)
LookUp_offline ==
  /\ running /\ ~ViewOnly /\ at["client"] = "idle"
  /\ at' = [at EXCEPT !["client"] = "top"]
  /\ UNCHANGED <<board, clip, seen, got, to, link, copies, overlaps, fails, history>>

(* The window's loop finds itself online before it polls.                  *)
LookUp == /\ running /\ online /\ ~ViewOnly /\ at["client"] = "idle"
          /\ at' = [at EXCEPT !["client"] = "top"]
          /\ UNCHANGED <<board, clip, seen, got, to, link, copies, overlaps, fails, history>>

(* The sender waits for a request, and is woken by one.                    *)
Wait == /\ linked /\ at["server"] = "top" /\ seen["server"] = None
        /\ at' = [at EXCEPT !["server"] = "wait"]
        /\ UNCHANGED <<board, clip, seen, got, to, link, copies, overlaps, fails, history>>
Wake == /\ at["server"] = "wait" /\ at' = [at EXCEPT !["server"] = "top"]
        /\ UNCHANGED <<board, clip, seen, got, to, link, copies, overlaps, fails, history>>

(* get_text, to poll or to seed.                                           *)
ReadBoard(e) ==
  /\ at[e] \in {"top", "seed"} /\ seen[e] = None /\ (e = "client" => running)
  /\ seen' = [seen EXCEPT ![e] = board[e]]
  /\ Overlap(e, got[e] # None)
  /\ UNCHANGED <<board, clip, got, at, to, link, copies, fails, history>>

(* The end of a poll or of seeding.                                        *)
Rested(e) == at' = [at EXCEPT ![e] = IF e = "client" THEN "idle" ELSE "top"]

(* send_frames remembers what is there when it starts.                     *)
Seed == /\ at["server"] = "seed" /\ seen["server"] # None
        /\ clip' = [clip EXCEPT !["server"] = seen["server"]]
        /\ seen' = [seen EXCEPT !["server"] = None] /\ Rested("server")
        /\ UNCHANGED <<board, got, to, link, copies, overlaps, fails, history>>

(* Mutant: nothing is compared.                                            *)
Differs_always(e) == seen[e] # "empty"

(* A text that is not the last that crossed is news.                       *)
Differs(e) == seen[e] # "empty" /\ seen[e] # clip[e]

(* Writing it: what goes into a dead connection is lost.                   *)
Tell(e) == to' = IF linked THEN [to EXCEPT ![Other(e)] = Append(@, seen[e])] ELSE to

Compare(e) ==
  /\ at[e] = "top" /\ seen[e] # None
  /\ IF Differs(e) THEN clip' = [clip EXCEPT ![e] = seen[e]] /\ Tell(e)
                   ELSE UNCHANGED <<clip, to>>
  /\ seen' = [seen EXCEPT ![e] = None] /\ Rested(e)
  /\ UNCHANGED <<board, got, link, copies, overlaps, fails, history>>

(* Writing may also fail: in the window's thread that ends the client, in  *)
(* the sender it ends the sender.                                          *)
TellFails(e) ==
  /\ at[e] = "top" /\ seen[e] # None /\ Differs(e) /\ ~linked /\ (e = "client" => online)
  /\ clip' = [clip EXCEPT ![e] = seen[e]]
  /\ seen' = [seen EXCEPT ![e] = None]
  /\ at' = [at EXCEPT ![e] = "gone"]
  /\ running' = (running /\ e # "client")
  /\ UNCHANGED <<board, got, to, linked, online, drops, copies, overlaps, fails, history>>

(* cut_text_msg and from_latin1: CR is dropped and put back, what is not   *)
(* Latin-1 becomes question marks.                                         *)
Crossed(t) == CASE t = "lf" -> "crlf" [] t = "wide" -> "marks" [] OTHER -> t

(* Mutant: what came is not noted.                                         *)
Receive_unnoted(e) ==
  /\ to[e] # <<>> /\ got[e] = None /\ (e = "client" => running)
  /\ to' = [to EXCEPT ![e] = Tail(@)]
  /\ IF Head(to[e]) = "huge" THEN UNCHANGED <<got, overlaps>>
     ELSE got' = [got EXCEPT ![e] = Crossed(Head(to[e]))] /\ Overlap(e, seen[e] # None)
  /\ UNCHANGED <<board, clip, seen, at, link, copies, fails, history>>

(* read_clipboard, and the note of the text: Vnc::paste, read_client.      *)
Receive(e) ==
  /\ to[e] # <<>> /\ got[e] = None /\ (e = "client" => running)
  /\ to' = [to EXCEPT ![e] = Tail(@)]
  /\ IF Head(to[e]) = "huge" THEN UNCHANGED <<clip, got, overlaps>>
     ELSE LET text == Crossed(Head(to[e])) IN
          /\ clip' = [clip EXCEPT ![e] = text] /\ got' = [got EXCEPT ![e] = text]
          /\ Overlap(e, seen[e] # None)
  /\ UNCHANGED <<board, seen, at, link, copies, fails, history>>

(* set_text, by session and read_client; its failure is ignored.           *)
Paste(e) == /\ got[e] # None /\ got' = [got EXCEPT ![e] = None]
            /\ \/ /\ board' = [board EXCEPT ![e] = got[e]]
                  /\ from' = [from EXCEPT ![e] = "paste"]
                  /\ UNCHANGED fails
               \/ /\ fails < MaxFails /\ fails' = fails + 1
                  /\ UNCHANGED <<board, from>>
            /\ UNCHANGED <<clip, seen, at, to, link, copies, overlaps, copiers, last, sure>>

----------------------------------------------------------------------------
(* The connection breaks and some of what was on its way is lost.          *)
Drop == /\ linked /\ drops < MaxDrops
        /\ linked' = FALSE /\ drops' = drops + 1 /\ sure' = FALSE
        /\ \E arrive \in [Ends -> 0 .. MaxCopies + MaxOverlaps + 1] :
             /\ \A e \in Ends : arrive[e] <= Len(to[e])
             /\ to' = [e \in Ends |-> SubSeq(to[e], 1, arrive[e])]
        /\ UNCHANGED <<ends, online, running, copies, overlaps, fails, from, copiers, last>>

(* The client's network thread has read all there was, and notices.        *)
Offline == /\ running /\ ~linked /\ online /\ to["client"] = <<>> /\ got["client"] = None
           /\ online' = FALSE
           /\ UNCHANGED <<ends, to, linked, running, drops, copies, overlaps, fails, history>>

(* It connects again: to a new Shared and a new sender, when the old       *)
(* reader is done.  Clip is the client's for as long as it runs.           *)
Reconnect ==
  /\ running /\ ~linked /\ ~online /\ to["server"] = <<>> /\ got["server"] = None
  /\ linked' = TRUE /\ online' = TRUE
  /\ clip' = [clip EXCEPT !["server"] = "empty"]
  /\ seen' = [seen EXCEPT !["server"] = None]
  /\ at' = [at EXCEPT !["server"] = "seed"]
  /\ UNCHANGED <<board, got, to, running, drops, copies, overlaps, fails, history>>

Client == LookUp \/ ReadBoard("client") \/ Compare("client") \/ TellFails("client")
ServerSender == Seed \/ Compare("server") \/ TellFails("server") \/ Wake
ClipNext == \/ \E e \in Ends, t \in Texts : Copy(e, t)
        \/ Client \/ ServerSender \/ Wait \/ ReadBoard("server")
        \/ \E e \in Ends : Receive(e) \/ Paste(e)
        \/ Drop \/ Offline \/ Reconnect

ClipSpec == ClipInit /\ [][ClipNext]_clipVars

(* Each thread runs, the window has the focus again and again, the sender  *)
(* is asked for another update (Vnc always has a request outstanding), and *)
(* polls every fiftieth time it passes the top of its loop.  Receiving is  *)
(* strongly fair because the bound on overlaps, not the code, holds it up. *)
FairClipSpec == /\ ClipSpec /\ WF_clipVars(Client) /\ WF_clipVars(ServerSender) /\ SF_clipVars(ReadBoard("server"))
            /\ \A e \in Ends : SF_clipVars(Receive(e)) /\ WF_clipVars(Paste(e))
            /\ WF_clipVars(Offline) /\ WF_clipVars(Reconnect)

----------------------------------------------------------------------------
(* What lands on a clipboard is text as Windows has it, out of Latin-1.    *)
Landed == Texts \ {"lf", "wide", "huge"}
ClipTypeOK == /\ board \in [Ends -> Texts] /\ clip \in [Ends -> Texts]
          /\ seen \in [Ends -> Texts \cup {None}] /\ got \in [Ends -> Landed \cup {None}]
          /\ at["client"] \in {"idle", "top", "gone"}
          /\ at["server"] \in {"seed", "top", "wait", "gone"}
          /\ to \in [Ends -> Seq(Texts \ {"empty"})] /\ last \in Texts \cup {None}
          /\ from \in [Ends -> {"before", "person", "paste"}] /\ copiers \subseteq Ends
          /\ {linked, online, running, sure} \subseteq BOOLEAN
          /\ {copies, overlaps, fails, drops} \subseteq Nat

(* A text an end sends was put there by a person: merely connecting, or    *)
(* connecting again, tells the other end nothing, and what came from there *)
(* is not bounced, as long as no poll and paste overlap and the clipboard  *)
(* can be set.                                                             *)
Tells(e) == Len(to'[e]) > Len(to[e])
NotBounced == [][\A e \in Ends : overlaps + fails = 0 /\ Tells(Other(e))
                       => from[e] = "person"]_clipVars

(* The two ends do not send texts to and fro forever: once people stop     *)
(* copying nothing is on its way and no poll finds anything to tell, even  *)
(* when polls and pastes overlapped, both ends copied, or the link broke.  *)
GoesQuiet == <>[](running => \A e \in Ends : to[e] = <<>> /\ got[e] = None)

(* What was copied last at the only end anybody copied at ends up on both  *)
(* clipboards, unless it is too long to cross; an overlap may bounce it,   *)
(* and so leave it as it crossed at its own end too.                       *)
Agreed == \E e \in copiers :
  /\ board[e] = last \/ (overlaps > 0 /\ board[e] = Crossed(last))
  /\ last # "huge" => board[Other(e)] = Crossed(last)
Undisturbed == /\ running /\ ~ViewOnly /\ sure /\ Cardinality(copiers) = 1
               /\ fails = 0 /\ (overlaps = 0 \/ copies = 1)
LastCopyWins == <>[](Undisturbed => Agreed)

(* client.rs:348: the comparison is there so that text pasted from the     *)
(* server is not bounced straight back at it.                              *)
NeverBounced ==
  [][fails = 0 /\ Tells("server") /\ seen["client"] = board["client"]
        => from["client"] # "paste"]_clipVars
=============================================================================
