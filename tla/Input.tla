------------------------------- MODULE Input -------------------------------
(***************************************************************************)
(* The keyboard, from the person at the client's window to the machine     *)
(* that vncfree-server drives: Input::pump, release_all and                *)
(* type_clipboard at the client, read_client's key events and              *)
(* inject_key_shifted at the server.                                       *)
(*                                                                         *)
(* The window's thread looks at the keyboard once a frame (Frame) and then *)
(* sends what follows from it a message at a time (Send); the threads that *)
(* type the clipboard send theirs in between (Type).                       *)
(***************************************************************************)
EXTENDS Naturals, Sequences, FiniteSets, SequencesExt

CONSTANTS
  Keys,         (* the keys of this keyboard, some of AllKeys              *)
  Taps,         (* keys that can go down and up within one frame           *)
  Text,         (* the clipboard, as typed_keys has it: <<symbol, shift>>  *)
  Typists,      (* bound: threads typing it at the same time               *)
  MaxPresses,   (* bound: presses of keys                                  *)
  MaxRepeats,   (* bound: keys the window reports again while held         *)
  MaxBlurs,     (* bound: losses of focus                                  *)
  MaxDrops      (* bound: losses of the connection                         *)

AllKeys == {"ctrl", "shift", "altgr", "a", "v"}
Letters == {"a", "v"}
Modifiers == {"ctrl", "altgr"}
Upper == [a |-> "A", v |-> "V", x |-> "X"]
(* "at" is what AltGr makes of the a key.                                  *)
Syms == {"ctrl", "shift", "alt", "a", "A", "v", "V", "at", "x", "X"}

ASSUME InputAssumption ==
  /\ Keys \subseteq AllKeys /\ Taps \subseteq Keys
  /\ "altgr" \in Keys => "ctrl" \in Keys
  /\ Text \in Seq({"x", "X"} \X BOOLEAN)
  /\ MaxPresses \in Nat /\ MaxRepeats \in Nat /\ MaxBlurs \in Nat /\ MaxDrops \in Nat

VARIABLES
  phys,           (* keys that are down in the window's eyes               *)
  fresh, gone,    (* keys that went down, up since the last frame          *)
  chars,          (* Typed: characters made since then                     *)
  active,         (* the window has the focus                              *)
  held,           (* Input.held: the symbol sent for a key, or not held    *)
  todo,           (* what the window's thread has still to do this frame   *)
  typing,         (* what each thread of type_clipboard has still to send  *)
  online,         (* the writer is published                               *)
  linked,         (* the connection behind it works                        *)
  running,        (* the client has not ended                              *)
  syms,           (* symbols that are down for a server that tells 'a'     *)
                  (* from 'A'                                              *)
  vks,            (* virtual keys that are down on the server's machine    *)
  shiftHeld,      (* read_client's shift_held                              *)
  left,           (* history: virtual keys that were down as a link broke  *)
  presses, repeats, blurs, drops,      (* how much of each bound is used   *)
  asks, pastes    (* history: presses of V, clipboards typed               *)

person == <<phys, fresh, gone, chars, active, presses, asks, blurs>>
server == <<syms, vks, shiftHeld>>
link == <<online, linked, running, drops, left>>
vars == <<person, held, todo, typing, server, link, repeats, pastes>>

Free == "free"          (* not in held                                     *)
Swallowed == "swallowed"       (* held with keysym 0                       *)
Key(s, d) == [do |-> "key", sym |-> s, down |-> d]
Paste == [do |-> "paste", sym |-> "none", down |-> TRUE]
Freed(h, K) == [k \in Keys |-> IF k \in K THEN Free ELSE h[k]]
Stroke(s) == <<Key(s, TRUE), Key(s, FALSE)>>

Init == /\ phys = {} /\ fresh = {} /\ gone = {} /\ chars = <<>> /\ active = TRUE
        /\ held = [k \in Keys |-> Free]
        /\ todo = <<>> /\ typing = [i \in Typists |-> <<>>]
        /\ online = TRUE /\ linked = TRUE /\ running = TRUE
        /\ syms = {} /\ vks = {} /\ shiftHeld = FALSE
        /\ left = {} /\ presses = 0 /\ repeats = 0 /\ blurs = 0 /\ drops = 0
        /\ asks = 0 /\ pastes = 0

----------------------------------------------------------------------------
(* The person, Windows and minifb.                                         *)

(* The keyboard layout's character for a letter: none with Ctrl (a control *)
(* code), another with AltGr, and either case otherwise (Caps Lock).       *)
Chars(k) == IF k \notin Letters THEN {<<>>}
            ELSE IF "altgr" \in phys THEN {<<"at">>}
            ELSE IF "ctrl" \in phys THEN {<<>>} ELSE {<<k>>, <<Upper[k]>>}

(* AltGr comes with a left Ctrl of Windows' making.                        *)
With(k) == IF k = "altgr" THEN {"altgr", "ctrl"} ELSE {k}

(* A key that comes back within the frame has not been up for the window,  *)
(* which compares with the frame before.                                   *)
Press(k) == /\ active /\ k \notin phys /\ presses < MaxPresses
            /\ presses' = presses + 1
            /\ phys' = phys \cup With(k)
            /\ fresh' = fresh \cup (With(k) \ (phys \cup gone)) /\ gone' = gone \ With(k)
            /\ \E c \in Chars(k) : chars' = chars \o c
            /\ asks' = IF k = "v" THEN asks + 1 ELSE asks
            /\ UNCHANGED <<active, blurs>>
            /\ UNCHANGED <<held, todo, typing, server, link, repeats, pastes>>

Release(k) == /\ active /\ k \in phys
              /\ k = "ctrl" => "altgr" \notin phys
              /\ With(k) \cap fresh \subseteq Taps
              /\ phys' = phys \ With(k)
              /\ gone' = gone \cup (phys \cap With(k))
              /\ UNCHANGED <<fresh, chars, active, presses, asks, blurs>>
              /\ UNCHANGED <<held, todo, typing, server, link, repeats, pastes>>

(* Without the focus the window sees no keys, and none that are down; it   *)
(* does not come back within the frame it went.                            *)
Blur == /\ active /\ blurs < MaxBlurs
        /\ active' = FALSE /\ blurs' = blurs + 1
        /\ phys' = {} /\ fresh' = {} /\ gone' = gone \cup phys
        /\ UNCHANGED <<chars, presses, asks, held, todo, typing, server, link, repeats, pastes>>
Focus == /\ ~active /\ gone = {} /\ held = Freed(held, Keys)
         /\ active' = TRUE
         /\ UNCHANGED <<phys, fresh, gone, chars, presses, asks, blurs>>
         /\ UNCHANGED <<held, todo, typing, server, link, repeats, pastes>>

----------------------------------------------------------------------------
(* The window's thread.                                                    *)

(* keysym: letters are what the US layout makes of them.                   *)
Keysym(k) == IF k = "altgr" THEN "alt"
             ELSE IF k \in Letters /\ "shift" \in phys THEN Upper[k] ELSE k

(* Mutant: a release sends what the key means by then.                     *)
Up_now(h, K) == LET ks == SetToSeq({k \in K : h[k] \notin {Free, Swallowed}})
                IN  [i \in DOMAIN ks |-> Key(IF ks[i] \in Letters /\ "shift" \in phys
                                              THEN Upper[ks[i]] ELSE h[ks[i]], FALSE)]
Up(h, K) == LET ks == SetToSeq({k \in K : h[k] \notin {Free, Swallowed}})
            IN  [i \in DOMAIN ks |-> Key(h[ks[i]], FALSE)]

(* A frame so far: what is held and what is to be sent.                    *)
Sofar(h, t) == [held |-> h, todo |-> t]

altgr == "altgr" \in phys
shortcut == "ctrl" \in phys /\ ~altgr

(* AltGr's own modifiers are let go of.                                    *)
HoldBack(f) == IF altgr THEN Sofar(Freed(f.held, Modifiers), f.todo \o Up(f.held, Modifiers \cap Keys))
               ELSE f

(* The loop over get_keys_pressed: Ctrl-Shift-V lets go of everything and  *)
(* types the clipboard; a letter outside a shortcut is left to its         *)
(* character; everything else goes down.                                   *)
Down(f, k) ==
  IF k = "v" /\ "ctrl" \in phys /\ "shift" \in phys
  THEN Sofar([Freed(f.held, Keys) EXCEPT ![k] = Swallowed],
             Append(f.todo \o Up(f.held, Keys), Paste))
  ELSE IF (altgr /\ k \in Modifiers) \/ (k \in Letters /\ ~shortcut) THEN f
  ELSE Sofar([f.held EXCEPT ![k] = Keysym(k)], Append(f.todo, Key(Keysym(k), TRUE)))

DownAll(f, ps) ==
  LET after[n \in 0 .. Len(ps)] == IF n = 0 THEN f ELSE Down(after[n - 1], ps[n])
  IN  after[Len(ps)]

(* The characters typed, each down and straight up.                        *)
Typed(f) == IF shortcut THEN f
            ELSE Sofar(f.held, f.todo \o FlattenSeq([i \in DOMAIN chars |-> Stroke(chars[i])]))

(* get_keys_released: the symbol that went down comes up.                  *)
LetGo(f) == Sofar(Freed(f.held, gone), f.todo \o Up(f.held, gone))

(* Mutants: releases before presses; AltGr's Ctrl is sent.                 *)
Pumped_upFirst(ps) == DownAll(HoldBack(LetGo(Sofar(held, <<>>))), ps)
Pumped_altgr(ps) == LetGo(Typed(FoldLeft(
  LAMBDA f, k : IF k \in Letters THEN f
                ELSE Sofar([f.held EXCEPT ![k] = Keysym(k)], Append(f.todo, Key(Keysym(k), TRUE))),
  Sofar(held, <<>>), ps)))

(* pump: held-back modifiers, presses, characters, then releases.          *)
Pumped(ps) == LetGo(Typed(DownAll(HoldBack(Sofar(held, <<>>)), ps)))

(* release_all                                                             *)
Released == Sofar(Freed(held, Keys), Up(held, Keys))

(* One pass of the window's loop.  The window reports the keys that went   *)
(* down and, now and then, ones that stay down (KeyRepeat::Yes).           *)
Frame ==
  /\ running /\ todo = <<>>
  /\ \E again \in SUBSET (phys \ fresh) :
       /\ repeats' = repeats + Cardinality(again) /\ repeats' <= MaxRepeats
       /\ \E ps \in SetToSeqs(fresh \cup again) :
            LET f == IF active /\ online THEN Pumped(ps) ELSE Released IN
            held' = f.held /\ todo' = f.todo
  /\ fresh' = {} /\ gone' = {}
  /\ chars' = IF active /\ online THEN <<>> ELSE chars
  /\ UNCHANGED <<phys, active, presses, asks, blurs, typing, server, link, pastes>>

----------------------------------------------------------------------------
(* Sending, and the server.                                                *)

Vk(s) == CASE s \in {"a", "A"} -> "VK_A" [] s \in {"v", "V"} -> "VK_V"
           [] s \in {"x", "X"} -> "VK_X" [] s = "shift" -> "VK_LSHIFT"
           [] s = "ctrl" -> "VK_LCONTROL" [] s = "alt" -> "VK_RMENU"
           [] OTHER -> "unicode"

Capitals == {"A", "V", "X"}

(* Mutant: Shift goes down for a capital and does not come up.             *)
Inject_shiftStays(m, sh) ==
  LET extra == IF m.sym \in Capitals /\ ~sh /\ m.down THEN {"VK_LSHIFT"} ELSE {}
  IN  IF m.down THEN vks \cup extra \cup {Vk(m.sym)} ELSE vks \ {Vk(m.sym)}

(* inject_key_shifted: a capital without Shift gets one of its own.        *)
Inject(m, sh) ==
  LET extra == IF m.sym \in Capitals /\ ~sh THEN {"VK_LSHIFT"} ELSE {}
  IN  IF m.down THEN vks \cup extra \cup {Vk(m.sym)} ELSE vks \ (extra \cup {Vk(m.sym)})

(* read_client, message 4.                                                 *)
Arrives(m) == /\ shiftHeld' = IF m.sym = "shift" THEN m.down ELSE shiftHeld
              /\ vks' = Inject(m, shiftHeld')
              /\ syms' = IF m.down THEN syms \cup {m.sym} ELSE syms \ {m.sym}

(* rfb::send: nothing happens while the writer is not published.           *)
Sent(m) == IF online /\ linked THEN Arrives(m) ELSE UNCHANGED server

Send == /\ todo # <<>> /\ Head(todo).do = "key"
        /\ Sent(Head(todo))
        /\ todo' = Tail(todo)
        /\ UNCHANGED <<person, held, typing, link, repeats, pastes>>

(* A write that fails on the window's thread leaves run_window with the    *)
(* error, and the program ends, its other threads with it.                 *)
Fails == /\ todo # <<>> /\ Head(todo).do = "key" /\ online /\ ~linked
         /\ running' = FALSE
         /\ todo' = <<>> /\ typing' = [i \in Typists |-> <<>>]
         /\ UNCHANGED <<person, held, server, online, linked, drops, left, repeats, pastes>>

(* typed_keys: Shift around the symbols that need it.                      *)
Typing == FlattenSeq([i \in DOMAIN Text |->
            IF Text[i][2] THEN <<Key("shift", TRUE)>> \o Stroke(Text[i][1]) \o <<Key("shift", FALSE)>>
                          ELSE Stroke(Text[i][1])])

(* type_clipboard starts a thread.                                         *)
StartTyping == /\ todo # <<>> /\ Head(todo).do = "paste"
               /\ todo' = Tail(todo)
               /\ \E i \in Typists : typing[i] = <<>> /\ typing' = [typing EXCEPT ![i] = Typing]
               /\ pastes' = pastes + 1
               /\ UNCHANGED <<person, held, server, link, repeats>>

(* One message of such a thread; an error ends it.                         *)
Type(i) == /\ typing[i] # <<>>
           /\ \/ Sent(Head(typing[i])) /\ typing' = [typing EXCEPT ![i] = Tail(@)]
              \/ /\ online /\ ~linked
                 /\ typing' = [typing EXCEPT ![i] = <<>>]
                 /\ UNCHANGED server
           /\ UNCHANGED <<person, held, todo, link, repeats, pastes>>

----------------------------------------------------------------------------
(* The connection breaks; the network thread notices and takes the writer  *)
(* away; it connects again, to a new read_client on the same machine.      *)
Drop == /\ linked /\ drops < MaxDrops
        /\ linked' = FALSE /\ drops' = drops + 1 /\ left' = left \cup vks
        /\ UNCHANGED <<online, running, person, held, todo, typing, server, repeats, pastes>>
Offline == /\ running /\ ~linked /\ online /\ online' = FALSE
           /\ UNCHANGED <<linked, running, drops, left, person, held, todo, typing, server, repeats, pastes>>
Reconnect == /\ running /\ ~online /\ ~linked
             /\ linked' = TRUE /\ online' = TRUE
             /\ shiftHeld' = FALSE /\ syms' = {}
             /\ UNCHANGED <<vks, running, drops, left, person, held, todo, typing, repeats, pastes>>

Window == Frame \/ Send \/ Fails \/ StartTyping
Next == \/ \E k \in Keys : Press(k) \/ Release(k)
        \/ Blur \/ Focus
        \/ Window
        \/ \E i \in Typists : Type(i)
        \/ Drop \/ Offline \/ Reconnect

Spec == Init /\ [][Next]_vars

(* The window's loop runs, and the typing threads.                         *)
FairSpec == /\ Spec /\ WF_vars(Window)
            /\ \A i \in Typists : WF_vars(Type(i))
----------------------------------------------------------------------------
Quiet == todo = <<>> /\ \A i \in Typists : typing[i] = <<>>
Wanted == {held[k] : k \in Keys} \ {Free, Swallowed}

Message == [do : {"key", "paste"}, sym : Syms \cup {"none"}, down : BOOLEAN]
TypeOK == /\ phys \subseteq Keys /\ fresh \subseteq Keys /\ gone \subseteq Keys
          /\ held \in [Keys -> Syms \cup {Free, Swallowed}]
          /\ todo \in Seq(Message) /\ typing \in [Typists -> Seq(Message)]
          /\ chars \in Seq(Syms) /\ syms \subseteq Syms
          /\ vks \cup left \subseteq {Vk(s) : s \in Syms}
          /\ {active, online, linked, running, shiftHeld} \subseteq BOOLEAN
          /\ {presses, repeats, blurs, drops, asks, pastes} \subseteq Nat

(* No key is down on the server's machine that the client does not hold,   *)
(* whatever presses, releases, characters, AltGr, focus, typed clipboards  *)
(* and reconnections came in between, once all is sent; but for those that *)
(* were down when a link broke, which nobody lets go of (server.rs:2040).  *)
(* A capital the client holds may hold a Shift of the server's making; and *)
(* that one stays when a repeat turns the held symbol to lower case.       *)
Vks(s) == {Vk(s)} \cup IF s \in Capitals THEN {"VK_LSHIFT"} ELSE {}
Slipped == IF repeats = 0 THEN {} ELSE {"VK_LSHIFT"}
NothingStuck == Quiet => vks \subseteq (UNION {Vks(s) : s \in Wanted}) \cup left \cup Slipped

(* A person who lets go of everything, or leaves the window, leaves no key *)
(* down behind on the server's machine, as long as the link holds.         *)
HandsOff == <>[](phys = {} /\ drops = 0) => <>[](vks \subseteq Slipped)

(* pump's note on AltGr: its characters do not arrive as Ctrl-Alt          *)
(* shortcuts.                                                              *)
AltGrPlain == drops = 0 /\ todo # <<>> /\ Head(todo) = Key("at", TRUE) =>
                vks \cap {"VK_LCONTROL", "VK_RMENU"} = {}

(* Input.held: a release repeats the symbol of the press, so that no       *)
(* symbol stays down; 'A' down and 'a' up would leave 'A' stuck.           *)
SameSymbol == drops = 0 /\ Quiet => syms \subseteq Wanted

(* It is so as long as the window repeats no key (client.rs:527): shift or *)
(* Ctrl pressed or let go of in between does not change what comes up.     *)
SymbolKept == repeats = 0 => SameSymbol

(* Input.held again: nor does the Shift that came with the symbol.         *)
ShiftComesUp == Quiet => vks \subseteq (UNION {Vks(s) : s \in Wanted}) \cup left

(* The sentinel of Ctrl-Shift-V: a repeat does not fire the paste again.   *)
PasteOnce == pastes <= asks

(* pump's note on Ctrl-Shift-V: the server's machine is let go of Ctrl     *)
(* before the clipboard is typed, or characters arrive as shortcuts.       *)
TypedPlain == [][\A i \in Typists :
                   typing[i] # <<>> /\ Len(typing'[i]) < Len(typing[i]) /\ Head(typing[i]).down
                     => "VK_LCONTROL" \notin vks]_vars

(* design.md, threading: input raised during a reconnect is dropped.       *)
DroppedOffline == [][Frame /\ ~online => chars' = <<>>]_vars

(* session: a link that drops is normal rather than fatal.                 *)
Survives == running

(* type_clipboard: when the link goes away the reconnect sorts it out.     *)
SortedOut == drops > 0 /\ linked /\ online /\ Quiet /\ phys = {} /\ Wanted = {} => vks = {}
=============================================================================
