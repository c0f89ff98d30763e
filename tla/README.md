# vncfree in TLA+

A verification project for vncfree: a remote desktop server for Windows
(`src/src/bin/server.rs`), a client for Windows (`src/src/bin/client.rs`), one for
Android (`src/android`), and the library both ends share (`src/src/rfb.rs`,
`wire.rs`, `lib.rs`). They speak RFB over TCP or TLS.

## 1. Inventory

| component | state it keeps | operations | how it interacts | what makes it correct |
|---|---|---|---|---|
| **Sender** `send_frames` | `cur`, `prev`, `first`, region, deflate stream, told monitors and cursor | wait for a request, follow the region, capture, diff, encode, write, settle | reads `Shared`; writes the TCP write half under `Shared.out` | the client's picture is `prev`; a request is never lost |
| **Reader** `read_client` | pressed buttons, shift, clipboard handle | one handler per client message | writes `Shared`; wakes the sender; injects input; answers 150 | flags it stores take effect; it ends with the session |
| **Shared** | `wants` + condition, `incremental`, `continuous`, `pick`, `origin`, `fmt`, `clip`, `alive` | `asked`, `stop` | between the two threads above | no wakeup or store is lost |
| **Capture** (`dxgi`, `Capture::grab`, `paint_cursor`, `find_scroll`, `diff`) | DIB, damage, where the pointer was drawn | capture, repair under the pointer, report moves and dirty rectangles | called by the sender | what is reported as damage covers what changed |
| **Client session** `Vnc::pump`, `session` | screen, `dirty`, `continuous`, `pipeline`, pending paste | one handler per server message, publish a frame | network thread; window thread reads the frame under a lock | the window shows whole pictures, requests keep flowing |
| **Reconnect** `run_window` | writer slot, `online`, backoff | connect, run a session, sleep, retry; the window loop sends input | window thread and network thread share the writer | a broken link is retried until the window closes |
| **Input** `Input`, `inject_key*`, `buttons` | held keys, last mask | press, release, release all, type the clipboard | client window thread to server reader | nothing stays pressed |
| **Clipboard** `poll_clipboard`, `paste`, `Shared.clip`, `cut_text_msg` | last text each end knows | detect a change, send, adopt | a poller and a pasting thread at each end share the system clipboard and the last text | no text bounces for ever; what was copied last wins |
| **Mouse and window** `Input::pump`, `run_window`, `Cursor::draw`, `buttons` | mask, position, frame with the pointer on it, `dirty` | send the mouse, draw, take the pointer off again, inject | window thread and network thread share the frame under a lock | each published frame is drawn, clean; the server's mouse is the person's |
| **Handshake** `Vnc::connect`, `serve`, `refuse`, `turn_away` | version, security type | negotiate, authenticate, refuse | once per connection | both sides agree or both give up |
| **Guard** | failures per address | `check`, `fail`, `ok` | one per accepted connection | guessing is slowed down, honest users are not locked out |
| **Certificates** `Identity::new`, `check_known_at` | `server-cert`, `known_hosts` | make and save, remember, compare | files that several processes read and write | one that is remembered is the only one accepted, and an honest server is never refused |
| **Wire** `wire.rs` | TLS session under a lock, two halves | read, write | used by both ends | halves never deadlock each other |
| **Encodings** `encode_tile`, `zrle_tile`, `tight`, `raw`, `find_scroll`, `changed_rects`, `cursor_shape` | zlib streams of the connection | compare, encode, decode | sender and `Decoder` | what one end makes of the other's bytes is what was meant |
| **Android** `jni/src/lib.rs`, Kotlin screens | handle table, frame under a lock | connect, pump, blit, close | JNI | a handle is used only while it lives |
| **GUI** `gui.rs` | dialog fields | ask for a host or a password | before a session | - |

The behaviours that are hard here: two server threads share flags without one lock;
the client writes while it reads; a request, a disable or a change of format can arrive
while an update is half way out; the shared region can change size under every buffer;
either end can lose the link at any point.


## 2. Plan

Order: what a session is for comes first (pictures reach the client), then what it
stands on (the transport), how it starts (handshake, guard), and what it carries the
other way (keys) or is fed by (capture).

| order | module | what it is for | state of it |
|---|---|---|---|
| 1 | `UpdateFlow`, `Mirror`, `UpdateFlow_proof` | sender, reader and client session; the abstract specification `Mirror`; proofs | written, checked, proved |
| 2 | `Wire`, `Pipe`, `Locks_proof` | the two halves, both locks, TLS buffers; the abstract specification `Pipe` | written, checked, proved |
| 3 | `Handshake`, `Handshake_proof` | versions, security types, VeNCrypt | written, checked, proved |
| 4 | `Guard`, `Records_proof` | failed passwords of concurrent connections | written, checked, proved |
| 5 | `Input`, `Input_proof` | keyboard, typed clipboard, reconnects | written, checked, proved |
| 6 | `Capture`, `Desktop_proof` | duplication, BitBlt, the painted pointer, parts of an update | written, checked, proved |
| 7 | `Clipboard`, `Desktop_proof` | two pollers of two system clipboards | written, checked, proved |
| 8 | `Window`, `Locks_proof` | the window's loop beside the network thread; mouse and buttons up to the server's machine; backoff | written, checked, proved |
| 9 | `KnownHosts`, `Records_proof` | files shared by processes that end at any point | written, checked, proved |
| 10 | `Zrle`, `Scroll`, `Tight`, `Shape`, `Wheel`, put together in `Codecs`; `Algorithms_proof`, `Codecs_proof` | pure algorithms, each with its counterpart at the other end | written, checked, proved |

The modules meet at stated interfaces rather than in one composition, whose state space
no run could cover: `UpdateFlow` and `Input` use the connection as whole messages in
order, which is what `Wire` is shown to give them (`Pipe`); `UpdateFlow` begins where
`Handshake` ends, with the client's first two messages on the wire; `UpdateFlow`'s
`Grab` takes any update that covers the difference, and `Capture` shows that what
`Capture::grab` and the parts make of it is one (`InSync`, which also says in which
sessions a pointer may stay behind), and `Codecs` that comparing
two pictures and encoding the difference is one too (`Arrives`); `Handshake` knows one
`penalised` address and whether a certificate is known, changed or new: `Guard` says
when an address is, `KnownHosts` when a certificate is. `Input`, `Window` and
`Clipboard` model three jobs of the same loop of the client's window and of the same
reader of the server; they share no state but the link, whose loss each of them has.

## 3. Modules and code

Every definition that stands for code has its lines in `PROJECT.json` under `map`; the
source's names are kept where there is one. Definitions with an underscore
(`Settle_keepsOld`) are mutants: the form a plausible bug would give the definition
they follow. No specification uses them.

**UpdateFlow.** One connection after `ServerInit`. Three program counters: `spc` walks
`send_frames` (top, wait, look, grab, send, settle), `rpc` is `read_client` at a message
or between two effects of one handler, `cpc` is the client's network thread. Between two
labels nothing is read that another thread writes. A picture is a function from tiles to
values; every drawing uses a fresh value, so that a stale tile is always seen. `Shared`
is the variables `wants` (with its condition), `incremental`, `encs`, `pick`,
`continuous`, `fmt`, `alive`. `Read*` are the handlers of messages 0, 2, 3 and 150,
`Update` and `EndOfContinuous` those of `Vnc::pump`. The desktop, its monitors and the
connection are external actions (`Draw`, `Layout`, `Drop`). A third-party client is
`Extra`: full requests, other formats, disabling continuous updates.
`Scrolls` allows any band that matches after a shift: whichever one `find_scroll` picks
is among them. `views` is a history of the pictures behind each update on the wire.

**Wire.** Four threads, two at each end, two locks at each end: the writer's
(`rfb::Writer`, `Shared.out`) around a whole message, the session's inside `wire.rs`.
`Seal` is `writer().write`, `Push` one `write_tls`, `Decrypt` what `WireRead::read` does
under the lock, `Park` the blocking read outside it. A message is one to three pieces,
a socket holds two or three.

**Handshake.** Both programs message by message, `Connect` and `Serve`. Who meets whom
is the variable `setup`, chosen once: version, security types, TLS modes, password,
certificate, guard. Each side only has actions for the message it reads next.

**Guard.** `penalty`, `failed` and `passed` by any number of connections, time in
seconds. Its specification is `GuardSpec`, of `GuardInit` and `GuardNext`, because
`Records_proof` extends it beside `KnownHosts`: the theorems about the two records that
outlive a connection, failures by address and certificates by host.

**Input.** `Frame` is a pass of `run_window`'s loop (`pump` or `release_all`), which
computes what is to be sent; `Send` sends one message of it to `Inject`, the server.
`Type` is a typing thread. Keys are a letter, `v`, Shift, Ctrl and AltGr, which Windows
reports together with a left Ctrl. The history `left` remembers what was down on the
server's machine when a link broke, so that a key nobody lets go of is told from one
that is stuck.

**Capture.** `Grab` is `Capture::grab` up to the pointer, `Update` the rest of it and
the pass of `send_frames`, `Idle` the pass that finds nothing changed. A session is one of
eight kinds: duplication or BitBlt, the pointer painted or drawn by the client, CopyRect or
not. A pointer painted over duplication (`Haunted`: VNC_NO_CURSOR, as the Android client
has it, or any client without the cursor encodings) may leave others behind on the
client; `Same` is equality but for those, and all that is different in such a session.

**Clipboard.** `LookUp`, `ReadBoard`, `Compare` are a poll, `Receive` and `Paste` the
other thread of the same end. Between reading the clipboard and comparing, and between
noting a text and setting the clipboard, the other thread may run: `overlaps` counts how
often it does. Texts are ten that differ in what crossing does to them (`Crossed`: line
ends, Latin-1, the length limit). `from` remembers who put the present text on a
clipboard. Its specification is `ClipSpec`, of `ClipInit` and `ClipNext`, because
`Desktop_proof` extends it beside `Capture`: what a server says of its desktop.

**KnownHosts.** `known_hosts` is the sequence of the writes `writeln!` makes, so that two
processes can write between each other's pieces and one can end in the middle
(`WriteFails`); `Says` reads it as `check_known_at` does, line by line and word by word.
`Start`, `Truncate`, `Save`, `Stop` are the server's `Identity::new` and what can
interrupt it: `File::create` truncates before it writes.

**Window.** `upc` walks the window's loop (input, look, draw, blit), `npc` the network
thread (pump, publish, tell, wait), `Read` is `read_client` for pointer events and
messages that pick a monitor, `Switch` and `Change` the server's sender as far as the
window sees it. Pixels are values, and `Arrow` is a pixel of the pointer, so that one
left behind in the shared frame is seen. `ToFb` is the scaling and clamping of `to_fb`. Its
specification is `WindowSpec`, because `Locks_proof` extends it beside `Wire`: the two
places where threads of one program share something under a lock.

**Codecs** and what it extends. Nothing here waits, so a behaviour is one job: an action
for the end that writes and one for the end that reads. `Zrle` is a tile byte by byte,
with the code's own limits (255 to an instalment of a run, 127 colours in a palette, 16
in a packed one) and every pixel format of whole bytes; `Scroll` compares pictures, with
tiles of 2 instead of 64, `MIN_SCROLL` 2 instead of 64, 3 probes of 2 tries each instead
of 8 and 8, and a hash that may collide where the job says so; `Tight` has the decoder of
the client and an external encoder, where a zlib stream is the number of blocks since it
was restarted and a JPEG image its pixels; `Shape` is the pointer's picture from Windows'
bitmaps into the frame and out again; `Wheel` counts in whole units of the divisor.
`CodecsAssumption` says what jobs there may be: pixel formats of whole bytes, each
of a colour's three in a place of its own (`PixFmts`), tiles of up to 64 by 64
(`TILE`), pictures and bitmaps with a colour at every place, masks of the three buttons,
Tight rectangles in a form that suits their pixels and whose data are short enough for the
three bytes of their length (`TightRects`), and for `ScrollFound` windows that scrolled
(`Scrolls`): their rows differed, what came in is new, nothing outside changed, the
window ends where tiles do and changed in each of its tiles. Its
algorithms are recursive functions, not RECURSIVE operators, so that all of them can be
proved about.

## 4. Runs

| run | shows | bounds, and why they are enough |
|---|---|---|
| `flow_requests` | the window shows whole pictures, pipeline neither empty nor overfull, convergence, `Mirror` | regions of 1 and 2 tiles: the least with a scroll and a pixel outside it, and with a growth and a shrinking; 2 drawings: one before and one during a frame; 1 switch of monitor and 1 change of layout meet in every order; 2 updates in flight, as many as the pipeline asks for |
| `flow_monitors` | picture in step, sizes announced before pixels, one update at most after a disable, a broken link ends all threads, convergence unless parked | the same regions with continuous updates; one switch, full request, change of format or disable at any point; the break at any point |
| `wire` | `Pipe`, every write ends, everything is heard | frames of 3 pieces against sockets of 3 and buffers of 2: larger than either; with and without TLS |
| `shake_all` | both sides in step, agreed, private; it ends | every TLS mode of both ends, every version, right, wrong and no password, each state of the certificate: finite and complete for the records in `MCHandshake` |
| `guard` | no lock-out, no shortened wait, no growth | 3 connections of 2 addresses: two of one beside one of another; cap of 6 s instead of 30, so that it is reached in two failures |
| `keys` | nothing stays down, AltGr stays plain, a release names the symbol of its press | all five keys; 3 presses, 1 repeat, 1 loss of focus, 1 break, 1 typing thread with one capital: Ctrl-Shift-V and a release in any order, a capital whose Shift was pressed while the link was down and is of the server's making |
| `capture` | client and `prev` in step, both places of the pointer repainted, nothing missed, convergence | every kind of session; 3 places, reports of up to 2 trusted, so that some are and some are not; 2 drawings or drags, 2 moves of the pointer (onto, off, beyond), the loss of duplication at any frame |
| `clipboard` | nothing is told unasked or bounced, it goes quiet, the last copy wins | 2 copies of five texts at either end: at one end twice, or one at each at once; 1 overlap, which is what it takes to bounce; 1 clipboard that refuses, 1 break and reconnect |
| `known_hosts` | an honest server is never refused, a remembered certificate is the only one accepted | 2 clients and 2 servers: the least in which lines of two hosts interleave; 3 checks, 1 restart, 2 failures: a torn file on either side and one more |
| `window` | each published frame is drawn and clean, the server's mouse is the person's | 2 monitors side by side and both together, in a window with bars; 3 movements of mouse or button, 1 update, 1 switch of monitor or broken link |
| `codecs` | each algorithm and its counterpart | all tiles of up to 3 by 2 in three colours, and runs, palettes and packed rows at, below and above every limit; six pixel formats; all pairs of columns of 4 in three colours under a hash that tells them apart and one that does not, all pictures of 3 by 3 and 5 by 2 in two colours after two others; every scroll of a window in pictures of 5 by 8; three Tight rectangles in a row in every form over two of the streams; cursors at every edge; three turns of a wheel |
| `flow_lost_wakeup` | the counterexample of section 6 | the least in which it occurs |

Each property of a passing run has a mutant in `PROJECT.json` that breaks it in that
run. The invariants that carry most: `InSync` (UpdateFlow, Capture), because the
protocol never repairs a picture that went wrong; `Implements` (Wire), because a byte
too many desynchronises everything; `InStep` (Handshake), for the same reason;
`NothingStuck` (Input), because a stuck Ctrl makes the machine unusable.

Some properties have named parts: `AllHeard` contains `WritesFinish`, `Private` contains
`KnownOnly`, `Pinned` contains `Remembered`, `Arrives` the three properties that end in
`Arrives` and `WheelAdds`, `ScrollFound` contains `CopyIsRight`. Each module states its
types in `TypeOK`; that of `UpdateFlow` is a property of `flow_monitors`, that of `Codecs`
(what is written as a byte is one) part of `Arrives`, that of `Input` holds when it is put
in the place of the invariants of `keys`, and the others are theorems (section 5).

Deadlock is checked where a system must not stop (`flow_requests`, `guard`,
`capture`); in the other configurations a session may be over, or everything has been
said and everyone waits for the other side.

### Fairness

Weak fairness of each thread of the program: the operating system schedules it when it
can run, and a socket that has room is written. Nothing makes a person press, a desktop
change, a connection break or a thread speak that has nothing to say. In `Wire`,
`Speak` has no fairness for that reason, and `LockWriter` only weak fairness: a thread
could wait for ever behind others who always have more to write, and the bound
`Messages` keeps that out of the model. A run in `Handshake` is fair to the two sides
as wholes. In `Clipboard` the window has the focus again and again (it polls only then)
and the sender is asked for pictures again and again (it polls at the top of its loop);
reading and receiving are strongly fair there because the bound on overlaps, which the
code does not have, switches them off now and then. In `Window` the network thread gets
the frame's lock in the end (`SF_windowVars(Publish)`). `Guard`, `KnownHosts` and `Codecs` have
safety properties only.

### Assumptions about what is external

* minifb forgets which keys are down when its window loses the focus, delivers the
  releases with the next frame, and does not get the focus back within that frame; it
  compares with the frame before, so that a key that went up and came down again in
  between is reported as neither; with `KeyRepeat::Yes` it reports a held key again.
* DXGI reports moved regions before redrawn ones, and a frame that only moves the
  pointer has `LastPresentTime = 0`.
* TCP delivers in order or breaks; a break is seen by the next read or write.
* Windows hands a clipboard on as it was set; `O_APPEND` puts each write at the end the
  file has at that moment; a process may end between two writes.
* zlib gives back what went in as long as both streams have seen the same blocks, and a
  JPEG decoder an image near enough its pixels to be taken for them.
* `rustls` accepts a bounded amount of plaintext and of ciphertext at a time.

## 5. Proofs

Each theorem is of the whole specification of its module (without fairness) and for
every value of the constants that the module's own assumption allows; what else a
theorem assumes is said with it. Every inductive invariant below was first checked by
TLC under the configuration of its component.

| module | theorem | says |
|---|---|---|
| `UpdateFlow_proof` | `Typing` | `TypeOK` |
| | `Synchronised` | `InSync`: what the client has is what the server diffs against |
| | `AlwaysDecodable` | `Decodable`: no update names a tile outside the framebuffer it meets |
| | `WindowIsScreen` | `FrameIsScreen`: the window's copy is the client's screen |
| | `Implements` | a session implements `Mirror`: only pictures that a region really had |
| | `Bounded` | `PipelineBounded`: no queue of pictures builds up (assumes `RequestsOnly`) |
| | `KeepsGoing` | `NeverStalls`: a request or picture is always under way (assumes `RequestsOnly`) |
| | `OneComesLate` | `OneLateFrame`: one update at most after the reply to a disable |
| `Records_proof` | `NobodyLockedOut` | `NoLockout`: nobody waits longer than the cap, nor for others |
| | `TableShrinks` | `Forgets`: only addresses that wait are remembered |
| | `WaitsAreServed` | `Served`: only time or the right password shortens a wait |
| `Locks_proof` | `Typing` | `TypeOK` |
| | `OneWriter` | no two threads of one end are in the middle of a message |
| | `TransportIsPipe` | locks, TLS buffers and sockets implement `Pipe` |
| | `WindowTyping` | `WindowTypeOK` |
| | `NoSmear` | `CleanFrame`: the shared frame has no pointer in it, and nothing older than its update |
| `Handshake_proof` | `Typing` | `TypeOK` |
| | `StaysInStep` | `InStep`: each side finds the message it reads for |
| | `SidesAgree` | `Agree`: in TLS both or neither, and with the right password |
| | `TlsKept` | `Private`: no answer and no session in the clear where TLS is required |
| | `NoSecondGuess` | `NoGuess`: no challenge for a peer that serves a penalty |
| `Records_proof` | `Typing` | `TypeOK` of `KnownHosts` |
| | `NeverCriesWolf` | `NoFalseAlarm`: an honest server is not refused |
| | `FirstUseDecides` | `Pinned`: who was remembered is accepted and nobody else |
| `Input_proof` | `TypesKept` | `TypeOK` |
| | `NoKeyStuck` | `NothingStuck`: what is down on the server's machine is held, or was when a link broke |
| | `UpRepeatsDown` | `SymbolKept`: a release names the symbol of its press |
| | `AltGrIsPlain` | `AltGrPlain`: its characters are no Ctrl-Alt shortcuts (assumes `Taps \cap Modifiers = {}`) |
| `Desktop_proof` | `Typing` | `TypeOK` of `Capture` |
| | `ClientHasIt` | `InSync`: what the client has is what is compared with, in every kind of session |
| | `BothPlaces` | `Repainted`: where the pointer was and where it is the client has what the server has |
| | `ClipTyping` | `ClipTypeOK` |
| | `TellsOwn` | `NotBounced`: only what a person copied is told |
| `Codecs_proof` | `ComparingIsEnough` | the parts of an update made by comparing turn the one picture into the other |
| | `TilesComeBack` | `TileArrives`: a tile in any form and pixel format is read as it was, to its last byte |
| | `PicturesComeBack` | `PictureArrives`: the update made of two pictures, encoded, sent and drawn, turns the one into the other |
| | `RectanglesComeBack` | `TightArrives`: Tight rectangles in any form over any of the streams |
| | `EverythingArrives` | `Arrives`: the three above, `WheelAdds`, and what is written as a byte is one |
| | `CopiesAreRight` | `CopyIsRight`: what CopyRect copies is right where it lands |
| | `ScrollsAreFound` | `ScrollFound`: a window that scrolled is sent as a copy of all that is still there |
| | `ShortestForm` | `Thrift`: the form chosen for a tile is the shortest it can have |
| | `PointerShown` | `ShapeShown`: the pixels that mask or alpha mark are drawn and taken off without a trace |
| | `NothingTurnedIsLost` | `WheelAdds`: notches and remainder add up to what was turned |

### The update flow

The assumption is `FlowAssumption`: regions have at least one tile, the default region
exists, bounds are naturals. It covers every set of regions of every size, every client
(`Asks`, `Extras`, `Pipeline`, `Continuous`) and every bound.

The inductive invariant is `IInv == TypeOK /\ Chain /\ Tracks /\ FrameIsScreen`. None of
the properties is inductive by itself: `InSync` speaks of an empty queue, and a step that
empties it says nothing unless what was in the queue is known. `Chain` supplies that:
`views`, the history of pictures, starts at the client's screen and each update leads
from one view to the next, fits the framebuffer it finds there, and covers the
difference. `Tracks` ties the end of the chain to the sender: the last view is `prev`, or
`cur` once it is written and not yet settled, or the size is about to be announced. From
`Chain` the head of the queue decodes to the next view (`Pump`), from `Tracks` a new
update extends the chain (`Send`), and `Look` may change the region because a resized
update replaces the whole picture. `InSync` and `Decodable` are `Tracks` and `Chain` on
an empty and a non-empty queue; `MirrorStep` maps each step to `Draw`, `Take`, `Show` or a
stutter of `Mirror`.

Lemmas come in three groups: what `Picture`, `Scrolls` and `Grab` yield
(`PictureFacts` to `GrabFacts`), one typing lemma per action (`DrawTyping` to
`SettleTyping`), and how the chain moves (`WireUnchanged`, `WireAppends`,
`WireReceives`). `QuietStep` deals with every action that touches neither queue nor
picture.

`Bounded` and `KeepsGoing` count what pays for pictures. Their invariant is `RInv ==
TypeOK /\ Prompted /\ Paid`: no end is in continuous updates, and what the client is still
to ask for as it starts is counted too. `RequestsOnly` (VNC_NO_CONTINUOUS, or a client that
does not list the pseudo-encoding) is what the properties are about: in continuous updates
nothing pays for pictures. `OneComesLate` holds for all clients. Its invariant is `LInv ==
TypeOK /\ Once /\ Final /\ Fresh /\ OneLateFrame`: a client enables once and disables once,
so that nothing enables after the reply, and the sender's own copy of the flag, which
outlives the reply, is spent with the picture it stands for.

### The transport

`WInv == TypeOK /\ Exclusive /\ Busy /\ Buffers`: who is in the middle of a message holds
the writer, what such a thread has left to write, and which buffers are in use with and
without TLS. `Queue(e)`, what is on the way to an end, is the plaintext not yet taken,
the records not yet opened, the socket and the records not yet pushed, in this order;
every action but `Seal` and the `Read` that takes a piece leaves it as it is, and those
are `Pipe`'s own steps. The sizes of pieces, sockets and buffers are constants.

### The handshake

`IInv == Kinds /\ Known /\ Place /\ Guarded`. `Place` names, for each pair of places the two
sides can be in, what may be in the two streams, and what both have settled by then. `InStep` alone is not inductive: a side
that finds its message goes on to a place where it reads for another one, and that the
next one in the stream is it must be known already. `HandshakeAssumption` says that at
least one of the two programs is vncfree's: two strangers promise nothing.

### The keyboard

For any keys, any clipboards, any number of typing threads and every bound
(`InputAssumption`). `IInv == Sorts /\ Seen /\ Paid /\ Explained /\ ShiftTold /\ Linkage`.
`NothingStuck` speaks of the moment when all is sent, so the invariant has to say what
the messages still to be sent will do. `Paid` does so by debts: every symbol that is down
for the server is paid for by a key the client holds as that symbol, or by an up that
some thread has still to send after every down of it. `Send` and `Type` move a message
from the queue to the server's machine, and a debt with it; a frame moves debts between
what is held and what is queued and loses none (`Carries`, `Moves`); `Drop` turns what is
down into `left`. After a repeat under another Shift a key is released under another
symbol than it was pressed with: `Alike` then compares virtual keys instead of symbols,
and `Stale` says that the symbol left over presses none. `Seen` is what the window
promises: a key is reported as pressed only if the client does not hold it, so that no
press is paid for twice. `Explained` and `ShiftTold` tie the server's virtual keys to its
symbols, `Linkage` says what a broken link leaves.

A frame is a pass over keys in whichever order the window lists them, and what it sends is
flattened from strokes: `DownAll` is a recursive function and `FlattenSeq` another. Both
are dealt with by the least number of steps at which the claim would fail, which is an
induction whose property is a set and not an operator. One `Down` is `Goes` from the
frame before, and `Goes` is kept by each further one.

`AltGrIsPlain` needs more, `AInv == Downs /\ Away /\ Bare /\ Ats /\ Clear`: once the
frame that saw AltGr go down is over no modifier is held (`Bare`), and in the queue of a
frame that types its character the ups of Ctrl and Alt come first (`Clear`). The theorem
is of keyboards on which no modifier is tapped (`Taps`), that is pressed and released
within one frame of the window, some 16 ms. Where AltGr is, with its letter in the same
frame, `pump` no longer sees AltGr down, holds nothing back, and the letter does arrive
under Ctrl and Alt (section 6).

### Known hosts

`known_hosts` is the sequence of writes, of any number of clients, cut off anywhere. The
invariant has two halves. Where no line was left unfinished, the file is lines of a host
and a certificate, the last one as far as the one client that writes has come (`Owing`,
`Tidy`), each of them that of a server whose file was never lost (`Truthful`, `Saved`,
`Loyal`): that gives `NoFalseAlarm`. For torn or interleaved lines nothing is known but that
a line once finished is read the same whatever is appended (`Settled`, `Pins`): that gives
`Pinned`, whose other part, that what was accepted is remembered, is `Lined`.

### The window

`IInv == Kinds /\ Lent /\ Lacks`. While the window has the frame locked, the frame is the
one last shown with the pointer painted on it at `at`, and what was put aside (`under`)
is exactly what the pointer covers (`Lent`): so `restore` gives the frame back as it was.
`Lacks` says by how much the frame may be older than the network thread's screen: not at
all where an update has been published, by the touched pixels where one is about to be,
and by everything while the first picture of a new session is still to come.
`WindowAssumption` numbers the regions from 0, the whole desktop, with at least one monitor
beside it, gives each a positive size within it, and the window one too.

### The clipboard

`IInv == TypeOK /\ Placed /\ Calm`. `NotBounced` speaks of a step, and the only one that
tells is `Compare`; what it compares was read in an earlier one. `Calm` bridges the two: as
long as no poll and paste of one end overlap and the clipboard can be set, what a paste has
noted is what it will put there, and a text no person put on the clipboard is the noted one
and the one that a poll under way has read. `Placed` is what `TypeOK` leaves out of the
program counters.

### Capture

`IInv == Typed /\ Told /\ Pointed /\ Synced`. `Told` is the contract of Desktop Duplication
carried along: what it has still to report leads from the DIB to the desktop, and what it
has reported from the last picture to the DIB (`Covers`). It speaks of the inks, for the
pointer is no part of what duplication reports on. `Pointed` is the other half: pictures
for a client that draws its own have no pointer on them, others have one where it was
painted last (`cursor`), which is one of the `Spots` that are repainted. Moved regions overlap, so a report is a sequence
of copies, and `Moved`, which carries them out, is a recursive function; `StepByStep` to
`MovedElsewhere` say what one more copy does, by the least number of copies for which it
would not. `MovedRearranges` says that whatever copies do to a picture, they take each
place from one place: with a pointer in one of them, they can spread pointers and nothing
else, which is why the theorem holds of a painted pointer over duplication too.

### The codecs

A job is done in two steps, so the invariant is short: `IInv` says that the job is one of
those there may be and that each half that is done is what its operator works out
(`TileInv` to `WheelInv`). The work is in the operators, and it is the same for all sizes:
`Algorithms_proof` has what holds of single tiles, cursors and turns of the wheel,
`Codecs_proof`, which extends it, pictures, rectangles of other servers and the theorems.

Recursive functions, folds and flattened sequences call for induction, whose theorems take
the property as an operator, which no prover here can instantiate. Each time it is the set
of steps at which the claim fails that is shown to have no least member (`LeastExists`):
the same argument with a set in the place of the property. Three facts come
first: a recursive function is its own equation (`Recursion`), a flattened sequence holds
what its parts hold, a sum over a set is the sum without one of its members and that one.

* *The wheel*: what is carried and the clicks sent add up after every event (an integer
  division with the sign taken off and put back), and what the server counts as notches are
  the clicks, bit by bit of the mask.
* *The pointer*: a mask of bits, rows padded to bytes, is read bit by bit; eight bits put
  in a byte come out again (`Division`, powers of two). `Under` is what `Draw` covers.
* *Tiles*: the indices of a tile are cut into runs (`Spans`) that tile it without a gap; a
  run's length is written in bytes of 255 and one more, read back by adding; a palette
  is without repetition, so that an index names its colour. A decoder that has read the
  spans so far stands where the next one was written: that is the claim that has no least
  counterexample, for runs of one colour, of palette entries, for packed rows, which
  are padded at their end, and for plain pixels. A pixel format's bytes are those of a
  colour shifted; that they are apart is all that is needed.
* *Cost*: each cost that `encode_tile` counts is the length of what would be written, and
  the choice takes the least.
* *Tight*: the control byte says form and stream (bits put together and taken apart); a
  length takes one to three bytes of seven bits; the gradient's guess is made of pixels to
  the left and above, which the reader has when it needs them, component by
  component; and reader and writer agree on how often each stream was restarted, which
  makes rectangle after rectangle come back.

`ComparingIsEnough` is about an operator, `Diff` of `Scroll`: for two pictures of any size
in any colours, any `key` (which rows hash alike), any tile, `MIN_SCROLL`, probes and tries
(`ScrollAssumption`), and with CopyRect or without, the parts lie on the picture; a copy is
the first part and the only copy, its source lies on the picture, and what it copies is
what is to be there; and a client that carries out the copy and then the pixels
(`Patched`) has the new picture. The steps:

* `FlatSteps` to `Flat`: what a flattened sequence of sequences contains.
* `DifferenceCovered`: a pixel that differs is in a tile that differs (`Division`); the run
  of such tiles it is in begins somewhere, by the least tile of the run (`RunReaches`), and
  ends behind it (`StopFacts`); `RectsAre` keeps the runs on the picture, whose last row and
  column of tiles may be cut, and says that nothing else is in them.
* `ScrollFacts`: at most one band is found. A probe is a row of the picture (`ProbeFacts`),
  a band that grows from it stays on both pictures (`GrownFacts`), and of two longest ones
  the one found first counts. It copies what is right because the rows are compared after
  their hashes were (`RowsMatch`).
* `ColsFacts`: the columns searched are those of a rectangle, which needs that one of the
  areas is the largest (`LargestExists`) and so that an area is a number: it is a sum over a
  set, a recursion over sets that `SumExists` builds size by size.
* `LeftOver` and `PatchedIs`: the pixels sent are the difference from the picture as the
  copy leaves it, which is why the copy comes first.

`PicturesComeBack` takes this to the bytes: what is drawn over a picture (`Over`) is a
rectangle of it and nothing else; the tiles of a rectangle are written and read one
after another, and all of them together cover it; the parts of an update are drawn one
after another, and each leaves alone what the ones before put right.

`ScrollsAreFound` is the other direction: that the search does find what there is. With
rows that are all different, two rows agree under a shift only where they moved by it
(`MoveAgrees`), so that a band that grows from a row that moved is exactly the moved rows
(`GrownAll`) and a row that did not move has no source (`SourcesAre`). The first and the
last row that changed are both probed (`ProbeEnds`), and one of the two moved, whichever
way the window went. That the search is made at all, and in the right columns, is a matter
of the tiles: each rectangle of changed tiles has just the columns of the window
(`FullRects`), and together they are at least as tall as what moved (`SpanIs`).

### The guard

For any addresses, connections and cap of at least two seconds (`GuardAssumption`).
`WaitsAreServed` needs the strengthening `Due`: a wait is never longer than what the
count in the table stands for. Without it a further failure could replace a long wait by a
short one; `Due` holds because `penalty` drops an entry only when its time is over, and
because the back-off grows with the count (`BackoffBounded`).

### What is only model-checked

* Liveness, which is out of the prover's reach: `Converges` (twice),
  `ConvergesUnlessParked`, `DropEndsAll`, `AllHeard`, `Ends`, `HandsOff`, `GoesQuiet`,
  `LastCopyWins`, `LastFrameDrawn`, `MouseFollows`.
* That a scroll is found in a window whose rows are not all different, or which ends
  within a tile: there the code may find a shorter band or none, and `PictureArrives` is
  all that is promised.

Every invariant and action property of the runs is a theorem.

## 6. Where the code and its documentation part

Checked by a run of the suite:

| configuration | property | what happens |
|---|---|---|
| `flow_lost_wakeup` | `Converges` | the sender, parked on the condition of `wants`, is not woken by EnableContinuousUpdates (server.rs:2103); the client has stopped asking, so the picture freezes until it sends SetEncodings |

Configurations beside the suite, each to be run by hand and each violated
(`flow_promises`, `keys_promises` and `window_promises` list several properties, to be
checked one at a time):

| configuration | property | what happens |
|---|---|---|
| `flow_promises` | `SessionEnds` | a sender that gives up over a resize sets a flag the blocked reader does not see; the connection stays without pictures (server.rs:2249) |
| | `NothingBeforeRequest` | SetEncodings alone starts an update (server.rs:2075 against 1452) |
| | `NextUpdateIsFull` | a format set while an update is going out is followed by an incremental one (server.rs:2527 against 2051) |
| | `LastUpdateBeforeReply` | the reply to a disable overtakes an update (server.rs:2115 against rfb.rs:606); `OneLateFrame` shows that it is never more than one |
| `wire_gridlock` | `NoGridlock` | the TLS session is locked across a blocking write (wire.rs:147 against 9-12), which keeps the reader of that end from making room: large messages both ways stop both ends |
| `shake_reason` | `ReasonFrom38` | a 3.7 client is sent a reason it does not read (server.rs:2033 against rfb.rs:391) |
| `guard_escalates` | `Escalates` | the record is dropped as its time is served, so one failure after another waits 2 s each (server.rs:1930 against 2582) |
| `capture_painted` | `OnePointer` | a pointer painted by the server is still in the DIB when a pointer-only frame comes, and is repainted where it should vanish (server.rs:669 against 682); the client has two |
| `keys_promises` | `SameSymbol` | a repeat under another Shift overwrites the symbol to release (client.rs:527 against 297) |
| | `ShiftComesUp` | such a repeat turns the capital to lower case, and the Shift the server pressed for it is not let go of (client.rs:527 against server.rs:808); the only exception in `NothingStuck` beside the broken link |
| | `PasteOnce` | V held until it repeats types the clipboard again (client.rs:504 against 502) |
| | `TypedPlain` | a repeat of Ctrl presses it again under the typing thread (client.rs:500 against 497) |
| | `DroppedOffline` | characters typed during a reconnect are sent after it (client.rs:534 against design.md:68) |
| | `Survives` | a write error on the window's thread ends the program (client.rs:822 against 620) |
| | `SortedOut` | keys down at a break stay down on the server's machine (client.rs:596) |
| `keys`, with `altgr` and `ctrl` added to `Taps` | `AltGrPlain` | AltGr pressed and released with its letter within one frame is not down any more when the frame looks (client.rs:472): it goes out as Ctrl and Alt, and the character after it |
| `clipboard_bounce` | `NeverBounced` | a poll that read the clipboard's new text before the paste's note was compared sends it back (client.rs:348); `GoesQuiet` shows that it does so once |
| `known_hosts_empty` | `EmptyIsAbsent` | a line with nothing after the host, which a process leaves that ends in the middle of it, is not taken for absent: any certificate is accepted and none remembered (wire.rs:336) |
| `window_promises` | `PointerMeetsAfterSwitch` | after a switch to another monitor the pointer is drawn where the mouse is and the server's stays where it was until the mouse moves (client.rs:400) |
| | `ButtonsFollowAlways` | a button that was down when the link broke stays down on the server's machine: the mask is the connection's (server.rs:2132) |

Two more hold: `flow_unpipelined` is a session under VNC_NO_PIPELINE with a switch of
monitor, `flow_layouts` a change of layout during a switch with continuous updates on.

`capture_painted` is of sessions in which the pointer is painted over duplication; how far
it goes there is what `InSync` and `Repainted` say of them: pointers too many, among them
one that a moved region carries along (server.rs:2376), but nothing else that is old, and
at both places of a pointer that moved what the server has there.

In `wire_gridlock` messages of 3 pieces go both ways over sockets of 2. Both ends stop
without TLS too when both have more to write than the sockets hold and both readers
answer: the reader blocks in its answer (rfb.rs:569). The run `wire` keeps the client's
messages small, as those of a client without a large clipboard are, so `AllHeard` says
nothing of either.

server.rs:1068 says that a scroll found by a hash that collided would corrupt the
client's screen. The rows are compared for that reason (`CopyIsRight`, which fails
without it); but `PictureArrives` holds without the comparison too, since what a copy
leaves over is found by comparing with the picture as the copy leaves it. The comparison saves
work, not the picture.

## 7. Not modelled

* Android's session table (`jni/src/lib.rs`) and its Kotlin screens. The table is a map
  from handles to sessions behind one mutex; every call holds what it looked up for as
  long as it runs, and what it does with it is the client session of `UpdateFlow`
  without a window of its own. What is peculiar to it is that the lowest free handle is
  given out again, while the screen forgets the old one in a message posted after the
  free: a touch in between, with a new session open already, would reach that one. This
  is listed as a hazard without a property.
* Listening and starting up (`run`, `main`), dialogs, diagnostics and timing, the PPM
  grab, build files: no state that a property could be about. `run` appears as the
  accepted connections of `Guard`.
* `PixFmt::parse` copies fields; formats whose shifts are not whole bytes are drawn by
  the same arithmetic and left out of `Zrle`.
* zlib, JPEG, DXGI, minifb and the Windows clipboard are external, modelled from how the
  code uses them (section 4).
* Cryptography: abstracted in `Handshake` to right and wrong passwords and known,
  changed and first certificates.
* The window's title and VNC_VIEW_ONLY, of which only the clipboard is modelled.
