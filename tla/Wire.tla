-------------------------------- MODULE Wire --------------------------------
(***************************************************************************)
(* The transport under RFB: wire.rs and the locks around it.  Each end of  *)
(* a connection has a thread that only writes (send_frames at the server,  *)
(* the window's thread at the client) and one that reads and now and then  *)
(* answers (read_client, Vnc::pump).  Whole messages are written under one *)
(* lock per end.  With TLS the two halves also share the session, behind   *)
(* a second lock that a write keeps until the socket has taken everything. *)
(*                                                                         *)
(* A message is some pieces; with TLS a piece is a record.  The sockets    *)
(* are bounded queues.                                                     *)
(***************************************************************************)
EXTENDS Naturals, Sequences

CONSTANTS
  Modes,        (* whether WireRead.tls and WireWrite.tls are there        *)
  Room,         (* records the sockets of one direction hold               *)
  Chunk,        (* records rustls buffers before it accepts no more        *)
  Handful,      (* records one read of the socket can bring (raw)          *)
  Largest,      (* pieces in the largest message, per thread               *)
  Messages      (* bound: messages each thread sends; a reader sends them  *)
                (* in answer to what it hears                              *)

Ends == {"client", "server"}
Threads == {"window", "net", "sender", "reader"}
Nobody == "nobody"
Peer == [e \in Ends |-> IF e = "client" THEN "server" ELSE "client"]
At == [t \in Threads |-> IF t \in {"window", "net"} THEN "client" ELSE "server"]
Writer == [e \in Ends |-> IF e = "client" THEN "window" ELSE "sender"]
Reader == [e \in Ends |-> IF e = "client" THEN "net" ELSE "reader"]

ASSUME WireAssumption ==
  /\ Modes \subseteq BOOLEAN
  /\ Room \in Nat \ {0} /\ Chunk \in Nat \ {0} /\ Handful \in Nat \ {0}
  /\ Largest \in [Threads -> Nat \ {0}]
  /\ Messages \in [Threads -> Nat]

VARIABLES
  encrypted, (* the connection's mode: they are there                      *)
  pc,       (* thread: at "rest" (a reader: wanting the next piece),       *)
            (* waiting for the write lock ("queue") or the session         *)
            (* ("seal"), writing ("push"), or reading the socket ("park")  *)
  left,     (* pieces of its message rustls (or the socket) has not taken  *)
  budget,   (* messages or answers it may still write                      *)
  records,  (* sealed at an end and not yet written to its socket          *)
  sock,     (* on the way to an end                                        *)
  raw,      (* WireRead.raw: off the socket, not taken by rustls           *)
  plain     (* WireRead.plain                                              *)

vars == <<encrypted, pc, left, budget, records, sock, raw, plain>>

Pieces(t, n, done) == [i \in 1 .. n |-> [by |-> t, last |-> done /\ i = n]]
Least(a, b) == IF a < b THEN a ELSE b

Init == /\ encrypted \in Modes
        /\ pc = [t \in Threads |-> "rest"]
        /\ left = [t \in Threads |-> 0]
        /\ budget = Messages
        /\ records = [e \in Ends |-> <<>>]
        /\ sock = [e \in Ends |-> <<>>]
        /\ raw = [e \in Ends |-> <<>>]
        /\ plain = [e \in Ends |-> <<>>]

----------------------------------------------------------------------------
(* The two locks, by who is inside.                                        *)

(* rfb::Writer and Shared.out: held from the first piece to the last.      *)
Writing(e) == {t \in Threads : At[t] = e /\ pc[t] \in {"seal", "push"}}

(* The TLS session: a write keeps it, socket writes included.              *)
Holding(e) == {t \in Threads : At[t] = e /\ encrypted /\ pc[t] = "push"}

----------------------------------------------------------------------------
(* Writing: send or out.lock(), then WireWrite::write.                     *)

Begin(t, n) == /\ pc' = [pc EXCEPT ![t] = "queue"]
               /\ left' = [left EXCEPT ![t] = n]
               /\ budget' = [budget EXCEPT ![t] = @ - 1]

(* The writing thread of an end has something to say.                      *)
Speak(e) == LET t == Writer[e] IN
            /\ pc[t] = "rest" /\ budget[t] > 0
            /\ \E n \in 1 .. Largest[t] : Begin(t, n)
            /\ UNCHANGED <<encrypted, records, sock, raw, plain>>

LockWriter(t) == /\ pc[t] = "queue" /\ Writing(At[t]) = {}
                 /\ pc' = [pc EXCEPT ![t] = IF encrypted THEN "seal" ELSE "push"]
                 /\ UNCHANGED <<left, budget, records, sock, raw, plain>>

LockSession(t) == /\ pc[t] = "seal" /\ Holding(At[t]) = {}
                  /\ pc' = [pc EXCEPT ![t] = "push"]
                  /\ UNCHANGED <<left, budget, records, sock, raw, plain>>

(* writer().write: rustls takes what it has room for.                      *)
Seal(t) == LET e == At[t]
               n == Least(Chunk, left[t]) IN
           /\ encrypted /\ pc[t] = "push" /\ records[e] = <<>> /\ left[t] > 0
           /\ records' = [records EXCEPT ![e] = Pieces(t, n, n = left[t])]
           /\ left' = [left EXCEPT ![t] = @ - n]
           /\ UNCHANGED <<pc, budget, sock, raw, plain>>

(* write_tls: one record to the socket, which blocks while it is full.     *)
(* After the last, both locks go.                                          *)
Push(t) == LET e == At[t] IN
           /\ encrypted /\ pc[t] = "push" /\ records[e] # <<>>
           /\ Len(sock[Peer[e]]) < Room
           /\ sock' = [sock EXCEPT ![Peer[e]] = Append(@, Head(records[e]))]
           /\ records' = [records EXCEPT ![e] = Tail(@)]
           /\ pc' = [pc EXCEPT ![t] =
                       IF left[t] = 0 /\ Len(records[e]) = 1 THEN "rest" ELSE "push"]
           /\ UNCHANGED <<left, budget, raw, plain>>

(* Without TLS the socket takes a piece at a time.                         *)
PushPlain(t) == LET e == At[t] IN
                /\ ~encrypted /\ pc[t] = "push"
                /\ Len(sock[Peer[e]]) < Room
                /\ sock' = [sock EXCEPT ![Peer[e]] = @ \o Pieces(t, 1, left[t] = 1)]
                /\ left' = [left EXCEPT ![t] = @ - 1]
                /\ pc' = [pc EXCEPT ![t] = IF left[t] = 1 THEN "rest" ELSE "push"]
                /\ UNCHANGED <<budget, records, raw, plain>>

----------------------------------------------------------------------------
(* Reading: WireRead::read.                                                *)

(* Out of what is decrypted already; the end of a message may be answered. *)
Take(e) == LET t == Reader[e] IN
           /\ pc[t] = "rest" /\ plain[e] # <<>>
           /\ plain' = [plain EXCEPT ![e] = Tail(@)]
           /\ \/ UNCHANGED <<pc, left, budget>>
              \/ /\ Head(plain[e]).last /\ budget[t] > 0
                 /\ \E n \in 1 .. Largest[t] : Begin(t, n)
           /\ UNCHANGED <<records, sock, raw>>

(* Mutant: to the socket as soon as something was decrypted, over what was *)
(* still in hand.                                                          *)
Decrypt_dropsRest(e) ==
  LET t == Reader[e] IN
  /\ encrypted /\ pc[t] = "rest" /\ plain[e] = <<>> /\ Holding(e) = {}
  /\ \/ \E k \in 1 .. Len(raw[e]) :
          /\ plain' = [plain EXCEPT ![e] = SubSeq(raw[e], 1, k)]
          /\ raw' = [raw EXCEPT ![e] = <<>>]
          /\ UNCHANGED pc
     \/ /\ raw[e] = <<>>
        /\ pc' = [pc EXCEPT ![t] = "park"]
        /\ UNCHANGED <<raw, plain>>
  /\ UNCHANGED <<left, budget, records, sock>>

(* Under the session's lock: read_tls takes some of what is in hand,       *)
(* process_new_packets decrypts it; with nothing in hand the reader goes   *)
(* to the socket.                                                          *)
Decrypt(e) == LET t == Reader[e] IN
              /\ encrypted /\ pc[t] = "rest" /\ plain[e] = <<>> /\ Holding(e) = {}
              /\ \/ \E k \in 1 .. Len(raw[e]) :
                      /\ plain' = [plain EXCEPT ![e] = SubSeq(raw[e], 1, k)]
                      /\ raw' = [raw EXCEPT ![e] = SubSeq(@, k + 1, Len(@))]
                      /\ UNCHANGED pc
                 \/ /\ raw[e] = <<>>
                    /\ pc' = [pc EXCEPT ![t] = "park"]
                    /\ UNCHANGED <<raw, plain>>
              /\ UNCHANGED <<left, budget, records, sock>>

(* Mutant: a read that waits for all it asked for.                         *)
Park_full(e) == LET t == Reader[e] IN
                /\ pc[t] = "park" /\ Len(sock[e]) >= Handful
                /\ raw' = [raw EXCEPT ![e] = SubSeq(sock[e], 1, Handful)]
                /\ sock' = [sock EXCEPT ![e] = SubSeq(@, Handful + 1, Len(@))]
                /\ pc' = [pc EXCEPT ![t] = "rest"]
                /\ UNCHANGED <<left, budget, records, plain>>

(* The blocking read of the socket, outside the lock.                      *)
Park(e) == LET t == Reader[e] IN
           /\ pc[t] = "park"
           /\ \E k \in 1 .. Least(Handful, Len(sock[e])) :
                /\ raw' = [raw EXCEPT ![e] = SubSeq(sock[e], 1, k)]
                /\ sock' = [sock EXCEPT ![e] = SubSeq(@, k + 1, Len(@))]
           /\ pc' = [pc EXCEPT ![t] = "rest"]
           /\ UNCHANGED <<left, budget, records, plain>>

ReadPlain(e) == /\ ~encrypted /\ pc[Reader[e]] = "rest" /\ plain[e] = <<>>
                /\ \E k \in 1 .. Least(Handful, Len(sock[e])) :
                     /\ plain' = [plain EXCEPT ![e] = SubSeq(sock[e], 1, k)]
                     /\ sock' = [sock EXCEPT ![e] = SubSeq(@, k + 1, Len(@))]
                /\ UNCHANGED <<pc, left, budget, records, raw>>

----------------------------------------------------------------------------
Write(t) == /\ LockWriter(t) \/ LockSession(t) \/ Seal(t) \/ Push(t) \/ PushPlain(t)
            /\ UNCHANGED encrypted
Read(e) == /\ Take(e) \/ Decrypt(e) \/ Park(e) \/ ReadPlain(e)
           /\ UNCHANGED encrypted

Next == \/ \E t \in Threads : Write(t)
        \/ \E e \in Ends : Speak(e) \/ Read(e)

Spec == Init /\ [][Next]_vars

(* Threads are scheduled; nothing makes a thread speak.                    *)
FairSpec == /\ Spec
            /\ \A t \in Threads : WF_vars(Write(t))
            /\ \A e \in Ends : WF_vars(Read(e))
----------------------------------------------------------------------------
(* What an end was told and has not heard, and who is telling it.          *)
Queue(e) == plain[e] \o raw[e] \o sock[e] \o records[Peer[e]]

Speaker(e) ==
  LET S == {t \in Writing(Peer[e]) : left[t] > 0}
  IN  IF S = {} THEN Nobody ELSE CHOOSE t \in S : TRUE

Record == [by : Threads, last : BOOLEAN]
TypeOK ==
  /\ encrypted \in BOOLEAN
  /\ pc \in [Threads -> {"rest", "queue", "seal", "push", "park"}]
  /\ left \in [Threads -> Nat] /\ budget \in [Threads -> Nat]
  /\ \A e \in Ends : /\ records[e] \in Seq(Record) /\ sock[e] \in Seq(Record)
                     /\ raw[e] \in Seq(Record) /\ plain[e] \in Seq(Record)
  /\ DOMAIN records = Ends /\ DOMAIN sock = Ends
  /\ DOMAIN raw = Ends /\ DOMAIN plain = Ends

(* Whatever the locks, buffers and record boundaries do in between, each   *)
(* end hears exactly what the other said, in order and a whole message at  *)
(* a time: WireRead over WireWrite implements the pipe that the rest of    *)
(* vncfree takes it for.                                                   *)
P == INSTANCE Pipe WITH queue <- [e \in Ends |-> Queue(e)],
                        speaker <- [e \in Ends |-> Speaker(e)],
                        Most <- Chunk
Implements == P!Spec

(* At most one thread of an end is inside the session, and a reader that   *)
(* waits at the socket is not: an idle screen keeps nobody from writing    *)
(* (the test a_blocked_reader_does_not_stop_the_writer).                   *)
WritesFinish == \A t \in Threads : (pc[t] = "queue") ~> (pc[t] = "rest")

(* Everything that is said is written and heard: no record stays behind in *)
(* raw while the reader waits for more.                                    *)
AllHeard == WritesFinish /\ \A e \in Ends : []<>(Queue(e) = <<>>)

(* wire.rs:9-12, design.md:337-338: the wait for bytes happens outside the *)
(* lock, only encryption and decryption are serialised.  So no reader is   *)
(* kept from the session by a socket, least of all both at a time: each    *)
(* end writing into a full socket, under the lock that its own reader      *)
(* needs to make room for the other.                                       *)
NoGridlock == ~ \A e \in Ends :
                   /\ \E t \in Holding(e) : t # Reader[e]
                   /\ records[e] # <<>> /\ Len(sock[Peer[e]]) = Room
                   /\ pc[Reader[e]] = "rest" /\ plain[e] = <<>>
=============================================================================
