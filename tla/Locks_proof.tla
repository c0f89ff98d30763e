---------------------------- MODULE Locks_proof ----------------------------
(***************************************************************************)
(* What two threads of one program share under a lock. The halves of a     *)
(* connection: whatever the threads, the sizes of their messages and of    *)
(* the buffers, the transport is two pipes. The frame on the window:       *)
(* proved for any monitors, any window, any movements, updates and broken  *)
(* links.                                                                  *)
(***************************************************************************)
EXTENDS Wire, Window, FiniteSetTheorems, SequenceTheorems, TLAPS

----------------------------------------------------------------------------
(* The connection.                                                         *)

(* Whole messages are written under one lock per end.                      *)
Exclusive == \A s, t \in Threads :
                At[s] = At[t] /\ pc[s] \in {"seal", "push"} /\ pc[t] \in {"seal", "push"}
                => s = t

(* A thread that waits for a lock has its message to write, one that is    *)
(* done with it has left nothing; the last pieces may be records that the  *)
(* socket has not taken.                                                   *)
Busy(t) == /\ pc[t] \in {"queue", "seal"} => left[t] > 0
           /\ pc[t] = "push" /\ left[t] = 0 => encrypted /\ records[At[t]] # <<>>
           /\ pc[t] = "park" => encrypted /\ t = Reader[At[t]]

(* Sealed records belong to the thread inside the session, and a reader    *)
(* goes to the socket with nothing in hand.                                *)
Buffers(e) == /\ records[e] # <<>> => \E t \in Threads : At[t] = e /\ pc[t] = "push"
              /\ ~encrypted => records[e] = <<>> /\ raw[e] = <<>>
              /\ pc[Reader[e]] = "park" => raw[e] = <<>> /\ plain[e] = <<>>

WInv == /\ TypeOK /\ Exclusive
        /\ \A t \in Threads : Busy(t)
        /\ \A e \in Ends : Buffers(e)
----------------------------------------------------------------------------
(* Ends, threads, records.                                                 *)

LEMMA EndFacts ==
  /\ \A e \in Ends : /\ Peer[e] \in Ends /\ Peer[e] # e /\ Peer[Peer[e]] = e
                     /\ Reader[e] \in Threads /\ At[Reader[e]] = e
                     /\ Writer[e] \in Threads /\ At[Writer[e]] = e
  /\ \A t \in Threads : At[t] \in Ends
  /\ \A d, e \in Ends : Peer[d] = Peer[e] => d = e
  /\ Nobody \notin Threads
BY DEF Ends, Threads, Peer, At, Reader, Writer, Nobody

LEMMA PiecesFacts ==
  ASSUME NEW t \in Threads, NEW n \in Nat, NEW done \in BOOLEAN
  PROVE  Pieces(t, n, done) \in Seq(Record) /\ (n > 0 => Pieces(t, n, done) # <<>>)
<1>1. Pieces(t, n, done) \in [1 .. n -> Record]
  BY DEF Pieces, Record
<1>2. Pieces(t, n, done) \in Seq(Record)
  BY <1>1, SeqDef
<1>3. n > 0 => DOMAIN Pieces(t, n, done) # {}
  BY <1>1
<1>4. DOMAIN <<>> = {}
  OBVIOUS
<1> QED
  BY <1>2, <1>3, <1>4

LEMMA LeastFacts ==
  ASSUME NEW a \in Nat, NEW b \in Nat
  PROVE  Least(a, b) \in Nat /\ Least(a, b) <= a /\ Least(a, b) <= b
         /\ (a > 0 /\ b > 0 => Least(a, b) > 0)
BY DEF Least

(* A sequence cut in two is the sequence again.                            *)
LEMMA CutFacts ==
  ASSUME NEW s \in Seq(Record), NEW k \in 1 .. Len(s)
  PROVE  /\ SubSeq(s, 1, k) \in Seq(Record) /\ SubSeq(s, k + 1, Len(s)) \in Seq(Record)
         /\ SubSeq(s, 1, k) \o SubSeq(s, k + 1, Len(s)) = s
<1>1. Len(s) \in Nat /\ k \in Int /\ \A i \in 1 .. Len(s) : s[i] \in Record
  BY LenProperties
<1>2. SubSeq(s, 1, k) \in Seq(Record)
  BY <1>1, SubSeqProperties
<1>3. SubSeq(s, k + 1, Len(s)) \in Seq(Record)
  BY <1>1, SubSeqProperties
<1>4. SubSeq(s, 1, k) \o SubSeq(s, k + 1, Len(s)) = SubSeq(s, 1, Len(s))
  BY <1>1, ConcatAdjacentSubSeq
<1> QED
  BY <1>2, <1>3, <1>4, SubSeqFull

LEMMA ConcatTyped ==
  ASSUME NEW s \in Seq(Record), NEW t \in Seq(Record)
  PROVE  s \o t \in Seq(Record)
BY ConcatProperties

(* What the steps of the transport do to the concatenation of the buffers  *)
(* p (decrypted), r (off the socket), s (socket), c (sealed).              *)
InFlight(p, r, s, c) == p \o r \o s \o c

LEMMA Associative == \A x, y, z \in Seq(Record) : (x \o y) \o z = x \o (y \o z)
BY ConcatAssociative

LEMMA TailOfConcat ==
  ASSUME NEW x \in Seq(Record), NEW y \in Seq(Record), x # <<>>
  PROVE  /\ x \o y # <<>> /\ Tail(x) \o y = Tail(x \o y)
         /\ x \o y \in Seq(Record) /\ Tail(x) \in Seq(Record)
<1>1. x \o y \in Seq(Record) /\ x \o y # <<>>
  BY ConcatProperties, ConcatEqualIffEmpty
<1>2. Tail(x) \in Seq(Record) /\ Len(Tail(x)) = Len(x) - 1
      /\ \A i \in 1 .. Len(Tail(x)) : Tail(x)[i] = x[i + 1]
  BY HeadTailProperties
<1>3. Tail(x \o y) \in Seq(Record) /\ Len(Tail(x \o y)) = Len(x \o y) - 1
      /\ \A i \in 1 .. Len(Tail(x \o y)) : Tail(x \o y)[i] = (x \o y)[i + 1]
  BY <1>1, HeadTailProperties
<1>4. Tail(x) \o y \in Seq(Record)
  BY <1>2, ConcatProperties
<1>5. Len(x) \in Nat \ {0} /\ Len(y) \in Nat
  BY EmptySeq, LenProperties
<1>6. Len(Tail(x) \o y) = Len(Tail(x \o y))
      /\ \A i \in 1 .. Len(Tail(x) \o y) : (Tail(x) \o y)[i] = Tail(x \o y)[i]
  BY <1>2, <1>3, <1>5, ConcatProperties
<1>7. Tail(x) \o y = Tail(x \o y)
  BY <1>3, <1>4, <1>6, SeqEqual
<1> QED
  BY <1>1, <1>2, <1>7

LEMMA TakeBuffers ==
  ASSUME NEW p \in Seq(Record), NEW r \in Seq(Record), NEW s \in Seq(Record),
         NEW c \in Seq(Record), p # <<>>
  PROVE  /\ InFlight(p, r, s, c) # <<>>
         /\ InFlight(Tail(p), r, s, c) = Tail(InFlight(p, r, s, c))
<1>1. /\ p \o r # <<>> /\ p \o r \in Seq(Record) /\ Tail(p) \o r = Tail(p \o r)
  BY TailOfConcat
<1>2. /\ p \o r \o s # <<>> /\ p \o r \o s \in Seq(Record)
      /\ Tail(p \o r) \o s = Tail(p \o r \o s)
  BY <1>1, TailOfConcat
<1>3. /\ p \o r \o s \o c # <<>>
      /\ Tail(p \o r \o s) \o c = Tail(p \o r \o s \o c)
  BY <1>2, TailOfConcat
<1> QED
  BY <1>1, <1>2, <1>3 DEF InFlight

LEMMA DecryptBuffers ==
  ASSUME NEW r \in Seq(Record), NEW s \in Seq(Record), NEW c \in Seq(Record),
         NEW k \in 1 .. Len(r)
  PROVE  InFlight(SubSeq(r, 1, k), SubSeq(r, k + 1, Len(r)), s, c) = InFlight(<<>>, r, s, c)
<1>1. SubSeq(r, 1, k) \o SubSeq(r, k + 1, Len(r)) = <<>> \o r
  BY CutFacts, ConcatEmptySeq
<1> QED
  BY <1>1 DEF InFlight

LEMMA ParkBuffers ==
  ASSUME NEW p \in Seq(Record), NEW s \in Seq(Record), NEW c \in Seq(Record),
         NEW k \in 1 .. Len(s)
  PROVE  InFlight(p, SubSeq(s, 1, k), SubSeq(s, k + 1, Len(s)), c) = InFlight(p, <<>>, s, c)
<1> DEFINE x == SubSeq(s, 1, k)
           y == SubSeq(s, k + 1, Len(s))
<1>1. x \in Seq(Record) /\ y \in Seq(Record) /\ x \o y = s
  BY CutFacts
<1> HIDE DEF x, y
<1>2. (p \o x) \o y = p \o (x \o y)
  <2>1. ASSUME NEW u \in Seq(Record), NEW v \in Seq(Record)
        PROVE  (p \o u) \o v = p \o (u \o v)
    BY Associative
  <2> QED
    BY <1>1, <2>1
<1>3. p \o <<>> = p
  BY ConcatEmptySeq
<1>4. InFlight(p, x, y, c) = InFlight(p, <<>>, s, c)
  BY <1>1, <1>2, <1>3 DEF InFlight
<1> QED
  BY <1>4 DEF x, y

LEMMA ReadBuffers ==
  ASSUME NEW s \in Seq(Record), NEW c \in Seq(Record), NEW k \in 1 .. Len(s)
  PROVE  InFlight(SubSeq(s, 1, k), <<>>, SubSeq(s, k + 1, Len(s)), c)
          = InFlight(<<>>, <<>>, s, c)
<1>1. SubSeq(s, 1, k) \in Seq(Record) /\ SubSeq(s, 1, k) \o SubSeq(s, k + 1, Len(s)) = s
  BY CutFacts
<1>2. SubSeq(s, 1, k) \o <<>> = SubSeq(s, 1, k) /\ <<>> \o s = s /\ <<>> \o <<>> = <<>>
  BY <1>1, ConcatEmptySeq
<1> QED
  BY <1>1, <1>2 DEF InFlight

LEMMA PushBuffers ==
  ASSUME NEW p \in Seq(Record), NEW r \in Seq(Record), NEW s \in Seq(Record),
         NEW c \in Seq(Record), c # <<>>
  PROVE  InFlight(p, r, Append(s, Head(c)), Tail(c)) = InFlight(p, r, s, c)
<1>1. Head(c) \in Record /\ Tail(c) \in Seq(Record) /\ <<Head(c)>> \in Seq(Record)
  BY HeadTailProperties
<1>2. <<Head(c)>> \o Tail(c) = c
  OBVIOUS
<1>3. p \o r \in Seq(Record) /\ p \o r \o s \in Seq(Record)
  BY ConcatTyped
<1>4. Append(s, Head(c)) = s \o <<Head(c)>>
  BY <1>1, AppendIsConcat
<1>5. (p \o r) \o (s \o <<Head(c)>>) = ((p \o r) \o s) \o <<Head(c)>>
  BY <1>1, <1>3, ConcatAssociative
<1>6. (((p \o r) \o s) \o <<Head(c)>>) \o Tail(c) = ((p \o r) \o s) \o (<<Head(c)>> \o Tail(c))
  BY <1>1, <1>3, ConcatAssociative
<1> QED
  BY <1>2, <1>4, <1>5, <1>6 DEF InFlight

LEMMA SayBuffers ==
  ASSUME NEW p \in Seq(Record), NEW r \in Seq(Record), NEW s \in Seq(Record),
         NEW m \in Seq(Record)
  PROVE  /\ InFlight(p, r, s, m) = InFlight(p, r, s, <<>>) \o m
         /\ InFlight(p, r, s \o m, <<>>) = InFlight(p, r, s, <<>>) \o m
<1>1. p \o r \in Seq(Record) /\ p \o r \o s \in Seq(Record) /\ s \o m \in Seq(Record)
  BY ConcatTyped
<1>2. (p \o r) \o (s \o m) \in Seq(Record)
  BY <1>1, ConcatTyped
<1>3. p \o r \o s \o <<>> = p \o r \o s /\ (p \o r) \o (s \o m) \o <<>> = (p \o r) \o (s \o m)
  BY <1>1, <1>2, ConcatEmptySeq
<1>4. (p \o r) \o (s \o m) = (p \o r \o s) \o m
  <2>1. ASSUME NEW x \in Seq(Record) PROVE x \o (s \o m) = (x \o s) \o m
    BY Associative
  <2> QED
    BY <1>1, <2>1
<1> QED
  BY <1>3, <1>4 DEF InFlight

----------------------------------------------------------------------------
(* Each step keeps the invariant.                                          *)

LEMMA InitInv == Init => WInv
<1> SUFFICES ASSUME Init PROVE WInv
  OBVIOUS
<1>1. <<>> \in Seq(Record)
  BY EmptySeq
<1>2. TypeOK
  BY <1>1, WireAssumption DEF Init, TypeOK
<1> QED
  BY <1>2, EndFacts DEF Init, WInv, Exclusive, Busy, Buffers

LEMMA SpeakKeeps ==
  ASSUME WInv, NEW e \in Ends, Speak(e)
  PROVE  WInv'
<1>1. PICK n \in 1 .. Largest[Writer[e]] :
        /\ pc[Writer[e]] = "rest" /\ budget[Writer[e]] > 0
        /\ Begin(Writer[e], n) /\ UNCHANGED <<encrypted, records, sock, raw, plain>>
  BY DEF Speak
<1>2. n \in Nat \ {0}
  BY EndFacts, WireAssumption
<1>3. TypeOK'
  BY <1>1, <1>2, EndFacts DEF WInv, TypeOK, Begin
<1> QED
  BY <1>1, <1>2, <1>3, EndFacts DEF WInv, TypeOK, Exclusive, Busy, Buffers, Begin

LEMMA LockKeeps ==
  ASSUME WInv, NEW t \in Threads, LockWriter(t) \/ LockSession(t), UNCHANGED encrypted
  PROVE  WInv'
<1>1. TypeOK'
  BY DEF WInv, TypeOK, LockWriter, LockSession
<1>2. Exclusive'
  BY DEF WInv, TypeOK, Exclusive, LockWriter, LockSession, Writing
<1>3. \A s \in Threads : Busy(s)'
  BY DEF WInv, TypeOK, Busy, LockWriter, LockSession
<1>4. \A e \in Ends : Buffers(e)'
  BY EndFacts DEF WInv, TypeOK, Buffers, LockWriter, LockSession
<1> QED
  BY <1>1, <1>2, <1>3, <1>4 DEF WInv

LEMMA SealKeeps ==
  ASSUME WInv, NEW t \in Threads, Seal(t), UNCHANGED encrypted
  PROVE  WInv'
<1> DEFINE n == Least(Chunk, left[t])
<1>1. n \in Nat \ {0} /\ n <= left[t]
  BY LeastFacts, WireAssumption DEF WInv, TypeOK, Seal
<1>2. Pieces(t, n, n = left[t]) \in Seq(Record) /\ Pieces(t, n, n = left[t]) # <<>>
  <2>1. (n = left[t]) \in BOOLEAN /\ n \in Nat /\ n > 0
    BY <1>1
  <2> HIDE DEF n
  <2>2. \A done \in BOOLEAN :
          Pieces(t, n, done) \in Seq(Record) /\ Pieces(t, n, done) # <<>>
    BY <2>1, PiecesFacts
  <2> QED
    BY <2>1, <2>2
<1>3. /\ encrypted /\ pc[t] = "push" /\ At[t] \in Ends
      /\ records' = [records EXCEPT ![At[t]] = Pieces(t, n, n = left[t])]
      /\ left' = [left EXCEPT ![t] = @ - n]
      /\ UNCHANGED <<pc, budget, sock, raw, plain>>
  BY EndFacts DEF Seal
<1> HIDE DEF n
<1>4. TypeOK'
  BY <1>1, <1>2, <1>3 DEF WInv, TypeOK
<1>5. Exclusive'
  BY <1>3 DEF WInv, Exclusive
<1>6. \A s \in Threads : Busy(s)'
  BY <1>1, <1>2, <1>3 DEF WInv, TypeOK, Busy, Exclusive
<1>7. \A e \in Ends : Buffers(e)'
  BY <1>3 DEF WInv, TypeOK, Buffers
<1> QED
  BY <1>4, <1>5, <1>6, <1>7 DEF WInv

LEMMA PushKeeps ==
  ASSUME WInv, NEW t \in Threads, Push(t), UNCHANGED encrypted
  PROVE  WInv'
<1> DEFINE e == At[t]
<1>1. e \in Ends /\ Peer[e] \in Ends
  BY EndFacts
<1>2. /\ records[e] \in Seq(Record) /\ records[e] # <<>> /\ encrypted /\ pc[t] = "push"
      /\ sock' = [sock EXCEPT ![Peer[e]] = Append(@, Head(records[e]))]
      /\ records' = [records EXCEPT ![e] = Tail(@)]
      /\ pc' = [pc EXCEPT ![t] =
                  IF left[t] = 0 /\ Len(records[e]) = 1 THEN "rest" ELSE "push"]
      /\ UNCHANGED <<encrypted, left, budget, raw, plain>>
  BY <1>1 DEF WInv, TypeOK, Push
<1>3. /\ Head(records[e]) \in Record /\ Tail(records[e]) \in Seq(Record)
      /\ Len(records[e]) # 1 => Tail(records[e]) # <<>>
      /\ Len(records[e]) = 1 => Tail(records[e]) = <<>>
  <2>1. /\ Len(records[e]) \in Nat \ {0} /\ Tail(records[e]) \in Seq(Record)
        /\ Len(Tail(records[e])) = Len(records[e]) - 1 /\ Head(records[e]) \in Record
    <3>1. \A s \in Seq(Record) : s # <<>> =>
            /\ Len(s) \in Nat \ {0} /\ Tail(s) \in Seq(Record)
            /\ Len(Tail(s)) = Len(s) - 1 /\ Head(s) \in Record
      BY EmptySeq, HeadTailProperties
    <3> QED
      BY <1>2, <3>1
  <2>2. Len(records[e]) = 1 => Len(Tail(records[e])) = 0
    BY <2>1
  <2>3. \A s \in Seq(Record) : Len(s) = 0 <=> s = <<>>
    BY EmptySeq
  <2>4. Len(records[e]) # 1 => Len(Tail(records[e])) # 0
    BY <2>1
  <2> HIDE DEF e
  <2> QED
    BY <2>1, <2>2, <2>3, <2>4
<1>4. TypeOK'
  <2>1. Append(sock[Peer[e]], Head(records[e])) \in Seq(Record)
    BY <1>1, <1>3, AppendProperties DEF WInv, TypeOK
  <2> QED
    BY <1>1, <1>2, <1>3, <2>1 DEF WInv, TypeOK
<1>5. Exclusive'
  BY <1>2 DEF WInv, TypeOK, Exclusive
<1>6. \A s \in Threads : Busy(s)'
  BY <1>1, <1>2, <1>3 DEF WInv, TypeOK, Busy, Exclusive
<1>7. \A d \in Ends : Buffers(d)'
  <2>1. ASSUME NEW d \in Ends, d # e PROVE Buffers(d)'
    <3>1. records'[d] = records[d] /\ \A s \in Threads : At[s] = d => pc'[s] = pc[s]
      BY <1>2, <2>1 DEF WInv, TypeOK
    <3>2. pc'[Reader[d]] = pc[Reader[d]]
      BY <2>1, <3>1, EndFacts
    <3> QED
      BY <1>2, <3>1, <3>2 DEF WInv, Buffers
  <2>2. Buffers(e)'
    <3>1. records'[e] = Tail(records[e])
      BY <1>1, <1>2 DEF WInv, TypeOK
    <3>2. records'[e] # <<>> => pc'[t] = "push"
      BY <1>2, <1>3, <3>1 DEF WInv, TypeOK
    <3>3. pc'[Reader[e]] = "park" => pc[Reader[e]] = "park"
      BY <1>1, <1>2, EndFacts DEF WInv, TypeOK
    <3> QED
      BY <1>1, <1>2, <3>2, <3>3 DEF WInv, Buffers
  <2> QED
    BY <2>1, <2>2
<1> QED
  BY <1>4, <1>5, <1>6, <1>7 DEF WInv

LEMMA PushPlainKeeps ==
  ASSUME WInv, NEW t \in Threads, PushPlain(t), UNCHANGED encrypted
  PROVE  WInv'
<1> DEFINE e == At[t]
<1>1. e \in Ends /\ Peer[e] \in Ends
  BY EndFacts
<1>2. /\ ~encrypted /\ pc[t] = "push" /\ left[t] \in Nat \ {0}
      /\ sock' = [sock EXCEPT ![Peer[e]] = @ \o Pieces(t, 1, left[t] = 1)]
      /\ left' = [left EXCEPT ![t] = @ - 1]
      /\ pc' = [pc EXCEPT ![t] = IF left[t] = 1 THEN "rest" ELSE "push"]
      /\ UNCHANGED <<encrypted, budget, records, raw, plain>>
  BY DEF WInv, TypeOK, Busy, PushPlain
<1>3. TypeOK'
  <2>1. \A done \in BOOLEAN : Pieces(t, 1, done) \in Seq(Record)
    BY PiecesFacts
  <2>2. sock[Peer[e]] \o Pieces(t, 1, left[t] = 1) \in Seq(Record)
    BY <1>1, <2>1, ConcatTyped DEF WInv, TypeOK
  <2> QED
    BY <1>1, <1>2, <2>2 DEF WInv, TypeOK
<1>4. Exclusive'
  BY <1>2 DEF WInv, TypeOK, Exclusive
<1>5. \A s \in Threads : Busy(s)'
  BY <1>2 DEF WInv, TypeOK, Busy
<1>6. \A d \in Ends : Buffers(d)'
  BY <1>2, EndFacts DEF WInv, TypeOK, Buffers
<1> QED
  BY <1>3, <1>4, <1>5, <1>6 DEF WInv

LEMMA TakeKeeps ==
  ASSUME WInv, NEW e \in Ends, Take(e), UNCHANGED encrypted
  PROVE  WInv'
<1> DEFINE t == Reader[e]
<1>1. t \in Threads /\ At[t] = e
  BY EndFacts
<1>2. /\ pc[t] = "rest" /\ plain[e] \in Seq(Record) /\ plain[e] # <<>>
      /\ plain' = [plain EXCEPT ![e] = Tail(@)]
      /\ UNCHANGED <<encrypted, records, sock, raw>>
  BY DEF WInv, TypeOK, Take
<1>3. Tail(plain[e]) \in Seq(Record)
  BY <1>2, HeadTailProperties
<1>4. CASE UNCHANGED <<pc, left, budget>>
  <2>1. TypeOK'
    BY <1>2, <1>3, <1>4 DEF WInv, TypeOK
  <2>2. \A d \in Ends : Buffers(d)'
    BY <1>2, <1>4 DEF WInv, TypeOK, Buffers
  <2> QED
    BY <1>2, <1>4, <2>1, <2>2 DEF WInv, Exclusive, Busy
<1>5. ASSUME budget[t] > 0, NEW n \in 1 .. Largest[t], Begin(t, n)
      PROVE  WInv'
  <2>1. n \in Nat \ {0}
    BY <1>1, <1>5, WireAssumption
  <2>2. /\ pc' = [pc EXCEPT ![t] = "queue"] /\ left' = [left EXCEPT ![t] = n]
        /\ budget' = [budget EXCEPT ![t] = @ - 1]
    BY <1>5 DEF Begin
  <2>3. TypeOK'
    BY <1>1, <1>2, <1>3, <1>5, <2>1, <2>2 DEF WInv, TypeOK
  <2>4. Exclusive'
    BY <2>2 DEF WInv, TypeOK, Exclusive
  <2>5. \A s \in Threads : Busy(s)'
    BY <1>2, <2>1, <2>2 DEF WInv, TypeOK, Busy
  <2>6. \A d \in Ends : Buffers(d)'
    BY <1>1, <1>2, <2>2, EndFacts DEF WInv, TypeOK, Buffers
  <2> QED
    BY <2>3, <2>4, <2>5, <2>6 DEF WInv
<1> QED
  BY <1>4, <1>5 DEF Take

LEMMA DecryptKeeps ==
  ASSUME WInv, NEW e \in Ends, Decrypt(e), UNCHANGED encrypted
  PROVE  WInv'
<1> DEFINE t == Reader[e]
<1>1. t \in Threads /\ At[t] = e
  BY EndFacts
<1>2. /\ encrypted /\ pc[t] = "rest" /\ plain[e] = <<>> /\ raw[e] \in Seq(Record)
      /\ UNCHANGED <<encrypted, left, budget, records, sock>>
  BY DEF WInv, TypeOK, Decrypt
<1>3. ASSUME NEW k \in 1 .. Len(raw[e]), UNCHANGED pc,
             plain' = [plain EXCEPT ![e] = SubSeq(raw[e], 1, k)],
             raw' = [raw EXCEPT ![e] = SubSeq(@, k + 1, Len(@))]
      PROVE  WInv'
  <2>1. SubSeq(raw[e], 1, k) \in Seq(Record) /\ SubSeq(raw[e], k + 1, Len(raw[e])) \in Seq(Record)
    BY <1>2, CutFacts
  <2>2. TypeOK'
    BY <1>2, <1>3, <2>1 DEF WInv, TypeOK
  <2>3. \A d \in Ends : Buffers(d)'
    BY <1>2, <1>3 DEF WInv, TypeOK, Buffers
  <2> QED
    BY <1>2, <1>3, <2>2, <2>3 DEF WInv, Exclusive, Busy
<1>4. CASE raw[e] = <<>> /\ pc' = [pc EXCEPT ![t] = "park"] /\ UNCHANGED <<raw, plain>>
  <2>1. TypeOK'
    BY <1>2, <1>4 DEF WInv, TypeOK
  <2>2. Exclusive'
    BY <1>4 DEF WInv, TypeOK, Exclusive
  <2>3. \A s \in Threads : Busy(s)'
    BY <1>1, <1>2, <1>4 DEF WInv, TypeOK, Busy
  <2>4. \A d \in Ends : Buffers(d)'
    BY <1>1, <1>2, <1>4, EndFacts DEF WInv, TypeOK, Buffers
  <2> QED
    BY <2>1, <2>2, <2>3, <2>4 DEF WInv
<1> QED
  BY <1>3, <1>4 DEF Decrypt

LEMMA ParkKeeps ==
  ASSUME WInv, NEW e \in Ends, Park(e), UNCHANGED encrypted
  PROVE  WInv'
<1> DEFINE t == Reader[e]
<1>1. t \in Threads /\ At[t] = e
  BY EndFacts
<1>2. /\ pc[t] = "park" /\ sock[e] \in Seq(Record) /\ encrypted /\ plain[e] = <<>>
      /\ pc' = [pc EXCEPT ![t] = "rest"]
      /\ UNCHANGED <<encrypted, left, budget, records, plain>>
  BY <1>1 DEF WInv, TypeOK, Busy, Buffers, Park
<1>3. PICK k \in 1 .. Least(Handful, Len(sock[e])) :
        /\ raw' = [raw EXCEPT ![e] = SubSeq(sock[e], 1, k)]
        /\ sock' = [sock EXCEPT ![e] = SubSeq(@, k + 1, Len(@))]
  BY DEF Park
<1>4. k \in 1 .. Len(sock[e])
  <2>1. Len(sock[e]) \in Nat
    BY <1>2, LenProperties
  <2>2. Least(Handful, Len(sock[e])) \in Nat /\ Least(Handful, Len(sock[e])) <= Len(sock[e])
    BY <2>1, LeastFacts, WireAssumption
  <2> QED
    BY <1>3, <2>1, <2>2
<1>5. SubSeq(sock[e], 1, k) \in Seq(Record) /\ SubSeq(sock[e], k + 1, Len(sock[e])) \in Seq(Record)
  BY <1>2, <1>4, CutFacts
<1>6. TypeOK'
  BY <1>2, <1>3, <1>5 DEF WInv, TypeOK
<1>7. Exclusive'
  BY <1>2 DEF WInv, TypeOK, Exclusive
<1>8. \A s \in Threads : Busy(s)'
  BY <1>2 DEF WInv, TypeOK, Busy
<1>9. \A d \in Ends : Buffers(d)'
  <2>1. ASSUME NEW d \in Ends, d # e PROVE Buffers(d)'
    <3>1. Reader[d] # t /\ Reader[d] \in Threads
      BY <2>1, <1>1, EndFacts
    <3> QED
      BY <1>1, <1>2, <1>3, <2>1, <3>1, SMTT(60) DEF WInv, TypeOK, Buffers
  <2>2. Buffers(e)'
    BY <1>1, <1>2 DEF WInv, TypeOK, Buffers
  <2> QED
    BY <2>1, <2>2
<1> QED
  BY <1>6, <1>7, <1>8, <1>9 DEF WInv

LEMMA ReadPlainKeeps ==
  ASSUME WInv, NEW e \in Ends, ReadPlain(e), UNCHANGED encrypted
  PROVE  WInv'
<1>1. /\ ~encrypted /\ sock[e] \in Seq(Record) /\ pc[Reader[e]] = "rest"
      /\ UNCHANGED <<encrypted, pc, left, budget, records, raw>>
  BY DEF WInv, TypeOK, ReadPlain
<1>2. PICK k \in 1 .. Least(Handful, Len(sock[e])) :
        /\ plain' = [plain EXCEPT ![e] = SubSeq(sock[e], 1, k)]
        /\ sock' = [sock EXCEPT ![e] = SubSeq(@, k + 1, Len(@))]
  BY DEF ReadPlain
<1>3. k \in 1 .. Len(sock[e])
  <2>1. Len(sock[e]) \in Nat
    BY <1>1, LenProperties
  <2>2. Least(Handful, Len(sock[e])) \in Nat /\ Least(Handful, Len(sock[e])) <= Len(sock[e])
    BY <2>1, LeastFacts, WireAssumption
  <2> QED
    BY <1>2, <2>1, <2>2
<1>4. SubSeq(sock[e], 1, k) \in Seq(Record) /\ SubSeq(sock[e], k + 1, Len(sock[e])) \in Seq(Record)
  BY <1>1, <1>3, CutFacts
<1>5. TypeOK'
  BY <1>1, <1>2, <1>4 DEF WInv, TypeOK
<1>6. \A d \in Ends : Buffers(d)'
  BY <1>1, <1>2 DEF WInv, TypeOK, Buffers
<1> QED
  BY <1>1, <1>5, <1>6 DEF WInv, Exclusive, Busy

LEMMA NextKeeps == WInv /\ [Next]_vars => WInv'
<1> SUFFICES ASSUME WInv, [Next]_vars PROVE WInv'
  OBVIOUS
<1>1. ASSUME NEW t \in Threads, Write(t) PROVE WInv'
  BY <1>1, LockKeeps, SealKeeps, PushKeeps, PushPlainKeeps DEF Write
<1>2. ASSUME NEW e \in Ends, Read(e) PROVE WInv'
  BY <1>2, TakeKeeps, DecryptKeeps, ParkKeeps, ReadPlainKeeps DEF Read
<1>3. ASSUME NEW e \in Ends, Speak(e) PROVE WInv'
  BY <1>3, SpeakKeeps
<1>4. CASE UNCHANGED vars
  BY <1>4 DEF vars, WInv, TypeOK, Exclusive, Busy, Buffers
<1> QED
  BY <1>1, <1>2, <1>3, <1>4 DEF Next

LEMMA WireInvariance == Spec => []WInv
BY InitInv, NextKeeps, PTL DEF Spec

(* The state of the transport has its types.                               *)
THEOREM Typing == Spec => []TypeOK
<1>1. WInv => TypeOK
  BY DEF WInv
<1> QED
  BY <1>1, WireInvariance, PTL

(* At most one thread of an end is past the write lock, whatever waits for *)
(* the session or the socket: rfb::Writer and Shared.out keep the pieces   *)
(* of a message together.                                                  *)
THEOREM OneWriter == Spec => []Exclusive
<1>1. WInv => Exclusive
  BY DEF WInv
<1> QED
  BY <1>1, WireInvariance, PTL

----------------------------------------------------------------------------
(* The mapping to the pipe.                                                *)

Queues == [e \in Ends |-> Queue(e)]
Speakers == [e \in Ends |-> Speaker(e)]

(* The speaker, as a function of the program counters p and what is left   *)
(* to write, l.                                                            *)
Inside(p, e) == {t \in Threads : At[t] = e /\ p[t] \in {"seal", "push"}}
Saying(p, l, e) == {t \in Inside(p, Peer[e]) : l[t] > 0}
Voice(p, l, e) == LET S == Saying(p, l, e)
                  IN  IF S = {} THEN Nobody ELSE CHOOSE t \in S : TRUE

LEMMA SpeakerIsVoice ==
  ASSUME NEW e \in Ends
  PROVE  Speaker(e) = Voice(pc, left, e) /\ Speaker(e)' = Voice(pc', left', e)
BY DEF Speaker, Voice, Saying, Inside, Writing

(* With the lock kept, the one inside that has something left speaks.      *)
LEMMA VoiceOfOne ==
  ASSUME NEW p, NEW l, NEW e \in Ends, NEW t \in Threads,
         At[t] = Peer[e], p[t] \in {"seal", "push"},
         \A s \in Threads : At[s] = At[t] /\ p[s] \in {"seal", "push"} => s = t
  PROVE  Voice(p, l, e) = IF l[t] > 0 THEN t ELSE Nobody
<1>1. Saying(p, l, e) = IF l[t] > 0 THEN {t} ELSE {}
  BY DEF Saying, Inside
<1> QED
  BY <1>1 DEF Voice

LEMMA VoiceOfNone ==
  ASSUME NEW p, NEW l, NEW e \in Ends,
         \A t \in Threads : At[t] = Peer[e] => p[t] \notin {"seal", "push"}
  PROVE  Voice(p, l, e) = Nobody
<1>1. Saying(p, l, e) = {}
  BY DEF Saying, Inside
<1> QED
  BY <1>1 DEF Voice

(* A step that changes nobody's part in it leaves the speaker.             *)
LEMMA VoiceKept ==
  ASSUME NEW e \in Ends,
         \A t \in Threads : At[t] = Peer[e] =>
            \/ pc'[t] = pc[t] /\ left'[t] = left[t]
            \/ pc[t] \notin {"seal", "push"} /\ pc'[t] \notin {"seal", "push"}
            \/ pc[t] \in {"seal", "push"} /\ pc'[t] \in {"seal", "push"} /\ left'[t] = left[t]
  PROVE  Speaker(e)' = Speaker(e)
<1>1. Saying(pc', left', e) = Saying(pc, left, e)
  BY DEF Saying, Inside
<1> QED
  BY <1>1, SpeakerIsVoice DEF Voice

LEMMA QueueIsInFlight ==
  ASSUME NEW e \in Ends
  PROVE  /\ Queue(e) = InFlight(plain[e], raw[e], sock[e], records[Peer[e]])
         /\ Queue(e)' = InFlight(plain'[e], raw'[e], sock'[e], records'[Peer[e]])
BY DEF Queue, InFlight

LEMMA QueueTyped ==
  ASSUME TypeOK, NEW e \in Ends
  PROVE  /\ plain[e] \in Seq(Record) /\ raw[e] \in Seq(Record) /\ sock[e] \in Seq(Record)
         /\ records[Peer[e]] \in Seq(Record) /\ Queue(e) \in Seq(Record)
<1>1. /\ plain[e] \in Seq(Record) /\ raw[e] \in Seq(Record) /\ sock[e] \in Seq(Record)
      /\ records[Peer[e]] \in Seq(Record)
  BY EndFacts DEF TypeOK
<1> QED
  BY <1>1, ConcatTyped DEF Queue

LEMMA Stutters ==
  ASSUME \A e \in Ends : Queue(e)' = Queue(e) /\ Speaker(e)' = Speaker(e)
  PROVE  UNCHANGED <<Queues, Speakers>>
BY DEF Queues, Speakers

LEMMA MapsInit == Init => P!Init
<1> SUFFICES ASSUME Init PROVE P!Init
  OBVIOUS
<1>1. ASSUME NEW e \in Ends PROVE Queue(e) = <<>> /\ Speaker(e) = Nobody
  <2>1. Queue(e) = <<>> \o <<>> \o <<>> \o <<>>
    BY EndFacts DEF Init, Queue
  <2>2. <<>> \o <<>> = <<>>
    OBVIOUS
  <2>3. Voice(pc, left, e) = Nobody
    BY VoiceOfNone DEF Init
  <2> QED
    BY <2>1, <2>2, <2>3, SpeakerIsVoice
<1> QED
  BY <1>1 DEF P!Init

(* Past the write lock: a message is begun.                                *)
LEMMA LockWriterMaps ==
  ASSUME WInv, NEW t \in Threads, LockWriter(t)
  PROVE  P!Next
<1> DEFINE e == Peer[At[t]]
<1>1. e \in Ends /\ Peer[e] = At[t]
  BY EndFacts
<1>2. left[t] > 0 /\ left' = left /\ pc'[t] \in {"seal", "push"}
      /\ \A s \in Threads : s # t => pc'[s] = pc[s]
  BY DEF WInv, TypeOK, Busy, LockWriter
<1>3. \A s \in Threads : At[s] = At[t] => pc[s] \notin {"seal", "push"}
  BY DEF LockWriter, Writing
<1>4. \A d \in Ends : Queue(d)' = Queue(d)
  BY DEF LockWriter, Queue
<1>5. Speaker(e) = Nobody
  BY <1>1, <1>3, VoiceOfNone, SpeakerIsVoice
<1>6. Speaker(e)' = t
  <2>1. Voice(pc', left', e) = IF left'[t] > 0 THEN t ELSE Nobody
    BY <1>1, <1>2, <1>3, VoiceOfOne
  <2> QED
    BY <1>1, <1>2, <2>1, SpeakerIsVoice
<1>7. ASSUME NEW d \in Ends, d # e PROVE Speaker(d)' = Speaker(d)
  <2>1. \A s \in Threads : At[s] = Peer[d] => s # t
    BY <1>1, <1>7, EndFacts
  <2> QED
    BY <1>2, <2>1, VoiceKept
<1>8. P!Begin(e, t)
  BY <1>1, <1>4, <1>5, <1>6, <1>7 DEF P!Begin
<1> QED
  BY <1>1, <1>8 DEF P!Next

LEMMA LockSessionMaps ==
  ASSUME WInv, NEW t \in Threads, LockSession(t)
  PROVE  UNCHANGED <<Queues, Speakers>>
<1>1. \A d \in Ends : Queue(d)' = Queue(d)
  BY DEF LockSession, Queue
<1>2. ASSUME NEW d \in Ends PROVE Speaker(d)' = Speaker(d)
  BY VoiceKept DEF LockSession, WInv, TypeOK
<1> QED
  BY <1>1, <1>2, Stutters

(* Sealing and a plain write say pieces.                                   *)
LEMMA SaysMaps ==
  ASSUME WInv, NEW t \in Threads, pc[t] = "push", NEW k \in 1 .. Chunk, left[t] >= k,
         left' = [left EXCEPT ![t] = @ - k],
         pc'[t] = "push" \/ (left[t] = k /\ pc'[t] = "rest"),
         \A s \in Threads : s # t => pc'[s] = pc[s],
         Queue(Peer[At[t]])' = Queue(Peer[At[t]]) \o Pieces(t, k, k = left[t]),
         \A d \in Ends : d # Peer[At[t]] => Queue(d)' = Queue(d)
  PROVE  P!Next
<1> DEFINE e == Peer[At[t]]
           done == (k = left[t])
<1>1. e \in Ends /\ Peer[e] = At[t] /\ done \in BOOLEAN /\ left[t] \in Nat /\ Chunk \in Nat
  BY EndFacts, WireAssumption DEF WInv, TypeOK
<1>2. \A s \in Threads : At[s] = At[t] /\ s # t => pc[s] \notin {"seal", "push"}
  BY DEF WInv, Exclusive
<1>3. Speaker(e) = t
  <2>1. Voice(pc, left, e) = IF left[t] > 0 THEN t ELSE Nobody
    BY <1>1, <1>2, VoiceOfOne
  <2> QED
    BY <1>1, <2>1, SpeakerIsVoice
<1>4. left'[t] = left[t] - k /\ \A s \in Threads : s # t => left'[s] = left[s]
  BY DEF WInv, TypeOK
<1>5. Speaker(e)' = IF done THEN Nobody ELSE t
  <2>1. CASE pc'[t] = "push"
    <3>1. Voice(pc', left', e) = IF left'[t] > 0 THEN t ELSE Nobody
      <4>1. \A s \in Threads : At[s] = At[t] /\ pc'[s] \in {"seal", "push"} => s = t
        BY <1>2
      <4> QED
        BY <1>1, <2>1, <4>1, VoiceOfOne
    <3>2. left'[t] > 0 <=> ~done
      BY <1>1, <1>4
    <3> QED
      BY <1>1, <3>1, <3>2, SpeakerIsVoice
  <2>2. CASE left[t] = k /\ pc'[t] = "rest"
    <3>1. Voice(pc', left', e) = Nobody
      <4>1. \A s \in Threads : At[s] = Peer[e] => pc'[s] \notin {"seal", "push"}
        BY <1>1, <1>2, <2>2
      <4> QED
        BY <1>1, <4>1, VoiceOfNone
    <3> QED
      BY <1>1, <2>2, <3>1, SpeakerIsVoice
  <2> QED
    BY <2>1, <2>2
<1>6. ASSUME NEW d \in Ends, d # e PROVE Speaker(d)' = Speaker(d)
  <2>1. \A s \in Threads : At[s] = Peer[d] => s # t
    BY <1>1, <1>6, EndFacts
  <2> QED
    BY <1>4, <2>1, VoiceKept
<1>7. Queues' = [Queues EXCEPT ![e] = @ \o [i \in 1 .. k |-> [by |-> t, last |-> done /\ i = k]]]
  BY <1>1 DEF Queues, Pieces
<1>8. Speakers' = [Speakers EXCEPT ![e] = IF done THEN Nobody ELSE t] /\ Speakers[e] = t
  BY <1>1, <1>3, <1>5, <1>6 DEF Speakers
<1> HIDE DEF e, done
<1>9. P!Say(e, t)
  BY <1>1, <1>7, <1>8 DEF P!Say, Queues, Speakers
<1> QED
  BY <1>1, <1>9 DEF P!Next

LEMMA SealMaps ==
  ASSUME WInv, NEW t \in Threads, Seal(t)
  PROVE  P!Next
<1> DEFINE k == Least(Chunk, left[t])
           e == Peer[At[t]]
<1>1. k \in 1 .. Chunk /\ left[t] >= k
  BY LeastFacts, WireAssumption, SMTT(60) DEF WInv, TypeOK, Seal
<1>2. /\ pc[t] = "push" /\ records[At[t]] = <<>>
      /\ records' = [records EXCEPT ![At[t]] = Pieces(t, k, k = left[t])]
      /\ left' = [left EXCEPT ![t] = @ - k]
      /\ UNCHANGED <<pc, sock, raw, plain>>
  BY DEF Seal
<1> HIDE DEF k
<1>3. \A done \in BOOLEAN : Pieces(t, k, done) \in Seq(Record)
  BY <1>1, WireAssumption, PiecesFacts
<1>4. e \in Ends /\ Peer[e] = At[t] /\ At[t] \in Ends
      /\ \A d \in Ends : d # e => Peer[d] # At[t]
  BY EndFacts
<1>5. Queue(e)' = Queue(e) \o Pieces(t, k, k = left[t])
  <2>1. /\ plain[e] \in Seq(Record) /\ raw[e] \in Seq(Record) /\ sock[e] \in Seq(Record)
        /\ records[Peer[e]] \in Seq(Record)
    BY <1>4, QueueTyped DEF WInv
  <2>2. records'[Peer[e]] = Pieces(t, k, k = left[t])
    BY <1>2, <1>4 DEF WInv, TypeOK
  <2>3. \A m \in Seq(Record) : InFlight(plain[e], raw[e], sock[e], m)
                                = InFlight(plain[e], raw[e], sock[e], <<>>) \o m
    <3> DEFINE p == plain[e]
               r == raw[e]
               s == sock[e]
    <3>1. p \in Seq(Record) /\ r \in Seq(Record) /\ s \in Seq(Record)
      BY <2>1
    <3> HIDE DEF p, r, s
    <3>2. \A m \in Seq(Record) : InFlight(p, r, s, m) = InFlight(p, r, s, <<>>) \o m
      BY <3>1, SayBuffers, ZenonT(60)
    <3> QED
      BY <3>2 DEF p, r, s
  <2> QED
    BY <1>2, <1>3, <1>4, <2>2, <2>3, QueueIsInFlight, ZenonT(60)
<1>6. \A d \in Ends : d # e => Queue(d)' = Queue(d)
  BY <1>2, <1>4, EndFacts DEF Queue, WInv, TypeOK
<1> QED
  BY <1>1, <1>2, <1>5, <1>6, SaysMaps

LEMMA PushPlainMaps ==
  ASSUME WInv, NEW t \in Threads, PushPlain(t)
  PROVE  P!Next
<1> DEFINE e == Peer[At[t]]
<1>1. e \in Ends /\ Peer[e] = At[t] /\ At[t] \in Ends
  BY EndFacts
<1>2. /\ pc[t] = "push" /\ left[t] \in Nat \ {0} /\ records[At[t]] = <<>>
      /\ sock' = [sock EXCEPT ![e] = @ \o Pieces(t, 1, left[t] = 1)]
      /\ left' = [left EXCEPT ![t] = @ - 1]
      /\ pc' = [pc EXCEPT ![t] = IF left[t] = 1 THEN "rest" ELSE "push"]
      /\ UNCHANGED <<records, raw, plain>>
  BY <1>1 DEF WInv, TypeOK, Busy, Buffers, PushPlain
<1>3. \A done \in BOOLEAN : Pieces(t, 1, done) \in Seq(Record)
  BY PiecesFacts
<1>4. Queue(e)' = Queue(e) \o Pieces(t, 1, left[t] = 1)
  <2>1. /\ plain[e] \in Seq(Record) /\ raw[e] \in Seq(Record) /\ sock[e] \in Seq(Record)
        /\ records[Peer[e]] \in Seq(Record)
    BY <1>1, QueueTyped DEF WInv
  <2>2. sock'[e] = sock[e] \o Pieces(t, 1, left[t] = 1)
    BY <1>1, <1>2 DEF WInv, TypeOK
  <2>3. \A m \in Seq(Record) : InFlight(plain[e], raw[e], sock[e] \o m, <<>>)
                                = InFlight(plain[e], raw[e], sock[e], <<>>) \o m
    <3> DEFINE p == plain[e]
               r == raw[e]
               s == sock[e]
    <3>1. p \in Seq(Record) /\ r \in Seq(Record) /\ s \in Seq(Record)
      BY <2>1
    <3> HIDE DEF p, r, s
    <3>2. \A m \in Seq(Record) : InFlight(p, r, s \o m, <<>>) = InFlight(p, r, s, <<>>) \o m
      BY <3>1, SayBuffers, ZenonT(60)
    <3> QED
      BY <3>2 DEF p, r, s
  <2>4. \A m \in Seq(Record) : sock'[e] = sock[e] \o m => Queue(e)' = Queue(e) \o m
    BY <1>1, <1>2, <2>3, QueueIsInFlight, ZenonT(60)
  <2> QED
    BY <1>3, <2>2, <2>4
<1>5. \A d \in Ends : d # e => Queue(d)' = Queue(d)
  BY <1>1, <1>2 DEF Queue, WInv, TypeOK
<1>6. 1 \in 1 .. Chunk /\ left[t] >= 1 /\ (left[t] = 1 <=> 1 = left[t])
  BY <1>2, WireAssumption
<1>7. /\ pc'[t] = "push" \/ (left[t] = 1 /\ pc'[t] = "rest")
      /\ \A s \in Threads : s # t => pc'[s] = pc[s]
  BY <1>2 DEF WInv, TypeOK
<1>8. Queue(e)' = Queue(e) \o Pieces(t, 1, 1 = left[t])
  BY <1>4, <1>6 DEF Pieces
<1> QED
  BY <1>2, <1>5, <1>6, <1>7, <1>8, SaysMaps

(* A record moves from the session to the socket: nothing is said.         *)
LEMMA PushMaps ==
  ASSUME WInv, NEW t \in Threads, Push(t)
  PROVE  UNCHANGED <<Queues, Speakers>>
<1> DEFINE e == Peer[At[t]]
<1>1. e \in Ends /\ Peer[e] = At[t] /\ At[t] \in Ends
      /\ \A d \in Ends : d # e => Peer[d] # At[t]
  BY EndFacts
<1>2. /\ pc[t] = "push" /\ records[At[t]] # <<>>
      /\ sock' = [sock EXCEPT ![e] = Append(@, Head(records[At[t]]))]
      /\ records' = [records EXCEPT ![At[t]] = Tail(@)]
      /\ pc' = [pc EXCEPT ![t] =
                  IF left[t] = 0 /\ Len(records[At[t]]) = 1 THEN "rest" ELSE "push"]
      /\ UNCHANGED <<left, raw, plain>>
  BY DEF Push
<1>3. Queue(e)' = Queue(e)
  <2>1. /\ plain[e] \in Seq(Record) /\ raw[e] \in Seq(Record) /\ sock[e] \in Seq(Record)
        /\ records[Peer[e]] \in Seq(Record)
    BY <1>1, QueueTyped DEF WInv
  <2>2. /\ sock'[e] = Append(sock[e], Head(records[Peer[e]]))
        /\ records'[Peer[e]] = Tail(records[Peer[e]])
    BY <1>1, <1>2 DEF WInv, TypeOK
  <2>3. records[Peer[e]] # <<>>
    BY <1>1, <1>2
  <2>4. InFlight(plain[e], raw[e], Append(sock[e], Head(records[Peer[e]])), Tail(records[Peer[e]]))
         = InFlight(plain[e], raw[e], sock[e], records[Peer[e]])
    BY <2>1, <2>3, PushBuffers
  <2> QED
    BY <1>1, <1>2, <2>2, <2>4, QueueIsInFlight
<1>4. \A d \in Ends : d # e => Queue(d)' = Queue(d)
  BY <1>1, <1>2, EndFacts DEF Queue, WInv, TypeOK
<1>5. ASSUME NEW d \in Ends PROVE Speaker(d)' = Speaker(d)
  <2>1. /\ \A s \in Threads : s # t => pc'[s] = pc[s]
        /\ left' = left /\ left[t] \in Nat
        /\ pc'[t] = "push" \/ (left[t] = 0 /\ pc'[t] = "rest")
    BY <1>2 DEF WInv, TypeOK
  <2>2. Saying(pc', left', d) = Saying(pc, left, d)
    BY <1>2, <2>1 DEF Saying, Inside
  <2> QED
    BY <2>2, SpeakerIsVoice DEF Voice
<1> QED
  BY <1>3, <1>4, <1>5, Stutters

(* Taking a piece hears it, whether or not an answer is begun.             *)
LEMMA TakeMaps ==
  ASSUME WInv, NEW e \in Ends, Take(e)
  PROVE  P!Next
<1> DEFINE t == Reader[e]
<1>1. /\ t \in Threads /\ pc[t] = "rest" /\ plain[e] # <<>>
      /\ plain' = [plain EXCEPT ![e] = Tail(@)]
      /\ UNCHANGED <<records, sock, raw>>
  BY EndFacts DEF Take
<1>2. Queue(e) # <<>> /\ Queue(e)' = Tail(Queue(e))
  <2>1. /\ plain[e] \in Seq(Record) /\ raw[e] \in Seq(Record) /\ sock[e] \in Seq(Record)
        /\ records[Peer[e]] \in Seq(Record)
    BY QueueTyped DEF WInv
  <2>2. plain'[e] = Tail(plain[e])
    BY <1>1 DEF WInv, TypeOK
  <2>3. /\ InFlight(plain[e], raw[e], sock[e], records[Peer[e]]) # <<>>
        /\ InFlight(Tail(plain[e]), raw[e], sock[e], records[Peer[e]])
            = Tail(InFlight(plain[e], raw[e], sock[e], records[Peer[e]]))
    <3> DEFINE p == plain[e]
               r == raw[e]
               s == sock[e]
               c == records[Peer[e]]
    <3>1. p \in Seq(Record) /\ r \in Seq(Record) /\ s \in Seq(Record) /\ c \in Seq(Record)
      BY <2>1
    <3>2. p # <<>>
      BY <1>1
    <3> HIDE DEF p, r, s, c
    <3>3. InFlight(p, r, s, c) # <<>> /\ InFlight(Tail(p), r, s, c) = Tail(InFlight(p, r, s, c))
      BY <3>1, <3>2, TakeBuffers
    <3> QED
      BY <3>3 DEF p, r, s, c
  <2> QED
    BY <1>1, <2>2, <2>3, QueueIsInFlight
<1>3. \A d \in Ends : d # e => Queue(d)' = Queue(d)
  BY <1>1 DEF Queue, WInv, TypeOK
<1>4. \A s \in Threads : \/ (pc'[s] = pc[s] /\ left'[s] = left[s])
                          \/ (pc[s] \notin {"seal", "push"} /\ pc'[s] \notin {"seal", "push"})
  BY <1>1 DEF Take, Begin, WInv, TypeOK
<1>5. \A d \in Ends : Speaker(d)' = Speaker(d)
  BY <1>4, VoiceKept
<1>6. P!Hear(e)
  BY <1>2, <1>3, <1>5 DEF P!Hear
<1> QED
  BY <1>6 DEF P!Next

(* The reader's other steps only move what is on its way.                  *)
LEMMA MovesMaps ==
  ASSUME WInv, NEW e \in Ends, Decrypt(e) \/ Park(e) \/ ReadPlain(e)
  PROVE  UNCHANGED <<Queues, Speakers>>
<1>1. /\ Reader[e] \in Threads /\ At[Reader[e]] = e
      /\ plain[e] \in Seq(Record) /\ raw[e] \in Seq(Record) /\ sock[e] \in Seq(Record)
      /\ records[Peer[e]] \in Seq(Record)
  BY EndFacts, QueueTyped DEF WInv
<1>2. /\ \A s \in Threads : \/ pc'[s] = pc[s]
                             \/ (pc[s] \notin {"seal", "push"} /\ pc'[s] \notin {"seal", "push"})
      /\ UNCHANGED <<left, records>>
  BY <1>1 DEF Decrypt, Park, ReadPlain, WInv, TypeOK
<1>3. \A d \in Ends : Speaker(d)' = Speaker(d)
  BY <1>2, VoiceKept
<1>4. \A d \in Ends : d # e => Queue(d)' = Queue(d)
  BY DEF Decrypt, Park, ReadPlain, Queue, WInv, TypeOK
<1>5. ASSUME Decrypt(e) PROVE Queue(e)' = Queue(e)
  <2>1. CASE UNCHANGED <<raw, plain, sock, records>>
    BY <2>1 DEF Queue
  <2>2. ASSUME NEW k \in 1 .. Len(raw[e]), plain[e] = <<>>, UNCHANGED sock,
               plain' = [plain EXCEPT ![e] = SubSeq(raw[e], 1, k)],
               raw' = [raw EXCEPT ![e] = SubSeq(@, k + 1, Len(@))]
        PROVE  Queue(e)' = Queue(e)
    <3>1. plain'[e] = SubSeq(raw[e], 1, k) /\ raw'[e] = SubSeq(raw[e], k + 1, Len(raw[e]))
      BY <2>2 DEF WInv, TypeOK
    <3>2. InFlight(SubSeq(raw[e], 1, k), SubSeq(raw[e], k + 1, Len(raw[e])), sock[e], records[Peer[e]])
           = InFlight(<<>>, raw[e], sock[e], records[Peer[e]])
      BY <1>1, DecryptBuffers
    <3> QED
      BY <1>2, <2>2, <3>1, <3>2, QueueIsInFlight
  <2> QED
    BY <1>2, <1>5, <2>1, <2>2 DEF Decrypt
<1>6. ASSUME NEW k \in 1 .. Len(sock[e]),
             sock' = [sock EXCEPT ![e] = SubSeq(@, k + 1, Len(@))]
      PROVE  sock'[e] = SubSeq(sock[e], k + 1, Len(sock[e]))
  BY <1>6 DEF WInv, TypeOK
<1>7. \A k \in 1 .. Least(Handful, Len(sock[e])) : k \in 1 .. Len(sock[e])
  <2>1. Len(sock[e]) \in Nat
    BY <1>1, LenProperties
  <2>2. Least(Handful, Len(sock[e])) \in Nat /\ Least(Handful, Len(sock[e])) <= Len(sock[e])
    BY <2>1, LeastFacts, WireAssumption
  <2> QED
    BY <2>1, <2>2
<1>8. ASSUME Park(e) PROVE Queue(e)' = Queue(e)
  <2>1. PICK k \in 1 .. Len(sock[e]) :
          /\ raw' = [raw EXCEPT ![e] = SubSeq(sock[e], 1, k)]
          /\ sock' = [sock EXCEPT ![e] = SubSeq(@, k + 1, Len(@))]
    BY <1>7, <1>8 DEF Park
  <2>2. raw[e] = <<>> /\ UNCHANGED plain /\ raw'[e] = SubSeq(sock[e], 1, k)
    BY <1>8, <2>1 DEF Park, WInv, TypeOK, Buffers
  <2>3. InFlight(plain[e], SubSeq(sock[e], 1, k), SubSeq(sock[e], k + 1, Len(sock[e])), records[Peer[e]])
         = InFlight(plain[e], <<>>, sock[e], records[Peer[e]])
    BY <1>1, ParkBuffers
  <2> QED
    BY <1>2, <1>6, <2>1, <2>2, <2>3, QueueIsInFlight
<1>9. ASSUME ReadPlain(e) PROVE Queue(e)' = Queue(e)
  <2>1. PICK k \in 1 .. Len(sock[e]) :
          /\ plain' = [plain EXCEPT ![e] = SubSeq(sock[e], 1, k)]
          /\ sock' = [sock EXCEPT ![e] = SubSeq(@, k + 1, Len(@))]
    BY <1>7, <1>9 DEF ReadPlain
  <2>2. raw[e] = <<>> /\ plain[e] = <<>> /\ UNCHANGED raw /\ plain'[e] = SubSeq(sock[e], 1, k)
    BY <1>9, <2>1 DEF ReadPlain, WInv, TypeOK, Buffers
  <2>3. InFlight(SubSeq(sock[e], 1, k), <<>>, SubSeq(sock[e], k + 1, Len(sock[e])), records[Peer[e]])
         = InFlight(<<>>, <<>>, sock[e], records[Peer[e]])
    BY <1>1, ReadBuffers
  <2> QED
    BY <1>2, <1>6, <2>1, <2>2, <2>3, QueueIsInFlight
<1> QED
  <2>1. Queue(e)' = Queue(e)
    BY <1>5, <1>8, <1>9
  <2> QED
    BY <1>3, <1>4, <2>1, Stutters

LEMMA SpeakMaps ==
  ASSUME WInv, NEW e \in Ends, Speak(e)
  PROVE  UNCHANGED <<Queues, Speakers>>
<1>1. \A s \in Threads : \/ (pc'[s] = pc[s] /\ left'[s] = left[s])
                          \/ (pc[s] \notin {"seal", "push"} /\ pc'[s] \notin {"seal", "push"})
  BY EndFacts DEF Speak, Begin, WInv, TypeOK
<1>2. \A d \in Ends : Speaker(d)' = Speaker(d)
  BY <1>1, VoiceKept
<1>3. \A d \in Ends : Queue(d)' = Queue(d)
  BY DEF Speak, Queue
<1> QED
  BY <1>2, <1>3, Stutters

LEMMA MapsNext == WInv /\ [Next]_vars => [P!Next]_<<Queues, Speakers>>
<1> SUFFICES ASSUME WInv, [Next]_vars PROVE P!Next \/ UNCHANGED <<Queues, Speakers>>
  OBVIOUS
<1>1. ASSUME NEW t \in Threads, Write(t)
      PROVE  P!Next \/ UNCHANGED <<Queues, Speakers>>
  BY <1>1, LockWriterMaps, LockSessionMaps, SealMaps, PushMaps, PushPlainMaps DEF Write
<1>2. ASSUME NEW e \in Ends, Read(e)
      PROVE  P!Next \/ UNCHANGED <<Queues, Speakers>>
  BY <1>2, TakeMaps, MovesMaps DEF Read
<1>3. ASSUME NEW e \in Ends, Speak(e)
      PROVE  UNCHANGED <<Queues, Speakers>>
  BY <1>3, SpeakMaps
<1>4. CASE UNCHANGED vars
  <2>1. \A e \in Ends : Queue(e)' = Queue(e)
    BY <1>4 DEF vars, Queue
  <2>2. \A e \in Ends : Speaker(e)' = Speaker(e)
    BY <1>4, VoiceKept DEF vars
  <2> QED
    BY <2>1, <2>2, Stutters
<1> QED
  BY <1>1, <1>2, <1>3, <1>4 DEF Next

(* WireRead over WireWrite, with the two locks, is a pipe: each end hears  *)
(* what the other said, in order, nothing lost or said twice, and no       *)
(* message mixed with another thread's.                                    *)
THEOREM TransportIsPipe == Spec => Implements
<1>1. Init => P!Init
  BY MapsInit
<1>2. WInv /\ [Next]_vars => [P!Next]_<<Queues, Speakers>>
  BY MapsNext
<1> QED
  BY <1>1, <1>2, WireInvariance, PTL DEF Spec, Implements, P!Spec, Queues, Speakers

----------------------------------------------------------------------------
(* The window.                                                             *)

Region(k) == (0 .. Rects[k].w - 1) \X (0 .. Rects[k].h - 1)

(* A picture of a region, without a pointer in it.                         *)
IsPicture(f) == /\ f.k \in DOMAIN Rects
                /\ f.px \in [Region(f.k) -> Nat]
                /\ f = [k |-> f.k, w |-> Rects[f.k].w, h |-> Rects[f.k].h, px |-> f.px]

(* Messages to the server, and updates from it.                            *)
Posts == [type : {"share"}, k : DOMAIN Rects]
         \cup [type : {"pointer"}, mask : {SumSet(b) : b \in SUBSET Buttons}, at : Region(0)]
Updates == [whole : BOOLEAN, k : DOMAIN Rects, at : SUBSET Region(0), value : Nat]

Kinds == /\ WindowTypeOK
         /\ size[1] \in 1 .. Rects[0].w /\ size[2] \in 1 .. Rects[0].h
         /\ pick \in DOMAIN Rects /\ frames \in Nat
         /\ c2s \in Seq(Posts) /\ s2c \in Seq(Updates)
         /\ \A i \in DOMAIN s2c : s2c[i].whole => s2c[i].at = Region(s2c[i].k)
         /\ IsPicture(screen)
         /\ npc = "wait" <=> ~online

(* The frame without the pointer, and how it got its pointer.              *)
Clean == IF Locked THEN shown ELSE frame
Lent == /\ IsPicture(Clean)
        /\ Locked => /\ frame = Painted(shown, at)
                     /\ under = [p \in Covered(shown, at) |-> shown.px[p]]

(* What the frame still lacks of the network thread's screen: nothing when *)
(* an update was published and until the next, that update's pixels while  *)
(* it is not, and all of it while the first picture of a new session is    *)
(* still to come.                                                          *)
Lacks == LET head == s2c[1] IN
  /\ npc = "tell" => Clean = screen
  /\ npc = "publish" /\ Clean.w = screen.w /\ Clean.h = screen.h =>
       \A p \in DOMAIN screen.px \ touched : Clean.px[p] = screen.px[p]
  /\ npc = "pump" => \/ Clean = screen
                     \/ s2c # <<>> /\ head.whole
                     \/ s2c = <<>> /\ ~linked

IInv == Kinds /\ Lent /\ Lacks

----------------------------------------------------------------------------
(* The regions are numbered, and the desktop is the largest.               *)
LEMMA Numbered ==
  /\ 0 \in DOMAIN Rects /\ 1 \in DOMAIN Rects
  /\ \A k \in DOMAIN Rects : /\ k \in Nat /\ NextMonitor(k) \in DOMAIN Rects
                            /\ Rects[k].w \in 1 .. Rects[0].w /\ Rects[k].h \in 1 .. Rects[0].h
                            /\ Region(k) \subseteq Region(0)
<1>0. Cardinality(DOMAIN Rects) \in Nat
  BY FS_CardinalityType, WindowAssumption
<1>1. PICK n \in 1 .. Cardinality(DOMAIN Rects) : DOMAIN Rects = 0 .. n
  BY WindowAssumption
<1>2. n \in Nat /\ n >= 1
  BY <1>0, <1>1
<1>3. Monitors = 1 .. n
  BY <1>1, <1>2 DEF Monitors
<1>4. Cardinality(Monitors) = n
  <2>1. Cardinality(1 .. n) = n
    BY <1>2, FS_Interval
  <2> QED
    BY <2>1, <1>3
<1>5. 0 \in DOMAIN Rects /\ 1 \in DOMAIN Rects
  BY <1>1, <1>2
<1>6. ASSUME NEW k \in DOMAIN Rects
      PROVE  /\ k \in Nat /\ NextMonitor(k) \in DOMAIN Rects
             /\ Rects[k].w \in 1 .. Rects[0].w /\ Rects[k].h \in 1 .. Rects[0].h
             /\ Region(k) \subseteq Region(0)
  <2>1. k \in 0 .. n
    BY <1>1
  <2>2. NextMonitor(k) \in 0 .. n
    BY <2>1, <1>2, <1>4 DEF NextMonitor
  <2>3. /\ Rects[k].w \in Nat \ {0} /\ Rects[k].w <= Rects[0].w
        /\ Rects[k].h \in Nat \ {0} /\ Rects[k].h <= Rects[0].h
        /\ Rects[0].w \in Nat /\ Rects[0].h \in Nat
    BY <1>5, WindowAssumption
  <2>4. Rects[k].w \in 1 .. Rects[0].w /\ Rects[k].h \in 1 .. Rects[0].h
    BY <2>3
  <2>5. /\ 0 .. Rects[k].w - 1 \subseteq 0 .. Rects[0].w - 1
        /\ 0 .. Rects[k].h - 1 \subseteq 0 .. Rects[0].h - 1
    BY <2>3
  <2> QED
    BY <1>1, <2>1, <2>2, <2>4, <2>5 DEF Region
<1> QED
  BY <1>5, <1>6

(* to_fb finds a place on the frame, whatever its scale.                   *)
LEMMA Clamped ==
  ASSUME NEW x \in Int, NEW n \in Nat \ {0}
  PROVE  Clamp(x, n) \in 0 .. n - 1
BY DEF Clamp

LEMMA Scaled ==
  ASSUME NEW m \in Int, NEW win \in Nat, NEW fb \in Nat, NEW num \in Nat, NEW den \in Nat \ {0}
  PROVE  Unscaled(m, win, fb, num, den) \in Int
<1>1. PICK a \in Int : a = 2 * m * num - win * num + fb * den
  OBVIOUS
<1>2. PICK d \in Nat \ {0} : d = 2 * den
  OBVIOUS
<1>3. a \div d \in Int
  OBVIOUS
<1> QED
  BY <1>1, <1>2, <1>3 DEF Unscaled

LEMMA OnFrame ==
  ASSUME NEW m \in Spots, NEW fb,
         fb[1] \in 1 .. Rects[0].w, fb[2] \in 1 .. Rects[0].h
  PROVE  ToFb(m, fb) \in Region(0)
<1> DEFINE wide == Win[1] * fb[2] <= Win[2] * fb[1]
           num == IF wide THEN fb[1] ELSE fb[2]
           den == IF wide THEN Win[1] ELSE Win[2]
           x == Unscaled(m[1], Win[1], fb[1], num, den)
           y == Unscaled(m[2], Win[2], fb[2], num, den)
<1>1. /\ Rects[0].w \in Nat \ {0} /\ Rects[0].h \in Nat \ {0}
      /\ Win[1] \in Nat \ {0} /\ Win[2] \in Nat \ {0}
      /\ m[1] \in Int /\ m[2] \in Int
  BY Numbered, WindowAssumption
<1>2. /\ fb[1] \in Nat \ {0} /\ fb[2] \in Nat \ {0}
      /\ fb[1] <= Rects[0].w /\ fb[2] <= Rects[0].h
  BY <1>1
<1>3. num \in Nat /\ den \in Nat \ {0}
  BY <1>1, <1>2
<1>4. x \in Int /\ y \in Int
  BY <1>1, <1>2, <1>3, Scaled
<1>5. Clamp(x, fb[1]) \in 0 .. fb[1] - 1 /\ Clamp(y, fb[2]) \in 0 .. fb[2] - 1
  BY <1>2, <1>4, Clamped
<1>6. Clamp(x, fb[1]) \in 0 .. Rects[0].w - 1 /\ Clamp(y, fb[2]) \in 0 .. Rects[0].h - 1
  BY <1>5, <1>2, <1>1
<1>7. ToFb(m, fb) = <<Clamp(x, fb[1]), Clamp(y, fb[2])>>
  BY DEF ToFb
<1> QED
  BY <1>6, <1>7 DEF Region

(* Pictures: a blank one, one with pixels replaced, and one the pointer    *)
(* was painted on and lifted from.                                         *)
LEMMA Blanks ==
  ASSUME NEW k \in DOMAIN Rects, NEW v \in Nat
  PROVE  /\ IsPicture(Blank(k, v)) /\ Blank(k, v).k = k
         /\ Blank(k, v).w = Rects[k].w /\ Blank(k, v).h = Rects[k].h
         /\ DOMAIN Blank(k, v).px = Region(k)
BY DEF Blank, IsPicture, Region

LEMMA Replacing ==
  ASSUME NEW f, IsPicture(f), NEW px \in [Region(f.k) -> Nat]
  PROVE  LET g == [f EXCEPT !.px = px] IN
         IsPicture(g) /\ g.k = f.k /\ g.w = f.w /\ g.h = f.h /\ g.px = px
<1> DEFINE g == [f EXCEPT !.px = px]
<1>1. f = [k |-> f.k, w |-> Rects[f.k].w, h |-> Rects[f.k].h, px |-> f.px] /\ f.k \in DOMAIN Rects
  BY DEF IsPicture
<1>2. g = [k |-> f.k, w |-> Rects[f.k].w, h |-> Rects[f.k].h, px |-> px]
  BY <1>1
<1> QED
  BY <1>1, <1>2 DEF IsPicture

LEMMA Lifting ==
  ASSUME NEW f, IsPicture(f), NEW a,
         under = [p \in Covered(f, a) |-> f.px[p]]
  PROVE  Restored(Painted(f, a)) = f
<1> DEFINE C == Covered(f, a)
           g == [f EXCEPT !.px = [p \in DOMAIN f.px |-> IF p \in C THEN Arrow ELSE f.px[p]]]
<1>1. /\ f = [k |-> f.k, w |-> Rects[f.k].w, h |-> Rects[f.k].h, px |-> f.px]
      /\ f.px = [p \in DOMAIN f.px |-> f.px[p]]
  BY DEF IsPicture
<1>2. Painted(f, a) = g
  BY <1>1 DEF Painted
<1>3. g = [k |-> f.k, w |-> Rects[f.k].w, h |-> Rects[f.k].h,
           px |-> [p \in DOMAIN f.px |-> IF p \in C THEN Arrow ELSE f.px[p]]]
  BY <1>1
<1>4. DOMAIN under = C /\ \A p \in C : under[p] = f.px[p]
  BY DEF Covered
<1>5. Restored(g) = [k |-> f.k, w |-> Rects[f.k].w, h |-> Rects[f.k].h,
                     px |-> [p \in DOMAIN f.px |-> IF p \in C THEN under[p] ELSE g.px[p]]]
  <2>1. DOMAIN g.px = DOMAIN f.px
    BY <1>3
  <2>2. Restored(g) = [g EXCEPT !.px = [p \in DOMAIN f.px |-> IF p \in C THEN under[p] ELSE g.px[p]]]
    BY <2>1, <1>4 DEF Restored
  <2> HIDE DEF C
  <2> QED
    BY <1>3, <2>2
<1>6. [p \in DOMAIN f.px |-> IF p \in C THEN under[p] ELSE g.px[p]] = f.px
  BY <1>1, <1>3, <1>4
<1> QED
  BY <1>1, <1>2, <1>5, <1>6

(* A pixel of a clean picture is none of the pointer's.                    *)
LEMMA NoArrow ==
  ASSUME NEW f, IsPicture(f)
  PROVE  \A p \in DOMAIN f.px : f.px[p] # Arrow
BY DEF IsPicture, Arrow

(* The queues.                                                             *)
LEMMA QueueFacts ==
  ASSUME NEW S, NEW q \in Seq(S)
  PROVE  /\ \A x \in S : /\ Append(q, x) \in Seq(S) /\ Append(q, x) # <<>>
                         /\ \A i \in DOMAIN Append(q, x) : Append(q, x)[i] = x \/ (i \in DOMAIN q /\ Append(q, x)[i] = q[i])
                         /\ q # <<>> => Append(q, x)[1] = q[1]
                         /\ q = <<>> => Append(q, x)[1] = x
         /\ q # <<>> => /\ Tail(q) \in Seq(S) /\ Head(q) = q[1] /\ Head(q) \in S /\ 1 \in DOMAIN q
                        /\ \A i \in DOMAIN Tail(q) : i + 1 \in DOMAIN q /\ Tail(q)[i] = q[i + 1]
         /\ \A n \in 0 .. Len(q) : /\ SubSeq(q, 1, n) \in Seq(S)
                                   /\ \A i \in DOMAIN SubSeq(q, 1, n) : i \in DOMAIN q /\ SubSeq(q, 1, n)[i] = q[i]
                                   /\ SubSeq(q, 1, n) # <<>> => q # <<>> /\ SubSeq(q, 1, n)[1] = q[1]
         /\ \A i \in DOMAIN q : q[i] \in S
         /\ DOMAIN q = 1 .. Len(q) /\ Len(q) \in Nat
<1>1. DOMAIN q = 1 .. Len(q) /\ Len(q) \in Nat /\ \A i \in DOMAIN q : q[i] \in S
  BY LenProperties
<1>2. ASSUME NEW x \in S
      PROVE  /\ Append(q, x) \in Seq(S) /\ Append(q, x) # <<>>
             /\ \A i \in DOMAIN Append(q, x) : Append(q, x)[i] = x \/ (i \in DOMAIN q /\ Append(q, x)[i] = q[i])
             /\ q # <<>> => Append(q, x)[1] = q[1]
             /\ q = <<>> => Append(q, x)[1] = x
  <2>1. /\ Append(q, x) \in Seq(S) /\ Append(q, x) # <<>> /\ Len(Append(q, x)) = Len(q) + 1
        /\ \A i \in 1 .. Len(q) : Append(q, x)[i] = q[i]
        /\ Append(q, x)[Len(q) + 1] = x
        /\ DOMAIN Append(q, x) = 1 .. Len(q) + 1
    BY AppendProperties, LenProperties
  <2>2. q # <<>> => Len(q) > 0
    BY EmptySeq, <1>1
  <2>3. q = <<>> => Len(q) = 0
    BY EmptySeq
  <2> QED
    BY <2>1, <2>2, <2>3, <1>1
<1>3. ASSUME q # <<>>
      PROVE  /\ Tail(q) \in Seq(S) /\ Head(q) = q[1] /\ Head(q) \in S /\ 1 \in DOMAIN q
             /\ \A i \in DOMAIN Tail(q) : i + 1 \in DOMAIN q /\ Tail(q)[i] = q[i + 1]
  <2>1. /\ Head(q) \in S /\ Tail(q) \in Seq(S) /\ Len(Tail(q)) = Len(q) - 1
        /\ \A i \in 1 .. Len(Tail(q)) : Tail(q)[i] = q[i + 1]
    BY <1>3, HeadTailProperties
  <2>2. DOMAIN Tail(q) = 1 .. Len(Tail(q)) /\ Len(q) # 0
    BY <2>1, <1>3, EmptySeq, LenProperties
  <2> QED
    BY <2>1, <2>2, <1>1
<1>4. ASSUME NEW n \in 0 .. Len(q)
      PROVE  /\ SubSeq(q, 1, n) \in Seq(S)
             /\ \A i \in DOMAIN SubSeq(q, 1, n) : i \in DOMAIN q /\ SubSeq(q, 1, n)[i] = q[i]
             /\ SubSeq(q, 1, n) # <<>> => q # <<>> /\ SubSeq(q, 1, n)[1] = q[1]
  <2>1. DOMAIN SubSeq(q, 1, n) = 1 .. n /\ \A i \in 1 .. n : SubSeq(q, 1, n)[i] = q[i]
    BY <1>1
  <2>2. SubSeq(q, 1, n) \in Seq(S)
    BY <1>1, SubSeqProperties
  <2>3. SubSeq(q, 1, n) # <<>> => n >= 1
    BY <2>1, <2>2, EmptySeq, LenProperties
  <2>4. q = <<>> => Len(q) = 0
    BY EmptySeq
  <2> QED
    BY <2>1, <2>2, <2>3, <2>4, <1>1
<1> QED
  BY <1>1, <1>2, <1>3, <1>4

----------------------------------------------------------------------------
LEMMA InitIInv == WindowInit => IInv
<1> SUFFICES ASSUME WindowInit PROVE IInv
  OBVIOUS
<1> USE DEF WindowInit
<1>1. /\ IsPicture(Blank(1, 0)) /\ Blank(1, 0).k = 1
  BY Numbered, Blanks
<1>2. Kinds
  <2>1. WindowTypeOK
    BY <1>1, Numbered DEF WindowTypeOK, Outside
  <2>2. c2s \in Seq(Posts) /\ s2c \in Seq(Updates)
    BY EmptySeq
  <2> QED
    BY <2>1, <2>2, <1>1, Numbered DEF Kinds
<1>3. Lent
  BY <1>1 DEF Lent, Clean, Locked
<1>4. Lacks
  BY DEF Lacks, Clean, Locked
<1> QED
  BY <1>2, <1>3, <1>4 DEF IInv

(* What neither touches the shared frame nor the session.                  *)
LEMMA Apart ==
  ASSUME IInv, Kinds', UNCHANGED <<frame, under, shown, screen, touched, npc, s2c, linked>>,
         Locked' = Locked, Locked => at' = at
  PROVE  IInv'
<1>1. Clean' = Clean
  BY DEF Clean
<1>2. Lent'
  BY <1>1 DEF IInv, Lent, IsPicture, Painted, Covered
<1>3. Lacks'
  BY <1>1 DEF IInv, Lacks
<1> QED
  BY <1>2, <1>3 DEF IInv

LEMMA MoveIInv ==
  ASSUME IInv, NEW s \in Spots \cup {Outside}, NEW b \in SUBSET Buttons, Move(s, b)
  PROVE  IInv'
<1> USE DEF Move, input, drawing, network, link, server, machine, bounds
<1>1. Kinds'
  BY DEF IInv, Kinds, WindowTypeOK, IsPicture
<1> QED
  BY <1>1, Apart DEF Locked

(* What pump sends.                                                        *)
LEMMA Pumped ==
  ASSUME Kinds, NEW hotkey \in BOOLEAN
  PROVE  Pump(hotkey).msgs \in Seq(Posts)
<1>1. ASSUME showing # -1 PROVE Share(NextMonitor(showing)) \in Posts
  BY <1>1, Numbered DEF Kinds, WindowTypeOK, Share, Posts
<1>2. Asked(hotkey) \in Seq(Posts)
  BY <1>1, EmptySeq DEF Asked
<1>3. ASSUME mouse # Outside PROVE Moved(ToFb(mouse, size)) \in Seq(Posts)
  <2>1. ToFb(mouse, size) \in Region(0)
    BY <1>3, OnFrame DEF Kinds, WindowTypeOK
  <2>2. Bits \in {SumSet(b) : b \in SUBSET Buttons}
    BY DEF Kinds, WindowTypeOK, Bits
  <2>3. Pointer(Bits, ToFb(mouse, size)) \in Posts
    BY <2>1, <2>2 DEF Pointer, Posts
  <2> QED
    BY <2>3, EmptySeq DEF Moved
<1> QED
  BY <1>2, <1>3, ConcatProperties DEF Pump

(* Messages to the server point at places on its desktop.                  *)
LEMMA Pointing ==
  ASSUME NEW q \in Seq(Posts)
  PROVE  \A i \in DOMAIN q : q[i].type = "pointer" => q[i].at \in Region(0)
<1>1. \A i \in DOMAIN q : q[i] \in Posts
  BY QueueFacts
<1> QED
  BY <1>1 DEF Posts

LEMMA InputIInv ==
  ASSUME IInv, InputStep
  PROVE  IInv'
<1> USE DEF InputStep, hand, input, drawing, network, server, machine
<1>1. c2s' \in Seq(Posts) /\ running' \in BOOLEAN
  <2>1. CASE ~online
    BY <2>1 DEF IInv, Kinds
  <2>2. CASE online
    <3>1. PICK hotkey \in BOOLEAN :
            /\ c2s' = IF linked THEN c2s \o Pump(hotkey).msgs ELSE c2s
            /\ running' \in IF linked \/ Pump(hotkey).msgs = <<>> THEN {TRUE} ELSE BOOLEAN
      BY <2>2
    <3>2. Pump(hotkey).msgs \in Seq(Posts) /\ c2s \in Seq(Posts)
      BY Pumped DEF IInv, Kinds
    <3> QED
      BY <3>1, <3>2, ConcatProperties
  <2> QED
    BY <2>1, <2>2
<1>2. Kinds'
  BY <1>1, Pointing DEF IInv, Kinds, WindowTypeOK, IsPicture, Region
<1> QED
  BY <1>2, Apart DEF Locked

LEMMA LookIInv ==
  ASSUME IInv, LookStep
  PROVE  IInv'
<1> USE DEF LookStep, hand, input, network, link, server, machine, bounds
<1>1. Kinds'
  BY DEF IInv, Kinds, WindowTypeOK, IsPicture
<1> QED
  BY <1>1, Apart DEF Locked

LEMMA DrawIInv ==
  ASSUME IInv, DrawStep
  PROVE  IInv'
<1> USE DEF DrawStep, hand, input, network, link, server, machine, bounds
<1>1. ~Locked /\ Locked' /\ Clean' = Clean
  BY DEF Clean, Locked
<1>2. IsPicture(frame)
  BY <1>1 DEF IInv, Lent, Clean
<1>3. Painted(frame, at).k = frame.k
  BY <1>2 DEF Painted, IsPicture
<1>4. size'[1] \in 1 .. Rects[0].w /\ size'[2] \in 1 .. Rects[0].h
  <2>1. frame.w = Rects[frame.k].w /\ frame.h = Rects[frame.k].h /\ frame.k \in DOMAIN Rects
    BY <1>2 DEF IsPicture
  <2> QED
    BY <2>1, Numbered
<1>5. Kinds'
  BY <1>3, <1>4 DEF IInv, Kinds, WindowTypeOK, IsPicture
<1>6. Lent'
  BY <1>1, <1>2 DEF Lent, Clean, Locked, IsPicture, Painted, Covered
<1>7. Lacks'
  BY <1>1 DEF IInv, Lacks
<1> QED
  BY <1>5, <1>6, <1>7 DEF IInv

LEMMA BlitIInv ==
  ASSUME IInv, BlitStep
  PROVE  IInv'
<1> USE DEF BlitStep, hand, input, drawing, network, link, server, machine, bounds
<1>1. Locked /\ ~Locked'
  BY DEF Locked
<1>2. frame' = shown
  BY <1>1, Lifting DEF IInv, Lent, Clean
<1>3. Clean' = Clean /\ IsPicture(shown)
  BY <1>1, <1>2 DEF IInv, Lent, Clean
<1>4. Kinds'
  BY <1>2, <1>3 DEF IInv, Kinds, WindowTypeOK, IsPicture
<1>5. Lent'
  BY <1>1, <1>2, <1>3 DEF Lent, Clean, IsPicture
<1>6. Lacks'
  BY <1>3 DEF IInv, Lacks
<1> QED
  BY <1>4, <1>5, <1>6 DEF IInv

----------------------------------------------------------------------------
(* An update decoded: the screen lacks nothing but what it touched.        *)
LEMMA DecodeIInv ==
  ASSUME IInv, Decode
  PROVE  IInv'
<1> USE DEF Decode, hand, input, drawing, server, machine, bounds
<1> DEFINE u == Head(s2c)
           px == [p \in DOMAIN screen.px |-> IF p \in u.at THEN u.value ELSE screen.px[p]]
<1>1. /\ s2c \in Seq(Updates) /\ s2c # <<>> /\ IsPicture(screen)
      /\ screen.px \in [Region(screen.k) -> Nat]
  BY DEF IInv, Kinds, IsPicture
<1>2. /\ u = s2c[1] /\ u \in Updates /\ s2c' \in Seq(Updates) /\ 1 \in DOMAIN s2c
      /\ \A i \in DOMAIN s2c' : i + 1 \in DOMAIN s2c /\ s2c'[i] = s2c[i + 1]
  BY <1>1, QueueFacts
<1>3. u.k \in DOMAIN Rects /\ u.value \in Nat
  BY <1>2 DEF Updates
<1>4. u.whole => u.at = Region(u.k)
  BY <1>2 DEF IInv, Kinds
<1>5. px \in [Region(screen.k) -> Nat]
  BY <1>1, <1>3
<1>6. screen' = IF u.whole THEN Blank(u.k, u.value) ELSE [screen EXCEPT !.px = px]
  BY <1>1 DEF IsPicture
<1>7. IsPicture(screen)' /\ screen'.k \in DOMAIN Rects
  <2>1. CASE u.whole
    <3>1. screen' = Blank(u.k, u.value) /\ IsPicture(Blank(u.k, u.value))
      BY <2>1, <1>6, <1>3, Blanks
    <3> QED
      BY <3>1 DEF IsPicture
  <2>2. CASE ~u.whole
    <3>1. screen' = [screen EXCEPT !.px = px]
      BY <2>2, <1>6
    <3>2. IsPicture([screen EXCEPT !.px = px])
      BY <1>1, <1>5, Replacing
    <3> QED
      BY <3>1, <3>2 DEF IsPicture
  <2> QED
    BY <2>1, <2>2
<1>8. Kinds'
  <2>1. \A i \in DOMAIN s2c' : s2c'[i].whole => s2c'[i].at = Region(s2c'[i].k)
    BY <1>2 DEF IInv, Kinds
  <2> QED
    BY <2>1, <1>2, <1>7 DEF IInv, Kinds, WindowTypeOK
<1>9. Clean' = Clean /\ Lent'
  BY DEF IInv, Lent, Clean, Locked, IsPicture, Painted, Covered
<1>10. ASSUME Clean.w = screen'.w, Clean.h = screen'.h, NEW p \in DOMAIN screen'.px \ u.at
       PROVE  Clean.px[p] = screen'.px[p]
  <2>1. CASE u.whole
    BY <2>1, <1>10, <1>4, <1>6, <1>3, Blanks
  <2>2. CASE ~u.whole
    <3>1. Clean = screen
      BY <2>2, <1>1, <1>2 DEF IInv, Lacks
    <3>2. screen'.px = px
      BY <2>2, <1>6, <1>1, <1>5, Replacing
    <3> QED
      BY <3>1, <3>2, <1>10
  <2> QED
    BY <2>1, <2>2
<1>11. Lacks'
  BY <1>9, <1>10 DEF Lacks
<1> QED
  BY <1>8, <1>9, <1>11 DEF IInv

LEMMA PublishIInv ==
  ASSUME IInv, Publish
  PROVE  IInv'
<1> USE DEF Publish, hand, input, drawing, link, server, machine, bounds
<1>1. Clean = frame /\ Clean' = frame' /\ ~Locked'
  BY DEF Clean, Locked
<1>2. IsPicture(screen)
  BY DEF IInv, Kinds
<1>3. frame' = screen
  <2>1. CASE frame.w # screen.w \/ frame.h # screen.h
    BY <2>1
  <2>2. CASE frame.w = screen.w /\ frame.h = screen.h
    <3>1. \A p \in DOMAIN screen.px \ touched : frame.px[p] = screen.px[p]
      BY <2>2, <1>1 DEF IInv, Lacks
    <3>2. screen.px = [p \in DOMAIN screen.px |->
                         IF p \in touched THEN screen.px[p] ELSE frame.px[p]]
      BY <3>1, <1>2 DEF IsPicture
    <3>3. screen = [screen EXCEPT !.px = screen.px]
      BY <1>2 DEF IsPicture
    <3>4. frame' = [screen EXCEPT !.px = [p \in DOMAIN screen.px |->
                         IF p \in touched THEN screen.px[p] ELSE frame.px[p]]]
      BY <2>2, <1>2 DEF IsPicture
    <3> QED
      BY <3>2, <3>3, <3>4
  <2> QED
    BY <2>1, <2>2
<1>4. Kinds'
  BY <1>2, <1>3 DEF IInv, Kinds, WindowTypeOK, IsPicture
<1>5. Lent'
  BY <1>1, <1>2, <1>3 DEF Lent, IsPicture
<1>6. Lacks'
  BY <1>1, <1>3 DEF IInv, Lacks
<1> QED
  BY <1>4, <1>5, <1>6 DEF IInv

LEMMA TellIInv ==
  ASSUME IInv, Tell
  PROVE  IInv'
<1> USE DEF Tell, hand, input, drawing, link, server, machine, bounds
<1>1. Clean' = Clean /\ Lent'
  BY DEF IInv, Lent, Clean, Locked, IsPicture, Painted, Covered
<1>2. Kinds'
  BY DEF IInv, Kinds, WindowTypeOK, IsPicture
<1>3. Lacks'
  BY <1>1 DEF IInv, Lacks
<1> QED
  BY <1>1, <1>2, <1>3 DEF IInv

LEMMA DropIInv ==
  ASSUME IInv, Drop
  PROVE  IInv'
<1> USE DEF Drop, hand, input, drawing, network, server, machine
<1>1. c2s \in Seq(Posts) /\ s2c \in Seq(Updates)
  BY DEF IInv, Kinds
<1>2. PICK n \in 0 .. Len(c2s), m \in 0 .. Len(s2c) :
        c2s' = SubSeq(c2s, 1, n) /\ s2c' = SubSeq(s2c, 1, m)
  OBVIOUS
<1>3. c2s' \in Seq(Posts)
  BY <1>1, <1>2, QueueFacts
<1>4. /\ s2c' \in Seq(Updates)
      /\ \A i \in DOMAIN s2c' : i \in DOMAIN s2c /\ s2c'[i] = s2c[i]
      /\ s2c' # <<>> => s2c # <<>> /\ s2c'[1] = s2c[1]
  BY <1>1, <1>2, QueueFacts
<1>5. Clean' = Clean /\ Lent'
  BY DEF IInv, Lent, Clean, Locked, IsPicture, Painted, Covered
<1>6. Kinds'
  <2>1. \A i \in DOMAIN s2c' : s2c'[i].whole => s2c'[i].at = Region(s2c'[i].k)
    BY <1>4 DEF IInv, Kinds
  <2> QED
    BY <2>1, <1>3, <1>4, Pointing DEF IInv, Kinds, WindowTypeOK, IsPicture, Region
<1>7. Lacks'
  BY <1>4, <1>5 DEF IInv, Lacks
<1> QED
  BY <1>5, <1>6, <1>7 DEF IInv

LEMMA LoseIInv ==
  ASSUME IInv, Lose \/ TryInVain
  PROVE  IInv'
<1> USE DEF Lose, TryInVain, hand, input, drawing, link, server, machine, bounds
<1>1. Clean' = Clean /\ Lent'
  BY ZenonT(60) DEF IInv, Lent, Clean, Locked, IsPicture, Painted, Covered
<1>2. Kinds'
  <2>1. Longer \in {1, 2, 4, 8, 15}
    BY DEF IInv, Kinds, WindowTypeOK, Longer
  <2>2. CASE Lose
    BY <2>1, <2>2 DEF IInv, Kinds, WindowTypeOK, IsPicture
  <2>3. CASE TryInVain
    BY <2>1, <2>3 DEF IInv, Kinds, WindowTypeOK, IsPicture
  <2> QED
    BY <2>2, <2>3
<1>3. Lacks'
  BY <1>1 DEF IInv, Lacks
<1> QED
  BY <1>1, <1>2, <1>3 DEF IInv

(* A whole picture of a region.                                            *)
LEMMA WholeOne ==
  ASSUME NEW k \in DOMAIN Rects, frames \in Nat
  PROVE  Whole(k) \in Updates /\ Whole(k).whole /\ Whole(k).at = Region(Whole(k).k)
BY Numbered, Blanks DEF Whole, Updates

LEMMA ConnectIInv ==
  ASSUME IInv, Connect
  PROVE  IInv'
<1> USE DEF Connect, hand, input, drawing, bounds
<1>1. Clean' = Clean /\ Lent'
  BY DEF IInv, Lent, Clean, Locked, IsPicture, Painted, Covered
<1>2. IsPicture(screen)' /\ screen'.k = 1 /\ 1 \in DOMAIN Rects
  BY Numbered, Blanks DEF IsPicture
<1>3. Whole(1) \in Updates /\ Whole(1).whole /\ Whole(1).at = Region(Whole(1).k)
  BY WholeOne, Numbered DEF IInv, Kinds
<1>4. /\ s2c' \in Seq(Updates) /\ s2c' # <<>> /\ s2c'[1] = Whole(1)
      /\ \A i \in DOMAIN s2c' : s2c'[i] = Whole(1)
  BY <1>3
<1>5. Kinds'
  <2>1. WindowTypeOK'
    BY <1>2 DEF IInv, Kinds, WindowTypeOK
  <2>2. \A i \in DOMAIN s2c' : s2c'[i].whole => s2c'[i].at = Region(s2c'[i].k)
    BY <1>3, <1>4
  <2> QED
    BY <2>1, <2>2, <1>2, <1>4 DEF IInv, Kinds
<1>6. Lacks'
  BY <1>1, <1>3, <1>4 DEF Lacks
<1> QED
  BY <1>1, <1>5, <1>6 DEF IInv

----------------------------------------------------------------------------
(* The server's updates queue up behind what is on its way.                *)
LEMMA SentIInv ==
  ASSUME IInv, NEW u \in Updates, u.whole => u.at = Region(u.k),
         linked, s2c' = Append(s2c, u), Locked' = Locked, frames' \in Nat, region' \in DOMAIN Rects,
         UNCHANGED <<mouse, down, mask, pos, size, at, shown, upc, frame, under, dirty, showing,
                     npc, screen, touched, backoff, c2s, linked, online, running, pick, pressed>>
  PROVE  IInv'
<1>1. /\ s2c' \in Seq(Updates) /\ s2c' # <<>>
      /\ \A i \in DOMAIN s2c' : s2c'[i] = u \/ (i \in DOMAIN s2c /\ s2c'[i] = s2c[i])
      /\ s2c # <<>> => s2c'[1] = s2c[1]
  BY QueueFacts DEF IInv, Kinds
<1>2. Clean' = Clean /\ Lent'
  BY DEF IInv, Lent, Clean, Locked, IsPicture, Painted, Covered
<1>3. Kinds'
  <2>1. \A i \in DOMAIN s2c' : s2c'[i].whole => s2c'[i].at = Region(s2c'[i].k)
    BY <1>1 DEF IInv, Kinds
  <2> QED
    BY <2>1, <1>1 DEF IInv, Kinds, WindowTypeOK, IsPicture
<1>4. Lacks'
  BY <1>1, <1>2 DEF IInv, Lacks
<1> QED
  BY <1>2, <1>3, <1>4 DEF IInv

LEMMA SwitchIInv ==
  ASSUME IInv, Switch
  PROVE  IInv'
<1>1. /\ Whole(pick) \in Updates
      /\ Whole(pick).whole => Whole(pick).at = Region(Whole(pick).k)
      /\ pick \in DOMAIN Rects /\ frames \in Nat
  BY WholeOne DEF IInv, Kinds
<1> QED
  BY <1>1, SentIInv DEF Switch, hand, input, drawing, network, machine, bounds, Locked

LEMMA ChangeIInv ==
  ASSUME IInv, NEW p \in DOMAIN Blank(region, 0).px, Change({p})
  PROVE  IInv'
<1> DEFINE u == [whole |-> FALSE, k |-> region, at |-> {p}, value |-> frames']
<1>1. region \in DOMAIN Rects /\ frames \in Nat /\ frames' = frames + 1
  BY DEF IInv, Kinds, WindowTypeOK, Change
<1>2. p \in Region(0) /\ frames' \in Nat
  BY <1>1, Numbered, Blanks
<1>3. u \in Updates /\ ~u.whole
  BY <1>1, <1>2 DEF Updates
<1> QED
  BY <1>1, <1>2, <1>3, SentIInv DEF Change, hand, input, drawing, network, machine, bounds, Locked

LEMMA ReadIInv ==
  ASSUME IInv, ReadClient
  PROVE  IInv'
<1> USE DEF ReadClient, Handle, hand, input, drawing, network, machine, bounds
<1>1. c2s \in Seq(Posts) /\ c2s # <<>>
  BY DEF IInv, Kinds
<1>2. c2s' \in Seq(Posts) /\ Head(c2s) \in Posts
  BY <1>1, QueueFacts
<1>3. Head(c2s).type = "share" => Head(c2s).k \in DOMAIN Rects
  BY <1>2 DEF Posts
<1>4. pick' \in DOMAIN Rects /\ pressed' \subseteq Buttons
  BY <1>3 DEF IInv, Kinds, WindowTypeOK
<1>5. Kinds'
  BY <1>2, <1>4, Pointing DEF IInv, Kinds, WindowTypeOK, IsPicture, Region
<1> QED
  BY <1>5, Apart DEF Locked

LEMMA NextIInv == IInv /\ [WindowNext]_windowVars => IInv'
<1> SUFFICES ASSUME IInv, [WindowNext]_windowVars PROVE IInv'
  OBVIOUS
<1>1. CASE UNCHANGED windowVars
  <2> USE <1>1 DEF windowVars, hand, input, drawing, network, link, server, machine, bounds
  <2>1. Kinds'
    BY DEF IInv, Kinds, WindowTypeOK, IsPicture
  <2> QED
    BY <2>1, Apart DEF Locked
<1>2. CASE \E s \in Spots \cup {Outside}, b \in SUBSET Buttons : Move(s, b)
  BY <1>2, MoveIInv
<1>3. CASE UI
  BY <1>3, InputIInv, LookIInv, DrawIInv, BlitIInv DEF UI
<1>4. CASE Network
  BY <1>4, DecodeIInv, PublishIInv, TellIInv, LoseIInv, ConnectIInv DEF Network
<1>5. CASE TryInVain \/ Drop
  BY <1>5, LoseIInv, DropIInv
<1>6. CASE Switch \/ ReadClient \/ \E p \in DOMAIN Blank(region, 0).px : Change({p})
  BY <1>6, SwitchIInv, ReadIInv, ChangeIInv
<1> QED
  BY <1>1, <1>2, <1>3, <1>4, <1>5, <1>6 DEF WindowNext

(* Every variable keeps to its type: what to_fb makes of a mouse is a      *)
(* place on the desktop, and next_monitor's region is one there is.        *)
THEOREM WindowTyping == WindowSpec => []WindowTypeOK
<1>1. IInv => WindowTypeOK
  BY DEF IInv, Kinds
<1> QED
  BY InitIInv, NextIInv, <1>1, PTL DEF WindowSpec

(* run_window and restore: outside the window's lock the shared frame has  *)
(* no pointer in it, and a published update is in it whole, whatever the   *)
(* two threads, the monitors and the connection did in between.            *)
THEOREM NoSmear == WindowSpec => []CleanFrame
<1>1. IInv => CleanFrame
  BY NoArrow DEF IInv, Lent, Lacks, Clean, CleanFrame
<1> QED
  BY InitIInv, NextIInv, <1>1, PTL DEF WindowSpec
=============================================================================
