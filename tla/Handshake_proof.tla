-------------------------- MODULE Handshake_proof --------------------------
(***************************************************************************)
(* The handshake, proved for any set of meetings of which one side at      *)
(* least is vncfree's.                                                     *)
(***************************************************************************)
EXTENDS Handshake, SequenceTheorems, TLAPS

(* The stream between the two sides: where each is, what the client has    *)
(* sent and the server not read, and what the server has sent.             *)
At(c, s, out, in) == cpc = c /\ spc = s /\ c2s = out /\ s2c = in

Opens == IF speak = 3 THEN "stated" ELSE "types"
Offered == IF Ours THEN Offer ELSE setup.types
Entry(t) == IF t \notin Offered THEN "result" ELSE IF t = VeNCrypt THEN "venversion" ELSE Waits(t)
Greeting(t) == <<M("choose", t)>> \o IF t \in Offered THEN Hello(t) ELSE <<>>

Opening ==
  \/ At("version", "start", <<>>, <<>>)
  \/ At("version", "version", <<>>, <<M("version", setup.announced)>>)
  \/ At(Opens, "version", <<M("version", speak)>>, <<>>) /\ speak \in Choice(setup.announced)

(* RFB 3.3: the type in one word.                                          *)
Stating ==
  \/ At("stated", "answer", <<>>, <<M("stated", VncAuth), M("challenge", 0)>>)
  \/ At("stated", "init", <<>>, <<M("stated", None)>>)
  \/ At("stated", "gone", <<>>, <<M("stated", 0), M("reason", 0)>>)
  \/ At("stated", "gone", <<>>, <<>>)

(* The others: a list, and a choice from it or not.                        *)
Choosing ==
  \/ At("types", "choice", <<>>, <<M("types", Offered)>>)
  \/ At("types", "gone", <<>>, <<M("types", {}), M("reason", 0)>>)
  \/ /\ At(Entry(chosen), "choice", Greeting(chosen), <<>>)
     /\ chosen \in Types /\ (setup.ourClient => chosen \in Offered)

(* VeNCrypt, up to the handshake of TLS.                                   *)
Securing ==
  \/ At("venversion", "venversion", <<>>, <<M("venversion", 2)>>)
  \/ \E v \in {1, 2} : At("venok", "venversion", <<M("venversion", v)>>, <<>>)
  \/ At("venok", "sub", <<>>, <<M("venok", 0)>>)
  \/ At("venok", "gone", <<>>, <<M("venok", 1)>>)
  \/ \E v \in {260, 261} : At("subok", "sub", <<M("sub", v)>>, <<>>)
  \/ At("subok", "tls", <<>>, <<M("subok", 1)>>)
  \/ At("subok", "gone", <<>>, <<M("subok", 0)>>)
  \/ At("tls", "tls", <<M("hello", 0)>>, <<>>)
HalfSecured == At("tls", "answer", <<>>, <<M("certificate", 0), M("challenge", 0)>>)

(* The password, and what came of it.                                      *)
Answering ==
  \/ At("challenge", "answer", <<>>, <<M("challenge", 0)>>)
  \/ At("dh", "answer", <<>>, <<M("dhparams", 0)>>)
  \/ At("result", "answer", <<M("answer", setup.password)>>, <<>>)
Refused ==
  \/ At("result", "gone", <<>>, <<M("result", 1)>>) /\ speak # 8
  \/ At("result", "gone", <<>>, <<M("result", 1), M("reason", 0)>>)
  \/ At("reason", "gone", <<>>, <<M("reason", 0)>>)
  \/ At("reason", "choice", <<>>, <<>>)

(* The session.                                                            *)
Beginning ==
  \/ At("result", "init", <<>>, <<M("result", 0)>>)
  \/ At("init", "init", <<M("clientInit", 0)>>, <<>>)
  \/ At("init", "live", <<>>, <<M("serverInit", 0)>>)
  \/ At("live", "live", <<M("format", 0), M("encodings", 0)>>, <<>>)
  \/ At("live", "live", <<M("encodings", 0)>>, <<>>)
  \/ At("live", "live", <<>>, <<>>)

(* The client left, with what it does not read any more.                   *)
Left == \E s \in {"choice", "answer", "init", "gone"},
           m \in {<<>>, <<M("challenge", 0)>>, <<M("dhparams", 0)>>, <<M("reason", 0)>>} :
          At("gone", s, <<>>, m)

Place ==
  \/ Opening /\ ~ctls /\ ~stls
  \/ Stating /\ speak = 3 /\ ~ctls /\ ~stls
  \/ Choosing /\ speak \in {7, 8} /\ ~ctls /\ ~stls
  \/ Securing /\ Ours /\ speak \in {7, 8} /\ ~ctls /\ ~stls
  \/ HalfSecured /\ Ours /\ speak \in {7, 8} /\ stls
  \/ Answering /\ (ctls <=> stls) /\ speak \in Versions
  \/ Beginning /\ (ctls <=> stls) /\ (setup.password = "right" \/ chosen = None)
  \/ Refused /\ speak \in Versions
  \/ Left

(* What the server knows of the version is what the client spoke.          *)
Known == /\ cpc # "version" => speak \in Choice(setup.announced)
         /\ Ours /\ spc \notin {"start", "version"} => (old <=> speak = 3)

(* Each side by itself: what its password waits for.                       *)
Guarded ==
  /\ setup.ourClient /\ setup.wantTls /\ cpc \in {"challenge", "dh", "result", "init", "live"} => ctls
  /\ Ours /\ setup.tls = "require" /\ spc \in {"answer", "init", "live"} => stls
  /\ KnownOnly
  /\ Ours /\ spc \in {"start", "version"} => (penalised <=> setup.penalised)
  /\ NoGuess

Kinds == /\ setup \in Setups /\ speak \in Versions \cup {0} /\ chosen \in Types \cup {0}
         /\ old \in BOOLEAN /\ ctls \in BOOLEAN /\ stls \in BOOLEAN /\ penalised \in BOOLEAN

IInv == Kinds /\ Known /\ Place /\ Guarded
----------------------------------------------------------------------------
(* Queues of one or two messages.                                          *)

LEMMA Queues ==
  /\ \A a : Head(<<a>>) = a /\ Tail(<<a>>) = <<>> /\ <<a>> # <<>>
  /\ \A a, b : Head(<<a, b>>) = a /\ Tail(<<a, b>>) = <<b>> /\ <<a, b>> # <<>>
  /\ <<>> \o <<>> = <<>>
  /\ \A a : <<>> \o <<a>> = <<a>> /\ <<a>> \o <<>> = <<a>>
  /\ \A a, b : <<>> \o <<a, b>> = <<a, b>> /\ <<a>> \o <<b>> = <<a, b>>
<1>1. \A a : Head(<<a>>) = a /\ Tail(<<a>>) = <<>> /\ <<a>> # <<>>
  OBVIOUS
<1>2. \A a, b : Head(<<a, b>>) = a /\ Tail(<<a, b>>) = <<b>> /\ <<a, b>> # <<>>
  OBVIOUS
<1>3. <<>> \o <<>> = <<>>
  OBVIOUS
<1>4. \A a : <<>> \o <<a>> = <<a>> /\ <<a>> \o <<>> = <<a>>
  OBVIOUS
<1>5. ASSUME NEW a, NEW b
      PROVE  <<>> \o <<a, b>> = <<a, b>> /\ <<a>> \o <<b>> = <<a, b>>
  <2> DEFINE S == {a, b}
  <2>1. a \in S /\ b \in S
    OBVIOUS
  <2> HIDE DEF S
  <2>2. <<a, b>> \in Seq(S) /\ <<a>> \in Seq(S)
    BY <2>1
  <2>3. <<>> \o <<a, b>> = <<a, b>>
    BY <2>2, ConcatEmptySeq
  <2>4. Append(<<a>>, b) = <<a>> \o <<b>>
    BY <2>1, <2>2, AppendIsConcat
  <2>5. Append(<<a>>, b) = <<a, b>>
    <3> DEFINE p == Append(<<a>>, b)
               q == <<a, b>>
    <3>1. /\ p \in Seq(S) /\ Len(p) = Len(<<a>>) + 1 /\ p[Len(<<a>>) + 1] = b
          /\ \A k \in 1 .. Len(<<a>>) : p[k] = <<a>>[k]
      BY <2>1, <2>2, AppendProperties
    <3>2. Len(p) = 2 /\ p[1] = a /\ p[2] = b
      BY <3>1
    <3>3. Len(q) = 2 /\ q[1] = a /\ q[2] = b /\ q \in Seq(S)
      BY <2>2
    <3> HIDE DEF p, q
    <3>4. \A k \in 1 .. Len(p) : p[k] = q[k]
      BY <3>2, <3>3
    <3>5. p = q
      BY <3>1, <3>2, <3>3, <3>4, SeqEqual
    <3> QED
      BY <3>5 DEF p, q
  <2> QED
    BY <2>3, <2>4, <2>5
<1> QED
  BY <1>1, <1>2, <1>3, <1>4, <1>5

LEMMA Messages ==
  /\ \A t, v : M(t, v).type = t /\ M(t, v).v = v
BY DEF M
----------------------------------------------------------------------------
(* Where a side is that finds a message.                                   *)

LEMMA GreetingIs ==
  ASSUME NEW t
  PROVE  \/ Greeting(t) = <<M("choose", t)>>
         \/ Greeting(t) = <<M("choose", t), M("clientInit", 0)>>
BY Queues DEF Greeting, Hello

LEMMA EntryIs ==
  /\ \A t : Entry(t) \in {"result", "venversion", "init", "gone", "challenge", "dh"}
  /\ \A t : Greeting(t) # <<>>
BY GreetingIs, Queues DEF Entry, Waits

LEMMA ClientPlace ==
  ASSUME Place, s2c # <<>>
  PROVE  /\ cpc = "version" =>
              At("version", "version", <<>>, <<M("version", setup.announced)>>) /\ ~ctls /\ ~stls
         /\ cpc = "stated" => Stating /\ speak = 3 /\ ~ctls /\ ~stls
         /\ cpc = "types" => /\ speak \in {7, 8} /\ ~ctls /\ ~stls
                             /\ \/ At("types", "choice", <<>>, <<M("types", Offered)>>)
                                \/ At("types", "gone", <<>>, <<M("types", {}), M("reason", 0)>>)
         /\ cpc = "venversion" => /\ Ours /\ speak \in {7, 8} /\ ~ctls /\ ~stls
                                  /\ At("venversion", "venversion", <<>>, <<M("venversion", 2)>>)
         /\ cpc = "venok" => /\ Ours /\ speak \in {7, 8} /\ ~ctls /\ ~stls
                             /\ \/ At("venok", "sub", <<>>, <<M("venok", 0)>>)
                                \/ At("venok", "gone", <<>>, <<M("venok", 1)>>)
         /\ cpc = "subok" => /\ Ours /\ speak \in {7, 8} /\ ~ctls /\ ~stls
                             /\ \/ At("subok", "tls", <<>>, <<M("subok", 1)>>)
                                \/ At("subok", "gone", <<>>, <<M("subok", 0)>>)
         /\ cpc = "tls" => HalfSecured /\ Ours /\ speak \in {7, 8} /\ stls
         /\ cpc \in {"challenge", "dh"} => /\ Answering /\ (ctls <=> stls) /\ speak \in Versions
                                           /\ spc = "answer" /\ c2s = <<>>
                                           /\ \/ s2c = <<M("challenge", 0)>>
                                              \/ s2c = <<M("dhparams", 0)>>
         /\ cpc = "result" =>
              \/ /\ At("result", "init", <<>>, <<M("result", 0)>>)
                 /\ (ctls <=> stls) /\ (setup.password = "right" \/ chosen = None)
              \/ Refused /\ speak \in Versions
         /\ cpc = "reason" => At("reason", "gone", <<>>, <<M("reason", 0)>>) /\ speak \in Versions
         /\ cpc = "init" => /\ At("init", "live", <<>>, <<M("serverInit", 0)>>)
                            /\ (ctls <=> stls) /\ (setup.password = "right" \/ chosen = None)
<1>1. CASE Opening /\ ~ctls /\ ~stls
  BY <1>1 DEF Opening, At, Opens
<1>2. CASE Stating /\ speak = 3 /\ ~ctls /\ ~stls
  BY <1>2 DEF Stating, At
<1>3. CASE Choosing /\ speak \in {7, 8} /\ ~ctls /\ ~stls
  BY <1>3, EntryIs DEF Choosing, At
<1>4. CASE Securing /\ Ours /\ speak \in {7, 8} /\ ~ctls /\ ~stls
  BY <1>4 DEF Securing, At
<1>5. CASE HalfSecured /\ Ours /\ speak \in {7, 8} /\ stls
  BY <1>5 DEF HalfSecured, At
<1>6. CASE Answering /\ (ctls <=> stls) /\ speak \in Versions
  BY <1>6 DEF Answering, At
<1>7. CASE Beginning /\ (ctls <=> stls) /\ (setup.password = "right" \/ chosen = None)
  BY <1>7 DEF Beginning, At
<1>8. CASE Refused /\ speak \in Versions
  BY <1>8 DEF Refused, At
<1>9. CASE Left
  BY <1>9 DEF Left, At
<1> QED
  BY <1>1, <1>2, <1>3, <1>4, <1>5, <1>6, <1>7, <1>8, <1>9 DEF Place

LEMMA ServerPlace ==
  ASSUME Place, c2s # <<>>
  PROVE  /\ spc = "version" => /\ At(Opens, "version", <<M("version", speak)>>, <<>>)
                               /\ speak \in Choice(setup.announced) /\ ~ctls /\ ~stls
         /\ spc = "choice" => /\ At(Entry(chosen), "choice", Greeting(chosen), <<>>)
                              /\ chosen \in Types /\ (setup.ourClient => chosen \in Offered)
                              /\ speak \in {7, 8} /\ ~ctls /\ ~stls
         /\ spc = "venversion" =>
              /\ Ours /\ speak \in {7, 8} /\ ~ctls /\ ~stls
              /\ \E v \in {1, 2} : At("venok", "venversion", <<M("venversion", v)>>, <<>>)
         /\ spc = "sub" => /\ Ours /\ speak \in {7, 8} /\ ~ctls /\ ~stls
                           /\ \E v \in {260, 261} : At("subok", "sub", <<M("sub", v)>>, <<>>)
         /\ spc = "tls" => /\ Ours /\ speak \in {7, 8} /\ ~ctls /\ ~stls
                           /\ At("tls", "tls", <<M("hello", 0)>>, <<>>)
         /\ spc = "answer" => /\ At("result", "answer", <<M("answer", setup.password)>>, <<>>)
                              /\ (ctls <=> stls) /\ speak \in Versions
         /\ spc = "init" => /\ At("init", "init", <<M("clientInit", 0)>>, <<>>)
                            /\ (ctls <=> stls) /\ (setup.password = "right" \/ chosen = None)
         /\ spc = "live" => /\ \/ At("live", "live", <<M("format", 0), M("encodings", 0)>>, <<>>)
                               \/ At("live", "live", <<M("encodings", 0)>>, <<>>)
                            /\ (ctls <=> stls) /\ (setup.password = "right" \/ chosen = None)
         /\ spc # "gone" /\ spc # "start" /\ s2c = <<>>
<1>1. CASE Opening /\ ~ctls /\ ~stls
  BY <1>1 DEF Opening, At, Opens
<1>2. CASE Stating /\ speak = 3 /\ ~ctls /\ ~stls
  BY <1>2 DEF Stating, At
<1>3. CASE Choosing /\ speak \in {7, 8} /\ ~ctls /\ ~stls
  BY <1>3, EntryIs DEF Choosing, At
<1>4. CASE Securing /\ Ours /\ speak \in {7, 8} /\ ~ctls /\ ~stls
  BY <1>4 DEF Securing, At
<1>5. CASE HalfSecured /\ Ours /\ speak \in {7, 8} /\ stls
  BY <1>5 DEF HalfSecured, At
<1>6. CASE Answering /\ (ctls <=> stls) /\ speak \in Versions
  BY <1>6 DEF Answering, At
<1>7. CASE Beginning /\ (ctls <=> stls) /\ (setup.password = "right" \/ chosen = None)
  BY <1>7 DEF Beginning, At
<1>8. CASE Refused /\ speak \in Versions
  BY <1>8 DEF Refused, At
<1>9. CASE Left
  BY <1>9 DEF Left, At
<1> QED
  BY <1>1, <1>2, <1>3, <1>4, <1>5, <1>6, <1>7, <1>8, <1>9 DEF Place
----------------------------------------------------------------------------
(* The client's steps.                                                     *)

LEMMA InitInv == Init => IInv
<1> SUFFICES ASSUME Init PROVE IInv
  OBVIOUS
<1>1. Kinds
  BY HandshakeAssumption DEF Init, Kinds, SetupType
<1>2. Known /\ Place /\ Guarded
  BY DEF Init, Known, Place, Opening, At, Guarded, KnownOnly, NoGuess
<1> QED
  BY <1>1, <1>2 DEF IInv

LEMMA Meeting ==
  ASSUME Kinds
  PROVE  /\ setup.announced \in Announced /\ setup.types \subseteq {None, VncAuth, AppleDh}
         /\ setup.ourClient \/ setup.ourServer
         /\ setup.ourServer => setup.announced = 8
         /\ setup.password \in {"right", "wrong", "none"}
         /\ Choice(setup.announced) \subseteq Versions
BY HandshakeAssumption DEF Kinds, SetupType, Choice, Versions

LEMMA VersionStep ==
  ASSUME IInv, Version
  PROVE  IInv'
<1> USE DEF IInv
<1>1. At("version", "version", <<>>, <<M("version", setup.announced)>>) /\ ~ctls /\ ~stls
  BY ClientPlace DEF Version, Client
<1>2. /\ speak' \in Choice(setup.announced) /\ cpc' = (IF speak' = 3 THEN "stated" ELSE "types")
      /\ s2c' = <<>> /\ c2s' = <<M("version", speak')>> /\ spc' = "version"
      /\ UNCHANGED <<setup, chosen, old, ctls, stls, penalised>>
  <2>1. Head(s2c).v = setup.announced /\ Tail(s2c) = <<>> /\ c2s = <<>> /\ spc = "version"
    BY <1>1, Queues, Messages DEF At
  <2> QED
    BY <2>1, Queues DEF Version, ClientDoes
<1>3. Kinds' /\ Known'
  BY <1>2, Meeting DEF Kinds, Known, Choice
<1>4. Place'
  BY <1>1, <1>2 DEF Place, Opening, At, Opens, Choice
<1>5. Guarded'
  BY <1>1, <1>2 DEF Guarded, KnownOnly, NoGuess, At, Ours
<1> QED
  BY <1>3, <1>4, <1>5

LEMMA StatedStep ==
  ASSUME IInv, Stated
  PROVE  IInv'
<1> USE DEF IInv
<1>1. Stating /\ speak = 3 /\ ~ctls /\ ~stls /\ c2s = <<>> /\ s2c # <<>>
  <2>1. Stating /\ speak = 3 /\ ~ctls /\ ~stls /\ s2c # <<>>
    BY ClientPlace DEF Stated, Client
  <2> QED
    BY <2>1 DEF Stating, At
<1>2. UNCHANGED <<setup, spc, old, stls, penalised, speak, ctls>> /\ cpc = "stated"
  BY DEF Stated, ClientDoes, Client
<1> DEFINE t == Head(s2c).v
<1>3. /\ t \in {0, None, VncAuth} /\ spc \in {"answer", "init", "gone"}
      /\ Tail(s2c) \in {<<>>, <<M("challenge", 0)>>, <<M("reason", 0)>>}
      /\ t = 0 => spc = "gone" /\ Tail(s2c) = <<M("reason", 0)>>
      /\ t = None => spc = "init" /\ Tail(s2c) = <<>>
      /\ t = VncAuth => spc = "answer" /\ Tail(s2c) = <<M("challenge", 0)>>
  <2>1. CASE At("stated", "answer", <<>>, <<M("stated", VncAuth), M("challenge", 0)>>)
    <3>1. t = VncAuth /\ Tail(s2c) = <<M("challenge", 0)>> /\ spc = "answer"
      BY <2>1, Queues, Messages DEF At
    <3> QED
      BY <3>1 DEF None, VncAuth
  <2>2. CASE At("stated", "init", <<>>, <<M("stated", None)>>)
    <3>1. t = None /\ Tail(s2c) = <<>> /\ spc = "init"
      BY <2>2, Queues, Messages DEF At
    <3> QED
      BY <3>1 DEF None, VncAuth
  <2>3. CASE At("stated", "gone", <<>>, <<M("stated", 0), M("reason", 0)>>)
    <3>1. t = 0 /\ Tail(s2c) = <<M("reason", 0)>> /\ spc = "gone"
      BY <2>3, Queues, Messages DEF At
    <3> QED
      BY <3>1 DEF None, VncAuth
  <2> QED
    BY <1>1, <2>1, <2>2, <2>3 DEF Stating, At
<1>4. CASE t = 0
  <2>1. UNCHANGED <<chosen, c2s>> /\ cpc' = "reason" /\ s2c' = <<M("reason", 0)>>
    BY <1>1, <1>3, <1>4, Queues DEF Stated, ClientDoes, None, VncAuth
  <2>2. Place'
    BY <1>1, <1>2, <1>3, <1>4, <2>1 DEF Place, Refused, At, Versions
  <2> QED
    BY <1>2, <2>1, <2>2 DEF Kinds, Known, Guarded, KnownOnly, NoGuess, Ours, Choice
<1>5. CASE t # 0 /\ setup.ourClient /\ t \notin Picks({t}) /\ ClientDoes("gone", <<>>) /\ UNCHANGED chosen
  <2>1. UNCHANGED <<chosen, c2s>> /\ cpc' = "gone" /\ s2c' = Tail(s2c)
    BY <1>1, <1>5, Queues DEF ClientDoes
  <2>2. Place'
    BY <1>1, <1>2, <1>3, <2>1 DEF Place, Left, At
  <2> QED
    BY <1>2, <2>1, <2>2 DEF Kinds, Known, Guarded, KnownOnly, NoGuess, Ours, Choice
<1>6. CASE t \in {None, VncAuth} /\ t \in Picks({t}) /\ chosen' = t /\ ClientDoes(Waits(t), Hello(t))
  <2>1. ~(setup.ourClient /\ setup.wantTls)
    BY <1>6 DEF Picks, None, VncAuth, VeNCrypt
  <2>2. CASE t = None
    <3>1. Waits(t) = "init" /\ Hello(t) = <<M("clientInit", 0)>>
      BY <1>1, <2>2 DEF Waits, Hello
    <3>2. /\ cpc' = "init" /\ spc' = "init" /\ c2s' = <<M("clientInit", 0)>> /\ s2c' = <<>>
          /\ chosen' = None
      BY <1>1, <1>2, <1>3, <1>6, <2>2, <3>1, Queues DEF ClientDoes
    <3>3. Place'
      BY <1>1, <1>2, <3>2 DEF Place, Beginning, At
    <3>4. Guarded'
      BY <1>2, <1>3, <2>1, <2>2, <3>2 DEF Guarded, KnownOnly, NoGuess, Ours
    <3> QED
      BY <1>2, <3>2, <3>3, <3>4 DEF Kinds, Known, Ours, Choice, Types
  <2>3. CASE t = VncAuth
    <3>1. Waits(t) \in {"gone", "challenge"} /\ Hello(t) = <<>>
      BY <2>3 DEF Waits, Hello, None, VncAuth
    <3>2. /\ cpc' \in {"gone", "challenge"} /\ spc' = "answer" /\ c2s' = <<>>
          /\ s2c' = <<M("challenge", 0)>> /\ chosen' = VncAuth
      BY <1>1, <1>2, <1>3, <1>6, <2>3, <3>1, Queues DEF ClientDoes
    <3>3. Place'
      BY <1>1, <1>2, <3>2 DEF Place, Answering, Left, At, Versions
    <3>4. Guarded'
      BY <1>2, <1>3, <2>1, <2>3, <3>2 DEF Guarded, KnownOnly, NoGuess, Ours
    <3> QED
      BY <1>2, <3>2, <3>3, <3>4 DEF Kinds, Known, Ours, Choice, Types
  <2> QED
    BY <1>6, <2>2, <2>3
<1> QED
  BY <1>4, <1>5, <1>6 DEF Stated
LEMMA ListedStep ==
  ASSUME IInv, Listed
  PROVE  IInv'
<1> USE DEF IInv
<1>1. /\ speak \in {7, 8} /\ ~ctls /\ ~stls /\ cpc = "types" /\ s2c # <<>> /\ c2s = <<>>
      /\ \/ At("types", "choice", <<>>, <<M("types", Offered)>>)
         \/ At("types", "gone", <<>>, <<M("types", {}), M("reason", 0)>>)
  <2>1. cpc = "types" /\ s2c # <<>>
    BY DEF Listed, Client
  <2> QED
    BY <2>1, ClientPlace DEF At
<1>2. UNCHANGED <<setup, spc, old, stls, penalised, speak, ctls>>
  BY DEF Listed, ClientDoes
<1> DEFINE types == Head(s2c).v
<1>3. \/ types = Offered /\ Tail(s2c) = <<>> /\ spc = "choice"
      \/ types = {} /\ Tail(s2c) = <<M("reason", 0)>> /\ spc = "gone"
  <2>1. CASE At("types", "choice", <<>>, <<M("types", Offered)>>)
    <3>1. Head(s2c) = M("types", Offered) /\ Tail(s2c) = <<>> /\ spc = "choice"
      BY <2>1, Queues DEF At
    <3> QED
      BY <3>1, Messages
  <2>2. CASE At("types", "gone", <<>>, <<M("types", {}), M("reason", 0)>>)
    <3>1. Head(s2c) = M("types", {}) /\ Tail(s2c) = <<M("reason", 0)>> /\ spc = "gone"
      BY <2>2, Queues DEF At
    <3> QED
      BY <3>1, Messages
  <2> QED
    BY <1>1, <2>1, <2>2
<1>4. CASE types = {} /\ ClientDoes("reason", <<>>) /\ UNCHANGED chosen
  <2>1. UNCHANGED <<chosen, c2s>> /\ cpc' = "reason" /\ s2c' = Tail(s2c)
    BY <1>1, <1>4, Queues DEF ClientDoes
  <2>2. Place'
    BY <1>1, <1>2, <1>3, <2>1 DEF Place, Refused, At, Versions
  <2> QED
    BY <1>2, <2>1, <2>2, <1>1 DEF Kinds, Known, Guarded, KnownOnly, NoGuess, Ours, Choice
<1>5. CASE types # {} /\ Picks(types) = {} /\ ClientDoes("gone", <<>>) /\ UNCHANGED chosen
  <2>1. UNCHANGED <<chosen, c2s>> /\ cpc' = "gone" /\ s2c' = Tail(s2c)
    BY <1>1, <1>5, Queues DEF ClientDoes
  <2>2. Place'
    BY <1>1, <1>2, <1>3, <1>5, <2>1 DEF Place, Left, At
  <2> QED
    BY <1>2, <2>1, <2>2, <1>1 DEF Kinds, Known, Guarded, KnownOnly, NoGuess, Ours, Choice
<1>6. ASSUME types # {}, NEW t \in Picks(types), chosen' = t,
             ClientDoes(IF t \notin types THEN "result"
                        ELSE IF t = VeNCrypt THEN "venversion" ELSE Waits(t),
                        <<M("choose", t)>> \o IF t \in types THEN Hello(t) ELSE <<>>)
      PROVE  IInv'
  <2>1. types = Offered /\ Tail(s2c) = <<>> /\ spc = "choice"
    BY <1>3, <1>6
  <2>2. /\ cpc' = Entry(t) /\ c2s' = <<>> \o Greeting(t) /\ s2c' = <<>>
    BY <1>1, <1>6, <2>1 DEF ClientDoes, Entry, Greeting
  <2>3. c2s' = Greeting(t)
    BY <2>2, GreetingIs, Queues
  <2>4. t \in Types /\ (setup.ourClient => t \in Offered)
    BY <2>1 DEF Picks, Types
  <2>5. UNCHANGED <<Entry(t), Greeting(t), Offered>>
    BY <1>2 DEF Entry, Greeting, Waits, Hello, Offered, Offer, Ours
  <2>6. Place'
    BY <1>1, <1>2, <1>6, <2>1, <2>2, <2>3, <2>4, <2>5 DEF Place, Choosing, At
  <2>7. Kinds' /\ Known'
    BY <1>1, <1>2, <1>6, <2>2, <2>4 DEF Kinds, Known, Choice, Ours
  <2>8. ~(setup.ourClient /\ setup.wantTls /\ t # VeNCrypt)
    BY <1>6 DEF Picks
  <2>9. setup.ourClient /\ t = VeNCrypt => cpc' = "venversion"
    BY <2>2, <2>4 DEF Entry
  <2>10. Guarded'
    BY <1>1, <1>2, <2>2, <2>8, <2>9 DEF Guarded, KnownOnly, NoGuess, Ours
  <2> QED
    BY <2>6, <2>7, <2>10
<1> QED
  BY <1>4, <1>5, <1>6 DEF Listed
(* The steps between the choice of VeNCrypt and the password.              *)
LEMMA VenStep ==
  ASSUME IInv, VenVersion \/ VenOk \/ SubOk
  PROVE  IInv'
<1> USE DEF IInv
<1>1. /\ UNCHANGED <<setup, spc, old, stls, penalised, speak, ctls, chosen>>
      /\ cpc \in {"venversion", "venok", "subok"} /\ s2c # <<>>
      /\ cpc' \in {"venok", "subok", "tls", "gone"}
  BY DEF VenVersion, VenOk, SubOk, ClientDoes, Client
<1>2. Kinds' /\ Known'
  BY <1>1 DEF Kinds, Known, Choice, Ours
<1>3. Guarded'
  BY <1>1 DEF Guarded, KnownOnly, NoGuess, Ours
<1>4. Place'
  <2>1. Ours /\ speak \in {7, 8} /\ ~ctls /\ ~stls
    BY <1>1, ClientPlace
  <2>2. CASE VenVersion
    <3>1. At("venversion", "venversion", <<>>, <<M("venversion", 2)>>)
      BY <2>2, ClientPlace DEF VenVersion, Client
    <3>2. PICK v \in {1, 2} : ClientDoes("venok", <<M("venversion", v)>>)
      BY <2>2 DEF VenVersion
    <3>3. At("venok", "venversion", <<M("venversion", v)>>, <<>>)'
      BY <1>1, <3>1, <3>2, Queues DEF At, ClientDoes
    <3> QED
      BY <1>1, <2>1, <3>3 DEF Place, Securing, At, Ours
  <2>3. CASE VenOk /\ At("venok", "sub", <<>>, <<M("venok", 0)>>)
    <3>1. Head(s2c).v = 0
      BY <2>3, Queues, Messages DEF At
    <3>2. PICK v \in {260, 261} : ClientDoes("subok", <<M("sub", v)>>)
      BY <2>3, <3>1 DEF VenOk
    <3>3. At("subok", "sub", <<M("sub", v)>>, <<>>)'
      BY <1>1, <2>3, <3>2, Queues DEF At, ClientDoes
    <3> QED
      BY <1>1, <2>1, <3>3 DEF Place, Securing, At, Ours
  <2>4. CASE VenOk /\ At("venok", "gone", <<>>, <<M("venok", 1)>>)
    <3>1. Head(s2c).v = 1
      BY <2>4, Queues, Messages DEF At
    <3>2. ClientDoes("gone", <<>>)
      BY <2>4, <3>1 DEF VenOk
    <3>3. At("gone", "gone", <<>>, <<>>)'
      BY <1>1, <2>4, <3>2, Queues DEF At, ClientDoes
    <3> QED
      BY <3>3 DEF Place, Left, At
  <2>5. CASE SubOk /\ At("subok", "tls", <<>>, <<M("subok", 1)>>)
    <3>1. Head(s2c).v = 1
      BY <2>5, Queues, Messages DEF At
    <3>2. ClientDoes("tls", <<M("hello", 0)>>)
      BY <2>5, <3>1 DEF SubOk
    <3>3. At("tls", "tls", <<M("hello", 0)>>, <<>>)'
      BY <1>1, <2>5, <3>2, Queues DEF At, ClientDoes
    <3> QED
      BY <1>1, <2>1, <3>3 DEF Place, Securing, At, Ours
  <2>6. CASE SubOk /\ At("subok", "gone", <<>>, <<M("subok", 0)>>)
    <3>1. Head(s2c).v = 0
      BY <2>6, Queues, Messages DEF At
    <3>2. ClientDoes("gone", <<>>)
      BY <2>6, <3>1 DEF SubOk
    <3>3. At("gone", "gone", <<>>, <<>>)'
      BY <1>1, <2>6, <3>2, Queues DEF At, ClientDoes
    <3> QED
      BY <3>3 DEF Place, Left, At
  <2> QED
    BY <1>1, <2>2, <2>3, <2>4, <2>5, <2>6, ClientPlace DEF VenOk, SubOk, Client
<1> QED
  BY <1>2, <1>3, <1>4

LEMMA CertificateStep ==
  ASSUME IInv, Certificate
  PROVE  IInv'
<1> USE DEF IInv
<1>1. HalfSecured /\ Ours /\ speak \in {7, 8} /\ stls
  BY ClientPlace DEF Certificate, Client
<1>2. /\ UNCHANGED <<setup, spc, old, stls, penalised, speak, c2s>> /\ cpc = "tls"
      /\ ctls' = TRUE /\ chosen' = VncAuth /\ s2c' = <<M("challenge", 0)>>
      /\ cpc' = IF setup.ourClient /\ setup.known = "changed" THEN "gone" ELSE Waits(VncAuth)
  <2>1. c2s = <<>> /\ Tail(s2c) = <<M("challenge", 0)>> /\ <<>> \o <<>> = <<>>
    BY <1>1, Queues DEF HalfSecured, At
  <2> QED
    BY <2>1 DEF Certificate, ClientDoes, Client
<1>3. cpc' \in {"gone", "challenge"}
  BY <1>2 DEF Waits, VncAuth, None
<1>4. spc = "answer" /\ c2s = <<>>
  BY <1>1 DEF HalfSecured, At
<1>5. Kinds' /\ Known'
  BY <1>1, <1>2, <1>3 DEF Kinds, Known, Choice, Ours, Types
<1>6. Guarded'
  BY <1>2, <1>3 DEF Guarded, KnownOnly, NoGuess, Ours
<1>7. Place'
  BY <1>1, <1>2, <1>3, <1>4 DEF Place, Answering, Left, At, Versions
<1> QED
  BY <1>5, <1>6, <1>7

LEMMA ChallengedStep ==
  ASSUME IInv, Challenged
  PROVE  IInv'
<1> USE DEF IInv
<1>1. /\ (ctls <=> stls) /\ speak \in Versions /\ spc = "answer" /\ c2s = <<>>
      /\ s2c \in {<<M("challenge", 0)>>, <<M("dhparams", 0)>>} /\ cpc \in {"challenge", "dh"}
  BY ClientPlace DEF Challenged, Client
<1>2. /\ UNCHANGED <<setup, spc, old, stls, penalised, speak, ctls, chosen>>
      /\ cpc' = "result" /\ s2c' = <<>> /\ c2s' = <<M("answer", setup.password)>>
  <2>1. Tail(s2c) = <<>>
    BY <1>1, Queues
  <2> QED
    BY <1>1, <2>1, Queues DEF Challenged, ClientDoes
<1>3. Kinds' /\ Known'
  BY <1>1, <1>2 DEF Kinds, Known, Choice, Ours
<1>4. Guarded'
  BY <1>1, <1>2 DEF Guarded, KnownOnly, NoGuess, Ours
<1>5. Place'
  BY <1>1, <1>2 DEF Place, Answering, At
<1> QED
  BY <1>3, <1>4, <1>5

LEMMA ResultStep ==
  ASSUME IInv, Result
  PROVE  IInv'
<1> USE DEF IInv
<1>1. cpc = "result" /\ s2c # <<>> /\ Head(s2c).type = "result"
  BY DEF Result, Client
<1>2. /\ UNCHANGED <<setup, spc, old, stls, penalised, speak, ctls, chosen>>
      /\ s2c' = Tail(s2c)
      /\ \/ Head(s2c).v = 0 /\ cpc' = "init" /\ c2s' = c2s \o <<M("clientInit", 0)>>
         \/ Head(s2c).v # 0 /\ cpc' = (IF speak >= 8 THEN "reason" ELSE "gone") /\ c2s' = c2s \o <<>>
  BY DEF Result, ClientDoes
<1>3. CASE /\ At("result", "init", <<>>, <<M("result", 0)>>)
           /\ (ctls <=> stls) /\ (setup.password = "right" \/ chosen = None)
  <2>1. Head(s2c).v = 0 /\ Tail(s2c) = <<>>
    BY <1>3, Queues, Messages DEF At
  <2>2. cpc' = "init" /\ c2s' = <<M("clientInit", 0)>> /\ s2c' = <<>> /\ spc' = "init"
    BY <1>2, <1>3, <2>1, Queues DEF At
  <2>3. Place'
    BY <1>2, <1>3, <2>2 DEF Place, Beginning, At
  <2>4. Kinds' /\ Known'
    BY <1>1, <1>2, <2>2 DEF Kinds, Known, Choice, Ours
  <2>5. Guarded'
    BY <1>1, <1>2, <2>2 DEF Guarded, KnownOnly, NoGuess, Ours
  <2> QED
    BY <2>3, <2>4, <2>5
<1>4. CASE Refused /\ speak \in Versions
  <2>1. /\ Head(s2c).v = 1 /\ spc = "gone" /\ c2s = <<>>
        /\ \/ Tail(s2c) = <<>> /\ speak # 8
           \/ Tail(s2c) = <<M("reason", 0)>>
    <3>1. CASE At("result", "gone", <<>>, <<M("result", 1)>>) /\ speak # 8
      BY <3>1, Queues, Messages DEF At
    <3>2. CASE At("result", "gone", <<>>, <<M("result", 1), M("reason", 0)>>)
      BY <3>2, Queues, Messages DEF At
    <3> QED
      BY <1>1, <1>4, <3>1, <3>2 DEF Refused, At
  <2>2. c2s' = <<>> /\ spc' = "gone" /\ cpc' = (IF speak >= 8 THEN "reason" ELSE "gone")
    BY <1>2, <2>1, Queues
  <2>3. Place'
    BY <1>2, <1>4, <2>1, <2>2 DEF Place, Refused, Left, At, Versions
  <2>4. Kinds' /\ Known'
    BY <1>1, <1>2, <2>2 DEF Kinds, Known, Choice, Ours
  <2>5. Guarded'
    BY <1>1, <1>2, <2>2 DEF Guarded, KnownOnly, NoGuess, Ours
  <2> QED
    BY <2>3, <2>4, <2>5
<1> QED
  BY <1>1, <1>3, <1>4, ClientPlace

LEMMA LastSteps ==
  ASSUME IInv, Reason \/ Initialised \/ ClientEof
  PROVE  IInv'
<1> USE DEF IInv
<1>1. UNCHANGED <<setup, spc, old, stls, penalised, speak, ctls, chosen>>
  BY DEF Reason, Initialised, ClientEof, ClientDoes
<1>2. CASE Reason
  <2>1. At("reason", "gone", <<>>, <<M("reason", 0)>>)
    BY <1>2, ClientPlace DEF Reason, Client
  <2>2. At("gone", "gone", <<>>, <<>>)'
    BY <1>1, <1>2, <2>1, Queues DEF Reason, ClientDoes, At
  <2>3. Place'
    BY <2>2 DEF Place, Left
  <2> QED
    BY <1>1, <2>1, <2>2, <2>3 DEF Kinds, Known, Choice, Guarded, KnownOnly, NoGuess, Ours, At
<1>3. CASE Initialised
  <2>1. /\ At("init", "live", <<>>, <<M("serverInit", 0)>>)
        /\ (ctls <=> stls) /\ (setup.password = "right" \/ chosen = None)
    BY <1>3, ClientPlace DEF Initialised, Client
  <2>2. At("live", "live", <<M("format", 0), M("encodings", 0)>>, <<>>)'
    BY <1>1, <1>3, <2>1, Queues DEF Initialised, ClientDoes, At
  <2>3. Place'
    BY <1>1, <2>1, <2>2 DEF Place, Beginning
  <2> QED
    BY <1>1, <2>1, <2>2, <2>3 DEF Kinds, Known, Choice, Guarded, KnownOnly, NoGuess, Ours, At
<1>4. CASE ClientEof
  <2>1. /\ s2c = <<>> /\ spc = "gone" /\ cpc # "gone" /\ cpc' = "gone"
        /\ UNCHANGED <<c2s, s2c>>
    BY <1>4 DEF ClientEof
  <2>2. c2s = <<>>
    <3> SUFFICES ASSUME c2s # <<>> PROVE FALSE
      OBVIOUS
    <3> QED
      BY <2>1, ServerPlace
  <2>3. At("gone", "gone", <<>>, <<>>)'
    BY <1>1, <2>1, <2>2 DEF At
  <2>4. Place'
    BY <2>3 DEF Place, Left
  <2>5. cpc # "version"
    <3>1. cpc = "version" /\ s2c = <<>> /\ c2s = <<>> => spc # "gone"
      BY DEF Place, Opening, Stating, Choosing, Securing, HalfSecured, Answering, Refused,
             Beginning, Left, At, Opens
    <3> QED
      BY <2>1, <2>2, <3>1
  <2> QED
    BY <1>1, <2>1, <2>4, <2>5 DEF Kinds, Known, Choice, Guarded, KnownOnly, NoGuess, Ours
<1> QED
  BY <1>2, <1>3, <1>4

LEMMA ClientStep ==
  ASSUME IInv, Connect
  PROVE  IInv'
BY VersionStep, StatedStep, ListedStep, VenStep, CertificateStep, ChallengedStep, ResultStep,
   LastSteps DEF Connect
----------------------------------------------------------------------------
(* The server's steps.                                                     *)

LEMMA AnnounceStep ==
  ASSUME IInv, Announce
  PROVE  IInv'
<1> USE DEF IInv
<1>1. /\ UNCHANGED <<setup, cpc, speak, chosen, old, ctls, stls, penalised, c2s>>
      /\ spc = "start" /\ spc' = "version" /\ s2c' = <<M("version", setup.announced)>>
  BY DEF Announce
<1>2. cpc = "version" /\ c2s = <<>> /\ ~ctls /\ ~stls
  BY <1>1, EntryIs DEF Place, Opening, Stating, Choosing, Securing, HalfSecured, Answering,
                       Refused, Beginning, Left, At
<1>3. Place'
  BY <1>1, <1>2 DEF Place, Opening, At
<1>4. Kinds' /\ Known' /\ Guarded'
  BY <1>1, <1>2 DEF Kinds, Known, Choice, Guarded, KnownOnly, NoGuess, Ours
<1> QED
  BY <1>3, <1>4

LEMMA SecurityStep ==
  ASSUME IInv, Security
  PROVE  IInv'
<1> USE DEF IInv
<1>1. /\ At(Opens, "version", <<M("version", speak)>>, <<>>) /\ speak \in Versions
      /\ ~ctls /\ ~stls
  <2>1. /\ At(Opens, "version", <<M("version", speak)>>, <<>>)
        /\ speak \in Choice(setup.announced) /\ ~ctls /\ ~stls
    BY ServerPlace DEF Security, Server
  <2> QED
    BY <2>1, Meeting
<1>2. /\ UNCHANGED <<setup, cpc, speak, chosen, ctls, stls, penalised>> /\ Ours
      /\ old' = (speak < 7) /\ c2s' = <<>> /\ spc = "version"
  <2>1. Head(c2s).v = speak /\ Tail(c2s) = <<>>
    BY <1>1, Queues, Messages DEF At
  <2> QED
    BY <2>1 DEF Security, ServerDoes, Server
<1>3. (old' <=> speak = 3) /\ old' \in BOOLEAN
  <2>1. speak < 7 <=> speak = 3
    BY <1>1 DEF Versions
  <2>2. old' \in BOOLEAN
    BY <1>2
  <2>3. old' <=> speak < 7
    BY <1>2
  <2> QED
    BY <2>1, <2>2, <2>3
<1>4. \A m : <<>> \o <<m>> = <<m>> /\ \A n : <<>> \o <<m, n>> = <<m, n>>
  BY Queues
<1>5. s2c = <<>> /\ cpc = Opens /\ c2s = <<M("version", speak)>>
  BY <1>1 DEF At
<1>6. /\ penalised => spc' = "gone" /\ s2c' = <<>> \o TurnAway(old')
      /\ ~penalised /\ old' /\ setup.tls = "require" => spc' = "gone" /\ s2c' = <<>> \o <<>>
      /\ ~penalised /\ old' /\ setup.tls # "require" =>
           spc' = "answer" /\ s2c' = <<>> \o <<M("stated", VncAuth), M("challenge", 0)>>
      /\ ~penalised /\ ~old' => spc' = "choice" /\ s2c' = <<>> \o <<M("types", Offer)>>
  <2>1. penalised \in BOOLEAN /\ old' \in BOOLEAN
    BY <1>3 DEF Kinds
  <2>2. CASE penalised
    BY <1>5, <2>2 DEF Security, ServerDoes
  <2>3. CASE ~penalised /\ old' /\ setup.tls = "require"
    BY <1>5, <2>3 DEF Security, ServerDoes
  <2>4. CASE ~penalised /\ old' /\ setup.tls # "require"
    BY <1>5, <2>4 DEF Security, ServerDoes
  <2>5. CASE ~penalised /\ ~old'
    BY <1>5, <2>5 DEF Security, ServerDoes
  <2> QED
    BY <2>1, <2>2, <2>3, <2>4, <2>5
<1>7. Place'
  <2>1. CASE penalised /\ speak = 3
    <3>1. TurnAway(old') = <<M("stated", 0), M("reason", 0)>>
      BY <1>3, <2>1 DEF TurnAway
    <3>2. At("stated", "gone", <<>>, <<M("stated", 0), M("reason", 0)>>)'
      BY <1>2, <1>4, <1>5, <1>6, <2>1, <3>1 DEF At, Opens
    <3> QED
      BY <1>1, <1>2, <2>1, <3>2 DEF Place, Stating
  <2>2. CASE penalised /\ speak # 3
    <3>1. TurnAway(old') = <<M("types", {}), M("reason", 0)>>
      BY <1>3, <2>2 DEF TurnAway
    <3>2. At("types", "gone", <<>>, <<M("types", {}), M("reason", 0)>>)'
      BY <1>2, <1>4, <1>5, <1>6, <2>2, <3>1 DEF At, Opens
    <3> QED
      BY <1>1, <1>2, <2>2, <3>2 DEF Place, Choosing, Versions
  <2>3. CASE ~penalised /\ speak = 3 /\ setup.tls = "require"
    <3>1. At("stated", "gone", <<>>, <<>>)'
      BY <1>2, <1>3, <1>5, <1>6, <2>3, Queues DEF At, Opens
    <3> QED
      BY <1>1, <1>2, <2>3, <3>1 DEF Place, Stating
  <2>4. CASE ~penalised /\ speak = 3 /\ setup.tls # "require"
    <3>1. At("stated", "answer", <<>>, <<M("stated", VncAuth), M("challenge", 0)>>)'
      BY <1>2, <1>3, <1>4, <1>5, <1>6, <2>4 DEF At, Opens
    <3> QED
      BY <1>1, <1>2, <2>4, <3>1 DEF Place, Stating
  <2>5. CASE ~penalised /\ speak # 3
    <3>1. Offered' = Offer
      BY <1>2 DEF Offered, Ours, Offer
    <3>2. At("types", "choice", <<>>, <<M("types", Offered)>>)'
      BY <1>2, <1>3, <1>4, <1>5, <1>6, <2>5, <3>1 DEF At, Opens, M
    <3> QED
      BY <1>1, <1>2, <2>5, <3>2 DEF Place, Choosing, Versions
  <2> QED
    BY <2>1, <2>2, <2>3, <2>4, <2>5
<1>8. Kinds' /\ Known'
  BY <1>1, <1>2, <1>3, <1>5 DEF Kinds, Known, Choice, Ours, Opens
<1>9. Guarded'
  <2>1. spc' \in {"gone", "answer", "choice"} /\ (penalised => spc' = "gone")
    BY <1>3, <1>6 DEF Kinds
  <2>2. setup.tls = "require" => spc' # "answer"
    BY <1>3, <1>6 DEF Kinds
  <2>3. cpc \notin {"challenge", "dh", "result", "init", "live"}
    BY <1>5 DEF Opens
  <2> QED
    BY <1>1, <1>2, <2>1, <2>2, <2>3 DEF Guarded, KnownOnly, NoGuess, Ours
<1> QED
  BY <1>7, <1>8, <1>9

LEMMA ChosenStep ==
  ASSUME IInv, Chosen
  PROVE  IInv'
<1> USE DEF IInv
<1>1. /\ At(Entry(chosen), "choice", Greeting(chosen), <<>>)
      /\ chosen \in Types /\ (setup.ourClient => chosen \in Offered)
      /\ speak \in {7, 8} /\ ~ctls /\ ~stls /\ Ours /\ spc = "choice"
  BY ServerPlace DEF Chosen, Server
<1>2. UNCHANGED <<setup, cpc, speak, chosen, ctls, stls, penalised, old>>
  BY DEF Chosen, ServerDoes
<1>3. Offered = Offer /\ Offer \subseteq {VncAuth, VeNCrypt} /\ ~old
  BY <1>1 DEF Offered, Offer, Known, Kinds
<1>4. Greeting(chosen) = <<M("choose", chosen)>>
  <2>1. chosen \in Offered => chosen # None
    BY <1>3 DEF None, VncAuth, VeNCrypt
  <2>2. chosen \in Offered => Hello(chosen) = <<>>
    BY <2>1 DEF Hello
  <2> QED
    BY <2>2, Queues DEF Greeting
<1>5. Head(c2s).v = chosen /\ Tail(c2s) = <<>> /\ s2c = <<>> /\ cpc = Entry(chosen)
  BY <1>1, <1>4, Queues, Messages DEF At
<1>6. CASE chosen = VeNCrypt /\ setup.tls # "off"
  <2>1. ServerDoes("venversion", <<M("venversion", 2)>>)
    BY <1>5, <1>6 DEF Chosen, VncAuth, VeNCrypt
  <2>2. chosen \in Offered
    BY <1>3, <1>6 DEF Offer
  <2>3. At("venversion", "venversion", <<>>, <<M("venversion", 2)>>)'
    BY <1>2, <1>5, <1>6, <2>1, <2>2, Queues DEF At, ServerDoes, Entry
  <2>4. Place'
    BY <1>1, <1>2, <2>3 DEF Place, Securing, Ours
  <2>5. Kinds' /\ Known' /\ Guarded'
    BY <1>1, <1>2, <2>3 DEF Kinds, Known, Choice, Guarded, KnownOnly, NoGuess, Ours, At
  <2> QED
    BY <2>4, <2>5
<1>7. CASE chosen = VncAuth /\ setup.tls # "require"
  <2>1. ServerDoes("answer", <<M("challenge", 0)>>)
    BY <1>5, <1>7 DEF Chosen, VncAuth, VeNCrypt
  <2>2. chosen \in Offered
    BY <1>3, <1>7 DEF Offer
  <2>3. Entry(chosen) \in {"gone", "challenge"}
    BY <1>7, <2>2 DEF Entry, Waits, VncAuth, VeNCrypt, None
  <2>4. c2s' = <<>> /\ s2c' = <<M("challenge", 0)>> /\ spc' = "answer" /\ cpc' \in {"gone", "challenge"}
    BY <1>2, <1>5, <2>1, <2>3, Queues DEF ServerDoes
  <2>5. Place'
    BY <1>1, <1>2, <2>4 DEF Place, Answering, Left, At, Versions
  <2>6. Kinds' /\ Known' /\ Guarded'
    BY <1>1, <1>2, <1>5, <1>7, <2>4 DEF Kinds, Known, Choice, Guarded, KnownOnly, NoGuess, Ours
  <2> QED
    BY <2>5, <2>6
<1>8. CASE ~(chosen = VeNCrypt /\ setup.tls # "off") /\ ~(chosen = VncAuth /\ setup.tls # "require")
  <2>1. ServerDoes("gone", Refuse)
    BY <1>5, <1>8 DEF Chosen
  <2>2. chosen \notin Offered
    BY <1>3, <1>8 DEF Offer
  <2>3. Refuse = <<M("result", 1), M("reason", 0)>>
    BY <1>3, Queues DEF Refuse
  <2>4. At("result", "gone", <<>>, <<M("result", 1), M("reason", 0)>>)'
    BY <1>2, <1>5, <2>1, <2>2, <2>3, Queues DEF At, ServerDoes, Entry
  <2>5. Place'
    BY <1>1, <1>2, <2>4 DEF Place, Refused, Versions
  <2>6. Kinds' /\ Known' /\ Guarded'
    BY <1>1, <1>2, <1>5, <2>4 DEF Kinds, Known, Choice, Guarded, KnownOnly, NoGuess, Ours, At
  <2> QED
    BY <2>5, <2>6
<1> QED
  BY <1>6, <1>7, <1>8
LEMMA TheirVenStep ==
  ASSUME IInv, TheirVersion \/ Subtype
  PROVE  IInv'
<1> USE DEF IInv
<1>1. /\ UNCHANGED <<setup, cpc, speak, chosen, ctls, stls, penalised, old>>
      /\ spc \in {"venversion", "sub"} /\ spc' \in {"sub", "tls", "gone"} /\ c2s # <<>>
  BY DEF TheirVersion, Subtype, ServerDoes, Server
<1>2. Ours /\ speak \in {7, 8} /\ ~ctls /\ ~stls
  BY <1>1, ServerPlace
<1>3. cpc \in {"venok", "subok"}
  BY <1>1, ServerPlace DEF At
<1>4. Kinds' /\ Known'
  BY <1>1, <1>2, <1>3 DEF Kinds, Known, Choice, Ours
<1>5. Guarded'
  BY <1>1, <1>2, <1>3 DEF Guarded, KnownOnly, NoGuess, Ours
<1>6. CASE TheirVersion
  <2>1. PICK v \in {1, 2} : At("venok", "venversion", <<M("venversion", v)>>, <<>>)
    BY <1>6, ServerPlace DEF TheirVersion, Server
  <2>2. Head(c2s).v = v /\ Tail(c2s) = <<>> /\ s2c = <<>>
    BY <2>1, Queues, Messages DEF At
  <2>3. CASE v = 2
    <3>1. ServerDoes("sub", <<M("venok", 0)>>)
      BY <1>6, <2>2, <2>3 DEF TheirVersion
    <3>2. At("venok", "sub", <<>>, <<M("venok", 0)>>)'
      BY <1>1, <2>1, <2>2, <3>1, Queues DEF At, ServerDoes
    <3> QED
      BY <1>1, <1>2, <1>4, <1>5, <3>2 DEF Place, Securing, Ours
  <2>4. CASE v = 1
    <3>1. ServerDoes("gone", <<M("venok", 1)>>)
      BY <1>6, <2>2, <2>4 DEF TheirVersion
    <3>2. At("venok", "gone", <<>>, <<M("venok", 1)>>)'
      BY <1>1, <2>1, <2>2, <3>1, Queues DEF At, ServerDoes
    <3> QED
      BY <1>1, <1>2, <1>4, <1>5, <3>2 DEF Place, Securing, Ours
  <2> QED
    BY <2>3, <2>4
<1>7. CASE Subtype
  <2>1. PICK v \in {260, 261} : At("subok", "sub", <<M("sub", v)>>, <<>>)
    BY <1>7, ServerPlace DEF Subtype, Server
  <2>2. Head(c2s).v = v /\ Tail(c2s) = <<>> /\ s2c = <<>>
    BY <2>1, Queues, Messages DEF At
  <2>3. CASE v = 261
    <3>1. ServerDoes("tls", <<M("subok", 1)>>)
      BY <1>7, <2>2, <2>3 DEF Subtype
    <3>2. At("subok", "tls", <<>>, <<M("subok", 1)>>)'
      BY <1>1, <2>1, <2>2, <3>1, Queues DEF At, ServerDoes
    <3> QED
      BY <1>1, <1>2, <1>4, <1>5, <3>2 DEF Place, Securing, Ours
  <2>4. CASE v = 260
    <3>1. ServerDoes("gone", <<M("subok", 0)>>)
      BY <1>7, <2>2, <2>4 DEF Subtype
    <3>2. At("subok", "gone", <<>>, <<M("subok", 0)>>)'
      BY <1>1, <2>1, <2>2, <3>1, Queues DEF At, ServerDoes
    <3> QED
      BY <1>1, <1>2, <1>4, <1>5, <3>2 DEF Place, Securing, Ours
  <2> QED
    BY <2>3, <2>4
<1> QED
  BY <1>6, <1>7

LEMMA SecuredStep ==
  ASSUME IInv, Secured
  PROVE  IInv'
<1> USE DEF IInv
<1>1. /\ At("tls", "tls", <<M("hello", 0)>>, <<>>) /\ Ours /\ speak \in {7, 8} /\ ~ctls
      /\ spc = "tls"
  BY ServerPlace DEF Secured, Server
<1>2. /\ UNCHANGED <<setup, cpc, speak, chosen, ctls, penalised, old>> /\ stls' = TRUE
      /\ At("tls", "answer", <<>>, <<M("certificate", 0), M("challenge", 0)>>)'
  <2>1. Tail(c2s) = <<>> /\ s2c = <<>> /\ cpc = "tls"
    BY <1>1, Queues DEF At
  <2> QED
    BY <2>1, Queues DEF Secured, ServerDoes, At
<1>3. Place'
  BY <1>1, <1>2 DEF Place, HalfSecured, Ours
<1>4. Kinds' /\ Known' /\ Guarded'
  BY <1>1, <1>2 DEF Kinds, Known, Choice, Guarded, KnownOnly, NoGuess, Ours, At
<1> QED
  BY <1>3, <1>4

LEMMA AnsweredStep ==
  ASSUME IInv, Answered
  PROVE  IInv'
<1> USE DEF IInv
<1>1. /\ At("result", "answer", <<M("answer", setup.password)>>, <<>>)
      /\ (ctls <=> stls) /\ speak \in Versions /\ Ours /\ spc = "answer"
  BY ServerPlace DEF Answered, Server
<1>2. /\ UNCHANGED <<setup, cpc, speak, chosen, ctls, stls, old>> /\ penalised' \in BOOLEAN
      /\ c2s' = <<>> /\ cpc = "result"
      /\ \/ setup.password = "right" /\ spc' = "init" /\ s2c' = <<M("result", 0)>>
         \/ spc' = "gone" /\ s2c' = Refuse
  <2>1. /\ Head(c2s).v = setup.password /\ Tail(c2s) = <<>> /\ s2c = <<>> /\ cpc = "result"
    BY <1>1, Queues, Messages DEF At
  <2>2. <<>> \o Refuse = Refuse /\ <<>> \o <<M("result", 0)>> = <<M("result", 0)>>
    <3>1. Refuse = <<M("result", 1)>> \/ Refuse = <<M("result", 1), M("reason", 0)>>
      BY Queues DEF Refuse
    <3> QED
      BY <3>1, Queues
  <2>3. /\ UNCHANGED <<setup, cpc, speak, chosen, ctls, stls, old>> /\ penalised' \in BOOLEAN
    BY DEF Answered, ServerDoes
  <2> QED
    BY <2>1, <2>2, <2>3 DEF Answered, ServerDoes
<1>3. Kinds' /\ Known'
  BY <1>1, <1>2 DEF Kinds, Known, Choice, Ours
<1>4. Guarded'
  BY <1>1, <1>2 DEF Guarded, KnownOnly, NoGuess, Ours
<1>5. CASE setup.password = "right" /\ spc' = "init" /\ s2c' = <<M("result", 0)>>
  <2>1. At("result", "init", <<>>, <<M("result", 0)>>)'
    BY <1>2, <1>5 DEF At
  <2> QED
    BY <1>1, <1>2, <1>3, <1>4, <1>5, <2>1 DEF Place, Beginning
<1>6. CASE spc' = "gone" /\ s2c' = Refuse
  <2>1. /\ old => speak = 3 /\ Refuse = <<M("result", 1)>>
        /\ ~old => Refuse = <<M("result", 1), M("reason", 0)>>
    BY <1>1, Queues DEF Refuse, Known
  <2>2. CASE old
    <3>1. At("result", "gone", <<>>, <<M("result", 1)>>)' /\ speak # 8
      BY <1>2, <1>6, <2>1, <2>2 DEF At
    <3> QED
      BY <1>1, <1>2, <1>3, <1>4, <3>1 DEF Place, Refused
  <2>3. CASE ~old
    <3>1. At("result", "gone", <<>>, <<M("result", 1), M("reason", 0)>>)'
      BY <1>2, <1>6, <2>1, <2>3 DEF At
    <3> QED
      BY <1>1, <1>2, <1>3, <1>4, <3>1 DEF Place, Refused
  <2> QED
    BY <2>2, <2>3
<1> QED
  BY <1>2, <1>5, <1>6

LEMMA SessionSteps ==
  ASSUME IInv, Begin \/ Live \/ ServerEof
  PROVE  IInv'
<1> USE DEF IInv
<1>1. UNCHANGED <<setup, cpc, speak, chosen, ctls, stls, penalised, old>>
  BY DEF Begin, Live, ServerEof, ServerDoes
<1>2. CASE Begin
  <2>1. /\ At("init", "init", <<M("clientInit", 0)>>, <<>>)
        /\ (ctls <=> stls) /\ (setup.password = "right" \/ chosen = None)
    BY <1>2, ServerPlace DEF Begin, Server
  <2>2. At("init", "live", <<>>, <<M("serverInit", 0)>>)'
    BY <1>1, <1>2, <2>1, Queues DEF Begin, ServerDoes, At
  <2>3. Place'
    BY <1>1, <2>1, <2>2 DEF Place, Beginning
  <2> QED
    BY <1>1, <2>1, <2>2, <2>3 DEF Kinds, Known, Choice, Guarded, KnownOnly, NoGuess, Ours, At
<1>3. CASE Live
  <2>1. /\ \/ At("live", "live", <<M("format", 0), M("encodings", 0)>>, <<>>)
           \/ At("live", "live", <<M("encodings", 0)>>, <<>>)
        /\ (ctls <=> stls) /\ (setup.password = "right" \/ chosen = None)
    BY <1>3, ServerPlace DEF Live
  <2>2. \/ At("live", "live", <<M("encodings", 0)>>, <<>>)'
        \/ At("live", "live", <<>>, <<>>)'
    BY <1>1, <1>3, <2>1, Queues DEF Live, ServerDoes, At
  <2>3. Place'
    BY <1>1, <2>1, <2>2 DEF Place, Beginning
  <2> QED
    BY <1>1, <2>1, <2>2, <2>3 DEF Kinds, Known, Choice, Guarded, KnownOnly, NoGuess, Ours, At
<1>4. CASE ServerEof
  <2>1. /\ spc # "gone" /\ c2s = <<>> /\ cpc = "gone" /\ spc' = "gone"
        /\ UNCHANGED <<c2s, s2c>>
    BY <1>4 DEF ServerEof
  <2>2. Left
    BY <2>1, EntryIs DEF Place, Opening, Stating, Choosing, Securing, HalfSecured, Answering,
                         Refused, Beginning, At, Opens
  <2>3. Left'
    BY <1>1, <2>1, <2>2 DEF Left, At
  <2>4. Place'
    BY <2>3 DEF Place
  <2>5. Known'
    BY <1>1, <2>1, <2>2 DEF Known, Choice, Ours, Left, At
  <2> QED
    BY <1>1, <2>1, <2>4, <2>5 DEF Kinds, Guarded, KnownOnly, NoGuess, Ours
<1> QED
  BY <1>2, <1>3, <1>4

(* What a server that is not vncfree's speaks is what our client chose.    *)
LEMMA SpokenIs ==
  ASSUME IInv, ~Ours, cpc # "version"
  PROVE  Spoken = speak /\ speak \in Versions /\ Offered = setup.types
<1> USE DEF IInv
<1>1. setup.ourClient /\ setup.announced \in Announced /\ speak \in Choice(setup.announced)
  BY Meeting DEF Ours, Known
<1>2. speak = IF setup.announced < 7 THEN 3 ELSE IF setup.announced = 7 THEN 7 ELSE 8
  BY <1>1 DEF Choice
<1> QED
  BY <1>1, <1>2 DEF Spoken, Announced, Versions, Offered

LEMMA StandardStep ==
  ASSUME IInv, Standard
  PROVE  IInv'
<1> USE DEF IInv
<1>1. /\ UNCHANGED <<setup, cpc, speak, chosen, ctls, stls, penalised, old>> /\ ~Ours
      /\ c2s # <<>> /\ spc \in {"version", "choice", "answer"} /\ setup.ourClient
  BY Meeting DEF Standard, ServerDoes, Server, Ours
<1>2. cpc # "version" /\ s2c = <<>>
  BY <1>1, ServerPlace, EntryIs DEF At, Opens
<1>3. Spoken = speak /\ speak \in Versions /\ Offered = setup.types
  BY <1>1, <1>2, SpokenIs
<1>4. Kinds' /\ Known' /\ Guarded'
  BY <1>1, <1>2 DEF Kinds, Known, Choice, Guarded, KnownOnly, NoGuess, Ours
<1>5. CASE Server("version", "version")
  <2>1. /\ At(Opens, "version", <<M("version", speak)>>, <<>>) /\ ~ctls /\ ~stls
        /\ spc = "version" /\ Tail(c2s) = <<>>
    <3>1. At(Opens, "version", <<M("version", speak)>>, <<>>) /\ ~ctls /\ ~stls
          /\ spc = "version"
      BY <1>5, ServerPlace DEF Server
    <3> QED
      BY <3>1, Queues DEF At
  <2>2. CASE speak = 3
    <3>1. PICK t \in setup.types \cap {None, VncAuth} :
             ServerDoes(IF t = None THEN "init" ELSE "answer",
                        <<M("stated", t)>> \o IF t = None THEN <<>> ELSE <<M("challenge", 0)>>)
      BY <1>3, <2>1, <2>2 DEF Standard, Server
    <3>2. \/ At("stated", "init", <<>>, <<M("stated", None)>>)'
          \/ At("stated", "answer", <<>>, <<M("stated", VncAuth), M("challenge", 0)>>)'
      <4>1. CASE t = None
        BY <1>1, <2>1, <2>2, <3>1, <4>1, Queues DEF At, ServerDoes, Opens
      <4>2. CASE t = VncAuth
        BY <1>1, <2>1, <2>2, <3>1, <4>2, Queues DEF At, ServerDoes, Opens, None, VncAuth
      <4> QED
        BY <4>1, <4>2
    <3> QED
      BY <1>1, <1>4, <2>1, <2>2, <3>2 DEF Place, Stating
  <2>3. CASE speak # 3
    <3>1. ServerDoes("choice", <<M("types", Offered)>>)
      BY <1>3, <2>1, <2>3 DEF Standard, Server
    <3>2. Offered' = Offered
      BY <1>1 DEF Offered, Offer, Ours
    <3>3. At("types", "choice", <<>>, <<M("types", Offered)>>)'
      BY <1>1, <2>1, <2>3, <3>1, <3>2, Queues DEF At, ServerDoes, Opens, M
    <3> QED
      BY <1>1, <1>3, <1>4, <2>1, <2>3, <3>3 DEF Place, Choosing, Versions
  <2> QED
    BY <2>2, <2>3
<1>6. CASE Server("choice", "choose")
  <2>1. /\ At(Entry(chosen), "choice", Greeting(chosen), <<>>) /\ chosen \in setup.types
        /\ speak \in {7, 8} /\ ~ctls /\ ~stls /\ spc = "choice"
        /\ chosen \in {None, VncAuth, AppleDh}
    BY <1>1, <1>3, <1>6, Meeting, ServerPlace DEF Server
  <2>2. /\ chosen \in Offered /\ cpc = Waits(chosen) /\ c2s = Greeting(chosen)
        /\ Greeting(chosen) = <<M("choose", chosen)>> \o Hello(chosen)
    BY <1>3, <2>1 DEF At, Entry, Greeting, None, VncAuth, AppleDh, VeNCrypt
  <2>3. CASE chosen = None
    <3>1. CASE speak = 7
      <4>1. Waits(chosen) = "init" /\ Hello(chosen) = <<M("clientInit", 0)>>
        BY <2>3, <3>1 DEF Waits, Hello
      <4>2. c2s = <<M("choose", None), M("clientInit", 0)>> /\ Head(c2s).v = None
        BY <2>2, <2>3, <4>1, Queues, Messages
      <4>3. ServerDoes("init", <<>>)
        BY <1>3, <2>1, <3>1, <4>2 DEF Standard, Server
      <4>4. At("init", "init", <<M("clientInit", 0)>>, <<>>)'
        BY <1>1, <1>2, <2>2, <4>1, <4>2, <4>3, Queues DEF At, ServerDoes
      <4> QED
        BY <1>1, <1>4, <2>1, <2>3, <4>4 DEF Place, Beginning
    <3>2. CASE speak = 8
      <4>1. Waits(chosen) = "result" /\ Hello(chosen) = <<>>
        BY <2>3, <3>2 DEF Waits, Hello
      <4>2. c2s = <<M("choose", None)>> /\ Head(c2s).v = None
        BY <2>2, <2>3, <4>1, Queues, Messages
      <4>3. ServerDoes("init", <<M("result", 0)>>)
        BY <1>3, <2>1, <3>2, <4>2 DEF Standard, Server
      <4>4. At("result", "init", <<>>, <<M("result", 0)>>)'
        BY <1>1, <1>2, <2>2, <4>1, <4>2, <4>3, Queues DEF At, ServerDoes
      <4> QED
        BY <1>1, <1>4, <2>1, <2>3, <4>4 DEF Place, Beginning
    <3> QED
      BY <2>1, <3>1, <3>2
  <2>4. CASE chosen # None
    <3>1. Hello(chosen) = <<>>
      BY <2>4 DEF Hello
    <3>2. c2s = <<M("choose", chosen)>> /\ Head(c2s).v = chosen
      BY <2>2, <3>1, Queues, Messages
    <3>3. ServerDoes("answer", <<M(IF chosen = AppleDh THEN "dhparams" ELSE "challenge", 0)>>)
      BY <2>1, <2>4, <3>2 DEF Standard, Server
    <3>4. /\ spc' = "answer" /\ c2s' = <<>> /\ cpc' = Waits(chosen)
          /\ s2c' = <<M(IF chosen = AppleDh THEN "dhparams" ELSE "challenge", 0)>>
      BY <1>1, <1>2, <2>2, <3>2, <3>3, Queues DEF ServerDoes
    <3>5. CASE chosen = VncAuth
      <4>1. Waits(chosen) \in {"gone", "challenge"} /\ s2c' = <<M("challenge", 0)>>
        BY <2>4, <3>4, <3>5 DEF Waits, VncAuth, AppleDh
      <4> QED
        BY <1>1, <1>3, <1>4, <2>1, <3>4, <4>1 DEF Place, Answering, Left, At
    <3>6. CASE chosen = AppleDh
      <4>1. Waits(chosen) \in {"gone", "dh"} /\ s2c' = <<M("dhparams", 0)>>
        BY <2>4, <3>4, <3>6 DEF Waits, VncAuth, AppleDh
      <4> QED
        BY <1>1, <1>3, <1>4, <2>1, <3>4, <4>1 DEF Place, Answering, Left, At
    <3> QED
      BY <2>1, <2>4, <3>5, <3>6
  <2> QED
    BY <2>3, <2>4
<1>7. CASE Server("answer", "answer")
  <2>1. /\ At("result", "answer", <<M("answer", setup.password)>>, <<>>)
        /\ (ctls <=> stls) /\ spc = "answer"
    BY <1>7, ServerPlace DEF Server
  <2>2. Head(c2s).v = setup.password /\ Tail(c2s) = <<>>
    BY <2>1, Queues, Messages DEF At
  <2>3. CASE setup.password = "right"
    <3>1. ServerDoes("init", <<M("result", 0)>>)
      BY <2>1, <2>2, <2>3 DEF Standard, Server
    <3>2. At("result", "init", <<>>, <<M("result", 0)>>)'
      BY <1>1, <1>2, <2>1, <2>2, <3>1, Queues DEF At, ServerDoes
    <3> QED
      BY <1>1, <1>4, <2>1, <2>3, <3>2 DEF Place, Beginning
  <2>4. CASE setup.password # "right"
    <3>1. ServerDoes("gone", <<M("result", 1)>> \o IF speak >= 8 THEN <<M("reason", 0)>> ELSE <<>>)
      BY <1>3, <2>1, <2>2, <2>4 DEF Standard, Server
    <3>2. \/ At("result", "gone", <<>>, <<M("result", 1)>>)' /\ speak # 8
          \/ At("result", "gone", <<>>, <<M("result", 1), M("reason", 0)>>)'
      <4>1. CASE speak >= 8
        BY <1>1, <1>2, <2>1, <2>2, <3>1, <4>1, Queues DEF At, ServerDoes
      <4>2. CASE ~(speak >= 8)
        BY <1>1, <1>2, <1>3, <2>1, <2>2, <3>1, <4>2, Queues DEF At, ServerDoes
      <4> QED
        BY <4>1, <4>2
    <3> QED
      BY <1>1, <1>3, <1>4, <3>2 DEF Place, Refused
  <2> QED
    BY <2>3, <2>4
<1> QED
  BY <1>5, <1>6, <1>7 DEF Standard

LEMMA NextInv == IInv /\ [Next]_vars => IInv'
<1> SUFFICES ASSUME IInv, [Next]_vars PROVE IInv'
  OBVIOUS
<1>1. CASE Connect
  BY <1>1, ClientStep
<1>2. CASE Serve
  BY <1>2, AnnounceStep, SecurityStep, ChosenStep, TheirVenStep, SecuredStep, AnsweredStep,
     SessionSteps, StandardStep DEF Serve
<1>3. CASE UNCHANGED vars
  <2>1. UNCHANGED <<setup, cpc, spc, speak, chosen, old, ctls, stls, penalised, c2s, s2c>>
    BY <1>3 DEF vars
  <2>2. Kinds' /\ Known' /\ Guarded'
    BY <2>1 DEF IInv, Kinds, Known, Choice, Guarded, KnownOnly, NoGuess, Ours
  <2>3. Place'
    BY <2>1 DEF IInv, Place, Opening, Stating, Choosing, Securing, HalfSecured, Answering, Refused,
                Beginning, Left, At, Opens, Offered, Offer, Entry, Greeting, Waits, Hello, Ours, Choice
  <2> QED
    BY <2>2, <2>3 DEF IInv
<1> QED
  BY <1>1, <1>2, <1>3 DEF Next

LEMMA Invariance == Spec => []IInv
BY InitInv, NextInv, PTL DEF Spec
----------------------------------------------------------------------------
(* What follows for the messages in the stream.                            *)

LEMMA ClientHeads ==
  ASSUME IInv, s2c # <<>>, cpc \in DOMAIN ClientReads
  PROVE  Head(s2c).type \in ClientReads[cpc]
<1> USE DEF IInv
<1>1. cpc \in {"version", "stated", "types", "reason", "venversion", "venok", "subok", "tls",
               "challenge", "dh", "result", "init"}
  BY DEF ClientReads
<1>2. \A m, n : /\ s2c = <<m>> => Head(s2c) = m
                /\ s2c = <<m, n>> => Head(s2c) = m
  BY Queues
<1>3. CASE cpc = "version"
  BY <1>2, <1>3, ClientPlace, Messages DEF At, ClientReads
<1>4. CASE cpc = "stated"
  BY <1>2, <1>4, ClientPlace, Messages DEF Stating, At, ClientReads
<1>5. CASE cpc = "types"
  <2>1. Head(s2c).type = "types"
    <3>1. Head(s2c) = M("types", Offered) \/ Head(s2c) = M("types", {})
      BY <1>2, <1>5, ClientPlace DEF At
    <3> QED
      BY <3>1, Messages
  <2> QED
    BY <1>5, <2>1 DEF ClientReads
<1>6. CASE cpc = "reason"
  BY <1>2, <1>6, ClientPlace, Messages DEF At, ClientReads
<1>7. CASE cpc \in {"venversion", "venok", "subok"}
  BY <1>2, <1>7, ClientPlace, Messages DEF At, ClientReads
<1>8. CASE cpc = "tls"
  BY <1>2, <1>8, ClientPlace, Messages DEF HalfSecured, At, ClientReads
<1>9. CASE cpc \in {"challenge", "dh"}
  BY <1>2, <1>9, ClientPlace, Messages DEF Answering, At, ClientReads
<1>10. CASE cpc = "result"
  BY <1>2, <1>10, ClientPlace, Messages DEF Refused, At, ClientReads
<1>11. CASE cpc = "init"
  BY <1>2, <1>11, ClientPlace, Messages DEF At, ClientReads
<1> QED
  BY <1>1, <1>3, <1>4, <1>5, <1>6, <1>7, <1>8, <1>9, <1>10, <1>11

LEMMA ServerHeads ==
  ASSUME IInv, c2s # <<>>, spc \in DOMAIN ServerReads
  PROVE  Head(c2s).type \in ServerReads[spc]
<1> USE DEF IInv
<1>1. spc \in {"start", "version", "choice", "venversion", "sub", "tls", "answer", "init"}
  BY DEF ServerReads
<1>2. \A m, n : /\ c2s = <<m>> => Head(c2s) = m
                /\ c2s = <<m, n>> => Head(c2s) = m
  BY Queues
<1>3. CASE spc = "start"
  BY <1>3, ServerPlace
<1>4. CASE spc = "version"
  BY <1>2, <1>4, ServerPlace, Messages DEF At, ServerReads
<1>5. CASE spc = "choice"
  <2>1. Head(c2s).type = "choose"
    <3>1. c2s = Greeting(chosen)
      BY <1>5, ServerPlace DEF At
    <3>2. Head(c2s) = M("choose", chosen)
      BY <1>2, <3>1, GreetingIs
    <3> QED
      BY <3>2, Messages
  <2> QED
    BY <1>5, <2>1 DEF ServerReads
<1>6. CASE spc \in {"venversion", "sub", "tls"}
  BY <1>2, <1>6, ServerPlace, Messages DEF At, ServerReads
<1>7. CASE spc \in {"answer", "init"}
  BY <1>2, <1>7, ServerPlace, Messages DEF At, ServerReads
<1> QED
  BY <1>1, <1>3, <1>4, <1>5, <1>6, <1>7

LEMMA InStepIs == IInv => InStep
BY ClientHeads, ServerHeads DEF InStep

LEMMA AgreeIs == IInv => Agree
<1> SUFFICES ASSUME IInv, cpc = "live", spc = "live"
             PROVE  ctls = stls /\ (setup.password = "right" \/ chosen = None)
  BY DEF Agree
<1>1. (ctls <=> stls) /\ (setup.password = "right" \/ chosen = None)
  BY EntryIs DEF IInv, Place, Opening, Stating, Choosing, Securing, HalfSecured, Answering,
                 Refused, Beginning, Left, At, Opens
<1>2. ctls \in BOOLEAN /\ stls \in BOOLEAN
  BY DEF IInv, Kinds
<1> QED
  BY <1>1, <1>2

(* The messages each side may ever find.                                   *)
FromServer == {"version", "stated", "types", "reason", "venversion", "venok", "subok",
               "certificate", "challenge", "dhparams", "result", "serverInit"}
FromClient == {"version", "choose", "venversion", "sub", "hello", "answer", "clientInit",
               "format", "encodings"}

LEMMA Found ==
  /\ FromServer = UNION {ClientReads[p] : p \in DOMAIN ClientReads}
  /\ FromClient = (UNION {ServerReads[p] : p \in DOMAIN ServerReads}) \cup {"format", "encodings"}
  /\ DOMAIN ClientReads = {"version", "stated", "types", "reason", "venversion", "venok", "subok",
                           "tls", "challenge", "dh", "result", "init"}
  /\ DOMAIN ServerReads = {"start", "version", "choice", "venversion", "sub", "tls", "answer",
                           "init"}
<1>1. /\ DOMAIN ClientReads = {"version", "stated", "types", "reason", "venversion", "venok",
                               "subok", "tls", "challenge", "dh", "result", "init"}
      /\ DOMAIN ServerReads = {"start", "version", "choice", "venversion", "sub", "tls",
                               "answer", "init"}
  BY DEF ClientReads, ServerReads
<1>2. FromServer = UNION {ClientReads[p] : p \in DOMAIN ClientReads}
  <2>1. ASSUME NEW p \in DOMAIN ClientReads PROVE ClientReads[p] \subseteq FromServer
    BY <1>1 DEF ClientReads, FromServer
  <2>2. ASSUME NEW x \in FromServer PROVE \E p \in DOMAIN ClientReads : x \in ClientReads[p]
    <3>1. CASE x = "certificate"
      BY <3>1 DEF ClientReads
    <3>2. CASE x = "dhparams"
      BY <3>2 DEF ClientReads
    <3>3. CASE x = "serverInit"
      BY <3>3 DEF ClientReads
    <3>4. CASE x \notin {"certificate", "dhparams", "serverInit"}
      <4>1. x \in DOMAIN ClientReads /\ x \in ClientReads[x]
        BY <1>1, <3>4 DEF ClientReads, FromServer
      <4> QED
        BY <4>1
    <3> QED
      BY <3>1, <3>2, <3>3, <3>4
  <2> QED
    BY <2>1, <2>2
<1>3. FromClient = (UNION {ServerReads[p] : p \in DOMAIN ServerReads}) \cup {"format", "encodings"}
  <2>1. ASSUME NEW p \in DOMAIN ServerReads PROVE ServerReads[p] \subseteq FromClient
    BY <1>1 DEF ServerReads, FromClient
  <2>2. ASSUME NEW x \in FromClient, x \notin {"format", "encodings"}
        PROVE  \E p \in DOMAIN ServerReads : x \in ServerReads[p]
    <3>1. CASE x = "choose"
      BY <3>1 DEF ServerReads
    <3>2. CASE x = "hello"
      BY <3>2 DEF ServerReads
    <3>3. CASE x = "clientInit"
      BY <3>3 DEF ServerReads
    <3>4. CASE x \notin {"choose", "hello", "clientInit"}
      <4>1. x \in DOMAIN ServerReads /\ x \in ServerReads[x]
        BY <1>1, <2>2, <3>4 DEF ServerReads, FromClient
      <4> QED
        BY <4>1
    <3> QED
      BY <3>1, <3>2, <3>3, <3>4
  <2>3. {"format", "encodings"} \subseteq FromClient
    BY DEF FromClient
  <2> QED
    BY <2>1, <2>2, <2>3
<1> QED
  BY <1>1, <1>2, <1>3

Few(q, T) == \/ q = <<>>
             \/ \E m : q = <<m>> /\ m.type \in T
             \/ \E m, n : q = <<m, n>> /\ m.type \in T /\ n.type \in T

LEMMA FewTyped ==
  ASSUME NEW q, NEW T, Few(q, T)
  PROVE  \A i \in DOMAIN q : q[i].type \in T
BY DEF Few

LEMMA TypingIs == IInv => TypeOK
<1> SUFFICES ASSUME IInv PROVE TypeOK
  OBVIOUS
<1> USE DEF IInv
<1>1. /\ Few(c2s, FromClient) /\ Few(s2c, FromServer)
      /\ cpc \in DOMAIN ClientReads \cup {"live", "gone"}
      /\ spc \in DOMAIN ServerReads \cup {"live", "gone"}
  <2> USE Messages, Found DEF At, Few, FromClient, FromServer
  <2>1. CASE Opening
    BY <2>1 DEF Opening, Opens
  <2>2. CASE Stating
    BY <2>2 DEF Stating
  <2>3. CASE Choosing
    <3>1. Few(Greeting(chosen), FromClient)
      BY GreetingIs
    <3>2. Few(<<M("types", Offered)>>, FromServer) /\ Few(<<M("types", {}), M("reason", 0)>>, FromServer)
      OBVIOUS
    <3>3. Few(<<>>, FromServer) /\ Few(<<>>, FromClient)
      OBVIOUS
    <3> HIDE DEF Few
    <3> QED
      BY <2>3, <3>1, <3>2, <3>3, EntryIs DEF Choosing
  <2>4. CASE Securing
    BY <2>4 DEF Securing
  <2>5. CASE HalfSecured
    BY <2>5 DEF HalfSecured
  <2>6. CASE Answering
    BY <2>6 DEF Answering
  <2>7. CASE Refused
    BY <2>7 DEF Refused
  <2>8. CASE Beginning
    BY <2>8 DEF Beginning
  <2>9. CASE Left
    BY <2>9 DEF Left
  <2> QED
    BY <2>1, <2>2, <2>3, <2>4, <2>5, <2>6, <2>7, <2>8, <2>9 DEF Place
<1>2. /\ \A i \in DOMAIN c2s : c2s[i].type \in FromClient
      /\ \A i \in DOMAIN s2c : s2c[i].type \in FromServer
  BY <1>1, FewTyped
<1> QED
  BY <1>1, <1>2, Found DEF TypeOK, Kinds

----------------------------------------------------------------------------
(* The theorems.                                                           *)

(* The two programs and the stream between them stay what they are said    *)
(* to be: Vnc::connect and serve send no message that is not theirs.       *)
THEOREM Typing == Spec => []TypeOK
BY TypingIs, Invariance, PTL

(* In RFB 3.3, 3.7 and 3.8, with every security type, against vncfree's    *)
(* own and any other peer, each side finds the message that it reads for:  *)
(* Vnc::connect and serve never send a word too many or too few.           *)
THEOREM StaysInStep == Spec => []InStep
BY InStepIs, Invariance, PTL

(* A session that starts is the same for both sides: in TLS at both ends   *)
(* or at neither, and only after the right password unless the server      *)
(* asked for none.                                                         *)
THEOREM SidesAgree == Spec => []Agree
BY AgreeIs, Invariance, PTL

(* Who requires TLS, at either end, never answers a challenge in the       *)
(* clear, and a changed certificate ends it before the password is used.   *)
THEOREM TlsKept == Spec => []Private
<1>1. IInv => Private
  BY DEF IInv, Guarded, Private, KnownOnly
<1> QED
  BY <1>1, Invariance, PTL

(* A peer that serves a penalty when it connects (Guard::check) is never   *)
(* sent a challenge, nor a list to choose from.                            *)
THEOREM NoSecondGuess == Spec => []NoGuess
<1>1. IInv => NoGuess
  BY DEF IInv, Guarded
<1> QED
  BY <1>1, Invariance, PTL
=============================================================================
