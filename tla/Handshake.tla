----------------------------- MODULE Handshake -----------------------------
(***************************************************************************)
(* How a session starts: Vnc::connect at the client, serve at the server,  *)
(* message by message up to ClientInit and ServerInit.  Both programs also *)
(* meet others: the client talks to servers of RFB 3.3, 3.7 and 3.8, the   *)
(* server to clients of these versions.  setup says who meets whom.        *)
(*                                                                         *)
(* Every read of the code is for a particular message.  A side that finds  *)
(* another one there has lost its place in the stream: no action of this   *)
(* module is enabled for it.                                               *)
(***************************************************************************)
EXTENDS Naturals, Sequences

CONSTANTS Setups     (* the meetings to consider, a set of records:        *)
  (* ourClient, ourServer   whether it is vncfree's                        *)
  (* announced   the version the server offers (vncfree's: 8)              *)
  (* types       what a server that is not ours offers                     *)
  (* tls         TlsMode of our server: "offer", "require" or "off"        *)
  (* wantTls     VNC_TLS=require at our client                             *)
  (* password    what the client has: "right", "wrong" or "none"           *)
  (* known       the certificate: "first", "same" or "changed"             *)
  (* penalised   the guard's record of the client's address                *)

Versions == {3, 7, 8}
Announced == {3, 5, 7, 8, 889}      (* 889 is what macOS says              *)
None == 1       VncAuth == 2       VeNCrypt == 19       AppleDh == 30
Types == {None, VncAuth, VeNCrypt, AppleDh}
SetupType == [ourClient : BOOLEAN, ourServer : BOOLEAN, announced : Announced,
              types : SUBSET {None, VncAuth, AppleDh},
              tls : {"offer", "require", "off"}, wantTls : BOOLEAN,
              password : {"right", "wrong", "none"},
              known : {"first", "same", "changed"}, penalised : BOOLEAN]

ASSUME HandshakeAssumption ==
  /\ Setups \subseteq SetupType
  /\ \A s \in Setups : s.ourServer => s.announced = 8
  /\ \A s \in Setups : s.ourClient \/ s.ourServer

VARIABLES
  setup,
  cpc, spc,       (* what each side reads next, or "live", or "gone"       *)
  speak,          (* the version the client chose                          *)
  chosen,         (* the security type                                     *)
  old,            (* serve: the client cannot negotiate                    *)
  ctls, stls,     (* each side reads and writes through TLS                *)
  penalised,      (* Guard's record of this address                        *)
  c2s, s2c        (* the two directions                                    *)

vars == <<setup, cpc, spc, speak, chosen, old, ctls, stls, penalised, c2s, s2c>>

M(type, v) == [type |-> type, v |-> v]

Init == /\ setup \in Setups
        /\ cpc = "version" /\ spc = "start"
        /\ speak = 0 /\ chosen = 0 /\ old = FALSE
        /\ ctls = FALSE /\ stls = FALSE
        /\ penalised = setup.penalised
        /\ c2s = <<>> /\ s2c = <<>>

----------------------------------------------------------------------------
(* The client: Vnc::connect.                                               *)

(* It is at pc and the next message is of this type.                       *)
Client(pc, type) == cpc = pc /\ s2c # <<>> /\ Head(s2c).type = type
ClientDoes(next, ms) == /\ s2c' = Tail(s2c) /\ c2s' = c2s \o ms /\ cpc' = next
                        /\ UNCHANGED <<setup, spc, old, stls, penalised>>

(* Mutant: 3.8 whatever was offered.                                       *)
Choice_latest(announced) == {8}

(* The reply may not exceed what the server announced; ours takes the      *)
(* highest of 3, 7, 8 that does not.                                       *)
Choice(announced) ==
  IF setup.ourClient
  THEN {IF announced < 7 THEN 3 ELSE IF announced = 7 THEN 7 ELSE 8}
  ELSE {v \in Versions : v <= announced}

Version == /\ Client("version", "version")
           /\ speak' \in Choice(Head(s2c).v)
           /\ ClientDoes(IF speak' = 3 THEN "stated" ELSE "types",
                         <<M("version", speak')>>)
           /\ UNCHANGED <<chosen, ctls>>

(* Mutant: VNC_TLS=require is not looked at.                               *)
Picks_anything(types) ==
  IF VeNCrypt \in types THEN {VeNCrypt} ELSE types \cap {None, VncAuth, AppleDh}

(* The security types it may go along with: VeNCrypt if there, nothing     *)
(* else when TLS is required, then None, VNC auth and Apple's.  A client   *)
(* that is not ours may take any, offered or not.                          *)
Picks(types) ==
  IF ~setup.ourClient THEN {None, VncAuth, VeNCrypt}
  ELSE IF VeNCrypt \in types THEN {VeNCrypt}
  ELSE IF setup.wantTls THEN {}
  ELSE IF None \in types THEN {None}
  ELSE IF VncAuth \in types THEN {VncAuth} ELSE types \cap {AppleDh}

(* Mutant: a SecurityResult is expected after None in every version.       *)
Waits_always(t) == IF t = None THEN "result"
                   ELSE IF setup.password = "none" THEN "gone"
                   ELSE IF t = VncAuth THEN "challenge" ELSE "dh"

(* What the client reads after a plain security type: before 3.8 None is   *)
(* followed by nothing; a password is needed for the others.               *)
Waits(t) == IF t = None THEN (IF speak >= 8 THEN "result" ELSE "init")
            ELSE IF setup.password = "none" THEN "gone"
            ELSE IF t = VncAuth THEN "challenge" ELSE "dh"
Hello(t) == IF t = None /\ Waits(t) = "init" THEN <<M("clientInit", 0)>> ELSE <<>>

(* 3.3: the server states the type in one word and takes no answer.        *)
Stated == /\ Client("stated", "stated")
          /\ LET t == Head(s2c).v IN
             \/ /\ t = 0
                /\ ClientDoes("reason", <<>>)
                /\ UNCHANGED chosen
             \/ /\ t # 0 /\ setup.ourClient /\ t \notin Picks({t})
                /\ ClientDoes("gone", <<>>)
                /\ UNCHANGED chosen
             \/ /\ t \in {None, VncAuth} /\ t \in Picks({t})
                /\ chosen' = t
                /\ ClientDoes(Waits(t), Hello(t))
          /\ UNCHANGED <<speak, ctls>>

(* 3.7 and later: a list, answered with one of it.                         *)
Listed == /\ Client("types", "types")
          /\ LET types == Head(s2c).v IN
             \/ /\ types = {}
                /\ ClientDoes("reason", <<>>)
                /\ UNCHANGED chosen
             \/ /\ types # {} /\ Picks(types) = {}
                /\ ClientDoes("gone", <<>>)
                /\ UNCHANGED chosen
             \/ /\ types # {}
                /\ \E t \in Picks(types) :
                     /\ chosen' = t
                     /\ ClientDoes(IF t \notin types THEN "result"
                                   ELSE IF t = VeNCrypt THEN "venversion" ELSE Waits(t),
                                   <<M("choose", t)>> \o IF t \in types THEN Hello(t) ELSE <<>>)
          /\ UNCHANGED <<speak, ctls>>

(* vencrypt: version, its acknowledgement with the list of subtypes, the   *)
(* acknowledgement of X509Vnc, the TLS handshake.                          *)
VenVersion == /\ Client("venversion", "venversion")
              /\ \/ ClientDoes("venok", <<M("venversion", 2)>>)
                 \/ ~setup.ourClient /\ ClientDoes("venok", <<M("venversion", 1)>>)
              /\ UNCHANGED <<speak, chosen, ctls>>
VenOk == /\ Client("venok", "venok")
         /\ IF Head(s2c).v = 0
            THEN \/ ClientDoes("subok", <<M("sub", 261)>>)
                 \/ ~setup.ourClient /\ ClientDoes("subok", <<M("sub", 260)>>)
            ELSE ClientDoes("gone", <<>>)
         /\ UNCHANGED <<speak, chosen, ctls>>
SubOk == /\ Client("subok", "subok")
         /\ IF Head(s2c).v = 1 THEN ClientDoes("tls", <<M("hello", 0)>>)
                               ELSE ClientDoes("gone", <<>>)
         /\ UNCHANGED <<speak, chosen, ctls>>

(* check_known: a changed certificate ends it before any password.         *)
Certificate ==
  /\ Client("tls", "certificate")
  /\ ctls' = TRUE /\ chosen' = VncAuth
  /\ ClientDoes(IF setup.ourClient /\ setup.known = "changed" THEN "gone"
                ELSE Waits(VncAuth), <<>>)
  /\ UNCHANGED speak

(* vnc_auth and apple_dh_auth.                                             *)
Challenged == /\ Client("challenge", "challenge") \/ Client("dh", "dhparams")
              /\ ClientDoes("result", <<M("answer", setup.password)>>)
              /\ UNCHANGED <<speak, chosen, ctls>>

(* SecurityResult; the reason for a refusal is read from 3.8 on.           *)
Result == /\ Client("result", "result")
          /\ IF Head(s2c).v = 0 THEN ClientDoes("init", <<M("clientInit", 0)>>)
             ELSE ClientDoes(IF speak >= 8 THEN "reason" ELSE "gone", <<>>)
          /\ UNCHANGED <<speak, chosen, ctls>>
Reason == /\ Client("reason", "reason")
          /\ ClientDoes("gone", <<>>)
          /\ UNCHANGED <<speak, chosen, ctls>>

(* ServerInit is answered with the pixel format and the encodings, and the *)
(* write half is published.                                                *)
Initialised == /\ Client("init", "serverInit")
               /\ ClientDoes("live", <<M("format", 0), M("encodings", 0)>>)
               /\ UNCHANGED <<speak, chosen, ctls>>

(* A read that finds the connection closed.                                *)
ClientEof == /\ cpc # "gone" /\ s2c = <<>> /\ spc = "gone"
             /\ cpc' = "gone"
             /\ UNCHANGED <<setup, spc, speak, chosen, old, ctls, stls, penalised, c2s, s2c>>

Connect == \/ Version \/ Stated \/ Listed \/ VenVersion \/ VenOk \/ SubOk
           \/ Certificate \/ Challenged \/ Result \/ Reason \/ Initialised \/ ClientEof

----------------------------------------------------------------------------
(* The server: serve, and what a server that is not ours does in its place *)

Server(pc, type) == spc = pc /\ c2s # <<>> /\ Head(c2s).type = type
ServerDoes(next, ms) == /\ c2s' = Tail(c2s) /\ s2c' = s2c \o ms /\ spc' = next
                        /\ UNCHANGED <<setup, cpc, speak, chosen, ctls>>
Ours == setup.ourServer

Announce == /\ spc = "start"
            /\ spc' = "version"
            /\ s2c' = <<M("version", setup.announced)>>
            /\ UNCHANGED <<setup, cpc, speak, chosen, old, ctls, stls, penalised, c2s>>

(* The security types our server offers.                                   *)
Offer == (IF setup.tls = "require" THEN {} ELSE {VncAuth})
           \cup (IF setup.tls = "off" THEN {} ELSE {VeNCrypt})

(* turn_away: refused with a reason where a type or a list is due.         *)
TurnAway(tooOld) == <<IF tooOld THEN M("stated", 0) ELSE M("types", {}), M("reason", 0)>>

(* Mutant: the guard is asked after the challenge went out.                *)
Security_late ==
  /\ Server("version", "version") /\ Ours
  /\ old' = (Head(c2s).v < 7)
  /\ CASE old' /\ setup.tls = "require" -> ServerDoes("gone", <<>>)
       [] old' /\ setup.tls # "require" ->
            ServerDoes("answer", <<M("stated", VncAuth), M("challenge", 0)>>)
       [] OTHER -> ServerDoes("choice", <<M("types", Offer)>>)
  /\ UNCHANGED <<stls, penalised>>

(* The client's version; the guard; 3.3 is told the type, the others get a *)
(* list.                                                                   *)
Security ==
  /\ Server("version", "version") /\ Ours
  /\ old' = (Head(c2s).v < 7)
  /\ CASE penalised -> ServerDoes("gone", TurnAway(old'))
       [] ~penalised /\ old' /\ setup.tls = "require" -> ServerDoes("gone", <<>>)
       [] ~penalised /\ old' /\ setup.tls # "require" ->
            ServerDoes("answer", <<M("stated", VncAuth), M("challenge", 0)>>)
       [] OTHER -> ServerDoes("choice", <<M("types", Offer)>>)
  /\ UNCHANGED <<stls, penalised>>

(* refuse: a failed SecurityResult, with a reason unless the client is old *)
Refuse == <<M("result", 1)>> \o IF old THEN <<>> ELSE <<M("reason", 0)>>

Chosen == /\ Server("choice", "choose") /\ Ours
          /\ LET t == Head(c2s).v IN
             CASE t = VeNCrypt /\ setup.tls # "off" ->
                    ServerDoes("venversion", <<M("venversion", 2)>>)
               [] t = VncAuth /\ setup.tls # "require" ->
                    ServerDoes("answer", <<M("challenge", 0)>>)
               [] OTHER -> ServerDoes("gone", Refuse)
          /\ UNCHANGED <<old, stls, penalised>>

(* vencrypt, the server's half.                                            *)
TheirVersion == /\ Server("venversion", "venversion")
                /\ IF Head(c2s).v >= 2 THEN ServerDoes("sub", <<M("venok", 0)>>)
                                       ELSE ServerDoes("gone", <<M("venok", 1)>>)
                /\ UNCHANGED <<old, stls, penalised>>
Subtype == /\ Server("sub", "sub")
           /\ IF Head(c2s).v = 261 THEN ServerDoes("tls", <<M("subok", 1)>>)
                                   ELSE ServerDoes("gone", <<M("subok", 0)>>)
           /\ UNCHANGED <<old, stls, penalised>>
Secured == /\ Server("tls", "hello")
           /\ stls' = TRUE
           /\ ServerDoes("answer", <<M("certificate", 0), M("challenge", 0)>>)
           /\ UNCHANGED <<old, penalised>>

(* Mutant: the answer is compared with what was expected of another.       *)
Answered_any == /\ Server("answer", "answer") /\ Ours
                /\ penalised' = FALSE
                /\ ServerDoes("init", <<M("result", 0)>>)
                /\ UNCHANGED <<old, stls>>

(* The password, and the guard's record of it.                             *)
Answered == /\ Server("answer", "answer") /\ Ours
            /\ IF Head(c2s).v = "right"
               THEN /\ penalised' = FALSE
                    /\ ServerDoes("init", <<M("result", 0)>>)
               ELSE /\ penalised' = TRUE
                    /\ ServerDoes("gone", Refuse)
            /\ UNCHANGED <<old, stls>>

Begin == /\ Server("init", "clientInit")
         /\ ServerDoes("live", <<M("serverInit", 0)>>)
         /\ UNCHANGED <<old, stls, penalised>>

(* The first messages of the session, which read_client handles.           *)
Live == /\ spc = "live" /\ c2s # <<>>
        /\ ServerDoes("live", <<>>)
        /\ UNCHANGED <<old, stls, penalised>>

ServerEof == /\ spc # "gone" /\ c2s = <<>> /\ cpc = "gone" 
             /\ spc' = "gone"
             /\ UNCHANGED <<setup, cpc, speak, chosen, old, ctls, stls, penalised, c2s, s2c>>

(* A server of RFB 3.3, 3.7 or 3.8 with None, VNC auth or Apple's          *)
(* authentication, as RFB has it and tests/old_servers.rs plays it.        *)
Spoken == IF setup.announced < 7 THEN 3 ELSE speak
Standard ==
  /\ ~Ours
  /\ \/ /\ Server("version", "version")
        /\ IF Spoken = 3
           THEN \E t \in setup.types \cap {None, VncAuth} :
                  ServerDoes(IF t = None THEN "init" ELSE "answer",
                             <<M("stated", t)>> \o IF t = None THEN <<>> ELSE <<M("challenge", 0)>>)
           ELSE ServerDoes("choice", <<M("types", setup.types)>>)
     \/ /\ Server("choice", "choose")
        /\ LET t == Head(c2s).v IN
           IF t = None
           THEN ServerDoes("init", IF Spoken >= 8 THEN <<M("result", 0)>> ELSE <<>>)
           ELSE ServerDoes("answer", <<M(IF t = AppleDh THEN "dhparams" ELSE "challenge", 0)>>)
     \/ /\ Server("answer", "answer")
        /\ IF Head(c2s).v = "right" THEN ServerDoes("init", <<M("result", 0)>>)
           ELSE ServerDoes("gone", <<M("result", 1)>> \o
                                    IF Spoken >= 8 THEN <<M("reason", 0)>> ELSE <<>>)
  /\ UNCHANGED <<old, stls, penalised>>

Serve == \/ Announce \/ Security \/ Chosen \/ TheirVersion \/ Subtype \/ Secured
         \/ Answered \/ Begin \/ Live \/ ServerEof \/ Standard

Next == Connect \/ Serve

Spec == Init /\ [][Next]_vars

(* Both programs run.                                                      *)
FairSpec == Spec /\ WF_vars(Connect) /\ WF_vars(Serve)
----------------------------------------------------------------------------
ClientReads == [version |-> {"version"}, stated |-> {"stated"}, types |-> {"types"},
                reason |-> {"reason"}, venversion |-> {"venversion"}, venok |-> {"venok"},
                subok |-> {"subok"}, tls |-> {"certificate"}, challenge |-> {"challenge"},
                dh |-> {"dhparams"}, result |-> {"result"}, init |-> {"serverInit"}]
ServerReads == [start |-> {}, version |-> {"version"}, choice |-> {"choose"},
                venversion |-> {"venversion"}, sub |-> {"sub"}, tls |-> {"hello"},
                answer |-> {"answer"}, init |-> {"clientInit"}]

TypeOK ==
  /\ setup \in Setups
  /\ cpc \in DOMAIN ClientReads \cup {"live", "gone"}
  /\ spc \in DOMAIN ServerReads \cup {"live", "gone"}
  /\ speak \in Versions \cup {0} /\ chosen \in Types \cup {0}
  /\ old \in BOOLEAN /\ ctls \in BOOLEAN /\ stls \in BOOLEAN /\ penalised \in BOOLEAN
  /\ \A i \in DOMAIN c2s : c2s[i].type \in
       (UNION {ServerReads[p] : p \in DOMAIN ServerReads}) \cup {"format", "encodings"}
  /\ \A i \in DOMAIN s2c : s2c[i].type \in UNION {ClientReads[p] : p \in DOMAIN ClientReads}

(* design.md, the three RFB versions: each side finds in the stream the    *)
(* message it reads for, in every version and with every security type;    *)
(* a word too many or too few would be taken for part of the next one.     *)
InStep ==
  /\ cpc \in DOMAIN ClientReads /\ s2c # <<>> => Head(s2c).type \in ClientReads[cpc]
  /\ spc \in DOMAIN ServerReads /\ c2s # <<>> => Head(c2s).type \in ServerReads[spc]

(* The two sides never wait for each other: the handshake ends, with both  *)
(* in the session or both gone.                                            *)
Ends == <>[](cpc = spc /\ cpc \in {"live", "gone"})

(* A session that starts is one both sides take for the same: both through *)
(* TLS or neither, and with a password that was right unless the server    *)
(* asked for none.                                                         *)
Agree == cpc = "live" /\ spc = "live" =>
           /\ ctls = stls
           /\ setup.password = "right" \/ chosen = None

(* A changed certificate is refused before the password is used on it.     *)
KnownOnly == setup.ourClient /\ setup.known = "changed" /\ ctls => cpc = "gone"

(* VNC_TLS=require at either end: no session in the clear, and no answer   *)
(* to a challenge in the clear either; nor any to a stranger.              *)
Private ==
  /\ setup.ourClient /\ setup.wantTls /\ cpc \in {"result", "init", "live"} => ctls
  /\ Ours /\ setup.tls = "require" /\ spc \in {"answer", "init", "live"} => stls
  /\ KnownOnly

(* A peer that is serving a penalty gets no challenge to guess against,    *)
(* and no list to choose from.                                             *)
NoGuess == Ours /\ setup.penalised => spc \in {"start", "version", "gone"}

(* design.md and Vnc::connect: a failed SecurityResult carries a reason    *)
(* string only from 3.8, and an older client leaves without reading one.   *)
ReasonFrom38 == cpc = "gone" /\ speak \in {3, 7} /\ chosen \in Offer =>
                  \A i \in DOMAIN s2c : s2c[i].type # "reason"
=============================================================================
