---------------------------- MODULE KnownHosts ----------------------------
(***************************************************************************)
(* What is kept on disk about certificates: the one a server makes on its  *)
(* first run (Identity::new, server-cert) and those that clients remember  *)
(* (check_known_at, known_hosts), with processes that end at any point,    *)
(* files that cannot be read or written, and clients that connect at the   *)
(* same time.                                                              *)
(*                                                                         *)
(* known_hosts is the sequence of what was written to it: writeln! makes a *)
(* write of each piece of "{host} {print}\n", and O_APPEND puts each of    *)
(* them at the end the file has at that moment.                            *)
(***************************************************************************)
EXTENDS Naturals, Sequences, FiniteSetsExt

CONSTANTS
  Clients, Hosts,
  Prints,       (* fingerprints of the certificates that may be made       *)
  MaxChecks,    (* bound: connections made                                 *)
  MaxStops,     (* bound: servers ended and started again                  *)
  MaxFails      (* bound: files not read or written, lost, clients ended   *)

Space == "space"
Newline == "newline"
Cut == "cut"                  (* the beginning of a fingerprint            *)
Nothing == "nothing"          (* no certificate, nothing remembered        *)
Torn == "torn"                (* the beginning of server-cert              *)

ASSUME KnownHostsAssumption ==
  /\ Hosts \cap Prints = {}
  /\ {Space, Newline, Cut, Nothing, Torn, "down", "making"} \cap (Hosts \cup Prints) = {}
  /\ MaxChecks \in Nat /\ MaxStops \in Nat /\ MaxFails \in Nat

VARIABLES
  known,        (* what is in known_hosts                                  *)
  at,           (* each client: "idle", "check" or "write"                 *)
  host, print,  (* the server it connected to, the certificate it was      *)
                (* offered                                                 *)
  left,         (* what it has still to write to known_hosts               *)
  verdict,      (* what its last check came to                             *)
  cert,         (* each server's server-cert                               *)
  id,           (* the certificate it uses, "down" or "making"             *)
  made,         (* certificates made so far                                *)
  checks, stops, fails,                 (* how much of each bound is used  *)
  pinned,       (* history: the certificate remembered for each host       *)
  changed,      (* history: servers that could not keep theirs             *)
  garbled       (* history: known_hosts holds an unfinished line           *)

client == <<known, at, host, print, left, verdict, checks, pinned, garbled>>
server == <<cert, id, made, stops, changed>>
vars == <<client, server, fails>>

Init == /\ known = <<>>
        /\ at = [c \in Clients |-> "idle"] /\ left = [c \in Clients |-> <<>>]
        /\ host = [c \in Clients |-> Nothing] /\ print = [c \in Clients |-> Nothing]
        /\ verdict = [c \in Clients |-> Nothing]
        /\ cert = [h \in Hosts |-> Nothing] /\ id = [h \in Hosts |-> "down"]
        /\ made = {} /\ checks = 0 /\ stops = 0 /\ fails = 0
        /\ pinned = [h \in Hosts |-> Nothing] /\ changed = {} /\ garbled = FALSE

----------------------------------------------------------------------------
(* Identity::new: the certificate that was saved, or a new one.            *)
Start(h) ==
  /\ id[h] = "down"
  /\ \/ /\ cert[h] \in Prints
        /\ id' = [id EXCEPT ![h] = cert[h]]
        /\ UNCHANGED <<changed, fails>>
     \/ /\ cert[h] \notin Prints
        /\ id' = [id EXCEPT ![h] = "making"]
        /\ UNCHANGED <<changed, fails>>
     \/ /\ cert[h] \in Prints /\ fails < MaxFails      (* it cannot be read *)
        /\ id' = [id EXCEPT ![h] = "making"]
        /\ changed' = changed \cup {h} /\ fails' = fails + 1
  /\ UNCHANGED <<client, cert, made, stops>>

(* Mutant: the certificate is in use before it is saved.                   *)
Truncate_early(h) ==
  /\ id[h] = "making" /\ cert[h] # Torn
  /\ cert' = [cert EXCEPT ![h] = Torn]
  /\ \E p \in Prints \ made : id' = [id EXCEPT ![h] = p] /\ made' = made \cup {p}
  /\ UNCHANGED <<client, stops, changed, fails>>

(* fs::write empties the file before anything is in it.                    *)
Truncate(h) == /\ id[h] = "making" /\ cert[h] # Torn
               /\ cert' = [cert EXCEPT ![h] = Torn]
               /\ UNCHANGED <<client, id, made, stops, changed, fails>>

(* The file is written and closed, and the certificate in use.             *)
Save(h) == /\ id[h] = "making" /\ cert[h] = Torn
           /\ \E p \in Prints \ made :
                /\ made' = made \cup {p}
                /\ cert' = [cert EXCEPT ![h] = p] /\ id' = [id EXCEPT ![h] = p]
           /\ UNCHANGED <<client, stops, changed, fails>>

(* It cannot be saved, and is used for as long as the process runs.        *)
Ephemeral(h) == /\ id[h] = "making" /\ fails < MaxFails /\ fails' = fails + 1
                /\ \E p \in Prints \ made :
                     made' = made \cup {p} /\ id' = [id EXCEPT ![h] = p]
                /\ changed' = changed \cup {h}
                /\ UNCHANGED <<client, cert, stops>>

(* The process ends, wherever it is.                                       *)
Stop(h) == /\ id[h] # "down" /\ stops < MaxStops
           /\ id' = [id EXCEPT ![h] = "down"] /\ stops' = stops + 1
           /\ UNCHANGED <<client, cert, made, changed, fails>>

(* Somebody deletes the file.                                              *)
Delete(h) == /\ cert[h] # Nothing /\ fails < MaxFails /\ fails' = fails + 1
             /\ cert' = [cert EXCEPT ![h] = Nothing] /\ changed' = changed \cup {h}
             /\ UNCHANGED <<client, id, made, stops>>

----------------------------------------------------------------------------
(* Reading known_hosts: lines and their words.                             *)
LineAt(f, i) == LET end == Min({j \in i .. Len(f) + 1 : j > Len(f) \/ f[j] = Newline})
                IN  SubSeq(f, i, end - 1)
Lines(f) == {i \in DOMAIN f : i = 1 \/ f[i - 1] = Newline}

Inked(l) == {i \in DOMAIN l : l[i] # Space}
WordEnd(l) == Min({j \in Min(Inked(l)) .. Len(l) + 1 : j > Len(l) \/ l[j] = Space})
Word(l) == IF Inked(l) = {} THEN <<>> ELSE SubSeq(l, Min(Inked(l)), WordEnd(l) - 1)
Rest(l) == IF Inked(l) = {} THEN <<>> ELSE SubSeq(l, WordEnd(l), Len(l))

LinesOf(f, h) == {i \in Lines(f) : Word(LineAt(f, i)) = <<h>>}

(* Mutant: the last line of a host decides.                                *)
Says_last(f, h) == IF LinesOf(f, h) = {} THEN <<Nothing>>
                   ELSE Word(Rest(LineAt(f, Max(LinesOf(f, h)))))

(* What the first line of a host has for it.                               *)
Says(f, h) == IF LinesOf(f, h) = {} THEN <<Nothing>>
              ELSE Word(Rest(LineAt(f, Min(LinesOf(f, h)))))

----------------------------------------------------------------------------
(* A client: the TLS handshake tells it the server's certificate.          *)
Connect(c, h) == /\ at[c] = "idle" /\ checks < MaxChecks /\ id[h] \in Prints
                 /\ at' = [at EXCEPT ![c] = "check"]
                 /\ host' = [host EXCEPT ![c] = h] /\ print' = [print EXCEPT ![c] = id[h]]
                 /\ verdict' = [verdict EXCEPT ![c] = Nothing] /\ checks' = checks + 1
                 /\ UNCHANGED <<known, left, pinned, garbled, server, fails>>

Ends(c, v) == /\ at' = [at EXCEPT ![c] = "idle"] /\ verdict' = [verdict EXCEPT ![c] = v]
              /\ UNCHANGED left
Remembers(c) == /\ at' = [at EXCEPT ![c] = "write"]
                /\ left' = [left EXCEPT ![c] = <<host[c], Space, print[c], Newline>>]
                /\ garbled' = (garbled \/ \E d \in Clients : at[d] = "write")
                /\ UNCHANGED verdict

(* check_known_at: a host without a line is remembered, one with nothing   *)
(* on its line is accepted, and one with another certificate refused.      *)
Judge(c, says) ==
  \/ says = <<Nothing>> /\ Remembers(c)
  \/ says \in {<<print[c]>>, <<>>} /\ Ends(c, "ok") /\ UNCHANGED garbled
  \/ says \notin {<<Nothing>>, <<print[c]>>, <<>>} /\ Ends(c, "refused") /\ UNCHANGED garbled

(* A file that cannot be read is an empty one.                             *)
Check(c) == /\ at[c] = "check"
            /\ \/ Judge(c, Says(known, host[c])) /\ UNCHANGED fails
               \/ /\ fails < MaxFails /\ fails' = fails + 1
                  /\ Judge(c, <<Nothing>>)
            /\ UNCHANGED <<known, host, print, checks, pinned, server>>

Put(c) == Append(known, Head(left[c]))

Write(c) ==
  /\ at[c] = "write"
  /\ known' = Put(c)
  /\ IF Len(left[c]) = 1
     THEN /\ at' = [at EXCEPT ![c] = "idle"] /\ verdict' = [verdict EXCEPT ![c] = "ok"]
          /\ pinned' = IF pinned[host[c]] = Nothing /\ Says(known', host[c]) = <<print[c]>>
                       THEN [pinned EXCEPT ![host[c]] = print[c]] ELSE pinned
     ELSE UNCHANGED <<at, verdict, pinned>>
  /\ left' = [left EXCEPT ![c] = Tail(@)]
  /\ UNCHANGED <<host, print, checks, garbled, server, fails>>

(* A write fails, perhaps after a part of it, or the process ends.         *)
WriteFails(c) ==
  /\ at[c] = "write" /\ fails < MaxFails /\ fails' = fails + 1
  /\ known' \in {known} \cup (IF Head(left[c]) \in Prints THEN {Append(known, Cut)} ELSE {})
  /\ garbled' = (garbled \/ known' # known \/ Head(left[c]) \notin Hosts)
  /\ at' = [at EXCEPT ![c] = "idle"] /\ verdict' = [verdict EXCEPT ![c] = "error"]
  /\ left' = [left EXCEPT ![c] = <<>>]
  /\ UNCHANGED <<host, print, checks, pinned, server>>

Next == \/ \E h \in Hosts : \/ Start(h) \/ Truncate(h) \/ Save(h) \/ Ephemeral(h)
                            \/ Stop(h) \/ Delete(h)
        \/ \E c \in Clients : \/ \E h \in Hosts : Connect(c, h)
                              \/ Check(c) \/ Write(c) \/ WriteFails(c)
Spec == Init /\ [][Next]_vars

----------------------------------------------------------------------------
Token == Hosts \cup Prints \cup {Space, Newline, Cut}
TypeOK == /\ known \in Seq(Token) /\ left \in [Clients -> Seq(Token)]
          /\ at \in [Clients -> {"idle", "check", "write"}]
          /\ \A c \in Clients : at[c] = "write" <=> left[c] # <<>>
          /\ host \in [Clients -> Hosts \cup {Nothing}]
          /\ print \in [Clients -> Prints \cup {Nothing}]
          /\ verdict \in [Clients -> {Nothing, "ok", "refused", "error"}]
          /\ cert \in [Hosts -> Prints \cup {Nothing, Torn}]
          /\ id \in [Hosts -> Prints \cup {"down", "making"}]
          /\ made \subseteq Prints /\ pinned \in [Hosts -> Prints \cup {Nothing}]
          /\ changed \subseteq Hosts /\ garbled \in BOOLEAN
          /\ {checks, stops, fails} \subseteq Nat

(* Identity: a server that keeps its file is never taken for another one,  *)
(* however often it is restarted and wherever it was stopped, or clients   *)
(* cry wolf; that takes a file that is lost, unreadable or unwritable, or  *)
(* an unfinished line in known_hosts.                                      *)
NoFalseAlarm == \A c \in Clients :
  verdict[c] = "refused" => host[c] \in changed \/ garbled

(* A certificate that a check accepted is the one remembered as soon as    *)
(* nobody is writing, unless lines were left unfinished or two clients     *)
(* met new hosts at the same time: none is accepted and then forgotten.    *)
Remembered ==
  fails = 0 /\ ~garbled /\ (\A c \in Clients : at[c] # "write") =>
    \A c \in Clients : verdict[c] = "ok" => Says(known, host[c]) = <<print[c]>>

(* Trust on first use: a certificate once accepted is remembered, and once *)
(* a line for a host is in the file, a check that can read the file        *)
(* accepts that certificate and refuses any other, whatever else other     *)
(* clients append, leave unfinished or interleave.                         *)
Judged(c) == verdict'[c] = IF print[c] = pinned[host[c]] THEN "ok" ELSE "refused"
Pinned ==
  /\ []Remembered
  /\ [][\A c \in Clients : at[c] = "check" /\ at'[c] # "check" /\ fails' = fails
                            /\ pinned[host[c]] # Nothing => Judged(c)]_vars

(* wire.rs:339: a line with nothing after the host is treated as absent    *)
(* (and an absent host is remembered).                                     *)
EmptyIsAbsent == \A c \in Clients : verdict[c] = "ok" => Says(known, host[c]) # <<>>
=============================================================================
