---------------------------- MODULE MCHandshake ----------------------------
EXTENDS Handshake

(* vncfree meets vncfree.                                                  *)
Own == {s \in SetupType :
          s.ourClient /\ s.ourServer /\ s.announced = 8 /\ s.types = {}}
(* Our client meets the servers of tests/old_servers.rs and macOS.         *)
OldServers == {s \in SetupType :
                 /\ s.ourClient /\ ~s.ourServer
                 /\ s.types \in {{None}, {VncAuth}, {None, VncAuth}, {AppleDh}}
                 /\ s.announced < 7 => s.types # {AppleDh}
                 /\ s.tls = "off" /\ s.known = "first" /\ ~s.penalised}
(* Our server meets clients of every version.                              *)
OldClients == {s \in SetupType :
                 /\ ~s.ourClient /\ s.ourServer /\ s.announced = 8 /\ s.types = {}
                 /\ ~s.wantTls /\ s.known = "first"}
All == Own \cup OldServers \cup OldClients
=============================================================================
