--------------------------- MODULE MCKnownHosts ---------------------------
(* Clients, hosts and certificates are told apart by nothing but their     *)
(* names.                                                                  *)
EXTENDS KnownHosts, TLC

Alike == Permutations(Clients) \cup Permutations(Hosts) \cup Permutations(Prints)
=============================================================================
