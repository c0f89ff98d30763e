------------------------------ MODULE Mirror ------------------------------
(***************************************************************************)
(* What a session promises, whatever the protocol in between: the client   *)
(* shows whole pictures, each of which one of the shared regions really    *)
(* had.  No update mixes two pictures, keeps a tile of an older one or     *)
(* shows a tile that never was.                                            *)
(***************************************************************************)
CONSTANTS Screens
VARIABLES
  desk,    (* what is on each region                                       *)
  taken,   (* pictures on their way to the client                          *)
  shown    (* the picture the client shows                                 *)

Shots == {[on |-> s, px |-> desk[s]] : s \in Screens}

(* The client starts with an empty screen.                                 *)
Init == /\ taken = {}
        /\ \E s \in Screens : shown = [on |-> s, px |-> [t \in DOMAIN desk[s] |-> 0]]

Draw == UNCHANGED <<taken, shown>>
Take == /\ taken' \subseteq taken \cup Shots \cup {shown}
        /\ UNCHANGED <<desk, shown>>
Show == /\ shown' \in taken
        /\ taken' \subseteq taken
        /\ UNCHANGED desk

Next == Draw \/ Take \/ Show
Spec == Init /\ [][Next]_<<desk, taken, shown>>
=============================================================================
