--------------------------- MODULE MCUpdateFlow ---------------------------
(* Values for the constants of UpdateFlow: one region of one or two   *)
(* tiles, or two regions of different sizes.                               *)
EXTENDS UpdateFlow

OneTile == [s \in {1} |-> 1]
OneScreen == [s \in {1} |-> 2]
TwoScreens == [s \in {1, 2} |-> s]
=============================================================================
