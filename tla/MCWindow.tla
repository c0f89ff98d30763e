----------------------------- MODULE MCWindow -----------------------------
(* Values for the constants of Window.                                     *)
EXTENDS Window

(* Two monitors of the same size beside each other, and both of them.      *)
Desk == [k \in 0 .. 2 |-> IF k = 0 THEN [x |-> 0, y |-> 0, w |-> 4, h |-> 1]
                         ELSE [x |-> 2 * (k - 1), y |-> 0, w |-> 2, h |-> 1]]
Square == <<4, 4>>
Corners == {<<0, 0>>, <<3, 3>>}
=============================================================================
