------------------------------- MODULE MCWire -------------------------------
EXTENDS Wire

(* Both ends may send more than the sockets hold.                          *)
BothLarge == [t \in Threads |-> IF t = Writer[At[t]] THEN 3 ELSE 1]
(* Frames are large; what the client sends fits into the sockets.          *)
FramesLarge == [t \in Threads |-> IF t = "sender" THEN 3 ELSE 1]

(* Requests: both readers answer.                                          *)
Dialogue == [t \in Threads |-> IF t = Writer[At[t]] THEN 2 ELSE 1]
(* Continuous updates: the client's reader writes nothing.                 *)
Stream == [Dialogue EXCEPT !["net"] = 0]
=============================================================================
