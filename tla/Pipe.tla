-------------------------------- MODULE Pipe --------------------------------
(***************************************************************************)
(* What wire.rs and the write locks promise to everything above them, TLS  *)
(* or not: to each end a pipe of pieces that loses, repeats and reorders   *)
(* nothing, in which the pieces of one message are never mixed with        *)
(* another thread's.                                                       *)
(***************************************************************************)
EXTENDS Naturals, Sequences

CONSTANTS Ends,      (* the ends of the connection                         *)
          Threads,   (* who may write                                      *)
          Nobody,
          Most       (* the most pieces said in one step                   *)

VARIABLES queue,     (* said to an end and not heard by it yet             *)
          speaker    (* whose message to that end is half said             *)

Init == queue = [e \in Ends |-> <<>>] /\ speaker = [e \in Ends |-> Nobody]

(* A thread starts a message when no other is being said.                  *)
Begin(e, t) == /\ speaker[e] = Nobody
               /\ speaker' = [speaker EXCEPT ![e] = t]
               /\ UNCHANGED queue

(* It says k pieces; after the one marked last others may speak.           *)
Say(e, t) ==
  /\ speaker[e] = t
  /\ \E k \in 1 .. Most, done \in BOOLEAN :
       /\ queue' = [queue EXCEPT ![e] =
                      @ \o [i \in 1 .. k |-> [by |-> t, last |-> done /\ i = k]]]
       /\ speaker' = [speaker EXCEPT ![e] = IF done THEN Nobody ELSE t]

Hear(e) == /\ queue[e] # <<>>
           /\ queue' = [queue EXCEPT ![e] = Tail(@)]
           /\ UNCHANGED speaker

Next == \E e \in Ends : Hear(e) \/ \E t \in Threads : Begin(e, t) \/ Say(e, t)

Spec == Init /\ [][Next]_<<queue, speaker>>
=============================================================================
