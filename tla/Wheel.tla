------------------------------- MODULE Wheel -------------------------------
(***************************************************************************)
(* The mouse wheel: Input::pump turns what the window reports into clicks  *)
(* of the buttons 4 and 5, and the server turns those into notches.        *)
(* Deltas are in the unit that makes the divisor, the code's 12.0 or what  *)
(* VNC_SCROLL_DIVISOR says, a whole number.                                *)
(***************************************************************************)
EXTENDS Integers, Sequences, FiniteSets, FiniteSetsExt, SequencesExt

CONSTANT Divisor
ASSUME WheelAssumption == Divisor \in Nat \ {0}

Trunc(n) == IF n >= 0 THEN n \div Divisor ELSE -((-n) \div Divisor)
Abs(n) == IF n >= 0 THEN n ELSE -n

(* scroll_carry after each of the deltas.                                  *)
Carry(deltas) ==
  LET carry[k \in 0..Len(deltas)] ==
        IF k = 0 THEN 0
        ELSE LET sum == carry[k - 1] + deltas[k] IN sum - Trunc(sum) * Divisor
  IN  [k \in 0..Len(deltas) |-> carry[k]]

(* The masks that are sent: each click is pressed and let go of, with the  *)
(* buttons in mask held all along.                                         *)
Clicks(deltas, mask) ==
  LET clicks(k) == Trunc(Carry(deltas)[k - 1] + deltas[k])
      dir(k)    == IF clicks(k) > 0 THEN 8 ELSE 16
  IN  FlattenSeq([k \in 1..Len(deltas) |->
        [i \in 1 .. 2 * Abs(clicks(k)) |-> IF i % 2 = 1 THEN mask + dir(k) ELSE mask]])

Bit(m, b) == (m \div 2^b) % 2

(* What the server does at the change from one mask to the next: a notch   *)
(* where a wheel button goes down, a button event where another changes.   *)
Notches(prev, now) ==
  (IF Bit(now, 3) = 1 /\ Bit(prev, 3) = 0 THEN 1 ELSE 0)
    - (IF Bit(now, 4) = 1 /\ Bit(prev, 4) = 0 THEN 1 ELSE 0)

Changes(prev, now) == {b \in 0..2 : Bit(prev, b) # Bit(now, b)}
=============================================================================
