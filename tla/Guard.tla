------------------------------- MODULE Guard -------------------------------
(***************************************************************************)
(* The server's record of failed passwords (Guard), shared by the threads  *)
(* of all connections: serve asks for the address's penalty before it      *)
(* offers a security type, and reports how the password went afterwards.   *)
(* Any number of connections of an address may be between the two.         *)
(*                                                                         *)
(* Time is in seconds; an entry of seen is (count, how long until it may   *)
(* try again), and count = 0 means there is no entry.  Some names begin    *)
(* with Guard so that a module can extend this one beside another.         *)
(***************************************************************************)
EXTENDS Naturals

CONSTANTS Addrs,       (* addresses connections come from                  *)
          Conns,       (* bound: connections at the same time              *)
          MaxBackoff   (* MAX_BACKOFF: 30                                  *)

ASSUME GuardAssumption == MaxBackoff \in Nat /\ MaxBackoff >= 2

VARIABLES
  count, wait,   (* Guard.seen                                             *)
  conn,          (* connection: the address it comes from, while it is     *)
                 (* answering the challenge; "none" otherwise              *)
  age,           (* history: seconds since the address's last failure;     *)
                 (* MaxBackoff stands for longer, or a success since       *)
  asked          (* history: the wait its last failure was told, 0 after a *)
                 (* success                                                *)

guardVars == <<count, wait, conn, age, asked>>
None == "none"

GuardInit == /\ count = [a \in Addrs |-> 0] /\ wait = [a \in Addrs |-> 0]
             /\ conn = [c \in Conns |-> None]
             /\ age = [a \in Addrs |-> MaxBackoff] /\ asked = [a \in Addrs |-> 0]

Least(a, b) == IF a < b THEN a ELSE b

(* Mutant: only the caller's entry is forgotten.                           *)
Kept_others(a, b) == count[b] > 0 /\ (wait[b] > 0 \/ b # a)

(* penalty, called for a: the entries that have served their time go.      *)
Kept(a, b) == count[b] > 0 /\ wait[b] > 0

Purge(a) == count' = [b \in Addrs |-> IF Kept(a, b) THEN count[b] ELSE 0]

(* serve, up to the challenge: turned away while there is an entry.        *)
Admit(c, a) == /\ conn[c] = None
               /\ Purge(a) /\ count'[a] = 0
               /\ conn' = [conn EXCEPT ![c] = a]
               /\ UNCHANGED <<wait, age, asked>>

TurnAway(c, a) == /\ conn[c] = None
                  /\ Purge(a) /\ count'[a] > 0
                  /\ UNCHANGED <<wait, conn, age, asked>>

(* 1 << n, up to n = 5.                                                    *)
Doubled == <<2, 4, 8, 16, 32>>

Backoff(n) == Least(Doubled[n], MaxBackoff)

Failed(c) == /\ conn[c] # None
             /\ LET a == conn[c]
                    n == Least(count[a] + 1, 5) IN
                /\ count' = [count EXCEPT ![a] = n]
                /\ wait' = [wait EXCEPT ![a] = Backoff(n)]
                /\ asked' = [asked EXCEPT ![a] = Backoff(n)]
                /\ age' = [age EXCEPT ![a] = 0]
             /\ conn' = [conn EXCEPT ![c] = None]

(* Mutants: a success clears the table; it leaves the entry.               *)
Passed_all(c) == /\ conn[c] # None
                 /\ count' = [a \in Addrs |-> 0] /\ wait' = [a \in Addrs |-> 0]
                 /\ asked' = [asked EXCEPT ![conn[c]] = 0]
                 /\ age' = [age EXCEPT ![conn[c]] = MaxBackoff]
                 /\ conn' = [conn EXCEPT ![c] = None]
Passed_kept(c) == /\ conn[c] # None
                  /\ asked' = [asked EXCEPT ![conn[c]] = 0]
                  /\ age' = [age EXCEPT ![conn[c]] = MaxBackoff]
                  /\ conn' = [conn EXCEPT ![c] = None]
                  /\ UNCHANGED <<count, wait>>

Passed(c) == /\ conn[c] # None
             /\ count' = [count EXCEPT ![conn[c]] = 0]
             /\ wait' = [wait EXCEPT ![conn[c]] = 0]
             /\ asked' = [asked EXCEPT ![conn[c]] = 0]
             /\ age' = [age EXCEPT ![conn[c]] = MaxBackoff]
             /\ conn' = [conn EXCEPT ![c] = None]

(* The peer goes away without an answer.                                   *)
Abandon(c) == /\ conn[c] # None
              /\ conn' = [conn EXCEPT ![c] = None]
              /\ UNCHANGED <<count, wait, age, asked>>

(* A second passes.                                                        *)
Tick == /\ wait' = [a \in Addrs |-> IF wait[a] > 0 THEN wait[a] - 1 ELSE 0]
        /\ age' = [a \in Addrs |-> Least(age[a] + 1, MaxBackoff)]
        /\ UNCHANGED <<count, conn, asked>>

GuardNext == \/ \E c \in Conns : \/ \E a \in Addrs : Admit(c, a) \/ TurnAway(c, a)
                                 \/ Failed(c) \/ Passed(c) \/ Abandon(c)
             \/ Tick

GuardSpec == GuardInit /\ [][GuardNext]_guardVars
----------------------------------------------------------------------------
GuardTypeOK == /\ count \in [Addrs -> 0 .. 5] /\ wait \in [Addrs -> 0 .. MaxBackoff]
               /\ conn \in [Conns -> Addrs \cup {None}]
               /\ age \in [Addrs -> 0 .. MaxBackoff] /\ asked \in [Addrs -> 0 .. MaxBackoff]

(* Whoever is waiting failed itself, and will have waited no longer than   *)
(* MAX_BACKOFF since then: a typo is not a lockout, nobody is held up by   *)
(* another address (one_addresss_failures_do_not_hold_up_another), and the *)
(* right password ends it at once.                                         *)
NoLockout == \A a \in Addrs : wait[a] > 0 => age[a] + wait[a] <= MaxBackoff

(* The record cannot grow from connection attempts: after any of them only *)
(* addresses that are waiting are in it.                                   *)
Forgets == [][\A c \in Conns, a \in Addrs : Admit(c, a) \/ TurnAway(c, a) =>
                \A b \in Addrs : count'[b] > 0 => wait'[b] > 0]_guardVars

(* Nothing another connection does shortens a wait: it ends by time, or by *)
(* a right password from that address.                                     *)
Served == [][\A a \in Addrs : wait'[a] < wait[a] =>
               \/ Tick
               \/ \E c \in Conns : conn[c] = a /\ Passed(c)]_guardVars

(* The guard's test: a failing address waits longer each time, up to the   *)
(* cap, until it gets the password right.                                  *)
Escalates == [][\A c \in Conns : Failed(c) /\ conn[c] # None =>
                  LET a == conn[c] IN asked'[a] > asked[a] \/ asked'[a] = MaxBackoff]_guardVars
=============================================================================
