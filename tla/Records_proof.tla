---------------------------- MODULE Records_proof ----------------------------
(***************************************************************************)
(* What one connection leaves for the next: the table of failed passwords  *)
(* at the server, and the certificates on disk at both ends.               *)
(***************************************************************************)
EXTENDS Guard, KnownHosts, WellFoundedInduction, SequenceTheorems, TLAPS

----------------------------------------------------------------------------
(* The password guard, for any addresses, connections and cap.  An address *)
(* that waits was told so after its last failure and waits the cap at the  *)
(* most; its entry ends by time or by a right password of its own.         *)

(* A back-off is at most the cap and grows with the failures.              *)
LEMMA BackoffBounded ==
  /\ \A n \in 1 .. 5 : Backoff(n) \in 0 .. MaxBackoff
  /\ \A n \in 1 .. 5, m \in 1 .. 5 : n <= m => Backoff(n) <= Backoff(m)
  <1>1. /\ Doubled[1] = 2 /\ Doubled[2] = 4 /\ Doubled[3] = 8
        /\ Doubled[4] = 16 /\ Doubled[5] = 32
    BY DEF Doubled
  <1>2. \A n \in 1 .. 5 : n = 1 \/ n = 2 \/ n = 3 \/ n = 4 \/ n = 5
    OBVIOUS
  <1>3. \A n \in 1 .. 5 : Doubled[n] \in Nat
    BY <1>1, <1>2
  <1>4. \A n \in 1 .. 5, m \in 1 .. 5 : n <= m => Doubled[n] <= Doubled[m]
    BY <1>1, <1>2
  <1>5. QED
    BY <1>3, <1>4, GuardAssumption DEF Backoff, Least

(* A wait is never longer than what its address was told last: without     *)
(* this a further failure could shorten it.                                *)
Due == \A a \in Addrs :
         wait[a] > 0 => count[a] \in 1 .. 5 /\ wait[a] <= Backoff(count[a])

GInv == GuardTypeOK /\ NoLockout /\ Due

LEMMA InitGuard == GuardInit => GInv
  BY GuardAssumption DEF GuardInit, GInv, GuardTypeOK, NoLockout, Due

LEMMA AdmitKeeps ==
  ASSUME GInv, NEW c \in Conns, NEW a \in Addrs, Admit(c, a) \/ TurnAway(c, a)
  PROVE  GInv'
  <1>1. count' \in [Addrs -> 0 .. 5]
    BY DEF GInv, GuardTypeOK, Admit, TurnAway, Purge
  <1>2. conn' \in [Conns -> Addrs \cup {None}]
    BY DEF GInv, GuardTypeOK, Admit, TurnAway
  <1>3. UNCHANGED <<wait, age, asked>>
    BY DEF Admit, TurnAway
  <1>4. Due'
    BY <1>3 DEF GInv, GuardTypeOK, Due, Admit, TurnAway, Purge, Kept
  <1>5. QED
    BY <1>1, <1>2, <1>3, <1>4 DEF GInv, GuardTypeOK, NoLockout

LEMMA FailedKeeps ==
  ASSUME GInv, NEW c \in Conns, Failed(c)
  PROVE  GInv'
  <1> DEFINE a == conn[c]
             n == Least(count[a] + 1, 5)
  <1>1. a \in Addrs
    BY DEF GInv, GuardTypeOK, Failed
  <1>2. n \in 1 .. 5
    BY <1>1 DEF GInv, GuardTypeOK, Least
  <1>3. Backoff(n) \in 0 .. MaxBackoff
    BY <1>2, BackoffBounded
  <1>4. /\ count' = [count EXCEPT ![a] = n]
        /\ wait' = [wait EXCEPT ![a] = Backoff(n)]
        /\ asked' = [asked EXCEPT ![a] = Backoff(n)]
        /\ age' = [age EXCEPT ![a] = 0]
        /\ conn' = [conn EXCEPT ![c] = None]
    BY DEF Failed
  <1> HIDE DEF a, n
  <1>5. GuardTypeOK'
    BY <1>1, <1>2, <1>3, <1>4, GuardAssumption DEF GInv, GuardTypeOK
  <1>6. NoLockout'
    BY <1>1, <1>3, <1>4, GuardAssumption DEF GInv, GuardTypeOK, NoLockout, Due
  <1>7. Due'
    BY <1>1, <1>2, <1>3, <1>4 DEF GInv, GuardTypeOK, Due
  <1>8. QED
    BY <1>5, <1>6, <1>7 DEF GInv

LEMMA PassedKeeps ==
  ASSUME GInv, NEW c \in Conns, Passed(c) \/ Abandon(c)
  PROVE  GInv'
  <1>1. conn[c] \in Addrs
    BY DEF GInv, GuardTypeOK, Passed, Abandon
  <1>2. CASE Passed(c)
    BY <1>1, <1>2, GuardAssumption DEF GInv, GuardTypeOK, NoLockout, Due, Passed
  <1>3. CASE Abandon(c)
    BY <1>1, <1>3 DEF GInv, GuardTypeOK, NoLockout, Due, Abandon
  <1>4. QED
    BY <1>2, <1>3

LEMMA TickKeeps ==
  ASSUME GInv, Tick
  PROVE  GInv'
  <1>1. GuardTypeOK' /\ NoLockout'
    BY GuardAssumption DEF GInv, GuardTypeOK, NoLockout, Tick, Least
  <1>2. ASSUME NEW a \in Addrs, wait'[a] > 0
        PROVE  count'[a] \in 1 .. 5 /\ wait'[a] <= Backoff(count'[a])
    <2>1. /\ wait[a] \in 1 .. MaxBackoff /\ wait'[a] = wait[a] - 1
          /\ count'[a] = count[a]
      BY <1>2, GuardAssumption DEF GInv, GuardTypeOK, Tick
    <2>2. count[a] \in 1 .. 5 /\ wait[a] <= Backoff(count[a])
      BY <2>1, GuardAssumption DEF GInv, Due
    <2>3. Backoff(count[a]) \in 0 .. MaxBackoff
      BY <2>2, BackoffBounded
    <2>4. QED
      BY <2>1, <2>2, <2>3, GuardAssumption
  <1>3. QED
    BY <1>1, <1>2 DEF GInv, Due

LEMMA GuardInvariance == GuardSpec => []GInv
  <1>1. GInv /\ [GuardNext]_guardVars => GInv'
    <2>1. SUFFICES ASSUME GInv, [GuardNext]_guardVars PROVE GInv'
      OBVIOUS
    <2>2. CASE UNCHANGED guardVars
      BY <2>1, <2>2 DEF GInv, GuardTypeOK, NoLockout, Due, guardVars
    <2>3. CASE \E c \in Conns, a \in Addrs : Admit(c, a) \/ TurnAway(c, a)
      BY <2>1, <2>3, AdmitKeeps
    <2>4. CASE \E c \in Conns : Failed(c)
      BY <2>1, <2>4, FailedKeeps
    <2>5. CASE \E c \in Conns : Passed(c) \/ Abandon(c)
      BY <2>1, <2>5, PassedKeeps
    <2>6. CASE Tick
      BY <2>1, <2>6, TickKeeps
    <2>7. QED
      BY <2>1, <2>2, <2>3, <2>4, <2>5, <2>6 DEF GuardNext
  <1>2. QED
    BY InitGuard, <1>1, PTL DEF GuardSpec

(* Guard.seen, MAX_BACKOFF: nobody waits longer than the cap after its own *)
(* last failure, and nobody waits for another's.                           *)
THEOREM NobodyLockedOut == GuardSpec => []NoLockout
  <1>1. GInv => NoLockout
    BY DEF GInv
  <1>2. QED
    BY <1>1, GuardInvariance, PTL

(* penalty: after any connection attempt only addresses that wait are in   *)
(* the table.                                                              *)
THEOREM TableShrinks == GuardSpec => Forgets
  <1>1. ASSUME GInv, NEW c \in Conns, NEW a \in Addrs, Admit(c, a) \/ TurnAway(c, a),
               NEW b \in Addrs, count'[b] > 0
        PROVE  wait'[b] > 0
    BY <1>1 DEF GInv, GuardTypeOK, Admit, TurnAway, Purge, Kept
  <1>2. GInv /\ [GuardNext]_guardVars =>
          [\A c \in Conns, a \in Addrs : Admit(c, a) \/ TurnAway(c, a) =>
             \A b \in Addrs : count'[b] > 0 => wait'[b] > 0]_guardVars
    BY <1>1
  <1>3. QED
    BY <1>2, GuardInvariance, PTL DEF GuardSpec, Forgets

(* failed, passed and penalty from any number of threads: only time or a   *)
(* right password from the same address shortens a wait.                   *)
THEOREM WaitsAreServed == GuardSpec => Served
  <1>1. ASSUME GInv, GuardNext, NEW a \in Addrs, wait'[a] < wait[a]
        PROVE  Tick \/ \E c \in Conns : conn[c] = a /\ Passed(c)
    <2>1. CASE \E c \in Conns, b \in Addrs : Admit(c, b) \/ TurnAway(c, b)
      BY <1>1, <2>1 DEF GInv, GuardTypeOK, Admit, TurnAway
    <2>2. CASE \E c \in Conns : Abandon(c)
      BY <1>1, <2>2 DEF GInv, GuardTypeOK, Abandon
    <2>3. CASE \E c \in Conns : Passed(c)
      <3>1. PICK c \in Conns : Passed(c)
        BY <2>3
      <3>2. conn[c] = a
        BY <1>1, <3>1 DEF GInv, GuardTypeOK, Passed
      <3>3. QED
        BY <3>1, <3>2
    <2>4. ASSUME NEW c \in Conns, Failed(c)
          PROVE  FALSE
      <3> DEFINE n == Least(count[a] + 1, 5)
      <3>1. conn[c] = a /\ wait'[a] = Backoff(n)
        BY <1>1, <2>4 DEF GInv, GuardTypeOK, Failed
      <3>2. n \in 1 .. 5 /\ wait[a] \in 0 .. MaxBackoff /\ count[a] \in 0 .. 5
        BY <1>1 DEF GInv, GuardTypeOK, Least
      <3>3. wait[a] > 0 => count[a] \in 1 .. 5 /\ wait[a] <= Backoff(count[a])
        BY <1>1 DEF GInv, Due
      <3>4. count[a] <= n
        BY <3>2 DEF Least
      <3> HIDE DEF n
      <3>5. Backoff(n) \in 0 .. MaxBackoff
        BY <3>2, BackoffBounded
      <3>6. wait[a] > 0 => Backoff(count[a]) \in 0 .. MaxBackoff /\ Backoff(count[a]) <= Backoff(n)
        BY <3>2, <3>3, <3>4, BackoffBounded
      <3>7. QED
        BY <1>1, <3>1, <3>2, <3>3, <3>5, <3>6, GuardAssumption
    <2>5. QED
      BY <1>1, <2>1, <2>2, <2>3, <2>4 DEF GuardNext
  <1>2. GInv /\ [GuardNext]_guardVars =>
          [\A a \in Addrs : wait'[a] < wait[a] =>
             \/ Tick
             \/ \E c \in Conns : conn[c] = a /\ Passed(c)]_guardVars
    BY <1>1
  <1>3. QED
    BY <1>2, GuardInvariance, PTL DEF GuardSpec, Served

----------------------------------------------------------------------------
(* Certificates remembered, for any clients, servers and certificates, and *)
(* any number of connections, restarts and failures.                       *)

(* A client that is at something has a server and its certificate.         *)
Met == \A c \in Clients :
  /\ at[c] # "idle" \/ verdict[c] # Nothing => host[c] \in Hosts
  /\ host[c] \in Hosts => print[c] \in Prints

(* What a client has to write is what is left of its line.                 *)
Owing == \A c \in Clients : at[c] = "write" =>
  left[c] \in {<<host[c], Space, print[c], Newline>>, <<Space, print[c], Newline>>,
              <<print[c], Newline>>, <<Newline>>}

(* A server whose file was never lost, unreadable or unwritable uses what  *)
(* is in the file, and shows nothing before it is there.                   *)
Saved == \A h \in Hosts \ changed :
  /\ id[h] = "making" => cert[h] \notin Prints
  /\ id[h] \in Prints => cert[h] = id[h]
Loyal == \A c \in Clients : host[c] \in Hosts \ changed => print[c] = cert[host[c]]

(* known_hosts without unfinished lines, but for the one being written:    *)
(* a host, a space, its certificate, the end of the line.                  *)
Follows(a, b) == \/ a \in Hosts /\ b = Space
                 \/ a = Space /\ b \in Prints
                 \/ a \in Prints /\ b = Newline
                 \/ a = Newline /\ b \in Hosts
Local(f) == /\ f # <<>> => f[1] \in Hosts
            /\ \A i, j \in DOMAIN f : j = i + 1 => Follows(f[i], f[j])
Whole(f) == f = <<>> \/ f[Len(f)] = Newline
Truthful(f) == \A i, j \in DOMAIN f : f[i] \in Hosts \ changed /\ j = i + 2 => f[j] = cert[f[i]]

(* How far a client is with its line.                                      *)
Midway(c) ==
  LET n == Len(known) IN
  \/ left[c] = <<host[c], Space, print[c], Newline>> /\ Whole(known)
  \/ left[c] = <<Space, print[c], Newline>> /\ n > 0 /\ known[n] = host[c]
  \/ left[c] = <<print[c], Newline>> /\ n > 1 /\ known[n] = Space /\ known[n - 1] = host[c]
  \/ left[c] = <<Newline>> /\ n > 2 /\ known[n] = print[c] /\ known[n - 2] = host[c]

Tidy == ~garbled =>
  /\ Local(known) /\ Truthful(known)
  /\ \A c, d \in Clients : at[c] = "write" /\ at[d] = "write" => c = d
  /\ \A c \in Clients : at[c] = "write" => Midway(c)
  /\ (\A c \in Clients : at[c] # "write") => Whole(known)

(* Nothing accepted is without its line.                                   *)
Lined == fails = 0 => /\ changed = {}
                      /\ ~garbled => \A c \in Clients : verdict[c] = "ok" =>
                                       \E i \in DOMAIN known : known[i] = host[c]

(* The line that decides is finished.                                      *)
Settled(f, h, p) == /\ Says(f, h) = <<p>>
                    /\ \E i \in LinesOf(f, h), j \in DOMAIN f :
                         /\ \A k \in LinesOf(f, h) : i <= k
                         /\ i <= j /\ f[j] = Newline
Pins == \A h \in Hosts : pinned[h] # Nothing => Settled(known, h, pinned[h])

IInv == TypeOK /\ Met /\ Owing /\ Saved /\ Loyal /\ Tidy /\ Lined /\ Pins /\ NoFalseAlarm
----------------------------------------------------------------------------
(* Least elements.                                                         *)

LEMMA LeastExists ==
  ASSUME NEW T \in SUBSET Nat, T # {}
  PROVE  \E x \in T : \A y \in T : x <= y
<1> DEFINE R == {ss \in Nat \X Nat : ss[1] < ss[2]}
<1>1. IsWellFoundedOn(R, Nat)
  BY NatLessThanWellFounded DEF OpToRel
<1>2. \A x, y \in Nat : <<y, x>> \in R <=> y < x
  OBVIOUS
<1> HIDE DEF R
<1>3. PICK x \in T : \A y \in T : ~ (<<y, x>> \in R)
  BY <1>1, WFMin
<1>4. \A y \in T : ~(y < x)
  BY <1>2, <1>3
<1> QED
  BY <1>3, <1>4

LEMMA MinIs ==
  ASSUME NEW S \in SUBSET Int, NEW x \in S, \A y \in S : x <= y
  PROVE  Min(S) = x
<1>1. \A z \in S : (\A y \in S : z <= y) => z = x
  OBVIOUS
<1> QED
  BY <1>1 DEF Min

----------------------------------------------------------------------------
(* Lines: where one ends, and what appending leaves of it.                 *)

EndsAt(f, i, e) == /\ e \in i .. Len(f) + 1
                   /\ e > Len(f) \/ f[e] = Newline
                   /\ \A k \in i .. e - 1 : f[k] # Newline

LEMMA LineIs ==
  ASSUME NEW f \in Seq(Token), NEW i \in DOMAIN f, NEW e, EndsAt(f, i, e)
  PROVE  LineAt(f, i) = SubSeq(f, i, e - 1)
<1> DEFINE S == {j \in i .. Len(f) + 1 : j > Len(f) \/ f[j] = Newline}
<1>1. Len(f) \in Nat /\ i \in 1 .. Len(f) /\ e \in i .. Len(f) + 1
  <2>1. Len(f) \in Nat /\ i \in 1 .. Len(f)
    OBVIOUS
  <2>2. e \in i .. Len(f) + 1
    BY DEF EndsAt
  <2> QED
    BY <2>1, <2>2
<1>2. S \in SUBSET Int /\ e \in S
  BY <1>1 DEF EndsAt
<1>3. ASSUME NEW y \in S PROVE e <= y
  <2>1. y \in i .. Len(f) + 1 /\ (y > Len(f) \/ f[y] = Newline)
    OBVIOUS
  <2>2. ~(y < e)
    BY <1>1, <2>1 DEF EndsAt
  <2> QED
    BY <1>1, <2>1, <2>2
<1> HIDE DEF S
<1>4. Min(S) = e
  BY <1>2, <1>3, MinIs
<1> QED
  BY <1>4 DEF LineAt, S

LEMMA HasEnd ==
  ASSUME NEW f \in Seq(Token), NEW i \in DOMAIN f
  PROVE  \E e : EndsAt(f, i, e)
<1> DEFINE S == {j \in i .. Len(f) + 1 : j > Len(f) \/ f[j] = Newline}
<1>1. Len(f) \in Nat /\ i \in 1 .. Len(f)
  OBVIOUS
<1>2. S \in SUBSET Nat /\ Len(f) + 1 \in S
  BY <1>1
<1>3. PICK e \in S : \A y \in S : e <= y
  <2> HIDE DEF S
  <2> QED
    BY <1>2, LeastExists
<1>4. ASSUME NEW k \in i .. e - 1 PROVE f[k] # Newline
  BY <1>1, <1>3
<1> QED
  BY <1>1, <1>3, <1>4 DEF EndsAt

LEMMA LineStays ==
  ASSUME NEW f \in Seq(Token), NEW t \in Token, NEW i \in DOMAIN f, NEW j \in DOMAIN f,
         i <= j, f[j] = Newline, NEW g, g = Append(f, t)
  PROVE  LineAt(g, i) = LineAt(f, i)
<1>1. /\ Len(f) \in Nat /\ i \in 1 .. Len(f) /\ j \in 1 .. Len(f) /\ DOMAIN g = 1 .. Len(f) + 1
      /\ g \in Seq(Token) /\ Len(g) = Len(f) + 1 /\ \A k \in 1 .. Len(f) : g[k] = f[k]
  OBVIOUS
<1>2. PICK e : EndsAt(f, i, e)
  BY HasEnd
<1>3. e \in i .. Len(f)
  <2>1. e \in i .. Len(f) + 1 /\ \A k \in i .. e - 1 : f[k] # Newline
    BY <1>2 DEF EndsAt
  <2>2. ~(j < e)
    BY <1>1, <2>1
  <2> QED
    BY <1>1, <2>1, <2>2
<1>4. EndsAt(g, i, e)
  BY <1>1, <1>2, <1>3 DEF EndsAt
<1>5. LineAt(f, i) = SubSeq(f, i, e - 1) /\ LineAt(g, i) = SubSeq(g, i, e - 1)
  <2>1. i \in DOMAIN g
    BY <1>1
  <2> QED
    BY <1>1, <1>2, <1>4, <2>1, LineIs
<1>6. SubSeq(f, i, e - 1) = SubSeq(g, i, e - 1)
  BY <1>1, <1>3
<1> QED
  BY <1>5, <1>6

(* A finished line decides for good, whatever is appended.                 *)
LEMMA SettledStays ==
  ASSUME NEW f \in Seq(Token), NEW t \in Token, NEW h, NEW p, Settled(f, h, p)
  PROVE  Settled(Append(f, t), h, p)
<1> DEFINE g == Append(f, t)
<1>1. /\ Len(f) \in Nat /\ DOMAIN f = 1 .. Len(f) /\ DOMAIN g = 1 .. Len(f) + 1
      /\ \A k \in 1 .. Len(f) : g[k] = f[k]
  OBVIOUS
<1>2. PICK i \in LinesOf(f, h), j \in DOMAIN f :
         (\A k \in LinesOf(f, h) : i <= k) /\ i <= j /\ f[j] = Newline
  BY DEF Settled
<1>3. \A k \in DOMAIN f : k <= j => LineAt(g, k) = LineAt(f, k)
  BY <1>2, LineStays
<1> HIDE DEF g
<1>4. Lines(f) \subseteq DOMAIN f /\ \A k \in DOMAIN f : k \in Lines(g) <=> k \in Lines(f)
  BY <1>1 DEF Lines
<1>5. i \in LinesOf(g, h)
  BY <1>2, <1>3, <1>4 DEF LinesOf
<1>6. ASSUME NEW k \in LinesOf(g, h) PROVE i <= k
  <2> SUFFICES ASSUME k < i PROVE FALSE
    BY <1>1, <1>2, <1>4 DEF LinesOf, Lines
  <2>1. k \in DOMAIN f /\ k \in Lines(f) /\ k <= j
    BY <1>1, <1>2, <1>4 DEF LinesOf, Lines
  <2>2. k \in LinesOf(f, h)
    BY <1>3, <2>1 DEF LinesOf
  <2>3. i <= k /\ i \in Nat /\ k \in Nat
    BY <1>1, <1>2, <2>1, <2>2 DEF LinesOf, Lines
  <2> QED
    BY <2>3
<1>7. Min(LinesOf(f, h)) = i /\ Min(LinesOf(g, h)) = i
  <2>1. LinesOf(f, h) \in SUBSET Int /\ LinesOf(g, h) \in SUBSET Int
    BY <1>1 DEF LinesOf, Lines
  <2> QED
    BY <1>2, <1>5, <1>6, <2>1, MinIs
<1>8. LineAt(g, i) = LineAt(f, i)
  BY <1>2, <1>3, <1>4 DEF LinesOf
<1>9. Says(g, h) = Says(f, h)
  BY <1>2, <1>5, <1>7, <1>8 DEF Says
<1>10. j \in DOMAIN g /\ g[j] = Newline
  BY <1>1, <1>2
<1>11. Settled(g, h, p)
  BY <1>2, <1>5, <1>6, <1>9, <1>10 DEF Settled
<1> QED
  BY <1>11 DEF g

(* In a file whose last line is finished, every line is.                   *)
LEMMA SettledNow ==
  ASSUME NEW f \in Seq(Token), NEW h, NEW p \in Prints, Says(f, h) = <<p>>,
         f # <<>>, f[Len(f)] = Newline
  PROVE  Settled(f, h, p)
<1>1. Len(f) \in DOMAIN f /\ Lines(f) \subseteq DOMAIN f /\ DOMAIN f = 1 .. Len(f) /\ Len(f) \in Nat
  BY DEF Lines
<1>2. LinesOf(f, h) # {}
  <2>1. Nothing # p
    BY KnownHostsAssumption
  <2> QED
    BY <2>1 DEF Says
<1>3. LinesOf(f, h) \in SUBSET Nat /\ \A i \in LinesOf(f, h) : i <= Len(f)
  BY <1>1 DEF LinesOf
<1>4. PICK i \in LinesOf(f, h) : \A k \in LinesOf(f, h) : i <= k
  BY <1>2, <1>3, LeastExists
<1> QED
  BY <1>1, <1>3, <1>4 DEF Settled

----------------------------------------------------------------------------
(* Words.                                                                  *)

(* The first word of l, of length n, is from a to b; c is the place after. *)
WordFrom(l, n, a, b, c) ==
  /\ l \in Seq(Token) /\ {n, a, b, c} \subseteq Nat
  /\ n = Len(l) /\ 1 <= a /\ a <= b /\ b <= n /\ c = b + 1
  /\ \A k \in Nat : 1 <= k /\ k < a => l[k] = Space
  /\ \A k \in Nat : a <= k /\ k <= b => l[k] # Space
  /\ c > n \/ l[c] = Space

Apart(l, n, a, b, c) == Word(l) = SubSeq(l, a, b) /\ Rest(l) = SubSeq(l, c, n)

LEMMA FirstWord ==
  ASSUME NEW l, NEW n, NEW a, NEW b, NEW c, WordFrom(l, n, a, b, c)
  PROVE  Apart(l, n, a, b, c)
<1> USE DEF WordFrom
<1>0. l \in Seq(Token) /\ n \in Nat /\ a \in Nat /\ b \in Nat /\ c \in Nat
  OBVIOUS
<1>1. DOMAIN l = 1 .. n
  BY <1>0
<1>2. Inked(l) \in SUBSET Int /\ a \in Inked(l)
  BY <1>0, <1>1 DEF Inked
<1>3. ASSUME NEW k \in Inked(l) PROVE a <= k
  BY <1>0, <1>1 DEF Inked
<1>4. Min(Inked(l)) = a
  BY <1>2, <1>3, MinIs
<1> DEFINE S == {j \in a .. n + 1 : j > n \/ l[j] = Space}
<1>5. S \in SUBSET Int /\ c \in S
  BY <1>0
<1>6. ASSUME NEW j \in S PROVE c <= j
  <2>1. j \in Nat /\ a <= j /\ (j > n \/ l[j] = Space)
    BY <1>0
  <2>2. ~(j <= b)
    BY <1>0, <2>1
  <2> QED
    BY <1>0, <2>1, <2>2
<1> HIDE DEF S
<1>7. Min(S) = c
  BY <1>5, <1>6, MinIs
<1>8. WordEnd(l) = c
  BY <1>4, <1>7 DEF WordEnd, S
<1>9. Word(l) = SubSeq(l, a, c - 1) /\ c - 1 = b /\ Rest(l) = SubSeq(l, c, n)
  BY <1>0, <1>2, <1>4, <1>8 DEF Word, Rest
<1> QED
  BY <1>9 DEF Apart

LEMMA NoWord ==
  ASSUME NEW l, \A k \in DOMAIN l : l[k] = Space
  PROVE  Word(l) = <<>>
BY DEF Inked, Word

LEMMA ShortSubSeq ==
  ASSUME NEW S, NEW s \in Seq(S), NEW i \in 1 .. Len(s)
  PROVE  /\ SubSeq(s, i, i) = <<s[i]>>
         /\ i + 1 <= Len(s) => SubSeq(s, i, i + 1) = <<s[i], s[i + 1]>>
         /\ i + 2 <= Len(s) => SubSeq(s, i, i + 2) = <<s[i], s[i + 1], s[i + 2]>>
         /\ SubSeq(s, i + 1, i) = <<>>
<1>1. Len(s) \in Nat /\ i \in Int /\ i + 1 \in Int /\ i + 2 \in Int /\ s[i] \in S
  OBVIOUS
<1>2. SubSeq(s, i, i) = <<s[i]>>
  <2>1. \A k \in i .. i : s[k] \in S
    BY <1>1
  <2>2. /\ SubSeq(s, i, i) \in Seq(S) /\ Len(SubSeq(s, i, i)) = 1
        /\ \A k \in 1 .. 1 : SubSeq(s, i, i)[k] = s[i + k - 1]
    BY <1>1, <2>1, SubSeqProperties
  <2>3. <<s[i]>> \in Seq(S) /\ Len(<<s[i]>>) = 1
    BY <1>1
  <2>4. SubSeq(s, i, i)[1] = s[i]
    BY <1>1, <2>2
  <2>5. \A k \in 1 .. 1 : SubSeq(s, i, i)[k] = <<s[i]>>[k]
    BY <2>4
  <2> QED
    BY <2>2, <2>3, <2>5, SeqEqual
<1>3. ASSUME i + 1 <= Len(s) PROVE SubSeq(s, i, i + 1) = <<s[i], s[i + 1]>>
  <2>1. \A k \in i .. i + 1 : s[k] \in S
    BY <1>1, <1>3
  <2>2. /\ SubSeq(s, i, i + 1) \in Seq(S) /\ Len(SubSeq(s, i, i + 1)) = 2
        /\ \A k \in 1 .. 2 : SubSeq(s, i, i + 1)[k] = s[i + k - 1]
    BY <1>1, <2>1, SubSeqProperties
  <2>3. <<s[i], s[i + 1]>> \in Seq(S) /\ Len(<<s[i], s[i + 1]>>) = 2
    BY <1>1, <2>1
  <2>4. \A k \in 1 .. 2 : SubSeq(s, i, i + 1)[k] = <<s[i], s[i + 1]>>[k]
    <3>1. i + 1 - 1 = i /\ i + 2 - 1 = i + 1
      BY <1>1
    <3>2. SubSeq(s, i, i + 1)[1] = s[i] /\ SubSeq(s, i, i + 1)[2] = s[i + 1]
      BY <2>2, <3>1
    <3>3. \A k \in 1 .. 2 : k = 1 \/ k = 2
      OBVIOUS
    <3> QED
      BY <3>2, <3>3
  <2> QED
    BY <2>2, <2>3, <2>4, SeqEqual
<1>4. ASSUME i + 2 <= Len(s) PROVE SubSeq(s, i, i + 2) = <<s[i], s[i + 1], s[i + 2]>>
  <2>1. \A k \in i .. i + 2 : s[k] \in S
    BY <1>1, <1>4
  <2>2. /\ SubSeq(s, i, i + 2) \in Seq(S) /\ Len(SubSeq(s, i, i + 2)) = 3
        /\ \A k \in 1 .. 3 : SubSeq(s, i, i + 2)[k] = s[i + k - 1]
    BY <1>1, <2>1, SubSeqProperties
  <2>3. <<s[i], s[i + 1], s[i + 2]>> \in Seq(S) /\ Len(<<s[i], s[i + 1], s[i + 2]>>) = 3
    BY <1>1, <2>1
  <2>4. \A k \in 1 .. 3 : SubSeq(s, i, i + 2)[k] = <<s[i], s[i + 1], s[i + 2]>>[k]
    <3>1. i + 1 - 1 = i /\ i + 2 - 1 = i + 1 /\ i + 3 - 1 = i + 2
      BY <1>1
    <3>2. /\ SubSeq(s, i, i + 2)[1] = s[i] /\ SubSeq(s, i, i + 2)[2] = s[i + 1]
          /\ SubSeq(s, i, i + 2)[3] = s[i + 2]
      BY <2>2, <3>1
    <3>3. \A k \in 1 .. 3 : k = 1 \/ k = 2 \/ k = 3
      OBVIOUS
    <3> QED
      BY <3>2, <3>3
  <2> QED
    BY <2>2, <2>3, <2>4, SeqEqual
<1>5. SubSeq(s, i + 1, i) = <<>>
  BY <1>1, SubSeqEmpty
<1> QED
  BY <1>2, <1>3, <1>4, <1>5

(* A line and as much of it as may be there.                               *)
LEMMA LineWords ==
  ASSUME NEW h \in Hosts
  PROVE  /\ Word(<<h>>) = <<h>> /\ Word(Rest(<<h>>)) = <<>>
         /\ Word(<<h, Space>>) = <<h>> /\ Word(Rest(<<h, Space>>)) = <<>>
         /\ \A p \in Prints : /\ Word(<<h, Space, p>>) = <<h>>
                              /\ Word(Rest(<<h, Space, p>>)) = <<p>>
<1>1. h # Space /\ h \in Token /\ Space \in Token /\ \A p \in Prints : p # Space /\ p \in Token
  BY KnownHostsAssumption DEF Token
<1>2. Word(<<h>>) = <<h>> /\ Rest(<<h>>) = <<>>
  <2> DEFINE l == <<h>>
  <2>1. l \in Seq(Token) /\ Len(l) = 1 /\ 1 \in DOMAIN l /\ l[1] = h
    BY <1>1
  <2>2. SubSeq(l, 1, 1) = <<l[1]>> /\ SubSeq(l, 2, 1) = <<>>
    <3>1. SubSeq(l, 1, 1) = <<l[1]>> /\ SubSeq(l, 1 + 1, 1) = <<>>
      <4> HIDE DEF l
      <4> QED
        BY <2>1, ShortSubSeq
    <3> QED
      BY <3>1
  <2> HIDE DEF l
  <2>3. Word(l) = SubSeq(l, 1, 1) /\ Rest(l) = SubSeq(l, 2, 1)
    <3>1. WordFrom(l, 1, 1, 1, 2)
      BY <1>1, <2>1 DEF WordFrom
    <3>2. Apart(l, 1, 1, 1, 2)
      BY <3>1, FirstWord
    <3> QED
      BY <3>2 DEF Apart
  <2> QED
    BY <2>1, <2>2, <2>3 DEF l
<1>3. Word(<<h, Space>>) = <<h>> /\ Rest(<<h, Space>>) = <<Space>>
  <2> DEFINE l == <<h, Space>>
  <2>1. l \in Seq(Token) /\ Len(l) = 2 /\ 1 \in DOMAIN l /\ l[1] = h /\ l[2] = Space
    BY <1>1
  <2>2. SubSeq(l, 1, 1) = <<l[1]>> /\ SubSeq(l, 2, 2) = <<l[2]>>
    <3> HIDE DEF l
    <3> QED
      BY <2>1, ShortSubSeq
  <2> HIDE DEF l
  <2>3. Word(l) = SubSeq(l, 1, 1) /\ Rest(l) = SubSeq(l, 2, 2)
    <3>1. WordFrom(l, 2, 1, 1, 2)
      BY <1>1, <2>1 DEF WordFrom
    <3>2. Apart(l, 2, 1, 1, 2)
      BY <3>1, FirstWord
    <3> QED
      BY <3>2 DEF Apart
  <2> QED
    BY <2>1, <2>2, <2>3 DEF l
<1>4. ASSUME NEW p \in Prints
      PROVE  Word(<<h, Space, p>>) = <<h>> /\ Rest(<<h, Space, p>>) = <<Space, p>>
  <2> DEFINE l == <<h, Space, p>>
  <2>1. l \in Seq(Token) /\ Len(l) = 3 /\ 1 \in DOMAIN l /\ l[1] = h /\ l[2] = Space
        /\ l[3] = p
    BY <1>1
  <2>2. SubSeq(l, 1, 1) = <<l[1]>> /\ SubSeq(l, 2, 3) = <<l[2], l[3]>>
    <3> HIDE DEF l
    <3>1. SubSeq(l, 1, 1) = <<l[1]>>
      BY <2>1, ShortSubSeq
    <3>2. 2 \in 1 .. Len(l) /\ 2 + 1 <= Len(l)
      BY <2>1
    <3>3. SubSeq(l, 2, 2 + 1) = <<l[2], l[2 + 1]>>
      BY <2>1, <3>2, ShortSubSeq
    <3> QED
      BY <3>1, <3>3
  <2> HIDE DEF l
  <2>3. Word(l) = SubSeq(l, 1, 1) /\ Rest(l) = SubSeq(l, 2, 3)
    <3>1. WordFrom(l, 3, 1, 1, 2)
      BY <1>1, <2>1 DEF WordFrom
    <3>2. Apart(l, 3, 1, 1, 2)
      BY <3>1, FirstWord
    <3> QED
      BY <3>2 DEF Apart
  <2> QED
    BY <2>1, <2>2, <2>3 DEF l
<1>5. ASSUME NEW p \in Prints PROVE Word(<<Space, p>>) = <<p>>
  <2> DEFINE l == <<Space, p>>
  <2>1. l \in Seq(Token) /\ Len(l) = 2 /\ 2 \in DOMAIN l /\ l[1] = Space /\ l[2] = p
    BY <1>1
  <2>2. SubSeq(l, 2, 2) = <<l[2]>>
    <3> HIDE DEF l
    <3> QED
      BY <2>1, ShortSubSeq
  <2> HIDE DEF l
  <2>3. Word(l) = SubSeq(l, 2, 2)
    <3>1. WordFrom(l, 2, 2, 2, 3)
      BY <1>1, <2>1 DEF WordFrom
    <3>2. Apart(l, 2, 2, 2, 3)
      BY <3>1, FirstWord
    <3> QED
      BY <3>2 DEF Apart
  <2> QED
    BY <2>1, <2>2, <2>3 DEF l
<1>6. Word(<<>>) = <<>> /\ Word(<<Space>>) = <<>>
  BY NoWord
<1> QED
  BY <1>2, <1>3, <1>4, <1>5, <1>6

----------------------------------------------------------------------------
(* A file of finished lines, the last one perhaps on its way.              *)

LEMMA TokensDiffer ==
  /\ Space \notin Hosts /\ Newline \notin Hosts /\ Cut \notin Hosts /\ Nothing \notin Hosts
  /\ Space \notin Prints /\ Newline \notin Prints /\ Cut \notin Prints /\ Nothing \notin Prints
  /\ Torn \notin Prints /\ "down" \notin Prints /\ "making" \notin Prints /\ Hosts \cap Prints = {}
  /\ Space # Newline
BY KnownHostsAssumption DEF Space, Newline

LEMMA HostsStartLines ==
  ASSUME NEW f \in Seq(Token), Local(f)
  PROVE  Lines(f) = {i \in DOMAIN f : f[i] \in Hosts}
<1>1. Len(f) \in Nat /\ DOMAIN f = 1 .. Len(f)
  OBVIOUS
<1>2. ASSUME NEW i \in DOMAIN f PROVE i \in Lines(f) <=> f[i] \in Hosts
  <2>1. CASE i = 1
    <3>1. f # <<>>
      OBVIOUS
    <3> QED
      BY <2>1, <3>1 DEF Lines, Local
  <2>2. CASE i # 1
    <3>1. i - 1 \in DOMAIN f /\ i = (i - 1) + 1
      BY <1>1, <2>2
    <3>2. Follows(f[i - 1], f[i])
      BY <3>1 DEF Local
    <3> QED
      BY <2>2, <3>2, TokensDiffer DEF Follows, Lines
  <2> QED
    BY <2>1, <2>2
<1> QED
  BY <1>2 DEF Lines

LEMMA LineShape ==
  ASSUME NEW f \in Seq(Token), Local(f), NEW n \in Nat, n = Len(f),
         NEW i \in Nat, 1 <= i, i <= n, f[i] \in Hosts
  PROVE  /\ n = i => LineAt(f, i) = <<f[i]>>
         /\ n = i + 1 => LineAt(f, i) = <<f[i], Space>>
         /\ i + 2 <= n => LineAt(f, i) = <<f[i], Space, f[i + 2]>> /\ f[i + 2] \in Prints
<1>1. i \in DOMAIN f /\ i \in 1 .. Len(f) /\ f[i] # Newline
  BY TokensDiffer
<1>2. ASSUME i + 1 <= n PROVE f[i + 1] = Space
  <2>1. i + 1 \in DOMAIN f
    BY <1>2
  <2>2. Follows(f[i], f[i + 1])
    BY <1>1, <2>1 DEF Local
  <2> QED
    BY <2>2, TokensDiffer DEF Follows
<1>3. ASSUME i + 2 <= n PROVE f[i + 2] \in Prints
  <2>1. i + 1 <= n /\ i + 1 \in DOMAIN f /\ i + 2 \in DOMAIN f /\ i + 2 = (i + 1) + 1
    BY <1>3
  <2>2. Follows(f[i + 1], f[i + 2])
    BY <2>1 DEF Local
  <2> QED
    BY <1>2, <2>1, <2>2, TokensDiffer DEF Follows
<1>4. ASSUME i + 3 <= n PROVE f[i + 3] = Newline
  <2>1. i + 2 <= n /\ i + 2 \in DOMAIN f /\ i + 3 \in DOMAIN f /\ i + 3 = (i + 2) + 1
    BY <1>4
  <2>2. Follows(f[i + 2], f[i + 3])
    BY <2>1 DEF Local
  <2> QED
    BY <1>3, <2>1, <2>2, TokensDiffer DEF Follows
<1>5. ASSUME n = i PROVE LineAt(f, i) = <<f[i]>>
  <2>1. EndsAt(f, i, i + 1)
    <3>1. \A k \in i .. (i + 1) - 1 : k = i
      OBVIOUS
    <3> QED
      BY <1>1, <1>5, <3>1 DEF EndsAt
  <2>2. LineAt(f, i) = SubSeq(f, i, (i + 1) - 1)
    BY <1>1, <2>1, LineIs
  <2>3. SubSeq(f, i, i) = <<f[i]>> /\ (i + 1) - 1 = i
    BY <1>1, ShortSubSeq
  <2> QED
    BY <2>2, <2>3
<1>6. ASSUME n = i + 1 PROVE LineAt(f, i) = <<f[i], Space>>
  <2>1. f[i + 1] = Space /\ Space # Newline
    BY <1>2, <1>6, TokensDiffer
  <2>2. EndsAt(f, i, i + 2)
    <3>1. \A k \in i .. (i + 2) - 1 : k = i \/ k = i + 1
      OBVIOUS
    <3> QED
      BY <1>1, <1>6, <2>1, <3>1 DEF EndsAt
  <2>3. LineAt(f, i) = SubSeq(f, i, (i + 2) - 1)
    BY <1>1, <2>2, LineIs
  <2>4. i + 1 <= Len(f) /\ (i + 2) - 1 = i + 1
    BY <1>6
  <2>5. SubSeq(f, i, i + 1) = <<f[i], f[i + 1]>>
    BY <1>1, <2>4, ShortSubSeq
  <2> QED
    BY <2>1, <2>3, <2>4, <2>5
<1>7. ASSUME i + 2 <= n PROVE LineAt(f, i) = <<f[i], Space, f[i + 2]>> /\ f[i + 2] \in Prints
  <2>1. f[i + 1] = Space /\ f[i + 2] \in Prints /\ Space # Newline /\ f[i + 2] # Newline
        /\ (i + 3 <= n => f[i + 3] = Newline)
    BY <1>2, <1>3, <1>4, <1>7, TokensDiffer
  <2>2. EndsAt(f, i, i + 3)
    <3>1. \A k \in i .. (i + 3) - 1 : k = i \/ k = i + 1 \/ k = i + 2
      OBVIOUS
    <3> QED
      BY <1>1, <1>7, <2>1, <3>1 DEF EndsAt
  <2>3. LineAt(f, i) = SubSeq(f, i, (i + 3) - 1)
    BY <1>1, <2>2, LineIs
  <2>4. i + 2 <= Len(f) /\ (i + 3) - 1 = i + 2
    BY <1>7
  <2>5. SubSeq(f, i, i + 2) = <<f[i], f[i + 1], f[i + 2]>>
    BY <1>1, <2>4, ShortSubSeq
  <2> QED
    BY <2>1, <2>3, <2>4, <2>5
<1> QED
  BY <1>5, <1>6, <1>7

(* What such a file says of a host.                                        *)
LEMMA SaysOfLocal ==
  ASSUME NEW f \in Seq(Token), Local(f), NEW h \in Hosts
  PROVE  \/ Says(f, h) = <<Nothing>> /\ \A i \in DOMAIN f : f[i] # h
         \/ \E i \in DOMAIN f : /\ f[i] = h
                                /\ \/ Says(f, h) = <<>> /\ Len(f) <= i + 1
                                   \/ /\ i + 2 <= Len(f) /\ f[i + 2] \in Prints
                                      /\ Says(f, h) = <<f[i + 2]>>
<1>1. Len(f) \in Nat /\ DOMAIN f = 1 .. Len(f)
  OBVIOUS
<1>2. ASSUME NEW i \in Lines(f)
      PROVE  /\ i \in DOMAIN f /\ f[i] \in Hosts /\ Word(LineAt(f, i)) = <<f[i]>>
             /\ \/ Len(f) <= i + 1 /\ Word(Rest(LineAt(f, i))) = <<>>
                \/ /\ i + 2 <= Len(f) /\ f[i + 2] \in Prints
                   /\ Word(Rest(LineAt(f, i))) = <<f[i + 2]>>
  <2>1. PICK n \in Nat : n = Len(f)
    BY <1>1
  <2>2. i \in Nat /\ 1 <= i /\ i <= n /\ f[i] \in Hosts /\ i \in DOMAIN f
    BY <1>1, <2>1, HostsStartLines
  <2>3. n = i \/ n = i + 1 \/ i + 2 <= n
    BY <2>2
  <2>4. CASE i + 2 <= n
    <3>1. LineAt(f, i) = <<f[i], Space, f[i + 2]>> /\ f[i + 2] \in Prints
      BY <2>1, <2>2, <2>4, LineShape
    <3>2. Word(LineAt(f, i)) = <<f[i]>> /\ Word(Rest(LineAt(f, i))) = <<f[i + 2]>>
      BY <2>2, <3>1, LineWords
    <3> QED
      BY <2>1, <2>2, <2>4, <3>1, <3>2
  <2>5. CASE n = i + 1 \/ n = i
    <3>1. LineAt(f, i) = <<f[i], Space>> \/ LineAt(f, i) = <<f[i]>>
      BY <2>1, <2>2, <2>5, LineShape
    <3>2. Word(LineAt(f, i)) = <<f[i]>> /\ Word(Rest(LineAt(f, i))) = <<>>
      BY <2>2, <3>1, LineWords
    <3>3. n <= i + 1
      BY <2>2, <2>5
    <3> QED
      BY <2>1, <2>2, <3>2, <3>3
  <2> QED
    BY <2>3, <2>4, <2>5
<1>3. CASE LinesOf(f, h) = {}
  <2>1. ASSUME NEW i \in DOMAIN f, f[i] = h PROVE FALSE
    <3>1. i \in Lines(f)
      BY <2>1, HostsStartLines
    <3> QED
      BY <1>2, <1>3, <2>1, <3>1 DEF LinesOf
  <2> QED
    BY <1>3, <2>1 DEF Says
<1>4. CASE LinesOf(f, h) # {}
  <2>1. LinesOf(f, h) \in SUBSET Nat /\ LinesOf(f, h) \in SUBSET Int
    BY <1>1 DEF LinesOf, Lines
  <2>2. PICK i \in LinesOf(f, h) : \A k \in LinesOf(f, h) : i <= k
    BY <1>4, <2>1, LeastExists
  <2>3. Min(LinesOf(f, h)) = i
    BY <2>1, <2>2, MinIs
  <2>4. Says(f, h) = Word(Rest(LineAt(f, i)))
    BY <1>4, <2>3 DEF Says
  <2>5. i \in Lines(f) /\ <<f[i]>> = <<h>>
    BY <1>2, <2>2 DEF LinesOf
  <2> QED
    BY <1>2, <2>4, <2>5
<1> QED
  BY <1>3, <1>4
----------------------------------------------------------------------------
(* Where it starts, and the servers' steps.                                *)

LEMMA InitInv == Init => IInv
<1> SUFFICES ASSUME Init PROVE IInv
  OBVIOUS
<1> USE DEF Init
<1>1. TypeOK
  <2>1. known \in Seq(Token) /\ left \in [Clients -> Seq(Token)]
    OBVIOUS
  <2>2. \A c \in Clients : at[c] = "write" <=> left[c] # <<>>
    OBVIOUS
  <2>3. {checks, stops, fails} \subseteq Nat
    OBVIOUS
  <2> QED
    BY <2>1, <2>2, <2>3 DEF TypeOK
<1>2. Met /\ Owing
  BY TokensDiffer, KnownHostsAssumption DEF Met, Owing
<1>3. Saved /\ Loyal
  BY TokensDiffer, KnownHostsAssumption DEF Saved, Loyal
<1>4. Tidy
  <2>1. Local(known) /\ Truthful(known) /\ Whole(known)
    BY DEF Local, Truthful, Whole
  <2> QED
    BY <2>1 DEF Tidy
<1>5. Lined /\ Pins /\ NoFalseAlarm
  BY DEF Lined, Pins, NoFalseAlarm, Nothing
<1> QED
  BY <1>1, <1>2, <1>3, <1>4, <1>5 DEF IInv

(* What a step of a server leaves of the certificates: those that may have *)
(* been shown, unless the file was lost.                                   *)
Keeps == /\ UNCHANGED client /\ changed \subseteq changed' /\ changed' \subseteq Hosts
         /\ fails' = 0 => fails = 0 /\ changed' = changed
         /\ \A h \in Hosts \ changed' : cert'[h] = cert[h] \/ cert[h] \notin Prints

LEMMA TypeServer ==
  ASSUME TypeOK, UNCHANGED client, changed' \subseteq Hosts,
         cert' \in [Hosts -> Prints \cup {Nothing, Torn}],
         id' \in [Hosts -> Prints \cup {"down", "making"}],
         made' \subseteq Prints, stops' \in Nat, fails' \in Nat
  PROVE  TypeOK'
BY DEF TypeOK, client

LEMMA ServerKeeps ==
  ASSUME IInv, Keeps, TypeOK', Saved'
  PROVE  IInv'
<1> USE DEF IInv
<1>1. Met' /\ Owing' /\ Pins'
  <2>1. Met' /\ Owing'
    BY DEF Keeps, client, Met, Owing
  <2>2. Pins'
    BY DEF Keeps, client, Pins, Settled
  <2> QED
    BY <2>1, <2>2
<1>2. Loyal'
  BY DEF Keeps, client, Loyal, Met
<1>3. Tidy'
  <2> SUFFICES ASSUME ~garbled PROVE Tidy'
    BY DEF Tidy, Keeps, client
  <2>1. Truthful(known)'
    <3> SUFFICES ASSUME NEW i \in DOMAIN known, NEW j \in DOMAIN known,
                        known[i] \in Hosts \ changed', j = i + 2
                 PROVE  known[j] = cert'[known[i]]
      BY DEF Truthful, Keeps, client
    <3>1. known \in Seq(Token) /\ i \in Nat /\ i + 1 \in DOMAIN known /\ j = (i + 1) + 1
      BY DEF TypeOK
    <3>2. Follows(known[i], known[i + 1]) /\ Follows(known[i + 1], known[j])
      BY <3>1 DEF Tidy, Local
    <3>3. known[j] \in Prints
      BY <3>2, TokensDiffer DEF Follows
    <3>4. known[i] \in Hosts \ changed /\ known[j] = cert[known[i]]
      BY DEF Tidy, Truthful, Keeps
    <3> QED
      BY <3>3, <3>4 DEF Keeps
  <2> QED
    BY <2>1 DEF Tidy, Keeps, client, Local, Whole, Midway
<1>4. Lined'
  BY DEF Lined, Keeps, client
<1>5. NoFalseAlarm'
  BY DEF NoFalseAlarm, Keeps, client
<1> QED
  BY <1>1, <1>2, <1>3, <1>4, <1>5

LEMMA ServerStep ==
  ASSUME IInv, NEW h \in Hosts,
         Start(h) \/ Truncate(h) \/ Save(h) \/ Ephemeral(h) \/ Stop(h) \/ Delete(h)
  PROVE  IInv'
<1> USE TokensDiffer
<1>0. /\ cert \in [Hosts -> Prints \cup {Nothing, Torn}] /\ changed \subseteq Hosts
      /\ id \in [Hosts -> Prints \cup {"down", "making"}]
      /\ made \subseteq Prints /\ stops \in Nat /\ fails \in Nat /\ TypeOK /\ Saved
  BY DEF IInv, TypeOK
<1>1. CASE Start(h)
  <2>1. TypeOK'
    BY <1>0, <1>1, TypeServer DEF Start
  <2>2. Saved' /\ Keeps
    BY <1>0, <1>1 DEF Start, Saved, Keeps
  <2> QED
    BY <2>1, <2>2, ServerKeeps
<1>2. CASE Truncate(h)
  <2>1. TypeOK'
    BY <1>0, <1>2, TypeServer DEF Truncate
  <2>2. Saved' /\ Keeps
    BY <1>0, <1>2 DEF Truncate, Saved, Keeps
  <2> QED
    BY <2>1, <2>2, ServerKeeps
<1>3. CASE Save(h)
  <2>1. PICK p \in Prints : /\ made' = made \cup {p} /\ cert' = [cert EXCEPT ![h] = p]
                            /\ id' = [id EXCEPT ![h] = p]
    BY <1>3 DEF Save
  <2>2. TypeOK'
    BY <1>0, <1>3, <2>1, TypeServer DEF Save
  <2>3. Saved' /\ Keeps
    BY <1>0, <1>3, <2>1 DEF Save, Saved, Keeps
  <2> QED
    BY <2>2, <2>3, ServerKeeps
<1>4. CASE Ephemeral(h)
  <2>1. PICK p \in Prints : made' = made \cup {p} /\ id' = [id EXCEPT ![h] = p]
    BY <1>4 DEF Ephemeral
  <2>2. TypeOK'
    BY <1>0, <1>4, <2>1, TypeServer DEF Ephemeral
  <2>3. Saved' /\ Keeps
    BY <1>0, <1>4, <2>1 DEF Ephemeral, Saved, Keeps
  <2> QED
    BY <2>2, <2>3, ServerKeeps
<1>5. CASE Stop(h)
  <2>1. TypeOK'
    BY <1>0, <1>5, TypeServer DEF Stop
  <2>2. Saved' /\ Keeps
    BY <1>0, <1>5 DEF Stop, Saved, Keeps
  <2> QED
    BY <2>1, <2>2, ServerKeeps
<1>6. CASE Delete(h)
  <2>1. TypeOK'
    BY <1>0, <1>6, TypeServer DEF Delete
  <2>2. Saved' /\ Keeps
    BY <1>0, <1>6 DEF Delete, Saved, Keeps
  <2> QED
    BY <2>1, <2>2, ServerKeeps
<1> QED
  BY <1>1, <1>2, <1>3, <1>4, <1>5, <1>6
----------------------------------------------------------------------------
(* The clients' steps: connecting and checking.                            *)

LEMMA ConnectStep ==
  ASSUME IInv, NEW c \in Clients, NEW h \in Hosts, Connect(c, h)
  PROVE  IInv'
<1> USE DEF IInv
<1>1. /\ at' = [at EXCEPT ![c] = "check"] /\ host' = [host EXCEPT ![c] = h]
      /\ print' = [print EXCEPT ![c] = id[h]] /\ verdict' = [verdict EXCEPT ![c] = Nothing]
      /\ checks' = checks + 1 /\ at[c] = "idle" /\ id[h] \in Prints
      /\ UNCHANGED <<known, left, pinned, garbled, server, fails>>
  BY DEF Connect
<1>2. TypeOK'
  <2>1. left[c] = <<>>
    BY <1>1 DEF TypeOK
  <2>2. \A d \in Clients : at'[d] = "write" <=> left'[d] # <<>>
    BY <1>1, <2>1 DEF TypeOK
  <2> QED
    BY <1>1, <2>2 DEF TypeOK, server
<1>3. Met'
  BY <1>1 DEF Met, TypeOK
<1>4. \A d \in Clients : /\ at'[d] = "write" <=> at[d] = "write"
                         /\ at[d] = "write" => host'[d] = host[d] /\ print'[d] = print[d]
  BY <1>1 DEF TypeOK
<1>5. Owing'
  BY <1>1, <1>4 DEF Owing
<1>6. Saved' /\ Pins'
  BY <1>1 DEF Saved, Pins, Settled, server
<1>7. Loyal'
  BY <1>1 DEF Loyal, Saved, TypeOK, server
<1>8. Tidy'
  BY <1>1, <1>4 DEF Tidy, Local, Truthful, Whole, Midway, server
<1>9. Lined' /\ NoFalseAlarm'
  BY <1>1 DEF Lined, NoFalseAlarm, TypeOK, server, Nothing
<1> QED
  BY <1>2, <1>3, <1>5, <1>6, <1>7, <1>8, <1>9

(* What a file without unfinished lines says of a server that kept its     *)
(* certificate.                                                            *)
LEMMA SaysTheTruth ==
  ASSUME IInv, ~garbled, NEW h \in Hosts, NEW p, Says(known, h) = <<p>>, p # Nothing
  PROVE  /\ \E i \in DOMAIN known : known[i] = h
         /\ h \notin changed => p = cert[h]
<1>1. known \in Seq(Token) /\ Local(known) /\ Truthful(known)
  BY DEF IInv, TypeOK, Tidy
<1>2. PICK i \in DOMAIN known : /\ known[i] = h
                                /\ i + 2 <= Len(known) /\ Says(known, h) = <<known[i + 2]>>
  <2>1. <<p>> # <<Nothing>> /\ <<p>> # <<>>
    OBVIOUS
  <2> QED
    BY <1>1, <2>1, SaysOfLocal
<1>3. i + 2 \in DOMAIN known /\ known[i + 2] = p
  BY <1>1, <1>2
<1> QED
  BY <1>1, <1>2, <1>3 DEF Truthful

LEMMA CheckStep ==
  ASSUME IInv, NEW c \in Clients, Check(c)
  PROVE  IInv'
<1> USE DEF IInv
<1>1. /\ at[c] = "check" /\ UNCHANGED <<known, host, print, checks, pinned, server>>
      /\ fails \in Nat /\ fails' \in Nat
      /\ \/ Judge(c, Says(known, host[c])) /\ fails' = fails
         \/ fails' = fails + 1 /\ Judge(c, <<Nothing>>)
  BY DEF Check, TypeOK
<1>2. host[c] \in Hosts /\ print[c] \in Prints /\ print[c] # Nothing
  BY <1>1, TokensDiffer DEF Met
<1>3. CASE Remembers(c)
  <2>1. /\ at' = [at EXCEPT ![c] = "write"] /\ UNCHANGED verdict
        /\ left' = [left EXCEPT ![c] = <<host[c], Space, print[c], Newline>>]
        /\ garbled' = (garbled \/ \E d \in Clients : at[d] = "write")
    BY <1>3 DEF Remembers
  <2>2. TypeOK'
    <3>1. <<host[c], Space, print[c], Newline>> \in Seq(Token)
      BY <1>2 DEF Token
    <3>2. \A d \in Clients : at'[d] = "write" <=> left'[d] # <<>>
      BY <2>1 DEF TypeOK
    <3>3. garbled' \in BOOLEAN
      BY <2>1 DEF TypeOK
    <3>4. left' \in [Clients -> Seq(Token)]
      BY <2>1, <3>1 DEF TypeOK
    <3> QED
      BY <1>1, <2>1, <3>2, <3>3, <3>4 DEF TypeOK, server
  <2>3. Met' /\ Saved' /\ Loyal' /\ Pins'
    <3>1. Met'
      BY <1>1, <1>2, <2>1 DEF Met, TypeOK
    <3>2. Saved' /\ Loyal'
      BY <1>1 DEF Saved, Loyal, server
    <3>3. Pins'
      BY <1>1 DEF Pins, Settled
    <3> QED
      BY <3>1, <3>2, <3>3
  <2>4. Owing'
    BY <1>1, <2>1 DEF Owing, TypeOK
  <2>5. Tidy'
    <3> SUFFICES ASSUME ~garbled' PROVE Tidy'
      BY DEF Tidy
    <3>1. ~garbled /\ \A d \in Clients : at[d] # "write"
      BY <2>1
    <3>2. Local(known) /\ Truthful(known) /\ Whole(known)
      BY <3>1 DEF Tidy
    <3>3. Local(known') /\ Truthful(known)' /\ Whole(known')
      BY <1>1, <3>2 DEF Truthful, server
    <3>4. \A d \in Clients : at'[d] = "write" => d = c
      BY <2>1, <3>1 DEF TypeOK
    <3>5. Midway(c)'
      <4>1. left'[c] = <<host'[c], Space, print'[c], Newline>>
        BY <1>1, <2>1 DEF TypeOK
      <4> QED
        BY <3>3, <4>1 DEF Midway
    <3> QED
      BY <1>1, <3>3, <3>4, <3>5 DEF Tidy
  <2>6. Lined' /\ NoFalseAlarm'
    <3>1. (fails' = 0 => fails = 0) /\ (~garbled' => ~garbled)
      <4>1. fails' = fails \/ fails' = fails + 1
        BY <1>1
      <4>2. fails' = 0 => fails = 0
        BY <1>1, <4>1
      <4>3. ~garbled' => ~garbled
        BY <2>1
      <4> QED
        BY <4>2, <4>3
    <3>2. UNCHANGED <<known, host, changed, verdict>>
      BY <1>1, <2>1 DEF server
    <3> QED
      BY <3>1, <3>2 DEF Lined, NoFalseAlarm
  <2> QED
    BY <2>2, <2>3, <2>4, <2>5, <2>6
<1>4. ASSUME NEW v \in {"ok", "refused"}, Ends(c, v), UNCHANGED garbled
      PROVE  TypeOK' /\ Met' /\ Owing' /\ Saved' /\ Loyal' /\ Tidy' /\ Pins'
  <2>1. /\ at' = [at EXCEPT ![c] = "idle"] /\ verdict' = [verdict EXCEPT ![c] = v]
        /\ UNCHANGED left
    BY <1>4 DEF Ends
  <2>2. TypeOK'
    <3>1. left[c] = <<>>
      BY <1>1 DEF TypeOK
    <3>2. \A d \in Clients : at'[d] = "write" <=> left'[d] # <<>>
      BY <2>1, <3>1 DEF TypeOK
    <3> QED
      BY <1>1, <1>4, <2>1, <3>2 DEF TypeOK, server
  <2>3. \A d \in Clients : at'[d] = "write" <=> at[d] = "write"
    BY <1>1, <2>1 DEF TypeOK
  <2>4. Met'
    BY <1>1, <1>2, <2>1 DEF Met, TypeOK
  <2>5. Owing'
    BY <1>1, <2>1, <2>3 DEF Owing
  <2>6. Saved' /\ Loyal' /\ Pins'
    BY <1>1 DEF Saved, Loyal, Pins, Settled, server
  <2>7. Tidy'
    BY <1>1, <1>4, <2>1, <2>3 DEF Tidy, Local, Truthful, Whole, Midway, server
  <2> QED
    BY <2>2, <2>4, <2>5, <2>6, <2>7
<1>5. CASE Ends(c, "ok") /\ UNCHANGED garbled /\ ~Remembers(c) /\ ~Ends(c, "refused")
  <2>1. verdict' = [verdict EXCEPT ![c] = "ok"]
    BY <1>5 DEF Ends
  <2>2. NoFalseAlarm'
    BY <1>1, <1>5, <2>1 DEF NoFalseAlarm, TypeOK, server
  <2>3. Lined'
    <3> SUFFICES ASSUME fails' = 0, ~garbled PROVE \E i \in DOMAIN known : known[i] = host[c]
      BY <1>1, <1>5, <2>1 DEF Lined, TypeOK, server
    <3>1. fails = 0 /\ Says(known, host[c]) \in {<<print[c]>>, <<>>}
      BY <1>1, <1>5 DEF Judge
    <3>2. CASE Says(known, host[c]) = <<print[c]>>
      BY <1>2, <3>2, SaysTheTruth
    <3>3. CASE Says(known, host[c]) = <<>>
      <4>1. known \in Seq(Token) /\ Local(known)
        BY DEF TypeOK, Tidy
      <4>2. <<>> # <<Nothing>>
        OBVIOUS
      <4> QED
        BY <1>2, <3>3, <4>1, <4>2, SaysOfLocal
    <3> QED
      BY <3>1, <3>2, <3>3
  <2> QED
    BY <1>4, <1>5, <2>2, <2>3
<1>6. CASE Ends(c, "refused") /\ UNCHANGED garbled /\ ~Remembers(c) /\ ~Ends(c, "ok")
  <2>1. verdict' = [verdict EXCEPT ![c] = "refused"]
    BY <1>6 DEF Ends
  <2>2. /\ fails' = fails /\ Says(known, host[c]) # <<Nothing>>
        /\ Says(known, host[c]) # <<print[c]>> /\ Says(known, host[c]) # <<>>
    BY <1>1, <1>6 DEF Judge
  <2>3. Lined'
    BY <1>1, <1>6, <2>1, <2>2 DEF Lined, TypeOK, server
  <2>4. NoFalseAlarm'
    <3> SUFFICES ASSUME ~garbled, host[c] \notin changed PROVE FALSE
      BY <1>1, <1>6, <2>1 DEF NoFalseAlarm, TypeOK, server
    <3>1. known \in Seq(Token) /\ Local(known)
      BY DEF TypeOK, Tidy
    <3>2. PICK p \in Prints : Says(known, host[c]) = <<p>>
      BY <1>2, <2>2, <3>1, SaysOfLocal
    <3>3. p = cert[host[c]]
      BY <1>2, <3>2, SaysTheTruth, TokensDiffer
    <3>4. print[c] = cert[host[c]]
      BY <1>2 DEF Loyal
    <3> QED
      BY <2>2, <3>2, <3>3, <3>4
  <2> QED
    BY <1>4, <1>6, <2>3, <2>4
<1>7. \/ Remembers(c)
      \/ Ends(c, "ok") /\ UNCHANGED garbled /\ ~Ends(c, "refused")
      \/ Ends(c, "refused") /\ UNCHANGED garbled /\ ~Ends(c, "ok")
  <2>1. ~(Ends(c, "ok") /\ Ends(c, "refused"))
    BY DEF Ends, TypeOK
  <2> QED
    BY <1>1, <2>1 DEF Judge
<1> QED
  BY <1>3, <1>5, <1>6, <1>7
----------------------------------------------------------------------------
(* The clients' steps: writing a line.                                     *)

LEMMA LocalGrows ==
  ASSUME NEW f \in Seq(Token), Local(f), NEW t \in Token, NEW n \in Nat, n = Len(f),
         \/ n = 0 /\ t \in Hosts
         \/ n > 0 /\ Follows(f[n], t),
         NEW g, g = Append(f, t)
  PROVE  Local(g)
<1>1. /\ DOMAIN f = 1 .. n /\ DOMAIN g = 1 .. n + 1 /\ g[n + 1] = t
      /\ \A k \in 1 .. n : g[k] = f[k]
  OBVIOUS
<1>2. g[1] \in Hosts
  <2>1. CASE n = 0
    BY <1>1, <2>1
  <2>2. CASE n > 0
    <3>1. f # <<>> /\ 1 \in 1 .. n
      BY <2>2
    <3> QED
      BY <1>1, <3>1 DEF Local
  <2> QED
    BY <2>1, <2>2
<1>3. ASSUME NEW i \in DOMAIN g, NEW j \in DOMAIN g, j = i + 1 PROVE Follows(g[i], g[j])
  <2>1. i \in 1 .. n
    BY <1>1, <1>3
  <2>2. CASE j \in 1 .. n
    BY <1>1, <1>3, <2>1, <2>2 DEF Local
  <2>3. CASE j = n + 1
    <3>1. i = n /\ n > 0
      BY <1>3, <2>1, <2>3
    <3> QED
      BY <1>1, <2>1, <2>3, <3>1
  <2> QED
    BY <1>1, <2>2, <2>3
<1> QED
  BY <1>2, <1>3 DEF Local

LEMMA TruthfulGrows ==
  ASSUME NEW f \in Seq(Token), Local(f), Truthful(f), NEW t \in Token, NEW n \in Nat,
         n = Len(f), n > 1 /\ f[n - 1] \in Hosts \ changed => t = cert[f[n - 1]],
         NEW g, g = Append(f, t)
  PROVE  Truthful(g)
<1>1. /\ DOMAIN f = 1 .. n /\ DOMAIN g = 1 .. n + 1 /\ g[n + 1] = t
      /\ \A k \in 1 .. n : g[k] = f[k]
  OBVIOUS
<1>2. ASSUME NEW i \in DOMAIN g, NEW j \in DOMAIN g, g[i] \in Hosts \ changed, j = i + 2
      PROVE  g[j] = cert[g[i]]
  <2>1. i \in 1 .. n
    BY <1>1, <1>2
  <2>2. CASE j \in 1 .. n
    BY <1>1, <1>2, <2>1, <2>2 DEF Truthful
  <2>3. CASE j = n + 1
    <3>1. i = n - 1 /\ n > 1
      BY <1>2, <2>1, <2>3
    <3> QED
      BY <1>1, <1>2, <2>1, <2>3, <3>1
  <2> QED
    BY <1>1, <2>2, <2>3
<1> QED
  BY <1>2 DEF Truthful

(* What the line being written says next, and whether it fits.             *)
LEMMA NextToken ==
  ASSUME IInv, ~garbled, NEW c \in Clients, at[c] = "write",
         NEW n \in Nat, n = Len(known), NEW t, t = Head(left[c])
  PROVE  /\ t \in Token
         /\ \/ n = 0 /\ t \in Hosts
            \/ n > 0 /\ Follows(known[n], t)
         /\ n > 1 /\ known[n - 1] \in Hosts \ changed => t = cert[known[n - 1]]
<1> USE DEF IInv
<1>1. known \in Seq(Token) /\ Local(known) /\ Midway(c) /\ DOMAIN known = 1 .. n
  BY DEF Tidy, TypeOK
<1>2. host[c] \in Hosts /\ print[c] \in Prints
  BY DEF Met
<1>3. n > 1 => /\ known[n - 1] \in Token /\ known[n] \in Token
               /\ Follows(known[n - 1], known[n])
  <2> SUFFICES ASSUME n > 1 PROVE /\ known[n - 1] \in Token /\ known[n] \in Token
                                  /\ Follows(known[n - 1], known[n])
    OBVIOUS
  <2>1. n - 1 \in 1 .. n /\ n \in 1 .. n /\ n = (n - 1) + 1
    OBVIOUS
  <2>2. known[n - 1] \in Token /\ known[n] \in Token
    BY <1>1, <2>1, ElementOfSeq
  <2>3. Follows(known[n - 1], known[n])
    BY <1>1, <2>1 DEF Local
  <2> QED
    BY <2>2, <2>3
<1>4. CASE left[c] = <<host[c], Space, print[c], Newline>> /\ Whole(known)
  <2>1. t = host[c]
    BY <1>4
  <2>2. n = 0 \/ (n > 0 /\ known[n] = Newline)
    BY <1>1, <1>4 DEF Whole
  <2>3. ~(n > 1 /\ known[n - 1] \in Hosts)
    BY <1>3, <2>2, TokensDiffer DEF Follows
  <2> QED
    BY <1>2, <2>1, <2>2, <2>3 DEF Follows, Token
<1>5. CASE left[c] = <<Space, print[c], Newline>> /\ n > 0 /\ known[n] = host[c]
  <2>1. t = Space
    BY <1>5
  <2>2. ~(n > 1 /\ known[n - 1] \in Hosts)
    BY <1>2, <1>3, <1>5, TokensDiffer DEF Follows
  <2> QED
    BY <1>2, <1>5, <2>1, <2>2 DEF Follows, Token
<1>6. CASE left[c] = <<print[c], Newline>> /\ n > 1 /\ known[n] = Space /\ known[n - 1] = host[c]
  <2>1. t = print[c]
    BY <1>6
  <2>2. host[c] \notin changed => t = cert[known[n - 1]]
    BY <1>2, <1>6, <2>1 DEF Loyal
  <2> QED
    BY <1>2, <1>6, <2>1, <2>2 DEF Follows, Token
<1>7. CASE left[c] = <<Newline>> /\ n > 2 /\ known[n] = print[c] /\ known[n - 2] = host[c]
  <2>1. t = Newline
    BY <1>7
  <2>2. ~(n > 1 /\ known[n - 1] \in Hosts)
    BY <1>2, <1>3, <1>7, TokensDiffer DEF Follows
  <2>3. n > 0
    BY <1>7
  <2> QED
    BY <1>2, <1>7, <2>1, <2>2, <2>3 DEF Follows, Token
<1> QED
  BY <1>1, <1>4, <1>5, <1>6, <1>7 DEF Midway
LEMMA Tails ==
  ASSUME NEW h \in Token, NEW p \in Token
  PROVE  /\ Tail(<<h, Space, p, Newline>>) = <<Space, p, Newline>>
         /\ Tail(<<Space, p, Newline>>) = <<p, Newline>>
         /\ Tail(<<p, Newline>>) = <<Newline>>
<1> USE DEF Space, Newline
<1>1. Tail(<<h, Space, p, Newline>>) = <<Space, p, Newline>>
  OBVIOUS
<1>2. Tail(<<Space, p, Newline>>) = <<p, Newline>>
  OBVIOUS
<1>3. Tail(<<p, Newline>>) = <<Newline>>
  OBVIOUS
<1> QED
  BY <1>1, <1>2, <1>3

LEMMA WriteStep ==
  ASSUME IInv, NEW c \in Clients, Write(c)
  PROVE  IInv'
<1> USE DEF IInv
<1> DEFINE t == Head(left[c])
           ends == Len(left[c]) = 1
<1>1. /\ at[c] = "write" /\ known' = Append(known, t) /\ left' = [left EXCEPT ![c] = Tail(@)]
      /\ UNCHANGED <<host, print, checks, garbled, server, fails>>
      /\ ends => /\ at' = [at EXCEPT ![c] = "idle"] /\ verdict' = [verdict EXCEPT ![c] = "ok"]
                 /\ pinned' = IF pinned[host[c]] = Nothing /\ Says(known', host[c]) = <<print[c]>>
                              THEN [pinned EXCEPT ![host[c]] = print[c]] ELSE pinned
      /\ ~ends => UNCHANGED <<at, verdict, pinned>>
  BY DEF Write, Put
<1>2. /\ host[c] \in Hosts /\ print[c] \in Prints /\ print[c] # Nothing
      /\ left \in [Clients -> Seq(Token)] /\ known \in Seq(Token)
      /\ left[c] \in Seq(Token) /\ left[c] # <<>>
  BY <1>1, TokensDiffer DEF Met, TypeOK
<1>3. t \in Token /\ Tail(left[c]) \in Seq(Token) /\ (ends <=> Tail(left[c]) = <<>>)
  <2>1. /\ Head(left[c]) \in Token /\ Tail(left[c]) \in Seq(Token)
        /\ Len(Tail(left[c])) = Len(left[c]) - 1
    BY <1>2, HeadTailProperties
  <2>2. Tail(left[c]) = <<>> <=> Len(Tail(left[c])) = 0
    BY <2>1, EmptySeq
  <2>3. Len(left[c]) \in Nat
    BY <1>2
  <2> QED
    BY <2>1, <2>2, <2>3
<1>4. left[c] \in {<<host[c], Space, print[c], Newline>>, <<Space, print[c], Newline>>,
                  <<print[c], Newline>>, <<Newline>>}
  BY <1>1 DEF Owing
<1>5. ends => t = Newline
  BY <1>4
<1>6. /\ left[c] = <<host[c], Space, print[c], Newline>>
         => ~ends /\ Tail(left[c]) = <<Space, print[c], Newline>>
      /\ left[c] = <<Space, print[c], Newline>> => ~ends /\ Tail(left[c]) = <<print[c], Newline>>
      /\ left[c] = <<print[c], Newline>> => ~ends /\ Tail(left[c]) = <<Newline>>
  <2>1. host[c] \in Token /\ print[c] \in Token
    BY <1>2 DEF Token
  <2>2. /\ left[c] = <<host[c], Space, print[c], Newline>>
           => Tail(left[c]) = <<Space, print[c], Newline>>
        /\ left[c] = <<Space, print[c], Newline>> => Tail(left[c]) = <<print[c], Newline>>
        /\ left[c] = <<print[c], Newline>> => Tail(left[c]) = <<Newline>>
    BY <2>1, Tails
  <2>3. /\ left[c] = <<host[c], Space, print[c], Newline>> => ~ends
        /\ left[c] = <<Space, print[c], Newline>> => ~ends
        /\ left[c] = <<print[c], Newline>> => ~ends
    OBVIOUS
  <2> QED
    BY <2>2, <2>3
<1> HIDE DEF t, ends
<1>7. TypeOK'
  <2>1. known' \in Seq(Token) /\ left' \in [Clients -> Seq(Token)]
    BY <1>1, <1>2, <1>3
  <2>2. \A d \in Clients : at'[d] = "write" <=> left'[d] # <<>>
    BY <1>1, <1>2, <1>3 DEF TypeOK
  <2>3. pinned' \in [Hosts -> Prints \cup {Nothing}]
    <3>1. pinned' = pinned \/ pinned' = [pinned EXCEPT ![host[c]] = print[c]]
      BY <1>1
    <3> QED
      BY <1>2, <3>1 DEF TypeOK
  <2>4. /\ at' \in [Clients -> {"idle", "check", "write"}]
        /\ verdict' \in [Clients -> {Nothing, "ok", "refused", "error"}]
    BY <1>1 DEF TypeOK
  <2> QED
    BY <1>1, <2>1, <2>2, <2>3, <2>4 DEF TypeOK, server
<1>8. Met'
  BY <1>1, <1>2 DEF Met, TypeOK
<1>9. Owing'
  <2> SUFFICES ASSUME NEW d \in Clients, at'[d] = "write"
               PROVE  left'[d] \in {<<host[d], Space, print[d], Newline>>, <<Space, print[d], Newline>>,
                                   <<print[d], Newline>>, <<Newline>>}
    BY <1>1 DEF Owing
  <2>1. CASE d = c
    <3>1. ~ends
      BY <1>1, <2>1 DEF TypeOK
    <3> QED
      BY <1>1, <1>2, <1>4, <1>6, <2>1, <3>1 DEF ends
  <2>2. CASE d # c
    <3>1. at[d] = "write" /\ left'[d] = left[d]
      BY <1>1, <1>2, <2>2 DEF TypeOK
    <3> QED
      BY <3>1 DEF Owing
  <2> QED
    BY <2>1, <2>2
<1>10. Saved' /\ Loyal'
  BY <1>1 DEF Saved, Loyal, server
<1>11. Pins'
  <2>1. \A h \in Hosts : pinned[h] # Nothing => Settled(known', h, pinned[h])
    BY <1>1, <1>2, <1>3, SettledStays DEF Pins
  <2>2. CASE pinned' = pinned
    BY <2>1, <2>2 DEF Pins
  <2>3. CASE /\ ends /\ Says(known', host[c]) = <<print[c]>>
             /\ pinned' = [pinned EXCEPT ![host[c]] = print[c]]
    <3>1. known' # <<>> /\ known'[Len(known')] = Newline /\ known' \in Seq(Token)
      BY <1>1, <1>2, <1>3, <1>5, <2>3
    <3>2. Settled(known', host[c], print[c])
      <4> DEFINE f == known'
      <4> HIDE DEF f
      <4>1. f \in Seq(Token) /\ Says(f, host[c]) = <<print[c]>> /\ f # <<>> /\ f[Len(f)] = Newline
        BY <2>3, <3>1 DEF f
      <4>2. Settled(f, host[c], print[c])
        BY <1>2, <4>1, SettledNow
      <4> QED
        BY <4>2 DEF f
    <3>3. \A h \in Hosts : pinned'[h] = IF h = host[c] THEN print[c] ELSE pinned[h]
      BY <2>3 DEF TypeOK
    <3> QED
      BY <2>1, <3>2, <3>3 DEF Pins
  <2> QED
    BY <1>1, <2>2, <2>3
<1>12. Tidy'
  <2> SUFFICES ASSUME ~garbled PROVE Tidy'
    BY <1>1 DEF Tidy
  <2>1. PICK n \in Nat : n = Len(known)
    BY <1>2
  <2>2. /\ Local(known) /\ Truthful(known) /\ Midway(c)
        /\ \A d \in Clients : at[d] = "write" => d = c
    BY <1>1 DEF Tidy
  <2>3. Local(known') /\ Truthful(known)'
    <3>1. /\ \/ n = 0 /\ t \in Hosts
             \/ n > 0 /\ Follows(known[n], t)
          /\ n > 1 /\ known[n - 1] \in Hosts \ changed => t = cert[known[n - 1]]
      BY <1>1, <2>1, NextToken DEF t
    <3>2. Local(known')
      BY <1>1, <1>2, <1>3, <2>1, <2>2, <3>1, LocalGrows
    <3>3. Truthful(known')
      BY <1>1, <1>2, <1>3, <2>1, <2>2, <3>1, TruthfulGrows
    <3> QED
      BY <1>1, <3>2, <3>3 DEF Truthful, server
  <2>4. \A d \in Clients : at'[d] = "write" => d = c
    BY <1>1, <2>2 DEF TypeOK
  <2>5. ASSUME ~ends PROVE Midway(c)'
    <3>1. /\ left'[c] = Tail(left[c]) /\ host'[c] = host[c] /\ print'[c] = print[c]
          /\ Len(known') = n + 1 /\ known'[n + 1] = t
          /\ n > 0 => known'[n] = known[n]
          /\ n > 1 => known'[n - 1] = known[n - 1]
      BY <1>1, <1>2, <1>3, <2>1
    <3>2. CASE left[c] = <<host[c], Space, print[c], Newline>>
      BY <1>6, <2>5, <3>1, <3>2 DEF Midway, t
    <3>3. CASE left[c] = <<Space, print[c], Newline>> /\ n > 0 /\ known[n] = host[c]
      BY <1>6, <2>5, <3>1, <3>3 DEF Midway, t
    <3>4. CASE left[c] = <<print[c], Newline>> /\ n > 1 /\ known[n] = Space /\ known[n - 1] = host[c]
      BY <1>6, <2>5, <3>1, <3>4 DEF Midway, t
    <3>5. left[c] # <<Newline>>
      BY <2>5 DEF ends
    <3> QED
      BY <2>1, <2>2, <3>2, <3>3, <3>4, <3>5 DEF Midway
  <2>6. ends => Whole(known')
    BY <1>1, <1>2, <1>3, <1>5 DEF Whole
  <2>7. ~ends => at'[c] = "write"
    BY <1>1
  <2>8. ends => at'[c] # "write"
    BY <1>1 DEF TypeOK
  <2> QED
    BY <2>3, <2>4, <2>5, <2>6, <2>7, <2>8 DEF Tidy
<1>13. Lined'
  <2> SUFFICES ASSUME fails = 0, ~garbled, NEW d \in Clients, verdict'[d] = "ok"
               PROVE  \E i \in DOMAIN known' : known'[i] = host[d]
    BY <1>1 DEF Lined, server
  <2>1. DOMAIN known \subseteq DOMAIN known' /\ \A i \in DOMAIN known : known'[i] = known[i]
    BY <1>1, <1>2, <1>3
  <2>2. CASE verdict[d] = "ok"
    BY <2>1, <2>2 DEF Lined
  <2>3. CASE verdict[d] # "ok"
    <3>1. d = c /\ ends
      BY <1>1, <2>3 DEF TypeOK
    <3>2. Midway(c)
      BY <1>1 DEF Tidy
    <3>3. \E i \in DOMAIN known : known[i] = host[c]
      <4>1. Len(known) > 2 /\ known[Len(known) - 2] = host[c]
        BY <1>6, <3>1, <3>2 DEF Midway
      <4>2. Len(known) - 2 \in DOMAIN known
        BY <1>2, <4>1
      <4> QED
        BY <4>1, <4>2
    <3> QED
      BY <2>1, <3>1, <3>3
  <2> QED
    BY <2>2, <2>3
<1>14. NoFalseAlarm'
  BY <1>1 DEF NoFalseAlarm, TypeOK, server
<1> QED
  BY <1>7, <1>8, <1>9, <1>10, <1>11, <1>12, <1>13, <1>14

LEMMA WriteFailsStep ==
  ASSUME IInv, NEW c \in Clients, WriteFails(c)
  PROVE  IInv'
<1> USE DEF IInv
<1>1. /\ at[c] = "write" /\ fails \in Nat /\ fails' = fails + 1
      /\ known' \in {known} \cup (IF Head(left[c]) \in Prints THEN {Append(known, Cut)} ELSE {})
      /\ garbled' = (garbled \/ known' # known \/ Head(left[c]) \notin Hosts)
      /\ at' = [at EXCEPT ![c] = "idle"] /\ verdict' = [verdict EXCEPT ![c] = "error"]
      /\ left' = [left EXCEPT ![c] = <<>>]
      /\ UNCHANGED <<host, print, checks, pinned, server>>
  BY DEF WriteFails, TypeOK
<1>2. known \in Seq(Token) /\ Cut \in Token /\ (known' = known \/ known' = Append(known, Cut))
  BY <1>1 DEF TypeOK, Token
<1>3. TypeOK'
  <2>1. known' \in Seq(Token) /\ left' \in [Clients -> Seq(Token)]
    <3>1. <<>> \in Seq(Token) /\ left \in [Clients -> Seq(Token)]
      BY DEF TypeOK
    <3>2. Append(known, Cut) \in Seq(Token)
      BY <1>2
    <3> QED
      BY <1>1, <1>2, <3>1, <3>2
  <2>2. \A d \in Clients : at'[d] = "write" <=> left'[d] # <<>>
    BY <1>1 DEF TypeOK
  <2>3. garbled' \in BOOLEAN
    BY <1>1 DEF TypeOK
  <2> QED
    BY <1>1, <2>1, <2>2, <2>3 DEF TypeOK, server
<1>4. \A d \in Clients : at'[d] = "write" => d # c /\ at[d] = "write"
  BY <1>1 DEF TypeOK
<1>5. Met'
  BY <1>1 DEF Met, TypeOK
<1>6. Owing'
  BY <1>1, <1>4 DEF Owing, TypeOK
<1>7. Saved' /\ Loyal'
  BY <1>1 DEF Saved, Loyal, server
<1>8. Pins'
  BY <1>1, <1>2, SettledStays DEF Pins
<1>9. Tidy'
  <2> SUFFICES ASSUME ~garbled' PROVE Tidy'
    BY DEF Tidy
  <2>1. ~garbled /\ known' = known /\ Head(left[c]) \in Hosts
    BY <1>1
  <2>2. Local(known) /\ Truthful(known) /\ Midway(c) /\ \A d \in Clients : at[d] = "write" => d = c
    BY <1>1, <2>1 DEF Tidy
  <2>3. Whole(known)
    <3>1. print[c] \in Prints
      BY <1>1 DEF Met
    <3>2. CASE left[c] = <<host[c], Space, print[c], Newline>> /\ Whole(known)
      BY <3>2
    <3>3. CASE left[c] \in {<<Space, print[c], Newline>>, <<print[c], Newline>>, <<Newline>>}
      <4>1. Head(left[c]) \in {Space, print[c], Newline}
        BY <3>3
      <4> QED
        BY <2>1, <3>1, <4>1, TokensDiffer
    <3> QED
      BY <2>2, <3>2, <3>3 DEF Midway
  <2>4. \A d \in Clients : at'[d] # "write"
    BY <1>4, <2>2
  <2> QED
    BY <1>1, <2>1, <2>2, <2>3, <2>4 DEF Tidy, Local, Truthful, Whole, server
<1>10. Lined'
  <2>1. fails' # 0
    BY <1>1
  <2> QED
    BY <2>1 DEF Lined
<1>11. NoFalseAlarm'
  <2>1. garbled => garbled'
    BY <1>1
  <2> QED
    BY <1>1, <2>1 DEF NoFalseAlarm, TypeOK, server
<1> QED
  BY <1>3, <1>5, <1>6, <1>7, <1>8, <1>9, <1>10, <1>11
----------------------------------------------------------------------------
(* The theorems.                                                           *)

LEMMA NextInv == IInv /\ [Next]_vars => IInv'
<1> SUFFICES ASSUME IInv, [Next]_vars PROVE IInv'
  OBVIOUS
<1>1. ASSUME NEW h \in Hosts,
             Start(h) \/ Truncate(h) \/ Save(h) \/ Ephemeral(h) \/ Stop(h) \/ Delete(h)
      PROVE  IInv'
  BY <1>1, ServerStep
<1>2. ASSUME NEW c \in Clients,
             (\E h \in Hosts : Connect(c, h)) \/ Check(c) \/ Write(c) \/ WriteFails(c)
      PROVE  IInv'
  BY <1>2, ConnectStep, CheckStep, WriteStep, WriteFailsStep
<1>3. CASE UNCHANGED vars
  <2>1. UNCHANGED <<client, server, fails, cert, id, made, stops, changed, known, at, host,
                    print, left, verdict, checks, pinned, garbled>>
    BY <1>3 DEF vars, client, server
  <2>2. TypeOK' /\ Met' /\ Owing' /\ Saved' /\ Loyal'
    BY <2>1 DEF IInv, TypeOK, Met, Owing, Saved, Loyal
  <2>3. Tidy'
    BY <2>1 DEF IInv, Tidy, Local, Truthful, Whole, Midway
  <2>4. Lined' /\ Pins' /\ NoFalseAlarm'
    BY <2>1 DEF IInv, Lined, Pins, Settled, NoFalseAlarm
  <2> QED
    BY <2>2, <2>3, <2>4 DEF IInv
<1> QED
  BY <1>1, <1>2, <1>3 DEF Next

LEMMA Invariance == Spec => []IInv
BY InitInv, NextInv, PTL DEF Spec

(* The files, the clients and the servers stay what they are said to be:   *)
(* Identity::new and check_known_at leave nothing else behind.             *)
THEOREM Typing == Spec => []TypeOK
<1>1. IInv => TypeOK
  BY DEF IInv
<1> QED
  BY <1>1, Invariance, PTL

(* A client refuses the certificate of a server (check_known_at) only when *)
(* that server's file was lost, unreadable or unwritable (Identity::new)   *)
(* or known_hosts has an unfinished line: never because of a restart, of   *)
(* where the process was stopped, or of what other clients did meanwhile.  *)
THEOREM NeverCriesWolf == Spec => []NoFalseAlarm
<1>1. IInv => NoFalseAlarm
  BY DEF IInv
<1> QED
  BY <1>1, Invariance, PTL

LEMMA AllRemembered == IInv => Remembered
<1> SUFFICES ASSUME IInv, fails = 0, ~garbled, \A c \in Clients : at[c] # "write",
                    NEW c \in Clients, verdict[c] = "ok"
             PROVE  Says(known, host[c]) = <<print[c]>>
  BY DEF Remembered
<1>1. /\ known \in Seq(Token) /\ Local(known) /\ Whole(known) /\ changed = {}
      /\ \E i \in DOMAIN known : known[i] = host[c]
  BY DEF IInv, TypeOK, Tidy, Lined
<1>2. host[c] \in Hosts /\ print[c] = cert[host[c]]
  BY <1>1 DEF IInv, Met, Loyal, Nothing
<1>3. PICK i \in DOMAIN known : known[i] = host[c] /\ Says(known, host[c]) # <<Nothing>>
  <2>1. PICK i \in DOMAIN known : known[i] = host[c]
    BY <1>1
  <2>2. CASE Says(known, host[c]) = <<Nothing>> /\ \A j \in DOMAIN known : known[j] # host[c]
    BY <2>1, <2>2
  <2>3. CASE \E j \in DOMAIN known :
               \/ Says(known, host[c]) = <<>>
               \/ known[j + 2] \in Prints /\ Says(known, host[c]) = <<known[j + 2]>>
    BY <2>1, <2>3, TokensDiffer
  <2> QED
    BY <1>1, <1>2, <2>2, <2>3, SaysOfLocal
<1>4. PICK p \in Prints : Says(known, host[c]) = <<p>>
  <2>1. ASSUME NEW j \in DOMAIN known, known[j] = host[c], Len(known) <= j + 1 PROVE FALSE
    <3>1. PICK n \in Nat : n = Len(known)
      BY <1>1
    <3>2. j \in Nat /\ 1 <= j /\ j <= n /\ known # <<>> /\ known[n] = Newline
      BY <1>1, <3>1 DEF Whole
    <3>3. j = n \/ n = j + 1
      BY <2>1, <3>1, <3>2
    <3>4. j # n
      BY <1>2, <2>1, <3>2, TokensDiffer
    <3>5. n \in DOMAIN known /\ n = j + 1
      BY <1>1, <3>1, <3>2, <3>3, <3>4
    <3>6. Follows(known[j], known[n])
      BY <1>1, <3>5 DEF Local
    <3> QED
      BY <1>2, <2>1, <3>2, <3>6, TokensDiffer DEF Follows
  <2> QED
    BY <1>1, <1>2, <1>3, <2>1, SaysOfLocal
<1> QED
  BY <1>1, <1>2, <1>4, SaysTheTruth, TokensDiffer

LEMMA JudgesByThePin ==
  ASSUME IInv, [Next]_vars, NEW c \in Clients, at[c] = "check", at'[c] # "check",
         fails' = fails, pinned[host[c]] # Nothing
  PROVE  Judged(c)
<1>1. Check(c)
  <2>1. ASSUME NEW h \in Hosts,
               Start(h) \/ Truncate(h) \/ Save(h) \/ Ephemeral(h) \/ Stop(h) \/ Delete(h)
        PROVE  FALSE
    BY <2>1 DEF Start, Truncate, Save, Ephemeral, Stop, Delete, client
  <2>2. ASSUME NEW d \in Clients, NEW h \in Hosts, Connect(d, h) PROVE FALSE
    BY <2>2 DEF Connect, IInv, TypeOK
  <2>3. ASSUME NEW d \in Clients, Write(d) \/ WriteFails(d) PROVE FALSE
    BY <2>3 DEF Write, WriteFails, IInv, TypeOK
  <2>4. ASSUME NEW d \in Clients, Check(d) PROVE d = c
    <3>1. \/ at' = [at EXCEPT ![d] = "write"]
          \/ at' = [at EXCEPT ![d] = "idle"]
      BY <2>4 DEF Check, Judge, Remembers, Ends
    <3> QED
      BY <3>1 DEF IInv, TypeOK
  <2>5. ~ UNCHANGED vars
    BY DEF vars, client
  <2> QED
    BY <2>1, <2>2, <2>3, <2>4, <2>5 DEF Next
<1>2. host[c] \in Hosts /\ print[c] \in Prints /\ pinned[host[c]] \in Prints
  BY DEF IInv, Met, TypeOK
<1>3. Says(known, host[c]) = <<pinned[host[c]]>>
  BY <1>2 DEF IInv, Pins, Settled
<1>4. Judge(c, <<pinned[host[c]]>>)
  <2>1. fails' # fails + 1
    BY DEF IInv, TypeOK
  <2> QED
    BY <1>1, <1>3, <2>1 DEF Check
<1>5. <<pinned[host[c]]>> # <<Nothing>> /\ <<pinned[host[c]]>> # <<>>
  BY <1>2
<1>6. <<pinned[host[c]]>> = <<print[c]>> <=> print[c] = pinned[host[c]]
  BY <1>2
<1>7. \/ print[c] = pinned[host[c]] /\ Ends(c, "ok")
      \/ print[c] # pinned[host[c]] /\ Ends(c, "refused")
  BY <1>4, <1>5, <1>6 DEF Judge
<1> QED
  BY <1>7 DEF Ends, Judged, IInv, TypeOK

(* Trust on first use (check_known_at): what was accepted is remembered as *)
(* soon as nobody is writing, unless something failed or two clients met   *)
(* new hosts at the same time; and once a host's line is in known_hosts,   *)
(* a check that can read the file accepts that certificate and refuses     *)
(* every other, whatever is appended, left unfinished or interleaved.      *)
THEOREM FirstUseDecides == Spec => Pinned
<1> DEFINE A == \A c \in Clients : at[c] = "check" /\ at'[c] # "check" /\ fails' = fails
                                   /\ pinned[host[c]] # Nothing => Judged(c)
<1>1. IInv /\ [Next]_vars => [A]_vars
  BY JudgesByThePin
<1>2. Spec => [][A]_vars
  <2> HIDE DEF A
  <2> QED
    BY <1>1, Invariance, PTL DEF Spec
<1>3. Spec => []Remembered
  BY AllRemembered, Invariance, PTL
<1> QED
  BY <1>2, <1>3, PTL DEF Pinned
=============================================================================
