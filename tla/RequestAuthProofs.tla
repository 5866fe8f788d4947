-------------------------- MODULE RequestAuthProofs --------------------------
(***************************************************************************)
(* The authentication of requests, for any handlers, requests, clock skew, *)
(* TTL, rate limit and window, and any capacity of the nonce queues that   *)
(* has room for the rate windows a TTL meets.                              *)
(*                                                                         *)
(* The queue never evicts a live nonce because the rate windows pace it:   *)
(* with c requests counted in the current window and at most RateLimit in  *)
(* each before, the nonce with c + RateLimit * m later ones in the queue   *)
(* is older than the start of the window by more than m windows.           *)
(***************************************************************************)
EXTENDS RequestAuth, FiniteSetTheorems, SequenceTheorems, WellFoundedInduction, TLAPS

Entry == [nonce : Nonces, expires : Nat]

(* Nonces leave the queue in the order they expire *)
Queued(q, t) ==
    /\ q \in Seq(Entry) /\ Len(q) <= MaxNonces
    /\ \A i, j \in DOMAIN q : i <= j => q[i].expires <= q[j].expires
    /\ \A i \in DOMAIN q : q[i].expires <= t + NonceTtl

(* What the window of s, with c requests counted, says of the nonces *)
Paced(q, s, c) ==
    /\ \A i \in DOMAIN q : q[i].expires < s + RateWindow + NonceTtl
    /\ \A m \in Nat : \A i \in DOMAIN q :
          Len(q) - i >= c + RateLimit * m => q[i].expires + m * RateWindow < s + NonceTtl

Window == [start : Times, count : 1 .. RateLimit]

DevicePaced(d) ==
    /\ Queued(nonces[d], now)
    /\ \/ rates[d] = NoRate /\ nonces[d] = <<>>
       \/ /\ rates[d] \in Window /\ rates[d].start <= now
          /\ Paced(nonces[d], rates[d].start, rates[d].count)

(* What was authenticated in the last TTL is still in the queue *)
Remembered(a) ==
    /\ a.at <= now /\ now < a.at + NonceTtl
    /\ \E i \in DOMAIN nonces[a.request.device] :
          nonces[a.request.device][i] = [nonce |-> a.request.nonce, expires |-> a.at + NonceTtl]

HistoryKept ==
    /\ \A i, j \in DOMAIN accepted : i <= j => accepted[i].at <= accepted[j].at
    /\ \A i \in DOMAIN accepted : Remembered(accepted[i])

(* The requests of d in the history h from lo until before hi *)
AcceptedIn(h, d, lo, hi) ==
    {i \in DOMAIN h : h[i].request.device = d /\ lo <= h[i].at /\ h[i].at < hi}

HowMany(h, d, lo, hi) == Cardinality(AcceptedIn(h, d, lo, hi))

(* What the window of s, with c requests counted, says of the history: the *)
(* first request of a window is the one that starts it                     *)
Counted(h, d, s, c) ==
    /\ \A i \in DOMAIN h : h[i].request.device = d => h[i].at < s + RateWindow
    /\ HowMany(h, d, s, s + RateWindow) <= c
    /\ HowMany(h, d, s + 1, s + RateWindow) <= c - 1
    /\ \A t \in Times : t + RateWindow > s => HowMany(h, d, t, s) <= RateLimit - 1

DeviceCounted(d) ==
    \/ rates[d] = NoRate /\ \A i \in DOMAIN accepted : accepted[i].request.device # d
    \/ rates[d] \in Window /\ Counted(accepted, d, rates[d].start, rates[d].count)

Burst(h, d) == \A t \in Times : HowMany(h, d, t, t + RateWindow) < 2 * RateLimit

(* Prompt authentications of one request are a TTL apart *)
Earliest(r) == r.timestamp - MaxClockSkew

Spread(r) ==
    prompt[r] > 0 =>
        /\ (prompt[r] - 1) * NonceTtl <= 2 * MaxClockSkew
        /\ \/ \E k \in DOMAIN accepted :
                /\ accepted[k].request = r
                /\ accepted[k].at >= Earliest(r) + (prompt[r] - 1) * NonceTtl
           \/ now >= Earliest(r) + prompt[r] * NonceTtl

Checked ==
    \A h \in Handlers :
        waiting[h] # Idle /\ waiting[h].prompt => InTime(waiting[h].request.timestamp)

AuthInv ==
    /\ TypeOK
    /\ \A d \in Devices : DevicePaced(d)
    /\ HistoryKept /\ NoReplayWithinTtl
    /\ \A d \in Devices : DeviceCounted(d) /\ Burst(accepted, d)
    /\ (\A r \in Requests : Spread(r)) /\ Checked

-----------------------------------------------------------------------------
(* retain on a queue in order *)

Less == {p \in Nat \X Nat : p[1] < p[2]}

LEMMA LessWellFounded == IsWellFoundedOn(Less, Nat)
<1>1. OpToRel(<, Nat) = Less
  BY DEF OpToRel, Less
<1> QED
  BY <1>1, NatLessThanWellFounded

LEMMA LastOnes ==
    ASSUME NEW n \in Nat, NEW keep \in SUBSET (1 .. n),
           \A i \in keep, j \in 1 .. n : i <= j => j \in keep
    PROVE  \E k \in 0 .. n : keep = (k + 1) .. n
<1>1. CASE keep = {}
  <2>1. keep = (n + 1) .. n
    BY <1>1
  <2> QED
    BY <2>1
<1>2. CASE keep # {}
  <2>1. keep \subseteq Nat
    OBVIOUS
  <2>2. PICK x \in keep : \A y \in keep : ~(<<y, x>> \in Less)
    BY <1>2, <2>1, LessWellFounded, WFMin
  <2>3. ASSUME NEW y \in keep PROVE x <= y
    <3>1. x \in Nat /\ y \in Nat /\ ~(<<y, x>> \in Less)
      BY <2>1, <2>2
    <3>2. ~(y < x)
      BY <3>1 DEF Less
    <3> QED
      BY <3>1, <3>2
  <2>4. x \in 1 .. n /\ x - 1 \in 0 .. n /\ (x - 1) + 1 = x
    OBVIOUS
  <2>5. \A y \in keep : y \in x .. n
    BY <2>3, <2>4
  <2>6. \A y \in x .. n : y \in keep
    <3> TAKE y \in x .. n
    <3>1. x \in keep /\ y \in 1 .. n /\ x <= y
      BY <2>4
    <3> QED
      BY <3>1
  <2>7. keep = x .. n
    BY <2>5, <2>6
  <2> QED
    BY <2>4, <2>7
<1> QED
  BY <1>1, <1>2

LEMMA RetainLast ==
    ASSUME NEW S, NEW q \in Seq(S), NEW k \in 0 .. Len(q)
    PROVE  LET p == Retain(q, (k + 1) .. Len(q)) IN
           p \in Seq(S) /\ Len(p) = Len(q) - k /\ \A i \in 1 .. (Len(q) - k) : p[i] = q[i + k]
<1> DEFINE n == Len(q)
           keep == (k + 1) .. n
           upTo(j) == {x \in keep : x <= j}
<1>1. n \in Nat /\ k \in 0 .. n /\ DOMAIN q = 1 .. n /\ q \in [1 .. n -> S]
  OBVIOUS
<1>2. Cardinality(keep) = n - k
  <2>1. k + 1 \in Int /\ n \in Int
    BY <1>1
  <2>2. Cardinality(keep) = IF k + 1 > n THEN 0 ELSE n - (k + 1) + 1
    BY <2>1, FS_Interval
  <2> QED
    BY <1>1, <2>2
<1>3. ASSUME NEW j \in keep PROVE Cardinality(upTo(j)) = j - k
  <2>1. upTo(j) = (k + 1) .. j
    BY <1>1
  <2>2. k + 1 \in Int /\ j \in Int
    BY <1>1
  <2>3. Cardinality((k + 1) .. j) = IF k + 1 > j THEN 0 ELSE j - (k + 1) + 1
    BY <2>2, FS_Interval
  <2>4. Cardinality((k + 1) .. j) = j - k
    <3>1. k \in Int /\ j \in Int /\ ~(k + 1 > j)
      BY <1>1
    <3> QED
      BY <2>3, <3>1
  <2> HIDE DEF upTo
  <2> QED
    BY <2>1, <2>4
<1>4. ASSUME NEW i \in 1 .. (n - k)
      PROVE  (CHOOSE j \in keep : Cardinality(upTo(j)) = i) = i + k /\ i + k \in 1 .. n
  <2>1. i + k \in keep /\ Cardinality(upTo(i + k)) = i
    BY <1>1, <1>3
  <2>2. \A j \in keep : Cardinality(upTo(j)) = i => j = i + k
    BY <1>1, <1>3
  <2> QED
    BY <1>1, <2>1, <2>2
<1>5. Retain(q, keep) = [i \in 1 .. (n - k) |-> q[CHOOSE j \in keep : Cardinality(upTo(j)) = i]]
  BY <1>2 DEF Retain
<1> DEFINE p == Retain(q, keep)
<1>6. p = [i \in 1 .. (n - k) |-> q[i + k]]
  BY <1>4, <1>5
<1>7. \A i \in 1 .. (n - k) : q[i + k] \in S
  BY <1>1, <1>4
<1> HIDE DEF p
<1>8. p \in [1 .. (n - k) -> S] /\ n - k \in Nat
  BY <1>1, <1>6, <1>7
<1>9. p \in Seq(S) /\ Len(p) = n - k
  BY <1>8
<1> QED
  BY <1>6, <1>9 DEF p

(* The nonces of a queue that are live at t *)
LiveOf(q, t) == Retain(q, {i \in DOMAIN q : q[i].expires > t})

LEMMA LiveFacts ==
    ASSUME NEW q, NEW t \in Nat, Queued(q, t)
    PROVE  \E k \in 0 .. Len(q) :
             /\ LiveOf(q, t) \in Seq(Entry) /\ Len(LiveOf(q, t)) = Len(q) - k
             /\ \A i \in 1 .. (Len(q) - k) :
                   LiveOf(q, t)[i] = q[i + k] /\ q[i + k].expires > t /\ i + k \in 1 .. Len(q)
             /\ \A i \in 1 .. k : q[i].expires <= t
<1> DEFINE keep == {i \in DOMAIN q : q[i].expires > t}
<1>1. /\ q \in Seq(Entry) /\ Len(q) \in Nat /\ DOMAIN q = 1 .. Len(q)
      /\ \A i \in 1 .. Len(q) : q[i].expires \in Nat
  <2>1. q \in Seq(Entry)
    BY DEF Queued
  <2>2. \A i \in 1 .. Len(q) : q[i] \in Entry
    BY <2>1
  <2> QED
    BY <2>1, <2>2 DEF Entry
<1>2. \A i \in keep, j \in 1 .. Len(q) : i <= j => j \in keep
  <2> SUFFICES ASSUME NEW i \in keep, NEW j \in 1 .. Len(q), i <= j PROVE q[j].expires > t
    BY <1>1
  <2>1. i \in DOMAIN q /\ j \in DOMAIN q
    BY <1>1
  <2>2. q[i].expires <= q[j].expires
    BY <2>1 DEF Queued
  <2>3. q[i].expires \in Nat /\ q[j].expires \in Nat
    BY <1>1, <2>1
  <2> QED
    BY <2>2, <2>3
<1>3. keep \in SUBSET (1 .. Len(q))
  BY <1>1
<1>4. PICK k \in 0 .. Len(q) : keep = (k + 1) .. Len(q)
  <2> HIDE DEF keep
  <2> QED
    BY <1>1, <1>2, <1>3, LastOnes
<1>5. LiveOf(q, t) = Retain(q, (k + 1) .. Len(q))
  BY <1>4 DEF LiveOf
<1>6. /\ LiveOf(q, t) \in Seq(Entry) /\ Len(LiveOf(q, t)) = Len(q) - k
      /\ \A i \in 1 .. (Len(q) - k) : LiveOf(q, t)[i] = q[i + k]
  BY <1>1, <1>5, RetainLast
<1>7. \A i \in 1 .. (Len(q) - k) : i + k \in keep /\ i + k \in 1 .. Len(q)
  <2> HIDE DEF keep
  <2> QED
    BY <1>1, <1>4
<1>8. \A i \in 1 .. k : q[i].expires <= t
  <2> SUFFICES ASSUME NEW i \in 1 .. k PROVE q[i].expires <= t
    OBVIOUS
  <2>1. i \in 1 .. Len(q) /\ i \notin (k + 1) .. Len(q)
    BY <1>1
  <2>2. i \notin keep
    BY <1>4, <2>1
  <2> QED
    BY <1>1, <2>1, <2>2
<1> QED
  BY <1>6, <1>7, <1>8

-----------------------------------------------------------------------------
(* The nonces of a device and its rate window *)

LEMMA Constants ==
    /\ NonceTtl \in Nat /\ MaxNonces \in Nat /\ MaxClockSkew \in Nat /\ MaxTime \in Nat
    /\ RateLimit \in Nat /\ RateLimit >= 1 /\ RateWindow \in Nat
    /\ RateWindow >= 1 /\ RateWindow <= NonceTtl /\ Times \subseteq Nat
BY AuthBounds DEF Times

LEMMA OneMore ==
    ASSUME NEW m \in Nat, NEW x \in Nat
    PROVE  m * x \in Nat /\ x * m \in Nat /\ (m + 1) * x = m * x + x /\ x * (m + 1) = x * m + x
OBVIOUS

(* What is live is still paced *)
LEMMA LivePaced ==
    ASSUME NEW q, NEW t \in Nat, Queued(q, t)
    PROVE  /\ Queued(LiveOf(q, t), t)
           /\ \A i \in DOMAIN LiveOf(q, t) : LiveOf(q, t)[i].expires > t
           /\ \A s, c \in Nat : Paced(q, s, c) => Paced(LiveOf(q, t), s, c)
<1> DEFINE p == LiveOf(q, t)
<1>1. PICK k \in 0 .. Len(q) :
        /\ p \in Seq(Entry) /\ Len(p) = Len(q) - k
        /\ \A i \in 1 .. (Len(q) - k) :
              p[i] = q[i + k] /\ q[i + k].expires > t /\ i + k \in 1 .. Len(q)
        /\ \A i \in 1 .. k : q[i].expires <= t
  BY LiveFacts
<1>2. q \in Seq(Entry) /\ Len(q) \in Nat /\ DOMAIN q = 1 .. Len(q) /\ Len(q) <= MaxNonces
  BY DEF Queued
<1> HIDE DEF p
<1>3. DOMAIN p = 1 .. (Len(q) - k) /\ Len(p) <= Len(q) /\ Len(p) \in Nat
  BY <1>1, <1>2
<1>4. Queued(p, t)
  <2>1. Len(p) <= MaxNonces
    BY <1>2, <1>3, Constants
  <2>2. ASSUME NEW i \in DOMAIN p, NEW j \in DOMAIN p, i <= j
        PROVE  p[i].expires <= p[j].expires
    <3>1. p[i] = q[i + k] /\ p[j] = q[j + k] /\ i + k \in DOMAIN q /\ j + k \in DOMAIN q
      BY <1>1, <1>2, <1>3
    <3>2. i + k <= j + k
      BY <1>2, <1>3, <2>2
    <3> QED
      BY <3>1, <3>2 DEF Queued
  <2>3. \A i \in DOMAIN p : p[i].expires <= t + NonceTtl
    BY <1>1, <1>2, <1>3 DEF Queued
  <2> QED
    BY <1>1, <2>1, <2>2, <2>3 DEF Queued
<1>5. \A i \in DOMAIN p : p[i].expires > t
  BY <1>1, <1>3
<1>6. ASSUME NEW s \in Nat, NEW c \in Nat, Paced(q, s, c) PROVE Paced(p, s, c)
  <2>1. \A i \in DOMAIN p : p[i].expires < s + RateWindow + NonceTtl
    BY <1>1, <1>2, <1>3, <1>6 DEF Paced
  <2>2. ASSUME NEW m \in Nat, NEW i \in DOMAIN p, Len(p) - i >= c + RateLimit * m
        PROVE  p[i].expires + m * RateWindow < s + NonceTtl
    <3>1. p[i] = q[i + k] /\ i + k \in DOMAIN q /\ Len(p) - i = Len(q) - (i + k)
      BY <1>1, <1>2, <1>3
    <3> QED
      BY <1>6, <2>2, <3>1 DEF Paced
  <2> QED
    BY <2>1, <2>2 DEF Paced
<1> QED
  BY <1>4, <1>5, <1>6 DEF p

(* A window that starts RateWindow or more after the one before *)
LEMMA NextWindowPaced ==
    ASSUME NEW q \in Seq(Entry), NEW s \in Nat, NEW c \in Nat, NEW t \in Nat,
           Paced(q, s, c), c <= RateLimit, t - s >= RateWindow
    PROVE  Paced(q, t, 0)
<1>1. \A i \in DOMAIN q : q[i].expires \in Nat
  <2>1. \A i \in DOMAIN q : q[i] \in Entry
    OBVIOUS
  <2> QED
    BY <2>1 DEF Entry
<1>2. \A i \in DOMAIN q : q[i].expires < t + NonceTtl
  BY <1>1, Constants DEF Paced
<1>3. ASSUME NEW m \in Nat, NEW i \in DOMAIN q, Len(q) - i >= 0 + RateLimit * m
      PROVE  q[i].expires + m * RateWindow < t + NonceTtl
  <2>1. CASE m = 0
    <3>1. m * RateWindow = 0
      BY <2>1, Constants
    <3> QED
      BY <1>1, <1>2, <3>1
  <2>2. CASE m # 0
    <3>1. PICK j \in Nat : m = j + 1
      BY <2>2, m - 1 \in Nat
    <3>2. /\ RateLimit * m = RateLimit * j + RateLimit /\ RateLimit * j \in Nat
          /\ m * RateWindow = j * RateWindow + RateWindow /\ j * RateWindow \in Nat
      BY <3>1, OneMore, Constants
    <3>3. Len(q) - i >= c + RateLimit * j
      <4>1. Len(q) \in Nat /\ i \in Nat
        OBVIOUS
      <4> QED
        BY <1>3, <3>2, <4>1, Constants
    <3>4. q[i].expires + j * RateWindow < s + NonceTtl
      BY <3>1, <3>3 DEF Paced
    <3>5. \A x, a \in Nat : x + a < s + NonceTtl => x + (a + RateWindow) < t + NonceTtl
      BY Constants
    <3>6. q[i].expires \in Nat
      BY <1>1
    <3>7. q[i].expires + (j * RateWindow + RateWindow) < t + NonceTtl
      BY <3>2, <3>4, <3>5, <3>6
    <3> QED
      BY <3>2, <3>7
  <2> QED
    BY <2>1, <2>2
<1> QED
  <2>1. \A i \in DOMAIN q : q[i].expires < t + RateWindow + NonceTtl
    BY <1>1, <1>2, Constants
  <2> QED
    BY <1>3, <2>1 DEF Paced

(* While the window counts less than the limit, there is room in the queue *)
LEMMA RoomForOne ==
    ASSUME NEW p \in Seq(Entry), NEW s \in Nat, NEW c \in Nat, NEW t \in Nat,
           Paced(p, s, c), s <= t, c < RateLimit, \A i \in DOMAIN p : p[i].expires > t
    PROVE  ~Full(p)
<1> SUFFICES ASSUME Full(p) PROVE FALSE
  OBVIOUS
<1>1. PICK w \in 1 .. NonceTtl :
        (w - 1) * RateWindow >= NonceTtl - 1 /\ MaxNonces >= RateLimit * w
  BY CapacitySuffices
<1>2. PICK m \in Nat : w = m + 1
  BY Constants, w - 1 \in Nat
<1>3. /\ RateLimit * w = RateLimit * m + RateLimit /\ RateLimit * m \in Nat
      /\ (w - 1) * RateWindow = m * RateWindow /\ m * RateWindow \in Nat
  <2>1. w - 1 = m
    BY <1>2
  <2> QED
    BY <1>2, <2>1, OneMore, Constants
<1>4. Len(p) \in Nat /\ Len(p) >= MaxNonces
  BY DEF Full
<1>5. Len(p) - 1 >= c + RateLimit * m /\ Len(p) >= 1
  BY <1>1, <1>3, <1>4, Constants
<1>6. 1 \in DOMAIN p
  BY <1>5
<1>7. p[1].expires + m * RateWindow < s + NonceTtl
  BY <1>5, <1>6 DEF Paced
<1>8. p[1].expires \in Nat /\ p[1].expires > t
  <2>1. p[1] \in Entry
    BY <1>6
  <2> QED
    BY <1>6, <2>1 DEF Entry
<1> QED
  BY <1>1, <1>3, <1>7, <1>8, Constants

(* One more nonce, and one more request counted *)
LEMMA OneMorePaced ==
    ASSUME NEW p, NEW t \in Nat, NEW s \in Nat, NEW c \in Nat, NEW n \in Nonces,
           Queued(p, t), Paced(p, s, c), ~Full(p), t < s + RateWindow
    PROVE  LET q == Append(p, [nonce |-> n, expires |-> t + NonceTtl]) IN
           Queued(q, t) /\ Paced(q, s, c + 1)
<1> DEFINE e == [nonce |-> n, expires |-> t + NonceTtl]
           q == Append(p, e)
<1>1. p \in Seq(Entry) /\ Len(p) \in Nat /\ Len(p) < MaxNonces
  BY Constants DEF Queued, Full
<1>2. e \in Entry /\ e.expires = t + NonceTtl
  BY Constants DEF Entry
<1> HIDE DEF e
<1>3. /\ q \in Seq(Entry) /\ Len(q) = Len(p) + 1 /\ DOMAIN q = 1 .. (Len(p) + 1)
      /\ q[Len(p) + 1] = e /\ \A i \in 1 .. Len(p) : i \in DOMAIN p /\ q[i] = p[i]
  BY <1>1, <1>2
<1>4. \A i \in DOMAIN q : q[i].expires \in Nat
  <2>1. \A i \in DOMAIN q : q[i] \in Entry
    BY <1>3
  <2> QED
    BY <2>1 DEF Entry
<1> HIDE DEF q
<1>5. Queued(q, t)
  <2>1. \A i \in DOMAIN q : q[i].expires <= t + NonceTtl
    BY <1>1, <1>2, <1>3, Constants DEF Queued
  <2>2. ASSUME NEW i \in DOMAIN q, NEW j \in DOMAIN q, i <= j
        PROVE  q[i].expires <= q[j].expires
    <3>1. CASE j = Len(p) + 1
      BY <1>2, <1>3, <2>1, <3>1
    <3>2. CASE j # Len(p) + 1
      BY <1>1, <1>3, <2>2, <3>2 DEF Queued
    <3> QED
      BY <3>1, <3>2
  <2>3. Len(q) <= MaxNonces
    BY <1>1, <1>3, Constants
  <2> QED
    BY <1>3, <2>1, <2>2, <2>3 DEF Queued
<1>6. Paced(q, s, c + 1)
  <2>1. ASSUME NEW i \in DOMAIN q PROVE q[i].expires < s + RateWindow + NonceTtl
    <3>1. CASE i = Len(p) + 1
      BY <1>2, <1>3, <3>1, Constants
    <3>2. CASE i # Len(p) + 1
      BY <1>1, <1>3, <3>2 DEF Paced
    <3> QED
      BY <3>1, <3>2
  <2>2. ASSUME NEW m \in Nat, NEW i \in DOMAIN q, Len(q) - i >= (c + 1) + RateLimit * m
        PROVE  q[i].expires + m * RateWindow < s + NonceTtl
    <3>1. RateLimit * m \in Nat /\ i \in 1 .. (Len(p) + 1)
      BY <1>3, OneMore, Constants
    <3>2. i \in 1 .. Len(p) /\ Len(p) - i >= c + RateLimit * m
      BY <1>1, <1>3, <2>2, <3>1
    <3> QED
      BY <1>3, <3>2 DEF Paced
  <2> QED
    BY <2>1, <2>2 DEF Paced
<1> QED
  BY <1>5, <1>6 DEF q, e

-----------------------------------------------------------------------------
(* The history *)

Acceptance == [request : Requests, at : Times]

LEMMA CountFacts ==
    ASSUME NEW h \in Seq(Acceptance), NEW d, NEW lo, NEW hi
    PROVE  IsFiniteSet(AcceptedIn(h, d, lo, hi)) /\ HowMany(h, d, lo, hi) \in Nat
<1>1. AcceptedIn(h, d, lo, hi) \subseteq 1 .. Len(h)
  BY DEF AcceptedIn
<1>2. IsFiniteSet(1 .. Len(h))
  BY FS_Interval
<1> QED
  BY <1>1, <1>2, FS_Subset, FS_CardinalityType DEF HowMany

LEMMA CountWithin ==
    ASSUME NEW h \in Seq(Acceptance), NEW d, NEW lo, NEW hi, NEW lo2, NEW hi2,
           AcceptedIn(h, d, lo, hi) \subseteq AcceptedIn(h, d, lo2, hi2)
    PROVE  HowMany(h, d, lo, hi) <= HowMany(h, d, lo2, hi2)
BY CountFacts, FS_Subset DEF HowMany

(* Two intervals cover a third *)
LEMMA CountSplit ==
    ASSUME NEW h \in Seq(Acceptance), NEW d, NEW lo, NEW hi, NEW lo1, NEW hi1, NEW lo2, NEW hi2,
           AcceptedIn(h, d, lo, hi) \subseteq AcceptedIn(h, d, lo1, hi1) \cup AcceptedIn(h, d, lo2, hi2)
    PROVE  HowMany(h, d, lo, hi) <= HowMany(h, d, lo1, hi1) + HowMany(h, d, lo2, hi2)
<1> DEFINE A == AcceptedIn(h, d, lo, hi)
           B == AcceptedIn(h, d, lo1, hi1)
           C == AcceptedIn(h, d, lo2, hi2)
<1>1. IsFiniteSet(B) /\ IsFiniteSet(C) /\ A \subseteq B \cup C
  BY CountFacts
<1> HIDE DEF A, B, C
<1>2. IsFiniteSet(B \cup C) /\ Cardinality(A) <= Cardinality(B \cup C)
  BY <1>1, FS_Union, FS_Subset
<1>3. Cardinality(B \cup C) = Cardinality(B) + Cardinality(C) - Cardinality(B \cap C)
  BY <1>1, FS_Union
<1>4. IsFiniteSet(A) /\ IsFiniteSet(B \cap C)
  BY <1>1, <1>2, FS_Subset
<1>5. /\ Cardinality(A) \in Nat /\ Cardinality(B) \in Nat /\ Cardinality(C) \in Nat
      /\ Cardinality(B \cap C) \in Nat /\ Cardinality(B \cup C) \in Nat
  BY <1>1, <1>2, <1>4, FS_CardinalityType
<1>6. Cardinality(A) <= Cardinality(B) + Cardinality(C)
  BY <1>2, <1>3, <1>5
<1> QED
  BY <1>6 DEF A, B, C, HowMany

(* A later request *)
LEMMA CountAppended ==
    ASSUME NEW h \in Seq(Acceptance), NEW a \in Acceptance, NEW d, NEW lo, NEW hi
    PROVE  LET g == Append(h, a) IN
           /\ HowMany(g, d, lo, hi) <= HowMany(h, d, lo, hi) + 1
           /\ a.request.device # d \/ ~(lo <= a.at /\ a.at < hi) =>
                  HowMany(g, d, lo, hi) = HowMany(h, d, lo, hi)
<1> DEFINE g == Append(h, a)
           A == AcceptedIn(h, d, lo, hi)
           B == AcceptedIn(g, d, lo, hi)
           n == Len(h) + 1
<1>1. /\ DOMAIN h = 1 .. Len(h) /\ DOMAIN g = 1 .. n /\ Len(h) \in Nat
      /\ g[n] = a /\ \A i \in 1 .. Len(h) : g[i] = h[i]
  OBVIOUS
<1> HIDE DEF g
<1>2. B \subseteq A \cup {n} /\ A \subseteq B
  BY <1>1 DEF AcceptedIn
<1>3. a.request.device # d \/ ~(lo <= a.at /\ a.at < hi) => n \notin B
  BY <1>1 DEF AcceptedIn
<1>4. IsFiniteSet(A)
  BY CountFacts
<1> HIDE DEF A, B
<1>5. IsFiniteSet(A \cup {n}) /\ Cardinality(A \cup {n}) <= Cardinality(A) + 1
  <2>1. IsFiniteSet(A \cup {n})
    BY <1>4, FS_AddElement
  <2>2. Cardinality(A \cup {n}) = IF n \in A THEN Cardinality(A) ELSE Cardinality(A) + 1
    BY <1>4, FS_AddElement
  <2>3. Cardinality(A) \in Nat
    BY <1>4, FS_CardinalityType
  <2> QED
    BY <2>1, <2>2, <2>3
<1>6. IsFiniteSet(B) /\ Cardinality(B) <= Cardinality(A \cup {n})
  BY <1>2, <1>5, FS_Subset
<1>7. Cardinality(A) \in Nat /\ Cardinality(B) \in Nat /\ Cardinality(A \cup {n}) \in Nat
  BY <1>4, <1>5, <1>6, FS_CardinalityType
<1>8. Cardinality(B) <= Cardinality(A) + 1
  BY <1>5, <1>6, <1>7
<1>9. n \notin B => A = B
  BY <1>2
<1> QED
  BY <1>3, <1>8, <1>9 DEF A, B, g, HowMany

(* The history without its first k *)
LEMMA CountLater ==
    ASSUME NEW h \in Seq(Acceptance), NEW g \in Seq(Acceptance), NEW k \in 0 .. Len(h),
           Len(g) = Len(h) - k, \A i \in 1 .. Len(g) : g[i] = h[i + k],
           NEW d, NEW lo, NEW hi
    PROVE  HowMany(g, d, lo, hi) <= HowMany(h, d, lo, hi)
<1> DEFINE A == AcceptedIn(h, d, lo, hi)
           B == AcceptedIn(g, d, lo, hi)
           f == [i \in B |-> i + k]
<1>1. /\ DOMAIN h = 1 .. Len(h) /\ DOMAIN g = 1 .. Len(g) /\ Len(h) \in Nat /\ Len(g) \in Nat
      /\ B \subseteq 1 .. Len(g)
  BY DEF AcceptedIn
<1>2. \A i \in B : i + k \in A
  <2> TAKE i \in B
  <2>1. i \in 1 .. Len(g) /\ i + k \in 1 .. Len(h) /\ g[i] = h[i + k]
    BY <1>1
  <2> QED
    BY <1>1, <2>1 DEF AcceptedIn
<1>3. IsFiniteSet(A)
  BY CountFacts
<1> HIDE DEF A, B
<1>4. f \in Injection(B, A)
  <2>1. f \in [B -> A]
    BY <1>2
  <2>2. \A i, j \in B : f[i] = f[j] => i = j
    BY <1>1
  <2> QED
    BY <2>1, <2>2 DEF Injection, IsInjective
<1>5. Cardinality(B) <= Cardinality(A)
  BY <1>3, <1>4, FS_Injection
<1> QED
  BY <1>5 DEF A, B, HowMany

(* What holds of the counts of a device holds without the oldest requests *)
LEMMA CountedLater ==
    ASSUME NEW h \in Seq(Acceptance), NEW g \in Seq(Acceptance), NEW k \in 0 .. Len(h),
           Len(g) = Len(h) - k, \A i \in 1 .. Len(g) : g[i] = h[i + k], NEW d
    PROVE  /\ \A s, c \in Nat : Counted(h, d, s, c) => Counted(g, d, s, c)
           /\ Burst(h, d) => Burst(g, d)
           /\ (\A i \in DOMAIN h : h[i].request.device # d) =>
                  \A i \in DOMAIN g : g[i].request.device # d
<1>1. /\ DOMAIN h = 1 .. Len(h) /\ DOMAIN g = 1 .. Len(g) /\ Len(h) \in Nat /\ Len(g) \in Nat
  OBVIOUS
<1>2. \A i \in DOMAIN g : i + k \in DOMAIN h /\ g[i] = h[i + k]
  BY <1>1
<1>3. ASSUME NEW lo, NEW hi
      PROVE  /\ HowMany(g, d, lo, hi) <= HowMany(h, d, lo, hi)
             /\ HowMany(g, d, lo, hi) \in Nat /\ HowMany(h, d, lo, hi) \in Nat
  BY CountLater, CountFacts
<1>4. ASSUME NEW s \in Nat, NEW c \in Nat, Counted(h, d, s, c) PROVE Counted(g, d, s, c)
  <2>1. \A i \in DOMAIN g : g[i].request.device = d => g[i].at < s + RateWindow
    BY <1>2, <1>4 DEF Counted
  <2>2. HowMany(g, d, s, s + RateWindow) <= c
    BY <1>3, <1>4 DEF Counted
  <2>3. HowMany(g, d, s + 1, s + RateWindow) <= c - 1
    BY <1>3, <1>4 DEF Counted
  <2>4. \A t \in Times : t + RateWindow > s => HowMany(g, d, t, s) <= RateLimit - 1
    BY <1>3, <1>4, Constants DEF Counted
  <2> QED
    BY <2>1, <2>2, <2>3, <2>4 DEF Counted
<1>5. Burst(h, d) => Burst(g, d)
  BY <1>3, Constants DEF Burst
<1> QED
  BY <1>2, <1>4, <1>5

(* A request of another device *)
LEMMA CountedOther ==
    ASSUME NEW h \in Seq(Acceptance), NEW a \in Acceptance, NEW d, a.request.device # d
    PROVE  /\ \A s, c \in Nat : Counted(h, d, s, c) => Counted(Append(h, a), d, s, c)
           /\ Burst(h, d) => Burst(Append(h, a), d)
           /\ (\A i \in DOMAIN h : h[i].request.device # d) =>
                  \A i \in DOMAIN Append(h, a) : Append(h, a)[i].request.device # d
<1> DEFINE g == Append(h, a)
<1>1. /\ DOMAIN h = 1 .. Len(h) /\ DOMAIN g = 1 .. (Len(h) + 1) /\ Len(h) \in Nat
      /\ g[Len(h) + 1] = a /\ \A i \in 1 .. Len(h) : g[i] = h[i]
  OBVIOUS
<1>2. \A lo, hi : HowMany(g, d, lo, hi) = HowMany(h, d, lo, hi)
  BY CountAppended
<1> HIDE DEF g
<1>3. \A i \in DOMAIN g : g[i] = a \/ (i \in DOMAIN h /\ g[i] = h[i])
  BY <1>1
<1>4. ASSUME NEW s \in Nat, NEW c \in Nat, Counted(h, d, s, c) PROVE Counted(g, d, s, c)
  <2>1. \A i \in DOMAIN g : g[i].request.device = d => g[i].at < s + RateWindow
    BY <1>3, <1>4 DEF Counted
  <2> QED
    BY <1>2, <1>4, <2>1 DEF Counted
<1>5. Burst(h, d) => Burst(g, d)
  BY <1>2 DEF Burst
<1>6. (\A i \in DOMAIN h : h[i].request.device # d) => \A i \in DOMAIN g : g[i].request.device # d
  BY <1>3
<1> QED
  BY <1>4, <1>5, <1>6 DEF g

(* Another request in the window of s *)
LEMMA CountedSame ==
    ASSUME NEW h \in Seq(Acceptance), NEW a \in Acceptance, NEW s \in Times, NEW c \in Nat,
           NEW d, a.request.device = d, Counted(h, d, s, c), Burst(h, d),
           c < RateLimit, s <= a.at, a.at < s + RateWindow
    PROVE  Counted(Append(h, a), d, s, c + 1) /\ Burst(Append(h, a), d)
<1> DEFINE g == Append(h, a)
<1>1. /\ DOMAIN h = 1 .. Len(h) /\ DOMAIN g = 1 .. (Len(h) + 1) /\ Len(h) \in Nat
      /\ g[Len(h) + 1] = a /\ \A i \in 1 .. Len(h) : g[i] = h[i]
  OBVIOUS
<1>2. a.at \in Nat /\ s \in Nat
  BY Constants DEF Acceptance
<1>3. ASSUME NEW lo \in Nat, NEW hi \in Nat
      PROVE  /\ HowMany(g, d, lo, hi) <= HowMany(h, d, lo, hi) + 1
             /\ ~(lo <= a.at /\ a.at < hi) => HowMany(g, d, lo, hi) = HowMany(h, d, lo, hi)
             /\ HowMany(h, d, lo, hi) \in Nat
  BY CountAppended, CountFacts
<1>4. ASSUME NEW lo \in Nat, NEW hi \in Nat PROVE HowMany(g, d, lo, hi) \in Nat
  <2>1. g \in Seq(Acceptance)
    OBVIOUS
  <2> HIDE DEF g
  <2> QED
    BY <2>1, CountFacts
<1> HIDE DEF g
<1>5. \A i \in DOMAIN g : g[i].request.device = d => g[i].at < s + RateWindow
  <2>1. \A i \in DOMAIN g : g[i] = a \/ (i \in DOMAIN h /\ g[i] = h[i])
    BY <1>1
  <2> QED
    BY <2>1 DEF Counted
<1>6. /\ HowMany(h, d, s, s + RateWindow) <= c
      /\ HowMany(h, d, s + 1, s + RateWindow) <= c - 1
      /\ \A t \in Times : t + RateWindow > s => HowMany(h, d, t, s) <= RateLimit - 1
  BY DEF Counted
<1>7. s + RateWindow \in Nat /\ s + 1 \in Nat
  BY <1>2, Constants
<1>8. HowMany(g, d, s, s + RateWindow) <= c + 1
  <2>1. /\ HowMany(g, d, s, s + RateWindow) \in Nat /\ HowMany(h, d, s, s + RateWindow) \in Nat
        /\ HowMany(g, d, s, s + RateWindow) <= HowMany(h, d, s, s + RateWindow) + 1
    BY <1>2, <1>3, <1>4, <1>7
  <2> QED
    BY <1>6, <2>1
<1>9. HowMany(g, d, s + 1, s + RateWindow) <= (c + 1) - 1
  <2>1. /\ HowMany(g, d, s + 1, s + RateWindow) \in Nat
        /\ HowMany(h, d, s + 1, s + RateWindow) \in Nat
        /\ HowMany(g, d, s + 1, s + RateWindow) <= HowMany(h, d, s + 1, s + RateWindow) + 1
    BY <1>2, <1>3, <1>4, <1>7
  <2> QED
    BY <1>6, <2>1
<1>10. ASSUME NEW t \in Times, t + RateWindow > s PROVE HowMany(g, d, t, s) <= RateLimit - 1
  <2>1. t \in Nat /\ ~(t <= a.at /\ a.at < s)
    BY <1>2, Constants
  <2> QED
    BY <1>2, <1>3, <1>6, <1>10, <2>1
<1>11. Counted(g, d, s, c + 1)
  BY <1>5, <1>8, <1>9, <1>10 DEF Counted
<1>12. ASSUME NEW t \in Times PROVE HowMany(g, d, t, t + RateWindow) < 2 * RateLimit
  <2>1. t \in Nat /\ t + RateWindow \in Nat
    BY Constants
  <2>2. CASE ~(t <= a.at /\ a.at < t + RateWindow)
    BY <1>3, <2>1, <2>2 DEF Burst
  <2>3. CASE t <= a.at /\ a.at < t + RateWindow
    <3>1. HowMany(h, d, t, s) <= RateLimit - 1
      BY <1>2, <1>6, <2>1, <2>3, Constants
    <3>2. AcceptedIn(h, d, t, t + RateWindow) \subseteq
              AcceptedIn(h, d, t, s) \cup AcceptedIn(h, d, s, s + RateWindow)
      <4>1. \A i \in DOMAIN h : h[i].at \in Nat /\ (h[i].request.device = d => h[i].at < s + RateWindow)
        <5>1. \A i \in DOMAIN h : h[i] \in Acceptance
          OBVIOUS
        <5> QED
          BY <5>1, Constants DEF Acceptance, Counted
      <4> QED
        BY <1>2, <2>1, <4>1 DEF AcceptedIn
    <3>3. HowMany(h, d, t, t + RateWindow) <=
              HowMany(h, d, t, s) + HowMany(h, d, s, s + RateWindow)
      BY <3>2, CountSplit
    <3>4. /\ HowMany(h, d, t, t + RateWindow) \in Nat /\ HowMany(h, d, t, s) \in Nat
          /\ HowMany(h, d, s, s + RateWindow) \in Nat /\ HowMany(g, d, t, t + RateWindow) \in Nat
          /\ HowMany(g, d, t, t + RateWindow) <= HowMany(h, d, t, t + RateWindow) + 1
      BY <1>2, <1>3, <1>4, <1>7, <2>1
    <3> QED
      BY <1>6, <3>1, <3>3, <3>4, Constants
  <2> QED
    BY <2>2, <2>3
<1>13. Burst(g, d)
  BY <1>12 DEF Burst
<1> QED
  BY <1>11, <1>13 DEF g

(* The first request of a window, when few before it are less than a window old *)
LEMMA CountedNew ==
    ASSUME NEW h \in Seq(Acceptance), NEW a \in Acceptance, NEW d, a.request.device = d,
           Burst(h, d), \A i \in DOMAIN h : h[i].request.device = d => h[i].at < a.at,
           \A t \in Times : t + RateWindow > a.at => HowMany(h, d, t, a.at) <= RateLimit - 1
    PROVE  Counted(Append(h, a), d, a.at, 1) /\ Burst(Append(h, a), d)
<1> DEFINE g == Append(h, a)
           s == a.at
<1>1. /\ DOMAIN h = 1 .. Len(h) /\ DOMAIN g = 1 .. (Len(h) + 1) /\ Len(h) \in Nat
      /\ g[Len(h) + 1] = a /\ \A i \in 1 .. Len(h) : g[i] = h[i]
  OBVIOUS
<1>2. s \in Nat /\ \A i \in DOMAIN h : h[i].at \in Nat
  <2>1. \A i \in DOMAIN h : h[i] \in Acceptance
    OBVIOUS
  <2> QED
    BY <2>1, Constants DEF Acceptance
<1>3. ASSUME NEW lo \in Nat, NEW hi \in Nat
      PROVE  /\ HowMany(g, d, lo, hi) <= HowMany(h, d, lo, hi) + 1
             /\ ~(lo <= s /\ s < hi) => HowMany(g, d, lo, hi) = HowMany(h, d, lo, hi)
             /\ HowMany(h, d, lo, hi) \in Nat
  BY CountAppended, CountFacts
<1>4. ASSUME NEW lo \in Nat, NEW hi \in Nat PROVE HowMany(g, d, lo, hi) \in Nat
  <2>1. g \in Seq(Acceptance)
    OBVIOUS
  <2> HIDE DEF g
  <2> QED
    BY <2>1, CountFacts
<1> HIDE DEF g, s
<1>5. \A i \in DOMAIN h : h[i].request.device = d => h[i].at < s
  BY DEF s
<1>6. ASSUME NEW lo \in Nat, NEW hi \in Nat, lo >= s PROVE HowMany(h, d, lo, hi) = 0
  <2>1. AcceptedIn(h, d, lo, hi) = {}
    BY <1>2, <1>5, <1>6 DEF AcceptedIn
  <2> QED
    BY <2>1, FS_EmptySet DEF HowMany
<1>7. \A i \in DOMAIN g : g[i].request.device = d => g[i].at < s + RateWindow
  <2>1. \A i \in DOMAIN g : g[i] = a \/ (i \in DOMAIN h /\ g[i] = h[i])
    BY <1>1
  <2>2. a.at < s + RateWindow
    BY <1>2, Constants DEF s
  <2> QED
    BY <1>2, <1>5, <2>1, <2>2, Constants
<1>8. s + RateWindow \in Nat /\ s + 1 \in Nat
  BY <1>2, Constants
<1>9. HowMany(g, d, s, s + RateWindow) <= 1
  <2>1. HowMany(h, d, s, s + RateWindow) = 0
    BY <1>2, <1>6, <1>8
  <2> QED
    BY <1>2, <1>3, <1>8, <2>1
<1>10. HowMany(g, d, s + 1, s + RateWindow) <= 1 - 1
  <2>1. HowMany(h, d, s + 1, s + RateWindow) = 0
    BY <1>2, <1>6, <1>8
  <2> QED
    BY <1>2, <1>3, <1>8, <2>1
<1>11. ASSUME NEW t \in Times, t + RateWindow > s PROVE HowMany(h, d, t, s) <= RateLimit - 1
  BY <1>11 DEF s
<1>12. ASSUME NEW t \in Times, t + RateWindow > s PROVE HowMany(g, d, t, s) <= RateLimit - 1
  <2>1. t \in Nat
    BY Constants
  <2> QED
    BY <1>2, <1>3, <1>11, <1>12, <2>1
<1>13. Counted(g, d, s, 1)
  BY <1>7, <1>9, <1>10, <1>12 DEF Counted
<1>14. ASSUME NEW t \in Times PROVE HowMany(g, d, t, t + RateWindow) < 2 * RateLimit
  <2>1. t \in Nat /\ t + RateWindow \in Nat
    BY Constants
  <2>2. CASE ~(t <= s /\ s < t + RateWindow)
    BY <1>3, <2>1, <2>2 DEF Burst
  <2>3. CASE t <= s /\ s < t + RateWindow
    <3>1. HowMany(h, d, t, s) <= RateLimit - 1
      BY <1>2, <1>11, <2>1, <2>3, Constants
    <3>2. AcceptedIn(h, d, t, t + RateWindow) \subseteq AcceptedIn(h, d, t, s)
      BY <1>5 DEF AcceptedIn
    <3>3. HowMany(h, d, t, t + RateWindow) <= HowMany(h, d, t, s)
      BY <3>2, CountWithin
    <3>4. /\ HowMany(h, d, t, t + RateWindow) \in Nat /\ HowMany(h, d, t, s) \in Nat
          /\ HowMany(g, d, t, t + RateWindow) \in Nat
          /\ HowMany(g, d, t, t + RateWindow) <= HowMany(h, d, t, t + RateWindow) + 1
      BY <1>2, <1>3, <1>4, <2>1
    <3> QED
      BY <3>1, <3>3, <3>4, Constants
  <2> QED
    BY <2>2, <2>3
<1>15. Burst(g, d)
  BY <1>14 DEF Burst
<1> QED
  BY <1>13, <1>15 DEF g, s

-----------------------------------------------------------------------------
(* Every step keeps the invariant *)

LEMMA LiveKept ==
    ASSUME NEW q, NEW t \in Nat, Queued(q, t), NEW i \in DOMAIN q, q[i].expires > t
    PROVE  \E j \in DOMAIN LiveOf(q, t) : LiveOf(q, t)[j] = q[i]
<1> DEFINE p == LiveOf(q, t)
<1>1. PICK k \in 0 .. Len(q) :
        /\ p \in Seq(Entry) /\ Len(p) = Len(q) - k
        /\ \A j \in 1 .. (Len(q) - k) :
              p[j] = q[j + k] /\ q[j + k].expires > t /\ j + k \in 1 .. Len(q)
        /\ \A j \in 1 .. k : q[j].expires <= t
  BY LiveFacts
<1>2. q \in Seq(Entry) /\ DOMAIN q = 1 .. Len(q) /\ Len(q) \in Nat
  BY DEF Queued
<1> HIDE DEF p
<1>3. q[i].expires \in Nat
  <2>1. q[i] \in Entry
    BY <1>2
  <2> QED
    BY <2>1 DEF Entry
<1>4. i \notin 1 .. k
  BY <1>1, <1>3
<1>5. i - k \in 1 .. (Len(q) - k) /\ (i - k) + k = i
  BY <1>2, <1>4
<1>6. i - k \in DOMAIN p /\ p[i - k] = q[i]
  BY <1>1, <1>2, <1>5
<1> QED
  BY <1>6 DEF p

LEMMA WindowIsRate == Window \subseteq [start : Times, count : 0 .. RateLimit] /\ NoRate \notin Window
<1>1. Window \subseteq [start : Times, count : 0 .. RateLimit]
  BY Constants DEF Window
<1> QED
  BY <1>1, NoValues

LEMMA WindowFacts ==
    ASSUME NEW w \in Window
    PROVE  w.start \in Times /\ w.start \in Nat /\ w.count \in 1 .. RateLimit /\ w.count \in Nat
<1>1. w.start \in Times /\ w.count \in 1 .. RateLimit
  BY DEF Window
<1>2. w.start \in Nat
  BY <1>1, Constants
<1>3. \A n \in 1 .. RateLimit : n \in Nat
  BY Constants
<1> QED
  BY <1>1, <1>2, <1>3

(* The queue and the window of a device that a request under the lock meets *)
LEMMA UnderLock ==
    ASSUME AuthInv, NEW d \in Devices
    PROVE  /\ Live(d) = LiveOf(nonces[d], now) /\ now \in Nat
           /\ Queued(nonces[d], now) /\ Queued(Live(d), now)
           /\ \A i \in DOMAIN Live(d) : Live(d)[i].expires > now
           /\ Rate(d).start \in Times /\ Rate(d).count \in 0 .. RateLimit
           /\ Rate(d).start <= now /\ now < Rate(d).start + RateWindow
           /\ Paced(Live(d), Rate(d).start, Rate(d).count)
           /\ OverLimit(d) => Rate(d) = rates[d]
<1>1. now \in Times /\ now \in Nat /\ DevicePaced(d)
  BY Constants DEF AuthInv, TypeOK
<1>2. Live(d) = LiveOf(nonces[d], now)
  BY DEF Live, LiveOf
<1>3. /\ Queued(nonces[d], now) /\ Queued(Live(d), now)
      /\ \A i \in DOMAIN Live(d) : Live(d)[i].expires > now
      /\ \A s, c \in Nat : Paced(nonces[d], s, c) => Paced(Live(d), s, c)
  BY <1>1, <1>2, LivePaced DEF DevicePaced
<1>4. CASE rates[d] = NoRate
  <2>1. Rate(d) = [start |-> now, count |-> 0]
    BY <1>4 DEF Rate
  <2>2. nonces[d] = <<>>
    BY <1>1, <1>4, WindowIsRate DEF DevicePaced
  <2>3. Paced(nonces[d], now, 0)
    BY <2>2 DEF Paced
  <2>4. Paced(Live(d), now, 0)
    BY <1>1, <1>3, <2>3
  <2> QED
    BY <1>1, <1>2, <1>3, <2>1, <2>4, Constants DEF OverLimit
<1>5. CASE rates[d] # NoRate
  <2> DEFINE s == rates[d].start
             c == rates[d].count
  <2>1. /\ rates[d] \in Window /\ s <= now /\ Paced(nonces[d], s, c)
    BY <1>1, <1>5 DEF DevicePaced
  <2>2. s \in Times /\ s \in Nat /\ c \in 1 .. RateLimit /\ c \in Nat
    BY <2>1, WindowFacts
  <2> HIDE DEF s, c
  <2>3. CASE now - s >= RateWindow
    <3>1. Rate(d) = [start |-> now, count |-> 0]
      BY <2>3 DEF Rate, s
    <3>2. nonces[d] \in Seq(Entry)
      BY <1>3 DEF Queued
    <3>3. Paced(nonces[d], now, 0)
      BY <1>1, <2>1, <2>2, <2>3, <3>2, NextWindowPaced
    <3>4. Paced(Live(d), now, 0)
      BY <1>1, <1>3, <3>3
    <3> QED
      BY <1>1, <1>2, <1>3, <3>1, <3>4, Constants DEF OverLimit
  <2>4. CASE ~(now - s >= RateWindow)
    <3>1. Rate(d) = rates[d]
      BY <1>5, <2>4 DEF Rate, s
    <3>2. Paced(Live(d), s, c)
      BY <1>3, <2>1, <2>2
    <3>3. now < s + RateWindow /\ c \in 0 .. RateLimit
      BY <1>1, <2>2, <2>4, Constants
    <3> QED
      BY <1>1, <1>2, <1>3, <2>1, <2>2, <3>1, <3>2, <3>3 DEF s, c
  <2> QED
    BY <2>3, <2>4
<1> QED
  BY <1>4, <1>5

(* What is remembered stays so while the queues keep their live nonces *)
LEMMA StillRemembered ==
    ASSUME NEW a \in Acceptance, a.request.device \in Devices, Remembered(a), now' = now,
           \A i \in DOMAIN nonces[a.request.device] :
               nonces[a.request.device][i].expires > now =>
                   \E j \in DOMAIN nonces'[a.request.device] :
                       nonces'[a.request.device][j] = nonces[a.request.device][i]
    PROVE  Remembered(a)'
<1> DEFINE d == a.request.device
           e == [nonce |-> a.request.nonce, expires |-> a.at + NonceTtl]
<1>1. a.at <= now /\ now < a.at + NonceTtl
  BY DEF Remembered
<1>2. PICK i \in DOMAIN nonces[d] : nonces[d][i] = e
  BY DEF Remembered
<1>3. nonces[d][i].expires = a.at + NonceTtl /\ a.at \in Nat
  <2>1. e.expires = a.at + NonceTtl
    OBVIOUS
  <2>2. a.at \in Times
    BY DEF Acceptance
  <2> HIDE DEF e
  <2> QED
    BY <1>2, <2>1, <2>2, Constants
<1>4. nonces[d][i].expires > now
  BY <1>1, <1>3
<1>5. \E j \in DOMAIN nonces'[d] : nonces'[d][j] = e
  BY <1>2, <1>4
<1> QED
  BY <1>1, <1>5 DEF Remembered

LEMMA RequestFacts ==
    ASSUME NEW r \in Requests
    PROVE  r.device \in Devices /\ r.nonce \in Nonces /\ r.timestamp \in Nat
BY RequestTypes

LEMMA AcceptedType ==
    ASSUME TypeOK
    PROVE  /\ accepted \in Seq(Acceptance)
           /\ \A i \in DOMAIN accepted : /\ accepted[i] \in Acceptance
                                         /\ accepted[i].request \in Requests
                                         /\ accepted[i].at \in Nat
                                         /\ accepted[i].request.device \in Devices
<1>1. accepted \in Seq(Acceptance)
  BY DEF TypeOK, Acceptance
<1>2. \A i \in DOMAIN accepted : accepted[i] \in Acceptance
  BY <1>1
<1>3. \A a \in Acceptance : a.request \in Requests /\ a.at \in Nat
  BY Constants DEF Acceptance
<1> QED
  BY <1>1, <1>2, <1>3, RequestFacts

(* The lock is released *)
LEMMA DoneFacts ==
    ASSUME TypeOK, Checked, NEW h \in Handlers, Done(h), now' = now
    PROVE  waiting' \in [Handlers -> [request : Requests, prompt : BOOLEAN] \cup {Idle}] /\ Checked'
<1>1. waiting' = [waiting EXCEPT ![h] = Idle]
  BY DEF Done
<1>2. waiting' \in [Handlers -> [request : Requests, prompt : BOOLEAN] \cup {Idle}]
  BY <1>1 DEF TypeOK
<1>3. \A g \in Handlers : waiting'[g] = Idle \/ waiting'[g] = waiting[g]
  BY <1>1 DEF TypeOK
<1>4. Checked'
  BY <1>3 DEF Checked, InTime
<1> QED
  BY <1>2, <1>4

(* A request that is refused under the lock: retain alone *)
LEMMA ForgetKeeps ==
    ASSUME AuthInv, NEW h \in Handlers, NEW d \in Devices,
           nonces' = [nonces EXCEPT ![d] = Live(d)], rates' = rates, Done(h),
           UNCHANGED <<now, accepted, prompt>>
    PROVE  AuthInv'
<1>1. TypeOK /\ Checked
  BY DEF AuthInv
<1>2. /\ Live(d) = LiveOf(nonces[d], now) /\ now \in Nat
      /\ Queued(nonces[d], now) /\ Queued(Live(d), now)
  BY UnderLock
<1>3. /\ nonces'[d] = LiveOf(nonces[d], now) /\ DOMAIN nonces' = Devices
      /\ \A e \in Devices \ {d} : nonces'[e] = nonces[e]
  BY <1>1, <1>2 DEF TypeOK
<1>4. \A e \in Devices : Queued(nonces'[e], now)
  BY <1>2, <1>3 DEF AuthInv, DevicePaced
<1>5. TypeOK'
  <2>1. nonces' \in [Devices -> Seq([nonce : Nonces, expires : Nat])]
    BY <1>1, <1>2 DEF TypeOK, Queued, Entry
  <2>2. \A e \in Devices : Len(nonces'[e]) <= MaxNonces
    BY <1>4 DEF Queued
  <2> QED
    BY <1>1, <2>1, <2>2, DoneFacts DEF TypeOK
<1>6. ASSUME NEW e \in Devices PROVE DevicePaced(e)'
  <2>1. CASE e # d
    BY <1>3, <2>1 DEF AuthInv, DevicePaced
  <2>2. CASE e = d /\ rates[d] = NoRate
    <3>1. nonces[d] = <<>>
      BY <2>2, WindowIsRate DEF AuthInv, DevicePaced
    <3>2. PICK k \in 0 .. Len(nonces[d]) :
            LiveOf(nonces[d], now) \in Seq(Entry) /\ Len(LiveOf(nonces[d], now)) = Len(nonces[d]) - k
      BY <1>2, LiveFacts
    <3>3. nonces'[d] = <<>>
      BY <1>3, <3>1, <3>2
    <3> QED
      BY <1>4, <2>2, <3>3 DEF DevicePaced
  <2>3. CASE e = d /\ rates[d] # NoRate
    <3>1. /\ rates[d] \in Window /\ rates[d].start <= now
          /\ Paced(nonces[d], rates[d].start, rates[d].count)
      BY <2>3 DEF AuthInv, DevicePaced
    <3>2. rates[d].start \in Nat /\ rates[d].count \in Nat
      BY <3>1, WindowFacts
    <3>3. Paced(nonces'[d], rates[d].start, rates[d].count)
      BY <1>2, <1>3, <3>1, <3>2, LivePaced
    <3> QED
      BY <1>4, <2>3, <3>1, <3>3 DEF DevicePaced
  <2> QED
    BY <2>1, <2>2, <2>3
<1>7. HistoryKept'
  <2>1. ASSUME NEW n \in DOMAIN accepted PROVE Remembered(accepted[n])'
    <3>1. PICK a \in Acceptance : a = accepted[n]
      BY <1>1, AcceptedType
    <3>2. a.request.device \in Devices /\ Remembered(a)
      BY <1>1, <3>1, AcceptedType DEF AuthInv, HistoryKept
    <3>3. \A i \in DOMAIN nonces[a.request.device] :
            nonces[a.request.device][i].expires > now =>
                \E j \in DOMAIN nonces'[a.request.device] :
                    nonces'[a.request.device][j] = nonces[a.request.device][i]
      BY <1>2, <1>3, <3>2, LiveKept
    <3>4. Remembered(a)'
      BY <3>2, <3>3, StillRemembered
    <3> QED
      BY <3>1, <3>4
  <2> QED
    BY <2>1 DEF AuthInv, HistoryKept
<1>8. NoReplayWithinTtl' /\ \A e \in Devices : DeviceCounted(e)' /\ Burst(accepted, e)'
  BY DEF AuthInv, NoReplayWithinTtl, DeviceCounted
<1>9. \A r \in Requests : Spread(r)'
  BY DEF AuthInv, Spread
<1> QED
  BY <1>1, <1>5, <1>6, <1>7, <1>8, <1>9, DoneFacts DEF AuthInv

(* What the history counts for d, when a request of d is authenticated *)
LEMMA CountedAuthenticated ==
    ASSUME AuthInv, NEW a \in Acceptance, NEW d \in Devices, a.request.device = d, a.at = now,
           ~OverLimit(d)
    PROVE  /\ Counted(Append(accepted, a), d, Rate(d).start, Rate(d).count + 1)
           /\ Burst(Append(accepted, a), d)
<1>1. /\ now \in Nat /\ now \in Times /\ accepted \in Seq(Acceptance)
      /\ DeviceCounted(d) /\ Burst(accepted, d) /\ DevicePaced(d)
      /\ \A i \in DOMAIN accepted : accepted[i].at \in Nat
  BY AcceptedType, Constants DEF AuthInv, TypeOK
<1>2. CASE rates[d] = NoRate
  <2>1. Rate(d) = [start |-> now, count |-> 0]
    BY <1>2 DEF Rate
  <2>2. \A i \in DOMAIN accepted : accepted[i].request.device # d
    BY <1>1, <1>2, WindowIsRate DEF DeviceCounted
  <2>3. ASSUME NEW t \in Times PROVE HowMany(accepted, d, t, a.at) <= RateLimit - 1
    <3>1. AcceptedIn(accepted, d, t, a.at) = {}
      BY <2>2 DEF AcceptedIn
    <3> QED
      BY <3>1, FS_EmptySet, Constants DEF HowMany
  <2>4. Counted(Append(accepted, a), d, a.at, 1) /\ Burst(Append(accepted, a), d)
    BY <1>1, <2>2, <2>3, CountedNew
  <2> QED
    BY <2>1, <2>4
<1>3. CASE rates[d] # NoRate
  <2>1. PICK s \in Times : s = rates[d].start
    BY <1>1, <1>3, WindowFacts DEF DeviceCounted
  <2>2. PICK c \in 1 .. RateLimit : c = rates[d].count
    BY <1>1, <1>3, WindowFacts DEF DeviceCounted
  <2>3. /\ Counted(accepted, d, s, c) /\ s <= now /\ s \in Nat /\ c \in Nat /\ c <= RateLimit
    BY <1>1, <1>3, <2>1, <2>2, Constants DEF DeviceCounted, DevicePaced
  <2>4. CASE now - s >= RateWindow
    <3>1. Rate(d) = [start |-> now, count |-> 0]
      BY <2>1, <2>4 DEF Rate
    <3>2. ASSUME NEW i \in DOMAIN accepted, accepted[i].request.device = d
          PROVE  accepted[i].at < a.at
      BY <1>1, <2>3, <2>4, <3>2, Constants DEF Counted
    <3>3. ASSUME NEW t \in Times, t + RateWindow > a.at
          PROVE  HowMany(accepted, d, t, a.at) <= RateLimit - 1
      <4>1. t \in Nat /\ t >= s + 1
        <5>1. t \in Nat /\ RateWindow \in Nat
          BY Constants
        <5>2. t + RateWindow > now
          BY <3>3
        <5> QED
          BY <1>1, <2>3, <2>4, <5>1, <5>2
      <4>2. AcceptedIn(accepted, d, t, a.at) \subseteq AcceptedIn(accepted, d, s + 1, s + RateWindow)
        BY <1>1, <2>3, <4>1, Constants DEF AcceptedIn, Counted
      <4>3. HowMany(accepted, d, t, a.at) <= HowMany(accepted, d, s + 1, s + RateWindow)
        BY <1>1, <4>2, CountWithin
      <4>4. HowMany(accepted, d, s + 1, s + RateWindow) <= c - 1
        BY <2>3 DEF Counted
      <4>5. /\ HowMany(accepted, d, t, a.at) \in Nat
            /\ HowMany(accepted, d, s + 1, s + RateWindow) \in Nat
        BY <1>1, CountFacts
      <4> QED
        BY <2>3, <4>3, <4>4, <4>5, Constants
    <3>4. Counted(Append(accepted, a), d, a.at, 1) /\ Burst(Append(accepted, a), d)
      BY <1>1, <3>2, <3>3, CountedNew
    <3> QED
      BY <3>1, <3>4
  <2>5. CASE ~(now - s >= RateWindow)
    <3>1. Rate(d) = rates[d]
      BY <1>3, <2>1, <2>5 DEF Rate
    <3>2. c < RateLimit
      BY <2>2, <2>3, <3>1, Constants DEF OverLimit
    <3>3. a.at < s + RateWindow
      BY <1>1, <2>3, <2>5, Constants
    <3>4. Counted(Append(accepted, a), d, s, c + 1) /\ Burst(Append(accepted, a), d)
      BY <1>1, <2>3, <3>2, <3>3, CountedSame
    <3> QED
      BY <2>1, <2>2, <3>1, <3>4
  <2> QED
    BY <2>4, <2>5
<1> QED
  BY <1>2, <1>3

(* A request whose timestamp is in time now, and that nothing in the last  *)
(* TTL repeats, is the first or a TTL later than the one before            *)
LEMMA PromptSpread ==
    ASSUME AuthInv, NEW r \in Requests, InTime(r.timestamp),
           \A i \in DOMAIN accepted : accepted[i].request # r
    PROVE  /\ prompt[r] \in Nat /\ prompt[r] * NonceTtl <= 2 * MaxClockSkew
           /\ now >= Earliest(r) + prompt[r] * NonceTtl
<1> DEFINE k == prompt[r]
<1>1. k \in Nat /\ now \in Nat /\ r.timestamp \in Nat
  BY RequestFacts, Constants DEF AuthInv, TypeOK
<1>2. now <= r.timestamp + MaxClockSkew /\ r.timestamp <= now + MaxClockSkew
  BY <1>1, Constants DEF InTime, Monus
<1>3. now >= Earliest(r) + k * NonceTtl
  <2>1. CASE k = 0
    <3>1. k * NonceTtl = 0
      BY <2>1, Constants
    <3> QED
      BY <1>1, <1>2, <3>1, Constants DEF Earliest
  <2>2. CASE k # 0
    BY <1>1, <2>2 DEF AuthInv, Spread
  <2> QED
    BY <2>1, <2>2
<1>4. k * NonceTtl \in Nat
  BY <1>1, OneMore, Constants
<1> HIDE DEF k
<1>5. k * NonceTtl <= 2 * MaxClockSkew
  BY <1>1, <1>2, <1>3, <1>4, Constants DEF Earliest
<1> QED
  BY <1>1, <1>3, <1>5 DEF k

LEMMA AuthenticateKeeps ==
    ASSUME AuthInv, NEW h \in Handlers, waiting[h] # Idle, Authenticate(h)
    PROVE  AuthInv'
<1>1. TypeOK /\ Checked /\ HistoryKept /\ NoReplayWithinTtl
  BY DEF AuthInv
<1>2. waiting[h] \in [request : Requests, prompt : BOOLEAN]
  BY <1>1 DEF TypeOK
<1>3. PICK r \in Requests : r = waiting[h].request
  BY <1>2
<1>4. PICK d \in Devices : d = r.device
  BY RequestFacts
<1>5. PICK a \in Acceptance : a = [request |-> r, at |-> now]
  BY <1>1 DEF TypeOK, Acceptance
<1>6. PICK e \in Entry : e = [nonce |-> r.nonce, expires |-> now + NonceTtl]
  <2>1. r.nonce \in Nonces /\ now + NonceTtl \in Nat
    BY <1>1, RequestFacts, Constants DEF TypeOK
  <2> QED
    BY <2>1 DEF Entry
<1>7. /\ ~IsReplay(d, r.nonce) /\ ~OverLimit(d)
      /\ rates' = [rates EXCEPT ![d] = [start |-> Rate(d).start, count |-> Rate(d).count + 1]]
      /\ nonces' = [nonces EXCEPT ![d] = Remember(Live(d), r.nonce)]
      /\ accepted' = Append(accepted, a)
      /\ prompt' = IF waiting[h].prompt THEN [prompt EXCEPT ![r] = @ + 1] ELSE prompt
      /\ Done(h) /\ now' = now
  BY <1>3, <1>4, <1>5 DEF Authenticate
<1>8. /\ Live(d) = LiveOf(nonces[d], now) /\ now \in Nat
      /\ Queued(nonces[d], now) /\ Queued(Live(d), now)
      /\ \A i \in DOMAIN Live(d) : Live(d)[i].expires > now
      /\ Rate(d).start \in Times /\ Rate(d).count \in 0 .. RateLimit
      /\ Rate(d).start <= now /\ now < Rate(d).start + RateWindow
      /\ Paced(Live(d), Rate(d).start, Rate(d).count)
  BY UnderLock
<1>9. Rate(d).start \in Nat /\ Rate(d).count \in Nat /\ Rate(d).count < RateLimit
  <2>1. \A n \in 0 .. RateLimit : n \in Nat /\ (~(n >= RateLimit) => n < RateLimit)
    BY Constants
  <2>2. ~(Rate(d).count >= RateLimit)
    BY <1>7 DEF OverLimit
  <2>3. Rate(d).start \in Nat
    BY <1>8, Constants
  <2> QED
    BY <1>8, <2>1, <2>2, <2>3
<1>10. PICK w \in Window : w = [start |-> Rate(d).start, count |-> Rate(d).count + 1]
  <2>1. Rate(d).count + 1 \in 1 .. RateLimit
    BY <1>9, Constants
  <2> QED
    BY <1>8, <2>1 DEF Window
<1>11. w.start = Rate(d).start /\ w.count = Rate(d).count + 1
  BY <1>10
<1>12. Live(d) \in Seq(Entry) /\ ~Full(Live(d))
  <2>1. Live(d) \in Seq(Entry)
    BY <1>8 DEF Queued
  <2> QED
    BY <1>8, <1>9, <2>1, RoomForOne
<1>13. Remember(Live(d), r.nonce) = Append(Live(d), e)
  BY <1>6, <1>12 DEF Remember, Expires
<1>14. Queued(Append(Live(d), e), now) /\ Paced(Append(Live(d), e), w.start, w.count)
  <2>1. r.nonce \in Nonces
    BY RequestFacts
  <2> QED
    BY <1>6, <1>8, <1>9, <1>11, <1>12, <2>1, OneMorePaced
<1>15. /\ nonces'[d] = Append(Live(d), e) /\ rates'[d] = w
       /\ DOMAIN nonces' = Devices /\ DOMAIN rates' = Devices
       /\ \A x \in Devices \ {d} : nonces'[x] = nonces[x] /\ rates'[x] = rates[x]
  BY <1>1, <1>7, <1>10, <1>13 DEF TypeOK
<1>16. /\ accepted \in Seq(Acceptance) /\ DOMAIN accepted = 1 .. Len(accepted) /\ Len(accepted) \in Nat
       /\ accepted' \in Seq(Acceptance) /\ DOMAIN accepted' = 1 .. (Len(accepted) + 1)
       /\ accepted'[Len(accepted) + 1] = a
       /\ \A i \in 1 .. Len(accepted) : accepted'[i] = accepted[i]
  <2>1. accepted \in Seq(Acceptance)
    BY <1>1, AcceptedType
  <2> QED
    BY <1>7, <2>1
<1>17. prompt' \in [Requests -> Nat]
  BY <1>1, <1>7 DEF TypeOK
<1>18. DevicePaced(d)'
  <2>1. w.start <= now
    BY <1>8, <1>11
  <2> QED
    BY <1>7, <1>14, <1>15, <2>1 DEF DevicePaced
<1>19. ASSUME NEW x \in Devices PROVE DevicePaced(x)'
  <2>1. CASE x # d
    BY <1>7, <1>15, <2>1 DEF AuthInv, DevicePaced
  <2> QED
    BY <1>18, <2>1
<1>20. TypeOK'
  <2>1. nonces' \in [Devices -> Seq([nonce : Nonces, expires : Nat])]
    <3>1. Append(Live(d), e) \in Seq([nonce : Nonces, expires : Nat])
      BY <1>12 DEF Entry
    <3> QED
      BY <1>1, <1>7, <1>13, <3>1 DEF TypeOK
  <2>2. \A x \in Devices : Len(nonces'[x]) <= MaxNonces
    BY <1>19 DEF DevicePaced, Queued
  <2>3. rates' \in [Devices -> [start : Times, count : 0 .. RateLimit] \cup {NoRate}]
    BY <1>1, <1>7, <1>10, WindowIsRate DEF TypeOK
  <2>4. accepted' \in Seq([request : Requests, at : Times])
    BY <1>16 DEF Acceptance
  <2> QED
    BY <1>1, <1>7, <1>17, <2>1, <2>2, <2>3, <2>4, DoneFacts DEF TypeOK
<1>21. a.request = r /\ a.at = now
  BY <1>5
<1>22. HistoryKept'
  <2>1. ASSUME NEW n \in 1 .. Len(accepted), NEW b \in Acceptance, b = accepted[n]
        PROVE  Remembered(b)'
    <3>2. b.request.device \in Devices /\ Remembered(b)
      BY <1>1, <1>16, <2>1, AcceptedType DEF HistoryKept
    <3>3. ASSUME NEW i \in DOMAIN nonces[b.request.device],
                 nonces[b.request.device][i].expires > now
          PROVE  \E j \in DOMAIN nonces'[b.request.device] :
                     nonces'[b.request.device][j] = nonces[b.request.device][i]
      <4>1. CASE b.request.device # d
        BY <1>15, <3>2, <4>1
      <4>2. CASE b.request.device = d
        <5>1. PICK j \in DOMAIN Live(d) : Live(d)[j] = nonces[d][i]
          BY <1>8, <3>3, <4>2, LiveKept
        <5>2. j \in DOMAIN Append(Live(d), e) /\ Append(Live(d), e)[j] = Live(d)[j]
          BY <1>12
        <5> QED
          BY <1>15, <4>2, <5>1, <5>2
      <4> QED
        BY <4>1, <4>2
    <3> QED
      BY <1>7, <3>2, <3>3, StillRemembered
  <2>2. Remembered(a)'
    <3>1. \E i \in DOMAIN nonces'[d] : nonces'[d][i] = e
      <4>1. /\ Len(Live(d)) + 1 \in DOMAIN Append(Live(d), e)
            /\ Append(Live(d), e)[Len(Live(d)) + 1] = e
        BY <1>12
      <4> QED
        BY <1>15, <4>1
    <3>2. now <= now /\ now < now + NonceTtl
      BY <1>8, Constants
    <3> QED
      BY <1>4, <1>6, <1>7, <1>21, <3>1, <3>2 DEF Remembered
  <2>3. ASSUME NEW i \in DOMAIN accepted' PROVE Remembered(accepted[i])'
    <3>1. PICK b \in Acceptance : b = accepted'[i]
      BY <1>16
    <3>2. Remembered(b)'
      <4>1. CASE i \in 1 .. Len(accepted)
        BY <1>16, <2>1, <3>1, <4>1
      <4>2. CASE i = Len(accepted) + 1
        BY <1>16, <2>2, <3>1, <4>2
      <4> QED
        BY <1>16, <4>1, <4>2
    <3> QED
      BY <3>1, <3>2 DEF Remembered
  <2>4. ASSUME NEW i \in DOMAIN accepted', NEW j \in DOMAIN accepted', i <= j
        PROVE  accepted'[i].at <= accepted'[j].at
    <3>1. \A n \in DOMAIN accepted : accepted[n].at <= now
      BY <1>1 DEF HistoryKept, Remembered
    <3>2. CASE j = Len(accepted) + 1
      <4>1. accepted'[j].at = now
        BY <1>16, <1>21, <3>2
      <4>2. CASE i = j
        BY <1>8, <4>1, <4>2
      <4>3. CASE i # j
        BY <1>16, <2>4, <3>1, <3>2, <4>1, <4>3
      <4> QED
        BY <4>2, <4>3
    <3>3. CASE j # Len(accepted) + 1
      BY <1>1, <1>16, <2>4, <3>3 DEF HistoryKept
    <3> QED
      BY <3>2, <3>3
  <2> QED
    BY <2>3, <2>4 DEF HistoryKept
<1>23. ASSUME NEW i \in DOMAIN accepted,
              accepted[i].request.device = d, accepted[i].request.nonce = r.nonce
       PROVE  FALSE
  <2>1. PICK b \in Acceptance : b = accepted[i]
    BY <1>1, AcceptedType
  <2>2. Remembered(b) /\ b.request.device = d /\ b.request.nonce = r.nonce
    BY <1>1, <1>23, <2>1 DEF HistoryKept
  <2>3. PICK j \in DOMAIN nonces[d] : nonces[d][j] = [nonce |-> r.nonce, expires |-> b.at + NonceTtl]
    BY <2>2 DEF Remembered
  <2>4. nonces[d][j].expires > now /\ nonces[d][j].nonce = r.nonce
    <3>1. b.at \in Nat
      BY <1>1, <2>1, <1>23, AcceptedType
    <3> QED
      BY <1>8, <2>2, <2>3, <3>1, Constants DEF Remembered
  <2>5. \E n \in DOMAIN Live(d) : Live(d)[n] = nonces[d][j]
    BY <1>8, <2>4, LiveKept
  <2> QED
    BY <1>7, <2>4, <2>5 DEF IsReplay
<1>24. NoReplayWithinTtl'
  <2> SUFFICES ASSUME NEW i \in DOMAIN accepted', NEW j \in DOMAIN accepted',
                      accepted'[i].request.device = accepted'[j].request.device,
                      accepted'[i].request.nonce = accepted'[j].request.nonce
               PROVE  i = j
    BY DEF NoReplayWithinTtl
  <2>1. CASE i = Len(accepted) + 1 /\ j # Len(accepted) + 1
    BY <1>4, <1>16, <1>21, <1>23, <2>1
  <2>2. CASE j = Len(accepted) + 1 /\ i # Len(accepted) + 1
    BY <1>4, <1>16, <1>21, <1>23, <2>2
  <2>3. CASE i # Len(accepted) + 1 /\ j # Len(accepted) + 1
    BY <1>1, <1>16, <2>3 DEF NoReplayWithinTtl
  <2> QED
    BY <2>1, <2>2, <2>3
<1>25. Counted(accepted', d, w.start, w.count) /\ Burst(accepted', d)
  BY <1>4, <1>7, <1>11, <1>21, CountedAuthenticated
<1>26. ASSUME NEW x \in Devices PROVE DeviceCounted(x)' /\ Burst(accepted, x)'
  <2>1. CASE x = d
    BY <1>15, <1>25, <2>1 DEF DeviceCounted
  <2>2. CASE x # d
    <3>1. DeviceCounted(x) /\ Burst(accepted, x) /\ a.request.device # x
      BY <1>4, <1>21, <2>2 DEF AuthInv
    <3>2. Burst(accepted', x)
      BY <1>7, <1>16, <3>1, CountedOther
    <3>3. CASE rates[x] = NoRate /\ \A i \in DOMAIN accepted : accepted[i].request.device # x
      <4>1. \A i \in DOMAIN accepted' : accepted'[i].request.device # x
        BY <1>7, <1>16, <3>1, <3>3, CountedOther
      <4> QED
        BY <1>15, <2>2, <3>2, <3>3, <4>1 DEF DeviceCounted
    <3>4. CASE rates[x] \in Window /\ Counted(accepted, x, rates[x].start, rates[x].count)
      <4>1. rates[x].start \in Nat /\ rates[x].count \in Nat
        BY <3>4, WindowFacts
      <4>2. Counted(accepted', x, rates[x].start, rates[x].count)
        BY <1>7, <1>16, <3>1, <3>4, <4>1, CountedOther
      <4> QED
        BY <1>15, <2>2, <3>2, <3>4, <4>2 DEF DeviceCounted
    <3> QED
      BY <3>1, <3>3, <3>4 DEF DeviceCounted
  <2> QED
    BY <2>1, <2>2
<1>27. ASSUME NEW x \in Requests PROVE Spread(x)'
  <2>1. CASE x # r \/ ~waiting[h].prompt
    <3>1. prompt'[x] = prompt[x]
      BY <1>1, <1>7, <2>1 DEF TypeOK
    <3>2. Spread(x)
      BY DEF AuthInv
    <3>3. ASSUME NEW k \in DOMAIN accepted PROVE k \in DOMAIN accepted' /\ accepted'[k] = accepted[k]
      BY <1>16
    <3> QED
      BY <1>7, <3>1, <3>2, <3>3 DEF Spread, Earliest
  <2>2. CASE x = r /\ waiting[h].prompt
    <3>1. InTime(r.timestamp)
      BY <1>1, <1>3, <2>2 DEF Checked
    <3>2. \A i \in DOMAIN accepted : accepted[i].request # r
      BY <1>4, <1>23
    <3>3. /\ prompt[r] \in Nat /\ prompt[r] * NonceTtl <= 2 * MaxClockSkew
          /\ now >= Earliest(r) + prompt[r] * NonceTtl
      BY <3>1, <3>2, PromptSpread
    <3>4. prompt'[r] = prompt[r] + 1 /\ prompt'[r] - 1 = prompt[r]
      BY <1>1, <1>7, <2>2, <3>3 DEF TypeOK
    <3>5. /\ Len(accepted) + 1 \in DOMAIN accepted' /\ accepted'[Len(accepted) + 1].request = r
          /\ accepted'[Len(accepted) + 1].at = now
      BY <1>16, <1>21
    <3>6. /\ (prompt'[r] - 1) * NonceTtl <= 2 * MaxClockSkew
          /\ now >= Earliest(r) + (prompt'[r] - 1) * NonceTtl
      BY <3>3, <3>4
    <3>7. \E k \in DOMAIN accepted' :
            /\ accepted'[k].request = r
            /\ accepted'[k].at >= Earliest(r) + (prompt'[r] - 1) * NonceTtl
      BY <3>5, <3>6
    <3> QED
      BY <2>2, <3>6, <3>7 DEF Spread, Earliest
  <2> QED
    BY <2>1, <2>2
<1> QED
  BY <1>1, <1>7, <1>19, <1>20, <1>22, <1>24, <1>26, <1>27, DoneFacts DEF AuthInv

LEMMA AuthStart ==
    ASSUME Init PROVE AuthInv
<1>1. /\ nonces = [d \in Devices |-> <<>>] /\ rates = [d \in Devices |-> NoRate]
      /\ waiting = [h \in Handlers |-> Idle] /\ now = 0 /\ accepted = <<>>
      /\ prompt = [r \in Requests |-> 0]
  BY DEF Init
<1>2. 0 \in Times
  BY Constants DEF Times
<1>3. TypeOK
  <2>1. \A d \in Devices : Len(nonces[d]) <= MaxNonces
    BY <1>1, Constants
  <2>2. accepted \in Seq([request : Requests, at : Times])
    BY <1>1
  <2>3. nonces \in [Devices -> Seq([nonce : Nonces, expires : Nat])]
    BY <1>1
  <2>4. rates \in [Devices -> [start : Times, count : 0 .. RateLimit] \cup {NoRate}]
    BY <1>1
  <2>5. waiting \in [Handlers -> [request : Requests, prompt : BOOLEAN] \cup {Idle}]
    BY <1>1
  <2>6. prompt \in [Requests -> Nat]
    BY <1>1
  <2> QED
    BY <1>1, <1>2, <2>1, <2>2, <2>3, <2>4, <2>5, <2>6 DEF TypeOK
<1>4. ASSUME NEW d \in Devices PROVE DevicePaced(d)
  <2>1. nonces[d] = <<>> /\ rates[d] = NoRate
    BY <1>1
  <2>2. Queued(<<>>, now)
    BY Constants DEF Queued
  <2> QED
    BY <2>1, <2>2 DEF DevicePaced
<1>5. DOMAIN accepted = {}
  BY <1>1
<1>6. HistoryKept /\ NoReplayWithinTtl
  BY <1>5 DEF HistoryKept, NoReplayWithinTtl
<1>7. ASSUME NEW d \in Devices PROVE DeviceCounted(d) /\ Burst(accepted, d)
  <2>1. rates[d] = NoRate
    BY <1>1
  <2>2. ASSUME NEW t \in Times PROVE HowMany(accepted, d, t, t + RateWindow) < 2 * RateLimit
    <3>1. AcceptedIn(accepted, d, t, t + RateWindow) = {}
      BY <1>5 DEF AcceptedIn
    <3> QED
      BY <3>1, FS_EmptySet, Constants DEF HowMany
  <2> QED
    BY <1>5, <2>1, <2>2 DEF DeviceCounted, Burst
<1>8. ASSUME NEW r \in Requests PROVE Spread(r)
  BY <1>1 DEF Spread
<1>9. Checked
  BY <1>1 DEF Checked
<1> QED
  BY <1>3, <1>4, <1>6, <1>7, <1>8, <1>9 DEF AuthInv

LEMMA CheckKeeps ==
    ASSUME AuthInv, NEW h \in Handlers, NEW r \in Requests, Check(h, r)
    PROVE  AuthInv'
<1>1. TypeOK /\ Checked
  BY DEF AuthInv
<1>2. PICK w \in [request : Requests, prompt : BOOLEAN] : w = [request |-> r, prompt |-> TRUE]
  OBVIOUS
<1>3. /\ waiting' = [waiting EXCEPT ![h] = w] /\ w.request = r /\ InTime(r.timestamp)
      /\ nonces' = nonces /\ rates' = rates /\ now' = now /\ accepted' = accepted /\ prompt' = prompt
  BY <1>2 DEF Check, Passes
<1>4. waiting' \in [Handlers -> [request : Requests, prompt : BOOLEAN] \cup {Idle}]
  BY <1>1, <1>3 DEF TypeOK
<1>5. \A g \in Handlers : waiting'[g] = IF g = h THEN w ELSE waiting[g]
  BY <1>1, <1>3 DEF TypeOK
<1>6. Checked'
  BY <1>1, <1>3, <1>5 DEF Checked, InTime
<1>7. TypeOK'
  BY <1>1, <1>3, <1>4 DEF TypeOK
<1>8. (\A d \in Devices : DevicePaced(d)') /\ HistoryKept' /\ NoReplayWithinTtl'
  BY <1>3 DEF AuthInv, DevicePaced, HistoryKept, Remembered, NoReplayWithinTtl
<1>9. \A d \in Devices : DeviceCounted(d)' /\ Burst(accepted, d)'
  BY <1>3 DEF AuthInv, DeviceCounted
<1>10. \A q \in Requests : Spread(q)'
  BY <1>3 DEF AuthInv, Spread
<1> QED
  BY <1>6, <1>7, <1>8, <1>9, <1>10 DEF AuthInv

LEMMA LockedKeeps ==
    ASSUME AuthInv, NEW h \in Handlers, Locked(h)
    PROVE  AuthInv'
<1>1. TypeOK /\ waiting[h] # Idle
  BY DEF AuthInv, Locked
<1>2. waiting[h] \in [request : Requests, prompt : BOOLEAN]
  BY <1>1 DEF TypeOK
<1>3. PICK d \in Devices : d = waiting[h].request.device
  BY <1>2, RequestFacts
<1>4. CASE Replay(h)
  BY <1>3, <1>4, ForgetKeeps DEF Replay
<1>5. CASE RateLimited(h)
  <2>1. OverLimit(d)
    BY <1>3, <1>5 DEF RateLimited
  <2>2. Rate(d) = rates[d]
    BY <2>1, UnderLock
  <2>3. rates' = rates
    BY <1>1, <1>3, <1>5, <2>2 DEF RateLimited, TypeOK
  <2> QED
    BY <1>3, <1>5, <2>3, ForgetKeeps DEF RateLimited
<1>6. CASE Authenticate(h)
  BY <1>1, <1>6, AuthenticateKeeps
<1> QED
  BY <1>4, <1>5, <1>6 DEF Locked

(* The clocks advance: what a TTL has passed since leaves the history *)
LEMMA TickKeeps ==
    ASSUME AuthInv, Tick PROVE AuthInv'
<1> DEFINE keep == {i \in DOMAIN accepted : accepted[i].at + NonceTtl > now'}
           n == Len(accepted)
           g == accepted'
<1>1. /\ now \in Nat /\ now' = now + 1 /\ now' \in Times /\ now' \in Nat
      /\ g = Retain(accepted, keep)
      /\ waiting' = [h \in Handlers |->
             IF waiting[h] = Idle THEN Idle ELSE [waiting[h] EXCEPT !.prompt = FALSE]]
      /\ nonces' = nonces /\ rates' = rates /\ prompt' = prompt
  <2>1. now \in Nat /\ now + 1 \in Times
    BY Constants DEF AuthInv, TypeOK, Tick, Times
  <2> QED
    BY <2>1 DEF Tick
<1>2. /\ TypeOK /\ HistoryKept /\ NoReplayWithinTtl
      /\ accepted \in Seq(Acceptance) /\ n \in Nat /\ DOMAIN accepted = 1 .. n
      /\ \A i \in 1 .. n : accepted[i] \in Acceptance /\ accepted[i].at \in Nat
  BY AcceptedType DEF AuthInv
<1>3. PICK k \in 0 .. n : keep = (k + 1) .. n
  <2>1. \A i, j \in 1 .. n : i <= j => accepted[i].at <= accepted[j].at
    BY <1>2 DEF HistoryKept
  <2>2. \A i \in keep, j \in 1 .. n : i <= j => j \in keep
    BY <1>1, <1>2, <2>1, Constants
  <2>3. keep \in SUBSET (1 .. n)
    BY <1>2
  <2> HIDE DEF keep, n
  <2> QED
    BY <1>2, <2>2, <2>3, LastOnes
<1>4. g \in Seq(Acceptance) /\ Len(g) = n - k /\ \A i \in 1 .. (n - k) : g[i] = accepted[i + k]
  <2>1. g = Retain(accepted, (k + 1) .. Len(accepted))
    BY <1>1, <1>3
  <2> HIDE DEF g, keep
  <2> QED
    BY <1>2, <2>1, RetainLast
<1>5. \A i \in 1 .. n : i \in keep \/ accepted[i].at + NonceTtl <= now'
  BY <1>1, <1>2, Constants
<1>6. \A i \in keep : accepted[i].at + NonceTtl > now'
  OBVIOUS
<1> HIDE DEF keep, g
<1>7. /\ DOMAIN g = 1 .. (n - k) /\ n - k \in Nat
      /\ \A i \in DOMAIN g : i + k \in keep /\ i + k \in 1 .. n /\ g[i] = accepted[i + k]
  BY <1>2, <1>3, <1>4
<1>8. \A i \in keep : i - k \in DOMAIN g /\ g[i - k] = accepted[i]
  <2>1. ASSUME NEW i \in (k + 1) .. n PROVE i - k \in 1 .. (n - k) /\ (i - k) + k = i
    BY <1>2
  <2> QED
    BY <1>3, <1>7, <2>1
<1> HIDE DEF n
<1>9. ASSUME NEW d \in Devices PROVE DevicePaced(d)'
  <2>1. DevicePaced(d)
    BY DEF AuthInv
  <2>2. ASSUME Queued(nonces[d], now) PROVE Queued(nonces[d], now')
    <3>1. nonces[d] \in Seq(Entry)
      BY <2>2 DEF Queued
    <3>2. \A i \in DOMAIN nonces[d] : nonces[d][i].expires \in Nat
      <4>1. \A i \in DOMAIN nonces[d] : nonces[d][i] \in Entry
        BY <3>1
      <4> QED
        BY <4>1 DEF Entry
    <3>3. \A i \in DOMAIN nonces[d] : nonces[d][i].expires <= now' + NonceTtl
      BY <1>1, <2>2, <3>2, Constants DEF Queued
    <3> QED
      BY <2>2, <3>3 DEF Queued
  <2>3. ASSUME rates[d] \in Window, rates[d].start <= now PROVE rates[d].start <= now'
    <3>1. rates[d].start \in Nat
      BY <2>3, WindowFacts
    <3> QED
      BY <1>1, <2>3, <3>1
  <2> QED
    BY <1>1, <2>1, <2>2, <2>3 DEF DevicePaced
<1>10. TypeOK'
  <2>1. waiting' \in [Handlers -> [request : Requests, prompt : BOOLEAN] \cup {Idle}]
    <3>1. ASSUME NEW w \in [request : Requests, prompt : BOOLEAN], NEW B, B \in BOOLEAN
          PROVE  [w EXCEPT !.prompt = B] \in [request : Requests, prompt : BOOLEAN]
      BY <3>1
    <3>2. \A h \in Handlers : waiting[h] \in [request : Requests, prompt : BOOLEAN] \cup {Idle}
      BY <1>2 DEF TypeOK
    <3>3. FALSE \in BOOLEAN
      OBVIOUS
    <3>4. ASSUME NEW h \in Handlers
          PROVE  (IF waiting[h] = Idle THEN Idle ELSE [waiting[h] EXCEPT !.prompt = FALSE])
                     \in [request : Requests, prompt : BOOLEAN] \cup {Idle}
      BY <3>1, <3>2, <3>3
    <3> QED
      BY <1>1, <3>4
  <2>2. accepted' \in Seq([request : Requests, at : Times])
    BY <1>4 DEF g, Acceptance
  <2> QED
    BY <1>1, <1>2, <2>1, <2>2 DEF TypeOK
<1>11. HistoryKept'
  <2>1. ASSUME NEW i \in DOMAIN g, NEW b \in Acceptance, b = g[i] PROVE Remembered(b)'
    <3>1. Remembered(b) /\ b.at \in Nat /\ b.at + NonceTtl > now'
      BY <1>2, <1>6, <1>7, <2>1 DEF HistoryKept
    <3>2. b.at <= now' /\ now' < b.at + NonceTtl
      BY <1>1, <3>1, Constants DEF Remembered
    <3> QED
      BY <1>1, <3>1, <3>2 DEF Remembered
  <2>2. ASSUME NEW i \in DOMAIN g PROVE Remembered(accepted[i])'
    <3>1. PICK b \in Acceptance : b = g[i]
      BY <1>2, <1>7
    <3>2. Remembered(b)'
      BY <2>1, <3>1
    <3> QED
      BY <3>1, <3>2 DEF Remembered, g
  <2>3. ASSUME NEW i \in DOMAIN g, NEW j \in DOMAIN g, i <= j PROVE g[i].at <= g[j].at
    <3>1. i + k <= j + k
      BY <1>7, <2>3
    <3> QED
      BY <1>2, <1>7, <3>1 DEF HistoryKept
  <2> QED
    BY <2>2, <2>3 DEF HistoryKept, g
<1>12. NoReplayWithinTtl'
  <2>1. ASSUME NEW i \in DOMAIN g, NEW j \in DOMAIN g,
               g[i].request.device = g[j].request.device, g[i].request.nonce = g[j].request.nonce
        PROVE  i = j
    <3>1. i + k = j + k
      BY <1>2, <1>7, <2>1 DEF NoReplayWithinTtl
    <3> QED
      BY <1>7, <3>1
  <2> QED
    BY <2>1 DEF NoReplayWithinTtl, g
<1>13. ASSUME NEW d \in Devices PROVE DeviceCounted(d)' /\ Burst(accepted, d)'
  <2>1. /\ \A s, c \in Nat : Counted(accepted, d, s, c) => Counted(g, d, s, c)
        /\ Burst(accepted, d) => Burst(g, d)
        /\ (\A i \in DOMAIN accepted : accepted[i].request.device # d) =>
               \A i \in DOMAIN g : g[i].request.device # d
    BY <1>2, <1>4, CountedLater DEF n
  <2>2. DeviceCounted(d) /\ Burst(accepted, d)
    BY DEF AuthInv
  <2>3. ASSUME rates[d] \in Window PROVE rates[d].start \in Nat /\ rates[d].count \in Nat
    BY <2>3, WindowFacts
  <2> QED
    BY <1>1, <2>1, <2>2, <2>3 DEF DeviceCounted, g
<1>14. ASSUME NEW r \in Requests PROVE Spread(r)'
  <2>1. CASE ~(prompt[r] > 0)
    BY <1>1, <2>1 DEF Spread
  <2>2. CASE prompt[r] > 0
    <3>1. PICK m \in Nat : prompt[r] = m + 1
      <4>1. prompt[r] \in Nat
        BY <1>2 DEF TypeOK
      <4> QED
        BY <2>2, <4>1, prompt[r] - 1 \in Nat
    <3>2. /\ prompt[r] - 1 = m /\ m * NonceTtl \in Nat
          /\ prompt[r] * NonceTtl = m * NonceTtl + NonceTtl
      BY <3>1, OneMore, Constants
    <3>3. /\ m * NonceTtl <= 2 * MaxClockSkew
          /\ \/ \E i \in DOMAIN accepted :
                  accepted[i].request = r /\ accepted[i].at >= Earliest(r) + m * NonceTtl
             \/ now >= Earliest(r) + prompt[r] * NonceTtl
      BY <2>2, <3>2 DEF AuthInv, Spread
    <3>4. Earliest(r) \in Int
      BY RequestFacts, Constants DEF Earliest
    <3>5. CASE now >= Earliest(r) + prompt[r] * NonceTtl
      <4>1. now' >= Earliest(r) + prompt[r] * NonceTtl
        BY <1>1, <3>2, <3>4, <3>5, Constants
      <4> QED
        BY <1>1, <3>2, <3>3, <4>1 DEF Spread, Earliest
    <3>6. CASE \E i \in DOMAIN accepted :
                 accepted[i].request = r /\ accepted[i].at >= Earliest(r) + m * NonceTtl
      <4>1. PICK i \in 1 .. n : accepted[i].request = r /\ accepted[i].at >= Earliest(r) + m * NonceTtl
        BY <1>2, <3>6
      <4>2. CASE i \in keep
        <5>1. \E j \in DOMAIN g : g[j].request = r /\ g[j].at >= Earliest(r) + m * NonceTtl
          BY <1>8, <4>1, <4>2
        <5> QED
          BY <1>1, <3>2, <3>3, <5>1 DEF Spread, Earliest, g
      <4>3. CASE i \notin keep
        <5>1. accepted[i].at + NonceTtl <= now' /\ accepted[i].at \in Nat
          BY <1>2, <1>5, <4>3
        <5>2. now' >= Earliest(r) + prompt[r] * NonceTtl
          BY <1>1, <3>2, <3>4, <4>1, <5>1, Constants
        <5> QED
          BY <1>1, <3>2, <3>3, <5>2 DEF Spread, Earliest
      <4> QED
        BY <4>2, <4>3
    <3> QED
      BY <3>3, <3>5, <3>6
  <2> QED
    BY <2>1, <2>2
<1>15. Checked'
  <2>1. ASSUME NEW h \in Handlers, waiting'[h] # Idle PROVE ~waiting'[h].prompt
    <3>1. waiting'[h] = [waiting[h] EXCEPT !.prompt = FALSE]
      BY <1>1, <2>1
    <3>2. waiting[h] \in [request : Requests, prompt : BOOLEAN]
      BY <1>1, <1>2, <2>1 DEF TypeOK
    <3>3. waiting'[h].prompt = FALSE
      BY <3>1, <3>2
    <3> QED
      BY <3>3
  <2> QED
    BY <2>1 DEF Checked
<1> QED
  BY <1>9, <1>10, <1>11, <1>12, <1>13, <1>14, <1>15 DEF AuthInv

LEMMA AuthStep ==
    ASSUME AuthInv, [Next]_vars PROVE AuthInv'
<1>1. ASSUME NEW h \in Handlers, NEW r \in Requests, Check(h, r) PROVE AuthInv'
  BY <1>1, CheckKeeps
<1>2. ASSUME NEW h \in Handlers, Locked(h) PROVE AuthInv'
  BY <1>2, LockedKeeps
<1>3. CASE Tick
  BY <1>3, TickKeeps
<1>4. CASE UNCHANGED vars
  BY <1>4 DEF AuthInv, TypeOK, DevicePaced, HistoryKept, Remembered, NoReplayWithinTtl,
              DeviceCounted, Spread, Checked, InTime, vars
<1> QED
  BY <1>1, <1>2, <1>3, <1>4 DEF Next, Refuse

-----------------------------------------------------------------------------
(* Theorems *)

(* What is proved of every handler, request and rate window: the lock, the *)
(* retain on each look at a nonce queue and the window of each device keep *)
(* the invariant, whatever the handlers and the clocks do                  *)
THEOREM AuthInvariant == Spec => []AuthInv
<1>1. Init => AuthInv
  BY AuthStart
<1>2. AuthInv /\ [Next]_vars => AuthInv'
  BY AuthStep
<1> QED
  BY <1>1, <1>2, PTL DEF Spec

(* authenticate leaves every device at most RATE_LIMIT_PER_DEVICE counted  *)
(* requests and MAX_NONCES_PER_DEVICE nonces                               *)
THEOREM AuthTypeCorrect == Spec => []TypeOK
<1>1. AuthInv => TypeOK
  BY DEF AuthInv
<1> QED
  BY <1>1, AuthInvariant, PTL

(* A nonce authenticates a device again only once NONCE_TTL has passed: no *)
(* handler slips in while another waits for the lock, and pop_front never  *)
(* drops a nonce that is live, because the rate windows pace the queue     *)
THEOREM AuthNoReplayWithinTtl == Spec => []NoReplayWithinTtl
<1>1. AuthInv => NoReplayWithinTtl
  BY DEF AuthInv
<1> QED
  BY <1>1, AuthInvariant, PTL

LEMMA QuotientBounds ==
    ASSUME NEW a \in Nat, NEW b \in Nat \ {0}, NEW k \in Nat, k * b <= a
    PROVE  k <= a \div b
<1>1. PICK q \in Int : q = a \div b
  OBVIOUS
<1>2. a < b * (q + 1)
  BY <1>1
<1>3. SUFFICES ASSUME k > q PROVE FALSE
  BY <1>1
<1>4. PICK e \in Nat : k = (q + 1) + e
  BY <1>3, k - (q + 1) \in Nat
<1>5. k * b = b * (q + 1) + e * b
  BY <1>4
<1>6. e * b \in Nat /\ b * (q + 1) \in Int
  BY OneMore
<1> QED
  BY <1>2, <1>5, <1>6

(* How often one request is authenticated at the very time its timestamp   *)
(* is checked: each time is NONCE_TTL after the one before and all of them *)
(* are within MAX_CLOCK_SKEW_MS of the timestamp                           *)
THEOREM AuthRepeatsBounded == Spec => []RepeatsBounded
<1>1. ASSUME AuthInv, NEW r \in Requests
      PROVE  prompt[r] <= 1 + (2 * MaxClockSkew) \div NonceTtl
  <2>1. prompt[r] \in Nat
    BY <1>1 DEF AuthInv, TypeOK
  <2>2. 2 * MaxClockSkew \in Nat /\ NonceTtl \in Nat \ {0}
    BY Constants
  <2>3. (2 * MaxClockSkew) \div NonceTtl \in Nat
    BY <2>2
  <2>4. CASE prompt[r] = 0
    BY <2>3, <2>4
  <2>5. CASE prompt[r] # 0
    <3>1. PICK m \in Nat : prompt[r] = m + 1
      BY <2>1, <2>5, prompt[r] - 1 \in Nat
    <3>2. prompt[r] > 0 /\ prompt[r] - 1 = m
      BY <3>1
    <3>3. m * NonceTtl <= 2 * MaxClockSkew
      BY <1>1, <3>2 DEF AuthInv, Spread
    <3>4. m <= (2 * MaxClockSkew) \div NonceTtl
      BY <2>2, <3>3, QuotientBounds
    <3> QED
      BY <2>3, <3>1, <3>4
  <2> QED
    BY <2>4, <2>5
<1>2. AuthInv => RepeatsBounded
  BY <1>1 DEF RepeatsBounded
<1> QED
  BY <1>2, AuthInvariant, PTL

(* Any RATE_WINDOW long interval of the last NONCE_TTL sees less than      *)
(* twice RATE_LIMIT_PER_DEVICE requests of a device, although the windows  *)
(* in which authenticate counts do not slide                               *)
THEOREM AuthBurstBounded == Spec => []BurstBounded
<1>1. ASSUME NEW d, NEW t PROVE Within(d, t) = AcceptedIn(accepted, d, t, t + RateWindow)
  BY DEF Within, AcceptedIn
<1>2. AuthInv => BurstBounded
  BY <1>1 DEF AuthInv, Burst, HowMany, BurstBounded
<1> QED
  BY <1>2, AuthInvariant, PTL

=============================================================================
