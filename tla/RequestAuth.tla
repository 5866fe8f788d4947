----------------------------- MODULE RequestAuth -----------------------------
(***************************************************************************)
(* Authentication of requests to the gateway (backend/src/auth.rs): each   *)
(* handler checks headers, timestamp and signature without the lock, then  *)
(* waits for it, and under it looks for the nonce, counts the request in   *)
(* the device's rate window and remembers the nonce for NONCE_TTL.         *)
(*                                                                         *)
(* A request is a value that says whether its headers parse, its device is *)
(* that of its key and its signature verifies; it may arrive any number of *)
(* times.  The wall clock (timestamps) and Instant (nonces, rates) advance *)
(* together: nothing compares a reading of one with one of the other.      *)
(***************************************************************************)
EXTENDS Integers, FiniteSets, Sequences, Queues

CONSTANTS
    Handlers,       \* concurrent calls of authenticate
    Devices,        \* device identifiers
    Nonces,         \* request nonces
    Requests,       \* the requests clients send
    NoRate,         \* no entry in rates
    Idle,           \* a handler without a request
    MaxClockSkew,   \* MAX_CLOCK_SKEW_MS
    NonceTtl,       \* NONCE_TTL
    MaxNonces,      \* MAX_NONCES_PER_DEVICE
    RateWindow,     \* RATE_WINDOW
    RateLimit,      \* RATE_LIMIT_PER_DEVICE
    MaxTime         \* bound of the model: the last reading of the clocks

ASSUME AuthBounds ==
    /\ MaxClockSkew \in Nat /\ NonceTtl \in Nat /\ MaxNonces \in Nat
    /\ RateLimit \in Nat \ {0} /\ MaxTime \in Nat
    /\ RateWindow \in 1 .. NonceTtl

\* The queue has room for every window that reaches into a NONCE_TTL: with the
\* constants of auth.rs 1024 nonces for 6 windows of 120.
ASSUME CapacitySuffices ==
    \E w \in 1 .. NonceTtl :
        (w - 1) * RateWindow >= NonceTtl - 1 /\ MaxNonces >= RateLimit * w

Times == 0 .. MaxTime

ASSUME RequestTypes ==
    Requests \subseteq [device : Devices, nonce : Nonces, timestamp : Nat, sound : BOOLEAN]

ASSUME NoValues ==
    /\ Idle \notin [request : Requests, prompt : BOOLEAN]
    /\ NoRate \notin [start : Times, count : 0 .. RateLimit]

VARIABLES
    nonces,     \* nonces[d]: [nonce, expires], oldest first
    rates,      \* rates[d]: [start, count], or NoRate
    waiting,    \* waiting[h]: the request h waits for the lock with, and whether the
                \* clock has not moved since it was checked
    now,        \* the clocks
    accepted,   \* history: the requests authenticated in the last NONCE_TTL, and when
    prompt      \* history: prompt[r]: how often r was authenticated at the very time
                \* its timestamp was checked

vars == <<nonces, rates, waiting, now, accepted, prompt>>

-----------------------------------------------------------------------------
(* Before the lock *)

Monus(a, b) == IF a > b THEN a - b ELSE 0

\* Fault: a timestamp in the past is not refused.
InTimeEver(timestamp) == timestamp <= now + MaxClockSkew

InTime(timestamp) ==
    timestamp <= now + MaxClockSkew /\ Monus(now, timestamp) <= MaxClockSkew

Passes(r) == r.sound /\ InTime(r.timestamp)

Check(h, r) ==
    /\ waiting[h] = Idle
    /\ Passes(r)
    /\ waiting' = [waiting EXCEPT ![h] = [request |-> r, prompt |-> TRUE]]
    /\ UNCHANGED <<nonces, rates, now, accepted, prompt>>

\* InvalidHeader, InvalidDevice, InvalidTimestamp or InvalidSignature.
Refuse(h, r) ==
    /\ waiting[h] = Idle
    /\ ~Passes(r)
    /\ UNCHANGED vars

-----------------------------------------------------------------------------
(* Under the lock *)

Live(d)        == Retain(nonces[d], {i \in DOMAIN nonces[d] : nonces[d][i].expires > now})
IsReplay(d, n) == \E i \in DOMAIN Live(d) : Live(d)[i].nonce = n

\* Fault: a new window keeps the start of the first one.
RateKeepsStart(d) ==
    IF rates[d] = NoRate THEN [start |-> now, count |-> 0]
    ELSE IF now - rates[d].start >= RateWindow THEN [rates[d] EXCEPT !.count = 0]
    ELSE rates[d]

\* The window the request falls in: a new one starts with the request.
Rate(d) ==
    IF rates[d] = NoRate \/ now - rates[d].start >= RateWindow
    THEN [start |-> now, count |-> 0]
    ELSE rates[d]

\* Fault: the limit is the first count refused one request too late.
OverLimitLate(d) == Rate(d).count > RateLimit

OverLimit(d) == Rate(d).count >= RateLimit

\* Fault: room for the windows NONCE_TTL spans, without the one it starts in.
FullByWindows(queue) == Len(queue) >= RateLimit * (NonceTtl \div RateWindow)

Full(queue) == Len(queue) >= MaxNonces

Expires == now + NonceTtl

Remember(queue, n) ==
    Append(IF Full(queue) THEN Tail(queue) ELSE queue, [nonce |-> n, expires |-> Expires])

Done(h) == waiting' = [waiting EXCEPT ![h] = Idle]

Replay(h) ==
    LET d == waiting[h].request.device IN
    /\ IsReplay(d, waiting[h].request.nonce)
    /\ nonces' = [nonces EXCEPT ![d] = Live(d)]
    /\ Done(h)
    /\ UNCHANGED <<rates, now, accepted, prompt>>

RateLimited(h) ==
    LET d == waiting[h].request.device IN
    /\ ~IsReplay(d, waiting[h].request.nonce)
    /\ OverLimit(d)
    /\ nonces' = [nonces EXCEPT ![d] = Live(d)]
    /\ rates' = [rates EXCEPT ![d] = Rate(d)]
    /\ Done(h)
    /\ UNCHANGED <<now, accepted, prompt>>

Authenticate(h) ==
    LET r == waiting[h].request
        d == r.device
    IN
    /\ ~IsReplay(d, r.nonce)
    /\ ~OverLimit(d)
    /\ rates' = [rates EXCEPT ![d] = [start |-> Rate(d).start, count |-> Rate(d).count + 1]]
    /\ nonces' = [nonces EXCEPT ![d] = Remember(Live(d), r.nonce)]
    /\ accepted' = Append(accepted, [request |-> r, at |-> now])
    /\ prompt' = IF waiting[h].prompt THEN [prompt EXCEPT ![r] = @ + 1] ELSE prompt
    /\ Done(h)
    /\ UNCHANGED now

Locked(h) ==
    /\ waiting[h] # Idle
    /\ Replay(h) \/ RateLimited(h) \/ Authenticate(h)

Tick ==
    /\ now < MaxTime
    /\ now' = now + 1
    /\ accepted' = Retain(accepted, {i \in DOMAIN accepted : accepted[i].at + NonceTtl > now'})
    /\ waiting' = [h \in Handlers |->
           IF waiting[h] = Idle THEN Idle ELSE [waiting[h] EXCEPT !.prompt = FALSE]]
    /\ UNCHANGED <<nonces, rates, prompt>>

-----------------------------------------------------------------------------
Init ==
    /\ nonces = [d \in Devices |-> <<>>]
    /\ rates = [d \in Devices |-> NoRate]
    /\ waiting = [h \in Handlers |-> Idle]
    /\ now = 0
    /\ accepted = <<>>
    /\ prompt = [r \in Requests |-> 0]

Next ==
    \/ \E h \in Handlers, r \in Requests : Check(h, r) \/ Refuse(h, r)
    \/ \E h \in Handlers : Locked(h)
    \/ Tick

Spec == Init /\ [][Next]_vars

-----------------------------------------------------------------------------
(* Properties *)

\* Types; a device's count stays within the limit and its nonces within the
\* capacity of their queue.
TypeOK ==
    /\ nonces \in [Devices -> Seq([nonce : Nonces, expires : Nat])]
    /\ \A d \in Devices : Len(nonces[d]) <= MaxNonces
    /\ rates \in [Devices -> [start : Times, count : 0 .. RateLimit] \cup {NoRate}]
    /\ waiting \in [Handlers -> [request : Requests, prompt : BOOLEAN] \cup {Idle}]
    /\ now \in Times
    /\ accepted \in Seq([request : Requests, at : Times])
    /\ prompt \in [Requests -> Nat]

\* A nonce is authenticated for a device again only once NONCE_TTL has passed:
\* also while handlers wait with it, and the capacity of the queue never pushes
\* out one that is still live.
NoReplayWithinTtl ==
    \A i, j \in DOMAIN accepted :
        /\ accepted[i].request.device = accepted[j].request.device
        /\ accepted[i].request.nonce = accepted[j].request.nonce
        => i = j

\* A nonce is forgotten while its timestamp is still in time, so a request can be
\* authenticated again, but no more often than NONCE_TTL fits in the window the
\* two clock checks leave: three times with the constants of auth.rs.  The time a
\* handler waits for the lock is not in the bound: only prompt ones are counted.
RepeatsBounded ==
    \A r \in Requests : prompt[r] <= 1 + (2 * MaxClockSkew) \div NonceTtl

Within(d, t) ==
    {i \in DOMAIN accepted :
        /\ accepted[i].request.device = d
        /\ t <= accepted[i].at /\ accepted[i].at < t + RateWindow}

\* The windows are not sliding, but any interval as long as one sees less than
\* twice the limit: a window starts with the request that is its first.
BurstBounded ==
    \A d \in Devices, t \in Times : Cardinality(Within(d, t)) < 2 * RateLimit

=============================================================================
