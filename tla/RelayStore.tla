----------------------------- MODULE RelayStore -----------------------------
(***************************************************************************)
(* The offline store of the gateway (backend/src/relay.rs): one queue of   *)
(* ciphertexts per recipient device, and two counters that bound the whole *)
(* store.  Every operation runs under one lock, so it is one action; the   *)
(* clock is read before the lock is awaited (pull, push), so an operation  *)
(* works with a reading t that may be older than the clock.                *)
(*                                                                         *)
(* A device without an entry in the map has the empty queue.               *)
(***************************************************************************)
EXTENDS Integers, Sequences, FiniteSets, Queues

CONSTANTS
    Devices,            \* device identifiers
    MessageIds,         \* the 16-byte message identifiers
    Messages,           \* the messages clients push
    MaxPerDevice,       \* MAX_PER_DEVICE
    MaxTotalMessages,   \* MAX_TOTAL_MESSAGES
    MaxTotalBytes,      \* MAX_TOTAL_BYTES
    OfflineTtl,         \* OFFLINE_TTL_MS
    MaxClockSkew,       \* MAX_CLOCK_SKEW_MS
    MaxTime             \* bound of the model: the last reading of the clock

Message == [id : MessageIds, sender : Devices, recipient : Devices,
            size : Nat, sentAt : Nat, wellFormed : BOOLEAN]

ASSUME FiniteDevices == IsFiniteSet(Devices)
ASSUME MessagesTyped == Messages \subseteq Message
ASSUME LimitsAreNat ==
    /\ MaxPerDevice \in Nat
    /\ MaxTotalMessages \in Nat
    /\ MaxTotalBytes \in Nat
    /\ OfflineTtl \in Nat
    /\ MaxClockSkew \in Nat
    /\ MaxTime \in Nat

VARIABLES
    queues,         \* queues[d]: the queue of device d, oldest first
    totalMessages,  \* RelayInner.total_messages
    totalBytes,     \* RelayInner.total_bytes
    now             \* the wall clock

store == <<queues, totalMessages, totalBytes>>
vars  == <<queues, totalMessages, totalBytes, now>>

StoredMessage == [message : Messages, expiresAt : Nat, bytes : Nat]

-----------------------------------------------------------------------------
(* Queues *)

SaturatingSub(a, b) == IF a >= b THEN a - b ELSE 0

Alive(q, t)   == {i \in DOMAIN q : q[i].expiresAt > t}
Expired(q, t) == {i \in DOMAIN q : q[i].expiresAt <= t}

(* The disjoint union of the sets F[x], x in D *)
Tagged(D, F) == UNION {{x} \X F[x] : x \in D}

(***************************************************************************)
(* The sum of accounted_bytes over the positions in idx, as the number of  *)
(* byte units stored there.                                                *)
(***************************************************************************)
UnitsAt(q, idx) == Tagged(idx, [i \in DOMAIN q |-> 1..q[i].bytes])
BytesAt(q, idx) == Cardinality(UnitsAt(q, idx))

(***************************************************************************)
(* remove_expired on the queue of d with the clock reading t, and the two  *)
(* counters after it.                                                      *)
(***************************************************************************)
Unexpired(d, t) == Retain(queues[d], Alive(queues[d], t))

(* Faults: before.len() - after.len() without after, the bytes left alone *)
MessagesAfterAll(d, t)  == totalMessages - Len(queues[d])
BytesAfterKept(d, t)    == totalBytes

MessagesAfter(d, t) == SaturatingSub(totalMessages, Cardinality(Expired(queues[d], t)))
BytesAfter(d, t)    == SaturatingSub(totalBytes, BytesAt(queues[d], Expired(queues[d], t)))

RemoveExpired(d, t) ==
    /\ queues' = [queues EXCEPT ![d] = Unexpired(d, t)]
    /\ totalMessages' = MessagesAfter(d, t)
    /\ totalBytes' = BytesAfter(d, t)

-----------------------------------------------------------------------------
(* push *)

(* valid_message and the two clock checks before the lock *)
ValidMessage(m) == m.wellFormed
Timely(m, t) ==
    /\ m.sentAt <= t + MaxClockSkew
    /\ SaturatingSub(t, m.sentAt) <= OfflineTtl

IsInvalid(m, t) == ~ValidMessage(m) \/ ~Timely(m, t)

(* Fault: identifiers compared per sender *)
IsDuplicatePerSender(m, t) ==
    \E i \in Alive(queues[m.recipient], t) :
        /\ queues[m.recipient][i].message.id = m.id
        /\ queues[m.recipient][i].message.sender = m.sender

IsDuplicate(m, t) ==
    \E i \in Alive(queues[m.recipient], t) : queues[m.recipient][i].message.id = m.id

(* Fault: the limit of a device is off by one *)
IsFullLate(m, t) ==
    \/ Len(Unexpired(m.recipient, t)) > MaxPerDevice
    \/ MessagesAfter(m.recipient, t) >= MaxTotalMessages
    \/ BytesAfter(m.recipient, t) + m.size > MaxTotalBytes

IsFull(m, t) ==
    \/ Len(Unexpired(m.recipient, t)) >= MaxPerDevice
    \/ MessagesAfter(m.recipient, t) >= MaxTotalMessages
    \/ BytesAfter(m.recipient, t) + m.size > MaxTotalBytes

(* Fault: the expiry follows the sender's clock *)
StoredBySender(m, t) ==
    [message |-> m, expiresAt |-> m.sentAt + OfflineTtl, bytes |-> m.size]

Stored(m, t) == [message |-> m, expiresAt |-> t + OfflineTtl, bytes |-> m.size]

PushInvalid(m, t) ==
    /\ IsInvalid(m, t)
    /\ UNCHANGED store

(* Duplicate and Full leave the queue without its expired entries *)
PushDuplicate(m, t) ==
    /\ ~IsInvalid(m, t)
    /\ IsDuplicate(m, t)
    /\ RemoveExpired(m.recipient, t)

PushFull(m, t) ==
    /\ ~IsInvalid(m, t)
    /\ ~IsDuplicate(m, t)
    /\ IsFull(m, t)
    /\ RemoveExpired(m.recipient, t)

PushAccepted(m, t) ==
    /\ ~IsInvalid(m, t)
    /\ ~IsDuplicate(m, t)
    /\ ~IsFull(m, t)
    /\ queues' = [queues EXCEPT ![m.recipient] =
                     Append(Unexpired(m.recipient, t), Stored(m, t))]
    /\ totalMessages' = MessagesAfter(m.recipient, t) + 1
    /\ totalBytes' = BytesAfter(m.recipient, t) + m.size

-----------------------------------------------------------------------------
(* pull and ack *)

(* pull returns the messages it leaves in the queue *)
Pulled(d, t) ==
    LET q == Unexpired(d, t) IN [i \in DOMAIN q |-> q[i].message]

Pull(d, t) == RemoveExpired(d, t)

(* Fault: an acknowledgement covers what came before the message *)
AckedUpTo(d, id) ==
    {i \in DOMAIN queues[d] : \E j \in DOMAIN queues[d] :
        i <= j /\ queues[d][j].message.id = id}

(***************************************************************************)
(* ack counts one message whatever retain removed, and the bytes of the    *)
(* last entry it removed.                                                  *)
(***************************************************************************)
Acked(d, id) == {i \in DOMAIN queues[d] : queues[d][i].message.id = id}

Ack(d, id) ==
    /\ queues' = [queues EXCEPT ![d] = Retain(@, DOMAIN @ \ Acked(d, id))]
    /\ IF Acked(d, id) = {}
       THEN UNCHANGED <<totalMessages, totalBytes>>
       ELSE LET last == CHOOSE i \in Acked(d, id) : \A j \in Acked(d, id) : j <= i
            IN  /\ totalMessages' = SaturatingSub(totalMessages, 1)
                /\ totalBytes' = SaturatingSub(totalBytes, queues[d][last].bytes)

-----------------------------------------------------------------------------
Init ==
    /\ queues = [d \in Devices |-> <<>>]
    /\ totalMessages = 0
    /\ totalBytes = 0
    /\ now = 0

Tick ==
    /\ now < MaxTime
    /\ now' = now + 1
    /\ UNCHANGED store

Push(m, t) ==
    \/ PushInvalid(m, t)
    \/ PushDuplicate(m, t)
    \/ PushFull(m, t)
    \/ PushAccepted(m, t)

Next ==
    \/ Tick
    \/ \E m \in Messages, t \in 0..now : Push(m, t) /\ UNCHANGED now
    \/ \E d \in Devices, t \in 0..now : Pull(d, t) /\ UNCHANGED now
    \/ \E d \in Devices, id \in MessageIds : Ack(d, id) /\ UNCHANGED now

Spec == Init /\ [][Next]_vars

-----------------------------------------------------------------------------
(* Properties *)

TypeOK ==
    /\ queues \in [Devices -> Seq(StoredMessage)]
    /\ totalMessages \in Nat
    /\ totalBytes \in Nat
    /\ now \in 0..MaxTime

(***************************************************************************)
(* No device has two queued messages with the same identifier.  push only  *)
(* compares with the entries that outlive its own clock reading, and ack   *)
(* counts one message whatever it removes, so ack is wrong without this.   *)
(***************************************************************************)
UniqueIds ==
    \A d \in Devices : \A i, j \in DOMAIN queues[d] :
        queues[d][i].message.id = queues[d][j].message.id => i = j

(* The messages and the byte units really held, over all queues *)
Slots     == Tagged(Devices, [d \in Devices |-> DOMAIN queues[d]])
ByteSlots == Tagged(Devices, [d \in Devices |-> UnitsAt(queues[d], DOMAIN queues[d])])

(***************************************************************************)
(* The two counters are exactly what the queues hold: no sequence of       *)
(* pushes, expiries and acks leaks capacity or frees it twice (push, pull  *)
(* and ack each adjust the counters on their own).                         *)
(***************************************************************************)
CountersExact ==
    /\ totalMessages = Cardinality(Slots)
    /\ totalBytes = Cardinality(ByteSlots)

(***************************************************************************)
(* What the queues hold respects the three limits of relay.rs, whatever    *)
(* the counters say.                                                       *)
(***************************************************************************)
WithinLimits ==
    /\ \A d \in Devices : Len(queues[d]) <= MaxPerDevice
    /\ Cardinality(Slots) <= MaxTotalMessages
    /\ Cardinality(ByteSlots) <= MaxTotalBytes

(***************************************************************************)
(* A queued message expires between OfflineTtl - MaxClockSkew and twice    *)
(* OfflineTtl after the time its sender wrote in it, and never later than  *)
(* OfflineTtl from now: the checks push makes on sent_at_ms and the expiry *)
(* it computes from its own clock reading agree.                           *)
(***************************************************************************)
RetentionWindow ==
    \A d \in Devices : \A i \in DOMAIN queues[d] :
        LET s == queues[d][i] IN
        /\ s.message.sentAt + OfflineTtl <= s.expiresAt + MaxClockSkew
        /\ s.expiresAt <= s.message.sentAt + 2 * OfflineTtl
        /\ s.expiresAt <= now + OfflineTtl

HeldFor(d) == {queues[d][i].message : i \in DOMAIN queues[d]}

(***************************************************************************)
(* A queued message is only lost to an acknowledgement of its identifier   *)
(* by its recipient, or once OfflineTtl less the tolerated clock skew has  *)
(* passed since it was sent; a push, a pull or an ack for something else   *)
(* never takes it, even with a stale clock reading.  (pull copies the      *)
(* queue; that a GET drains it is only what backend/README.md:8 says.)     *)
(***************************************************************************)
TooEarly(m) == m.sentAt + OfflineTtl > now + MaxClockSkew

OnlyAckLosesEarly ==
    \A d \in Devices : \A m \in HeldFor(d) :
        (m \notin HeldFor(d)' /\ TooEarly(m)) => Ack(d, m.id)

NoEarlyLoss == [][OnlyAckLosesEarly]_vars

=============================================================================
