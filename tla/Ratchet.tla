------------------------------- MODULE Ratchet -------------------------------
(***************************************************************************)
(* The symmetric ratchet of core/ratchet: a sender that encrypts each      *)
(* message under the next key of its chain, a network that loses, repeats, *)
(* reorders and forges, a receiver that keeps the keys it skipped, and the *)
(* receiver's snapshots.  The header of a packet is RatchetHeader::new of  *)
(* the sender's counter read before encrypt, as the crate's callers do.    *)
(*                                                                         *)
(* HKDF is injective and one-way: a chain key is the number of derivations *)
(* from the root, and a message key the chain key and counter it is        *)
(* derived from.  A body is the key it is sealed under, or Junk: a body    *)
(* too short, altered, or sealed with other associated data.               *)
(***************************************************************************)
EXTENDS Integers, FiniteSets, Sequences

CONSTANTS
    MaxCounter,         \* u64::MAX
    MaxSkip,            \* MAX_SKIP
    MaxSnapshotSkipped, \* MAX_SNAPSHOT_SKIPPED
    MaxChain,           \* bound of the model: the derivations of the sender
    Junk,               \* a body no key of the session opens
    Malformed,          \* header bytes RatchetHeader::decode refuses
    NoSnapshot          \* nothing saved yet

ASSUME RatchetBounds ==
    /\ MaxCounter \in Nat /\ MaxSkip \in Nat /\ MaxSnapshotSkipped \in Nat
    /\ MaxChain \in Nat /\ MaxChain >= MaxCounter

Counters    == 0 .. MaxCounter
MessageKeys == [chain : 0 .. MaxChain, counter : Counters]
States      == [chain : 0 .. MaxChain, counter : Counters]
Snapshots   == [state : States, entries : SUBSET [counter : Counters, key : MessageKeys]]
Histories   == [Counters -> Seq(MessageKeys)]

\* A ReceiveRatchet: skipped maps counters it has passed to their keys.
IsReceiver(r) ==
    /\ r = [state |-> r.state, skipped |-> r.skipped]
    /\ r.state \in States
    /\ r.skipped \in [DOMAIN r.skipped -> MessageKeys]
    /\ DOMAIN r.skipped \subseteq 0 .. (r.state.counter - 1)

ASSUME ValuesDistinct ==
    /\ Junk \notin MessageKeys /\ Malformed \notin Counters
    /\ NoSnapshot \notin Snapshots /\ NoSnapshot \notin Histories

VARIABLES
    sender,         \* RatchetState of the sender
    sent,           \* the packets on the network: [counter, body]
    receiver,       \* ReceiveRatchet
    opened,         \* history: opened[c] is the bodies decrypted under counter c
    saved,          \* the snapshot saved last, or NoSnapshot
    savedOpened     \* history: opened when it was saved

vars == <<sender, sent, receiver, opened, saved, savedOpened>>

-----------------------------------------------------------------------------
(* RatchetState *)

FromRoot == [chain |-> 0, counter |-> 0]

\* The message key a state s derives once it has advanced to counter c.
KeyAt(s, c) == [chain |-> s.chain + (c - s.counter), counter |-> c]

\* checked_add fails: the counter is the last one.
Exhausted(s) == s.counter = MaxCounter

\* The chain advances before checked_add is tried, so also when it fails.
Advance(s) ==
    [chain |-> s.chain + 1, counter |-> IF Exhausted(s) THEN s.counter ELSE s.counter + 1]

Encrypt ==
    /\ ~Exhausted(sender)
    /\ sender.chain < MaxChain
    /\ sender' = Advance(sender)
    /\ sent' = sent \cup {[counter |-> sender.counter, body |-> KeyAt(sender, sender.counter)]}
    /\ UNCHANGED <<receiver, opened, saved, savedOpened>>

\* next_message_key fails on the last counter, or the cipher fails: no packet.
EncryptFails ==
    /\ sender.chain < MaxChain
    /\ sender' = Advance(sender)
    /\ UNCHANGED <<sent, receiver, opened, saved, savedOpened>>

-----------------------------------------------------------------------------
(* ReceiveRatchet *)

Error(r, c) ==
    IF c < r.state.counter
    THEN IF c \in DOMAIN r.skipped THEN "none" ELSE "Replay"
    ELSE IF c - r.state.counter > MaxSkip THEN "TooFarAhead"
    ELSE IF c = MaxCounter THEN "Decryption" ELSE "none"

\* key_for: the key of counter c, taken from the skipped ones or derived.
KeyFor(r, c) == IF c < r.state.counter THEN r.skipped[c] ELSE KeyAt(r.state, c)

\* Fault: the loop also keeps the key it was asked for.
PassedOverAndTarget(r, c) == r.state.counter .. c

\* The counters the loop passes over on its way to c.
PassedOver(r, c) == r.state.counter .. (c - 1)

\* The receiver key_for leaves behind.
Candidate(r, c) ==
    IF c < r.state.counter
    THEN [r EXCEPT !.skipped = [k \in DOMAIN r.skipped \ {c} |-> r.skipped[k]]]
    ELSE [state   |-> [chain |-> r.state.chain + (c - r.state.counter) + 1, counter |-> c + 1],
          skipped |-> [k \in DOMAIN r.skipped \cup PassedOver(r, c) |->
                          IF k \in PassedOver(r, c) THEN KeyAt(r.state, k) ELSE r.skipped[k]]]

\* Fault: the tag of the packet is not checked.
ResultUnauthenticated(r, c, body) == IF Error(r, c) = "none" THEN "Opened" ELSE Error(r, c)

Result(r, c, body) ==
    IF Error(r, c) # "none" THEN Error(r, c)
    ELSE IF body = KeyFor(r, c) THEN "Opened" ELSE "Decryption"

Opens(header, body) ==
    /\ header # Malformed
    /\ Result(receiver, header, body) = "Opened"

Decrypt(header, body) ==
    /\ Opens(header, body)
    /\ receiver' = Candidate(receiver, header)
    /\ opened' = [opened EXCEPT ![header] = Append(@, body)]
    /\ UNCHANGED <<sender, sent, saved, savedOpened>>

\* Fault: key_for works on self, so a packet that fails has consumed its key.
RejectCommits(header, body) ==
    /\ ~Opens(header, body)
    /\ receiver' = IF header # Malformed /\ Error(receiver, header) = "none"
                   THEN Candidate(receiver, header) ELSE receiver
    /\ UNCHANGED <<sender, sent, opened, saved, savedOpened>>

Reject(header, body) ==
    /\ ~Opens(header, body)
    /\ UNCHANGED vars

-----------------------------------------------------------------------------
(* Snapshots *)

\* Fault: the skipped keys are not part of the snapshot.
SnapshotWithoutSkipped(r) == [state |-> r.state, entries |-> {}]

Snapshot(r) ==
    [state   |-> r.state,
     entries |-> {[counter |-> c, key |-> r.skipped[c]] : c \in DOMAIN r.skipped}]

FromSnapshot(s) ==
    [state   |-> s.state,
     skipped |-> [c \in {e.counter : e \in s.entries} |->
                     (CHOOSE e \in s.entries : e.counter = c).key]]

Save ==
    /\ Cardinality(DOMAIN receiver.skipped) <= MaxSnapshotSkipped
    /\ saved' = Snapshot(receiver)
    /\ savedOpened' = opened
    /\ UNCHANGED <<sender, sent, receiver, opened>>

\* TooManySkipped: the snapshot before stays the last one.
SaveRefused ==
    /\ Cardinality(DOMAIN receiver.skipped) > MaxSnapshotSkipped
    /\ UNCHANGED vars

\* The receiver is lost and read back.  from_snapshot_parts refuses the last
\* counter, so a snapshot taken there brings no receiver back.
Restart ==
    /\ saved # NoSnapshot
    /\ ~Exhausted(saved.state)
    /\ receiver' = FromSnapshot(saved)
    /\ opened' = savedOpened
    /\ UNCHANGED <<sender, sent, saved, savedOpened>>

-----------------------------------------------------------------------------
Init ==
    /\ sender = FromRoot
    /\ sent = {}
    /\ receiver = [state |-> FromRoot, skipped |-> [c \in {} |-> KeyAt(FromRoot, c)]]
    /\ opened = [c \in Counters |-> <<>>]
    /\ saved = NoSnapshot
    /\ savedOpened = opened

\* What the network can hand over: any header with any body it has seen.
Headers  == Counters \cup {Malformed}
OnTheNet == {p.body : p \in sent} \cup {Junk}

Next ==
    \/ Encrypt
    \/ EncryptFails
    \/ \E header \in Headers, body \in OnTheNet :
        \/ Decrypt(header, body)
        \/ Reject(header, body)
    \/ Save
    \/ SaveRefused
    \/ Restart

Spec == Init /\ [][Next]_vars

-----------------------------------------------------------------------------
(* Properties *)

\* Type correctness of the two ratchets, the network, the snapshot and the
\* histories; key_for keeps keys only of counters the receiver has passed.
TypeOK ==
    /\ sender \in States
    /\ sent \subseteq [counter : Counters, body : MessageKeys]
    /\ IsReceiver(receiver)
    /\ saved \in Snapshots \cup {NoSnapshot}
    /\ opened \in Histories
    /\ savedOpened \in Histories

\* Every counter the receiver has passed was either opened, once, or its key
\* is still kept; none ahead of it was opened.  It holds across jumps, late
\* packets, forged ones and restarts from a snapshot.
EveryCounterAccountedFor ==
    \A c \in Counters :
        IF c < receiver.state.counter
        THEN Len(opened[c]) = (IF c \in DOMAIN receiver.skipped THEN 0 ELSE 1)
        ELSE opened[c] = <<>>

\* decrypt answers a packet the sender sent as it must, whatever was lost,
\* forged or restored before: it opens, it was opened before, or it is too
\* far ahead.  A rejected packet costs no other packet its key.
GenuineAnswered ==
    \A p \in sent :
        Result(receiver, p.counter, p.body) =
            IF opened[p.counter] # <<>> THEN "Replay"
            ELSE IF p.counter > receiver.state.counter + MaxSkip THEN "TooFarAhead"
            ELSE "Opened"

\* The ratchet implements the channel: one body a counter, opened as it was
\* sent and at most once in a history, and restart returns to the saved one.
Channel == INSTANCE SecureChannel WITH
    Bodies       <- MessageKeys,
    NoCheckpoint <- NoSnapshot,
    delivered    <- opened,
    checkpoint   <- IF saved = NoSnapshot THEN NoSnapshot ELSE savedOpened

ImplementsChannel == Channel!Spec

=============================================================================
