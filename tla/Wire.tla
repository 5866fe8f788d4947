-------------------------------- MODULE Wire --------------------------------
(***************************************************************************)
(* The encodings of the server protocol: frames (core/transport), messages, *)
(* ratchet headers and acks (core/protocol), envelopes (core/envelope).    *)
(* Bytes are sequences of words, natural numbers: a fixed-width field is   *)
(* one word and a variable-length field one word per unit of its length,   *)
(* so any word can be read as any field, as any byte can.  Errors are one: *)
(* no caller tells them apart.                                             *)
(***************************************************************************)
EXTENDS Integers, Sequences

CONSTANTS
    Version,                \* PROTOCOL_VERSION and RATCHET_HEADER_VERSION
    MaxFrame,               \* MAX_FRAME
    MaxHeader,              \* MAX_RATCHET_HEADER of the relay
    MaxCiphertext,          \* MAX_CIPHERTEXT of the relay
    MaxEnvelopeHeader,      \* MAX_HEADER of the envelope
    MaxEnvelopeCiphertext   \* MAX_CIPHERTEXT of the envelope

\* The longest message the relay accepts fits a frame (eight fixed fields).
ASSUME WireBounds ==
    /\ Version \in Nat
    /\ {MaxHeader, MaxCiphertext, MaxEnvelopeHeader, MaxEnvelopeCiphertext} \subseteq Nat \ {0}
    /\ MaxFrame \in Nat /\ 8 + MaxHeader + MaxCiphertext <= MaxFrame

ClientHello == 1
EncryptedMessage == 2
MessageAck == 3
Ping == 7
Pong == 8
FrameKinds == 1 .. 8
HeaderLen == 4

Drop(b, n) == SubSeq(b, n + 1, Len(b))

-----------------------------------------------------------------------------
(* Frame *)

Fits(payload) == Len(payload) \in 1 .. MaxFrame

\* Frame::new, for a payload that Fits.
NewFrame(kind, flags, payload) ==
    [version |-> Version, kind |-> kind, flags |-> flags,
     payloadLen |-> Len(payload), payload |-> payload]

ValidFrame(f) ==
    /\ f.version = Version
    /\ f.kind \in FrameKinds
    /\ Fits(f.payload)
    /\ f.payloadLen = Len(f.payload)

ToBytes(f) == <<f.version, f.kind, f.flags, f.payloadLen>> \o f.payload

FromBytes(b) ==
    [version |-> b[1], kind |-> b[2], flags |-> b[3], payloadLen |-> b[4],
     payload |-> Drop(b, HeaderLen)]

\* from_bytes succeeds.
IsFrame(b) ==
    /\ Len(b) >= HeaderLen
    /\ b[4] \in 1 .. MaxFrame
    /\ Len(b) = HeaderLen + b[4]
    /\ ValidFrame(FromBytes(b))

-----------------------------------------------------------------------------
(* EncryptedMessage, RatchetHeader and the ack *)

Metadata(m) == <<m.version, m.id, m.conversation, m.sender, m.recipient, Len(m.header)>> \o m.header

Encode(m) == Metadata(m) \o <<Len(m.ciphertext)>> \o m.ciphertext \o <<m.sentAt>>

\* Where decode's cursor is before the ciphertext length.
CiphertextAt(b) == 6 + b[6]

Decode(b) ==
    LET at == CiphertextAt(b) IN
    [version |-> b[1], id |-> b[2], conversation |-> b[3], sender |-> b[4], recipient |-> b[5],
     header |-> SubSeq(b, 7, at),
     ciphertext |-> SubSeq(b, at + 2, at + 1 + b[at + 1]),
     sentAt |-> b[at + 2 + b[at + 1]]]

\* Fault: bytes after the last field are ignored.
IsMessageTrailing(b) ==
    /\ Len(b) >= 6 /\ b[1] = Version
    /\ Len(b) > CiphertextAt(b)
    /\ Len(b) >= CiphertextAt(b) + 2 + b[CiphertextAt(b) + 1]

\* decode succeeds: no read is Truncated, and the last one ends the input.
IsMessage(b) ==
    /\ Len(b) >= 6 /\ b[1] = Version
    /\ Len(b) > CiphertextAt(b)
    /\ Len(b) = CiphertextAt(b) + 2 + b[CiphertextAt(b) + 1]

EncodeHeader(counter) == <<Version, counter>>
IsHeader(h) == Len(h) = 2 /\ h[1] = Version
CounterOf(h) == h[2]

IsAck(b) == Len(b) = 1

-----------------------------------------------------------------------------
(* WireEnvelope, which has the fields of a message, and the relay's limits *)

\* Fault: the time is not authenticated.
AadWithoutTime(m) == Metadata(m)

\* aad without its constant domain.
Aad(m) == Append(Metadata(m), m.sentAt)

ValidMetadata(m) ==
    /\ m.version = Version
    /\ Len(m.header) <= MaxEnvelopeHeader
    /\ m.id # 0 /\ m.conversation # 0

ValidEnvelope(m) == ValidMetadata(m) /\ Len(m.ciphertext) \in 1 .. MaxEnvelopeCiphertext

\* Fault: the relay does not limit the ciphertext.
ValidMessageAnySize(m) ==
    /\ m.version = Version
    /\ 0 \notin {m.id, m.conversation, m.sender, m.recipient}
    /\ Len(m.header) \in 1 .. MaxHeader

ValidMessage(m) ==
    /\ m.version = Version
    /\ 0 \notin {m.id, m.conversation, m.sender, m.recipient}
    /\ Len(m.header) \in 1 .. MaxHeader
    /\ Len(m.ciphertext) \in 1 .. MaxCiphertext

=============================================================================
