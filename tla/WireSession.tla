----------------------------- MODULE WireSession -----------------------------
(***************************************************************************)
(* Messages end to end, as bytes: a device seals an envelope, frames it,   *)
(* queues it (OutboundQueue) and sends it over its websocket; the gateway  *)
(* reads frames (websocket_session, handle_authenticated_message), holds   *)
(* messages, and frames them again for the recipient, who opens them.      *)
(* Clients are external: their steps are those of the test in              *)
(* core/envelope.  A client may send anything: damaged frames, text and    *)
(* control messages.  A socket keeps its order; a session may end at any   *)
(* time.  The relay is a set here: times and expiry are RelayStore's,      *)
(* registration and the live channel are Gateway's.                        *)
(***************************************************************************)
EXTENDS Wire, FiniteSets, SequencesExt

CONSTANTS
    Alice, Bob,     \* device ids
    Capacity,       \* OutboundQueue::new(Capacity), at most MAX_QUEUE
    MaxHeld,        \* MAX_PER_DEVICE
    MaxSkip,        \* MAX_SKIP: how far ahead of the next counter one is opened
    Text, Control,  \* websocket messages that are not binary
    Pingers,        \* bound of the model: the devices that send pings and pongs
    Units,          \* bound of the model: lengths of sealed ciphertexts
    DamageWords,    \* bound of the model: what a word is damaged to
    MaxSealed,      \* bound of the model: messages sealed
    MaxSent,        \* bound of the model: frames queued in the present sessions and sessions ended
    MaxFaults,      \* bound of the model: damaged or alien messages
    MaxSessions     \* bound of the model: sessions ended and made again

ASSUME SessionBounds ==
    /\ {Alice, Bob} \subseteq Nat \ {0} /\ Alice # Bob
    /\ {Capacity, MaxHeld, MaxSkip, MaxSealed, MaxSent, MaxFaults, MaxSessions} \subseteq Nat
    /\ Units \subseteq 1 .. MaxEnvelopeCiphertext /\ 2 <= MaxEnvelopeHeader
    /\ DamageWords \subseteq Nat

Devices == {Alice, Bob}

VARIABLES
    phase,      \* the gateway's side of a socket: "hello", "open" or "closed"
    queue,      \* OutboundQueue of a device
    wire,       \* what a device sent over its socket and is unread, in order
    out,        \* what the gateway sent to a device and it has not read
    held,       \* the messages the relay holds
    sealed,     \* messages Alice sealed for Bob
    opened,     \* messages Bob opened
    pushed,     \* history: frames queued in this session, in order
    taken,      \* history: how many messages of this session the gateway has read
    faults, ended

vars == <<phase, queue, wire, out, held, sealed, opened, pushed, taken, faults, ended>>

-----------------------------------------------------------------------------
(* OutboundQueue *)

\* Fault: off by one.
PushPastCapacity(q, f) == IF Len(q) > Capacity THEN q ELSE Append(q, f)

\* QueueError::Full leaves the queue as it is.
Push(q, f) == IF Len(q) >= Capacity THEN q ELSE Append(q, f)

-----------------------------------------------------------------------------
(* The clients *)

\* aad() accepts the metadata; a ciphertext is one no other key or plaintext
\* gives.
NextMessage(units) ==
    LET n == Cardinality(sealed) IN
    [version |-> Version, id |-> n + 1, conversation |-> 1, sender |-> Alice, recipient |-> Bob,
     header |-> EncodeHeader(n), ciphertext |-> [u \in 1 .. units |-> IF u = 1 THEN n ELSE 1],
     sentAt |-> 1]

Hello(d) == NewFrame(ClientHello, 0, <<d>>)
MessageFrame(m) == NewFrame(EncryptedMessage, 0, Encode(m))

\* What a client sends besides new messages: its hello, pings, pongs, messages it
\* sealed before, acks of messages it opened.
FramesOf(d) ==
    {Hello(d)}
    \cup {NewFrame(kind, 0, <<d>>) : kind \in IF d \in Pingers THEN {Ping, Pong} ELSE {}}
    \cup {MessageFrame(m) : m \in {s \in sealed : s.sender = d}}
    \cup {NewFrame(MessageAck, 0, <<m.id>>) : m \in {o \in opened : o.recipient = d}}

\* A client pushes a frame; what it does when that fails is its own affair.
Offer(d, f) ==
    /\ Len(pushed[Alice]) + Len(pushed[Bob]) + ended < MaxSent
    /\ queue' = [queue EXCEPT ![d] = Push(@, f)]
    /\ pushed' = IF Len(queue[d]) < Capacity THEN [pushed EXCEPT ![d] = Append(@, f)] ELSE pushed
    /\ UNCHANGED <<phase, wire, out, held, opened, taken, faults, ended>>

Submit(d, f) == Offer(d, f) /\ UNCHANGED sealed

SealAndSubmit(units) ==
    /\ Cardinality(sealed) < MaxSealed
    /\ ValidEnvelope(NextMessage(units))
    /\ sealed' = sealed \cup {NextMessage(units)}
    /\ Offer(Alice, MessageFrame(NextMessage(units)))

\* Cut short by a word, a word longer, or one word changed.
Damaged(b) ==
    {Front(b), Append(b, 1)} \cup
    {[b EXCEPT ![n] = w] : n \in DOMAIN b, w \in DamageWords}

Transmit(d) ==
    /\ phase[d] # "closed"
    /\ queue[d] # <<>>
    /\ queue' = [queue EXCEPT ![d] = Tail(@)]
    /\ \/ /\ wire' = [wire EXCEPT ![d] = Append(@, ToBytes(Head(queue[d])))]
          /\ UNCHANGED faults
       \/ /\ faults < MaxFaults
          /\ faults' = faults + 1
          /\ \E b \in Damaged(ToBytes(Head(queue[d]))) : wire' = [wire EXCEPT ![d] = Append(@, b)]
    /\ UNCHANGED <<phase, out, held, sealed, opened, pushed, taken, ended>>

SendOther(d) ==
    /\ phase[d] # "closed"
    /\ faults < MaxFaults
    /\ faults' = faults + 1
    /\ \E other \in {Text, Control} : wire' = [wire EXCEPT ![d] = Append(@, other)]
    /\ UNCHANGED <<phase, queue, out, held, sealed, opened, pushed, taken, ended>>

\* The socket is lost, with what is in it; the client opens another.
Reconnect(d) ==
    /\ ended < MaxSessions
    /\ ended' = ended + 1
    /\ phase' = [phase EXCEPT ![d] = "hello"]
    /\ wire' = [wire EXCEPT ![d] = <<>>]
    /\ out' = [out EXCEPT ![d] = <<>>]
    /\ pushed' = [pushed EXCEPT ![d] = queue[d]]
    /\ taken' = [taken EXCEPT ![d] = 0]
    /\ UNCHANGED <<queue, held, sealed, opened, faults>>

-----------------------------------------------------------------------------
(* websocket_session: one message of the socket at a time *)

Unread(d) == wire[d] # <<>>
First(d) == Head(wire[d])
IsBinaryFrame(b) == b \notin {Text, Control} /\ IsFrame(b)

Read(d) ==
    /\ wire' = [wire EXCEPT ![d] = Tail(@)]
    /\ taken' = [taken EXCEPT ![d] = @ + 1]
    /\ UNCHANGED <<queue, sealed, opened, pushed, faults, ended>>

\* The gateway reads no more of this socket.
End(d) ==
    /\ phase' = [phase EXCEPT ![d] = "closed"]
    /\ wire' = [wire EXCEPT ![d] = <<>>]
    /\ UNCHANGED <<queue, out, held, sealed, opened, pushed, taken, faults, ended>>

Reply(d, f) == out' = [out EXCEPT ![d] = Append(@, ToBytes(f))]

IsHello(b, d) ==
    IsBinaryFrame(b) /\ FromBytes(b).kind = ClientHello /\ FromBytes(b).payload = <<d>>

HelloAccepted(d) ==
    /\ phase[d] = "hello" /\ Unread(d) /\ IsHello(First(d), d)
    /\ phase' = [phase EXCEPT ![d] = "open"]
    /\ Reply(d, NewFrame(ClientHello, 1, <<d>>))
    /\ Read(d)
    /\ UNCHANGED held

HelloRefused(d) ==
    /\ phase[d] = "hello" /\ Unread(d) /\ ~IsHello(First(d), d)
    /\ End(d)

HandlePing(d, f) ==
    /\ f.kind = Ping
    /\ Reply(d, NewFrame(Pong, 0, f.payload))
    /\ UNCHANGED held

HandlePong(f) == f.kind = Pong /\ UNCHANGED <<out, held>>

\* push's answer, once the time of the message has been found acceptable.
PushResult(m) ==
    IF ~ValidMessage(m) THEN "Invalid"
    ELSE IF \E h \in held : h.recipient = m.recipient /\ h.id = m.id THEN "Duplicate"
    ELSE IF Cardinality({h \in held : h.recipient = m.recipient}) >= MaxHeld THEN "Full"
    ELSE "Accepted"

\* What push does to the relay.
Store(m) == held' = IF PushResult(m) = "Accepted" THEN held \cup {m} ELSE held

\* A message the session goes on after.
Relayable(d, f) ==
    /\ f.kind = EncryptedMessage /\ IsMessage(f.payload)
    /\ Decode(f.payload).sender = d
    /\ PushResult(Decode(f.payload)) \in {"Accepted", "Duplicate"}

HandleMessage(d, f) == Relayable(d, f) /\ Store(Decode(f.payload)) /\ UNCHANGED out

HandleAck(d, f) ==
    /\ f.kind = MessageAck /\ IsAck(f.payload)
    /\ held' = {h \in held : ~(h.recipient = d /\ h.id = f.payload[1])}
    /\ UNCHANGED out

\* Frames handle_authenticated_message goes on after.
Proper(d, f) ==
    f.kind \in {Ping, Pong} \/ Relayable(d, f) \/ (f.kind = MessageAck /\ IsAck(f.payload))

Handle(d) ==
    /\ phase[d] = "open" /\ Unread(d) /\ IsBinaryFrame(First(d))
    /\ LET f == FromBytes(First(d)) IN
        HandlePing(d, f) \/ HandlePong(f) \/ HandleMessage(d, f) \/ HandleAck(d, f)
    /\ Read(d)
    /\ UNCHANGED phase

\* A websocket ping or pong.
HandleControl(d) ==
    /\ phase[d] = "open" /\ Unread(d) /\ First(d) = Control
    /\ Read(d)
    /\ UNCHANGED <<phase, out, held>>

\* Text, a close, bytes that are no frame, and frames that are not Proper.
HandleEnds(d) ==
    /\ phase[d] = "open" /\ Unread(d) /\ First(d) # Control
    /\ ~(IsBinaryFrame(First(d)) /\ Proper(d, FromBytes(First(d))))
    /\ End(d)

\* enqueue: a message of any size that is posted over HTTP.
Posted(m) == {m, [m EXCEPT !.header = @ \o @ \o @], [m EXCEPT !.ciphertext = @ \o @ \o @]}

Enqueue(m) ==
    /\ PushResult(m) = "Accepted"
    /\ Store(m)
    /\ UNCHANGED <<phase, queue, wire, out, sealed, opened, pushed, taken, faults, ended>>

\* send_encrypted, from the backlog or the live channel: an error ends the
\* session.
SendEncrypted(d, m) ==
    /\ phase[d] = "open" /\ m \in held /\ m.recipient = d
    /\ out[d] = <<>>
    /\ IF Fits(Encode(m))
       THEN /\ Reply(d, MessageFrame(m))
            /\ UNCHANGED <<phase, queue, wire, held, sealed, opened, pushed, taken, faults, ended>>
       ELSE End(d)

-----------------------------------------------------------------------------
(* The recipient: from the frame to the ratchet *)

\* The next counter is one past the highest opened, or 0.
\* Fault: off by one.
InReachOffByOne(c) ==
    c < MaxSkip \/ \E o \in opened : c <= CounterOf(o.header) + MaxSkip

\* Not TooFarAhead.
InReach(c) ==
    c <= MaxSkip \/ \E o \in opened : c <= CounterOf(o.header) + 1 + MaxSkip

\* The envelope is valid, its counter is new and in reach, and the ciphertext was
\* sealed under that counter's key and this associated data.
Opens(m) ==
    /\ ValidEnvelope(m) /\ IsHeader(m.header)
    /\ InReach(CounterOf(m.header))
    /\ \A o \in opened : CounterOf(o.header) # CounterOf(m.header)
    /\ \E s \in sealed :
        /\ CounterOf(s.header) = CounterOf(m.header)
        /\ s.ciphertext = m.ciphertext
        /\ Aad(s) = Aad(m)

IsFrameWithMessage(b) ==
    IsFrame(b) /\ FromBytes(b).kind = EncryptedMessage /\ IsMessage(FromBytes(b).payload)

Received(b) == Decode(FromBytes(b).payload)

Receive(d) ==
    /\ out[d] # <<>>
    /\ out' = [out EXCEPT ![d] = Tail(@)]
    /\ opened' = IF IsFrameWithMessage(Head(out[d])) /\ Opens(Received(Head(out[d])))
                 THEN opened \cup {Received(Head(out[d]))} ELSE opened
    /\ UNCHANGED <<phase, queue, wire, held, sealed, pushed, taken, faults, ended>>

-----------------------------------------------------------------------------
Init ==
    /\ phase = [d \in Devices |-> "hello"]
    /\ queue = [d \in Devices |-> <<>>] /\ pushed = queue
    /\ wire = queue /\ out = queue
    /\ held = {} /\ sealed = {} /\ opened = {}
    /\ taken = [d \in Devices |-> 0] /\ faults = 0 /\ ended = 0

Client(d) ==
    \/ \E f \in FramesOf(d) : Submit(d, f)
    \/ Transmit(d) \/ SendOther(d) \/ Reconnect(d) \/ Receive(d)

Gateway(d) ==
    \/ HelloAccepted(d) \/ HelloRefused(d)
    \/ Handle(d) \/ HandleControl(d) \/ HandleEnds(d)
    \/ \E m \in held : SendEncrypted(d, m)

Next ==
    \/ \E units \in Units : SealAndSubmit(units)
    \/ \E d \in Devices : Client(d) \/ Gateway(d)
    \/ \E s \in sealed : \E m \in Posted(s) : Enqueue(m)

Spec == Init /\ [][Next]_vars

-----------------------------------------------------------------------------
(* Properties *)

\* Types; the queue is bounded, and the relay's messages are valid.
WireTypeOK ==
    /\ phase \in [Devices -> {"hello", "open", "closed"}]
    /\ \A d \in Devices : Len(queue[d]) <= Capacity
    /\ \A d \in Devices : phase[d] = "closed" => wire[d] = <<>>
    /\ \A m \in held : ValidMessage(m)
    /\ Cardinality(sealed) <= MaxSealed
    /\ faults \in 0 .. MaxFaults /\ ended \in 0 .. MaxSessions

\* What the gateway makes of a frame, as a frame again.
Understood(f) ==
    IF f.kind = EncryptedMessage THEN [f EXCEPT !.payload = Encode(Decode(@))] ELSE f

\* The gateway reads what the device queued, in that order and with nothing
\* skipped or repeated: what it has not read of the session is what the socket
\* and then the queue hold; and whatever arrives, encoding what it understands
\* gives back the words it received.
ActsOnWhatWasSent ==
    \A d \in Devices :
        /\ \A n \in DOMAIN wire[d] :
            /\ IsBinaryFrame(wire[d][n])
            /\ Proper(d, FromBytes(wire[d][n])) \/ IsHello(wire[d][n], d)
            => ToBytes(Understood(FromBytes(wire[d][n]))) = wire[d][n]
        /\ faults = 0 /\ phase[d] # "closed" =>
            wire[d] \o [n \in DOMAIN queue[d] |-> ToBytes(queue[d][n])]
                = [n \in 1 .. (Len(pushed[d]) - taken[d]) |-> ToBytes(pushed[d][taken[d] + n])]

\* Whatever the relay holds can be framed for its recipient, who decodes it as
\* it was: a message that could not would end every session of its recipient.
HeldCanBeSent ==
    \A m \in held :
        /\ Fits(Encode(m))
        /\ IsFrameWithMessage(ToBytes(MessageFrame(m)))
        /\ Received(ToBytes(MessageFrame(m))) = m

\* What opens was sealed with exactly this metadata, by the device it names,
\* for the device that opened it.
OpenedAsSealed == opened \subseteq {s \in sealed : s.sender = Alice /\ s.recipient = Bob}

\* The messages sealed before m that Bob is still behind: none sealed as late as
\* they were has opened.
Skipped(m) ==
    {s \in sealed :
        /\ CounterOf(s.header) < CounterOf(m.header)
        /\ \A o \in opened : CounterOf(o.header) < CounterOf(s.header)}

\* A sealed message that was never opened opens when it arrives, whatever arrived
\* before it, unless more than MaxSkip messages are skipped by opening it.
GenuineOpens ==
    \A n \in DOMAIN out[Bob] :
        /\ IsFrameWithMessage(out[Bob][n])
        /\ Received(out[Bob][n]) \in sealed \ opened
        /\ Cardinality(Skipped(Received(out[Bob][n]))) <= MaxSkip
        => Opens(Received(out[Bob][n]))
==============================================================================
