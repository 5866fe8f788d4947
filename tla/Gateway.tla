------------------------------- MODULE Gateway ------------------------------
(***************************************************************************)
(* The gateway process (backend/src/main.rs): the relay store, the         *)
(* registry of live connections, the HTTP handlers of the relay and one    *)
(* websocket session task per connection.  The registry and the store have *)
(* a lock each and no handler holds both, so a handler that touches both   *)
(* is two actions: push and then try_send, register and then pull.         *)
(*                                                                         *)
(* Authentication has happened: a connection belongs to DeviceOf[c], and a *)
(* message in Messages is pushed by its own sender unless an action says   *)
(* otherwise.  A connection is its own unique connection id.               *)
(***************************************************************************)
EXTENDS RelayStore, Functions

CONSTANTS
    Conns,                  \* websocket connections, each used once
    DeviceOf,               \* the authenticated device of a connection
    Requests,               \* slots for concurrent POST /v1/relay handlers
    LiveChannelCapacity,    \* LIVE_CHANNEL_CAPACITY
    MaxAccepts,             \* bound of the model: times a message is accepted
    NoEntry,                \* the registry has no entry for the device
    NoMessage               \* nothing between push and try_send

ASSUME ConnectionsTyped ==
    /\ DeviceOf \in [Conns -> Devices]
    /\ Conns \cap Requests = {}
    /\ LiveChannelCapacity \in Nat
    /\ MaxAccepts \in Nat

VARIABLES
    registry,   \* registry[d]: the ConnectionState of device d, or NoEntry
    chan,       \* chan[c]: the mpsc channel of connection c
    pc,         \* pc[c]: where the session task of c is
    outgoing,   \* outgoing[c]: what the task has taken and not yet written
    delivered,  \* delivered[c]: delivered_ids of websocket_session
    inHand,     \* inHand[p]: the accepted message p has yet to try_send
    sent,       \* sent[c][m]: how often m was written to the socket of c
    dropped,    \* dropped[c]: ids whose live notice was given up since the pull
    accepts     \* accepts[m]: how often the relay accepted m

session  == <<chan, pc, outgoing, delivered, sent>>
gateway  == <<registry, session, inHand, dropped, accepts>>
gvars    == <<vars, gateway>>
allButPc == <<vars, registry, chan, outgoing, delivered, sent, inHand, dropped, accepts>>

Processes == Conns \cup Requests

Stages == {"connecting", "register", "hello", "pull", "backlog",
           "loop", "sending", "unregister", "closed"}

ConnectionState == [id : Conns, ready : BOOLEAN, pending : Seq(Messages)]

ASSUME AbsentValues ==
    /\ NoEntry \notin ConnectionState
    /\ NoMessage \notin Messages

Registered(c) ==
    /\ registry[DeviceOf[c]] # NoEntry
    /\ registry[DeviceOf[c]].id = c

Goto(c, stage) == pc' = [pc EXCEPT ![c] = stage]

-----------------------------------------------------------------------------
(* ConnectionRegistry::try_send, after an accepted push *)

LiveNotice(p, m) == inHand[p] = m /\ m # NoMessage

(* Faults: try_send before activate is lost, or unbounded *)
TrySendPendingLost(p, m) ==
    LET e == registry[m.recipient] IN
    /\ LiveNotice(p, m)
    /\ e # NoEntry
    /\ ~e.ready
    /\ UNCHANGED <<registry, chan, dropped>>

TrySendPendingUnbounded(p, m) ==
    LET e == registry[m.recipient] IN
    /\ LiveNotice(p, m)
    /\ e # NoEntry
    /\ ~e.ready
    /\ registry' = [registry EXCEPT ![m.recipient].pending = Append(@, m)]
    /\ UNCHANGED <<chan, dropped>>

(* The entry of the recipient queues the message until it is ready *)
TrySendPending(p, m) ==
    LET e == registry[m.recipient] IN
    /\ LiveNotice(p, m)
    /\ e # NoEntry
    /\ ~e.ready
    /\ Len(e.pending) < LiveChannelCapacity
    /\ registry' = [registry EXCEPT ![m.recipient].pending = Append(@, m)]
    /\ UNCHANGED <<chan, dropped>>

(* Fault: ready is not looked at *)
TrySendChannelEarly(p, m) ==
    LET e == registry[m.recipient] IN
    /\ LiveNotice(p, m)
    /\ e # NoEntry
    /\ Len(chan[e.id]) < LiveChannelCapacity
    /\ chan' = [chan EXCEPT ![e.id] = Append(@, m)]
    /\ UNCHANGED <<registry, dropped>>

TrySendChannel(p, m) ==
    LET e == registry[m.recipient] IN
    /\ LiveNotice(p, m)
    /\ e # NoEntry
    /\ e.ready
    /\ Len(chan[e.id]) < LiveChannelCapacity
    /\ chan' = [chan EXCEPT ![e.id] = Append(@, m)]
    /\ UNCHANGED <<registry, dropped>>

(* pending or the channel is at its capacity: the notice is dropped *)
TrySendDropped(p, m) ==
    LET e == registry[m.recipient] IN
    /\ LiveNotice(p, m)
    /\ e # NoEntry
    /\ Len(IF e.ready THEN chan[e.id] ELSE e.pending) >= LiveChannelCapacity
    /\ dropped' = [dropped EXCEPT ![e.id] = @ \cup {m.id}]
    /\ UNCHANGED <<registry, chan>>

TrySendOffline(p, m) ==
    /\ LiveNotice(p, m)
    /\ registry[m.recipient] = NoEntry
    /\ UNCHANGED <<registry, chan, dropped>>

TrySend(p) ==
    /\ \E m \in Messages : \/ TrySendPending(p, m)
                           \/ TrySendChannel(p, m)
                           \/ TrySendDropped(p, m)
                           \/ TrySendOffline(p, m)
    /\ inHand' = [inHand EXCEPT ![p] = NoMessage]
    /\ UNCHANGED <<vars, pc, outgoing, delivered, sent, accepts>>

-----------------------------------------------------------------------------
(* HTTP handlers *)

(* An accepted push, by request or session p, that has yet to try_send *)
Accept(p, m, t) ==
    /\ accepts[m] < MaxAccepts
    /\ PushAccepted(m, t)
    /\ inHand' = [inHand EXCEPT ![p] = m]
    /\ accepts' = [accepts EXCEPT ![m] = @ + 1]

Enqueue(r, m, t) ==
    /\ inHand[r] = NoMessage
    /\ Accept(r, m, t)
    /\ UNCHANGED <<now, registry, session, dropped>>

EnqueueRefused(m, t) ==
    /\ PushInvalid(m, t) \/ PushDuplicate(m, t) \/ PushFull(m, t)
    /\ UNCHANGED <<now, gateway>>

(***************************************************************************)
(* The HTTP server drops the handler of a request whose client has gone    *)
(* away, here between its push and its try_send.                           *)
(***************************************************************************)
EnqueueCancelled(r) ==
    /\ \E m \in Messages :
        LET e == registry[m.recipient] IN
        /\ LiveNotice(r, m)
        /\ dropped' = [c \in Conns |-> IF e # NoEntry /\ e.id = c
                                       THEN dropped[c] \cup {m.id}
                                       ELSE dropped[c]]
    /\ inHand' = [inHand EXCEPT ![r] = NoMessage]
    /\ UNCHANGED <<vars, registry, session, accepts>>

Poll(d, t) ==
    /\ Pull(d, t)
    /\ UNCHANGED <<now, gateway>>

AckRequest(d, id) ==
    /\ Ack(d, id)
    /\ UNCHANGED <<now, gateway>>

-----------------------------------------------------------------------------
(* websocket_session, up to its loop *)

HelloAccepted(c) ==
    /\ pc[c] = "connecting"
    /\ Goto(c, "register")
    /\ UNCHANGED allButPc

(* No ClientHello in time, or not the one of the authenticated device *)
HelloRejected(c) ==
    /\ pc[c] = "connecting"
    /\ Goto(c, "closed")
    /\ UNCHANGED allButPc

(* Replaces the entry of an earlier connection, pending messages included *)
Register(c) ==
    /\ pc[c] = "register"
    /\ registry' = [registry EXCEPT ![DeviceOf[c]] =
                       [id |-> c, ready |-> FALSE, pending |-> <<>>]]
    /\ Goto(c, "hello")
    /\ UNCHANGED <<vars, chan, outgoing, delivered, sent, inHand, dropped, accepts>>

SendHello(c) ==
    /\ pc[c] = "hello"
    /\ Goto(c, "pull")
    /\ UNCHANGED allButPc

PullBacklog(c, t) ==
    /\ pc[c] = "pull"
    /\ Pull(DeviceOf[c], t)
    /\ outgoing' = [outgoing EXCEPT ![c] = Pulled(DeviceOf[c], t)]
    /\ delivered' = [delivered EXCEPT ![c] = {m.id : m \in Range(Pulled(DeviceOf[c], t))}]
    /\ dropped' = [dropped EXCEPT ![c] = {}]
    /\ Goto(c, "backlog")
    /\ UNCHANGED <<now, registry, chan, sent, inHand, accepts>>

(* send_encrypted, of the backlog or of one live message *)
SendNext(c) ==
    /\ pc[c] \in {"backlog", "sending"}
    /\ outgoing[c] # <<>>
    /\ sent' = [sent EXCEPT ![c][Head(outgoing[c])] = @ + 1]
    /\ outgoing' = [outgoing EXCEPT ![c] = Tail(@)]
    /\ Goto(c, IF pc[c] = "sending" THEN "loop" ELSE "backlog")
    /\ UNCHANGED <<vars, registry, chan, delivered, inHand, dropped, accepts>>

(* Fault: a return that does not unregister *)
SendFailsReturns(c) ==
    /\ \/ pc[c] = "hello"
       \/ pc[c] \in {"backlog", "sending"} /\ outgoing[c] # <<>>
    /\ Goto(c, "closed")
    /\ UNCHANGED allButPc

SendFails(c) ==
    /\ \/ pc[c] = "hello"
       \/ pc[c] \in {"backlog", "sending"} /\ outgoing[c] # <<>>
    /\ Goto(c, "unregister")
    /\ UNCHANGED allButPc

(***************************************************************************)
(* activate: the messages queued meanwhile and not in the backlog go to    *)
(* the channel, as far as it takes them.                                   *)
(***************************************************************************)
NotDelivered(c, q) == Retain(q, {i \in DOMAIN q : q[i].id \notin delivered[c]})

Activate(c) ==
    LET d    == DeviceOf[c]
        live == chan[c] \o NotDelivered(c, registry[d].pending)
        fits == IF Len(live) <= LiveChannelCapacity THEN Len(live) ELSE LiveChannelCapacity
    IN  /\ pc[c] = "backlog"
        /\ outgoing[c] = <<>>
        /\ Registered(c)
        /\ registry' = [registry EXCEPT ![d].pending = <<>>, ![d].ready = TRUE]
        /\ chan' = [chan EXCEPT ![c] = SubSeq(live, 1, fits)]
        /\ dropped' = [dropped EXCEPT ![c] = @ \cup {live[i].id : i \in (fits + 1)..Len(live)}]
        /\ Goto(c, "loop")
        /\ UNCHANGED <<vars, outgoing, delivered, sent, inHand, accepts>>

(* Another connection has taken the entry, or removed it *)
ActivateRefused(c) ==
    /\ pc[c] = "backlog"
    /\ outgoing[c] = <<>>
    /\ ~Registered(c)
    /\ Goto(c, "closed")
    /\ UNCHANGED allButPc

(* Fault: the id of the entry is not compared *)
UnregisterAny(c) ==
    /\ pc[c] = "unregister"
    /\ registry' = [registry EXCEPT ![DeviceOf[c]] = NoEntry]
    /\ Goto(c, "closed")
    /\ UNCHANGED <<vars, chan, outgoing, delivered, sent, inHand, dropped, accepts>>

Unregister(c) ==
    /\ pc[c] = "unregister"
    /\ registry' = IF Registered(c)
                   THEN [registry EXCEPT ![DeviceOf[c]] = NoEntry]
                   ELSE registry
    /\ Goto(c, "closed")
    /\ UNCHANGED <<vars, chan, outgoing, delivered, sent, inHand, dropped, accepts>>

-----------------------------------------------------------------------------
(* The select! loop of websocket_session *)

Selecting(c) == pc[c] = "loop" /\ inHand[c] = NoMessage

(* The idle deadline, the end of the stream, or an input that ends it *)
LeaveLoop(c) ==
    /\ Selecting(c)
    /\ Goto(c, "unregister")
    /\ UNCHANGED allButPc

(* Fault: the message stays in the channel *)
RecvPeeks(c) ==
    /\ Selecting(c)
    /\ chan[c] # <<>>
    /\ outgoing' = [outgoing EXCEPT ![c] = <<Head(chan[c])>>]
    /\ Goto(c, "sending")
    /\ UNCHANGED <<vars, registry, chan, delivered, sent, inHand, dropped, accepts>>

Recv(c) ==
    /\ Selecting(c)
    /\ chan[c] # <<>>
    /\ chan' = [chan EXCEPT ![c] = Tail(@)]
    /\ outgoing' = [outgoing EXCEPT ![c] = <<Head(chan[c])>>]
    /\ Goto(c, "sending")
    /\ UNCHANGED <<vars, registry, delivered, sent, inHand, dropped, accepts>>

(* Fault: None does not end the loop *)
RecvNoneIgnored(c) ==
    /\ Selecting(c)
    /\ chan[c] = <<>>
    /\ ~Registered(c)
    /\ UNCHANGED gvars

(* recv returns None: the entry that held the only sender is gone *)
RecvNone(c) ==
    /\ Selecting(c)
    /\ chan[c] = <<>>
    /\ ~Registered(c)
    /\ Goto(c, "unregister")
    /\ UNCHANGED allButPc

InboundPush(c, m, t) ==
    /\ Selecting(c)
    /\ m.sender = DeviceOf[c]
    /\ Accept(c, m, t)
    /\ UNCHANGED <<now, registry, session, dropped>>

InboundDuplicate(c, m, t) ==
    /\ Selecting(c)
    /\ m.sender = DeviceOf[c]
    /\ PushDuplicate(m, t)
    /\ UNCHANGED <<now, gateway>>

(* A push for another sender, or one answered Invalid or Full, ends it *)
InboundRefused(c, m, t) ==
    /\ Selecting(c)
    /\ \/ m.sender # DeviceOf[c] /\ UNCHANGED store
       \/ m.sender = DeviceOf[c] /\ (PushInvalid(m, t) \/ PushFull(m, t))
    /\ Goto(c, "unregister")
    /\ UNCHANGED <<now, registry, chan, outgoing, delivered, sent, inHand, dropped, accepts>>

InboundAck(c, id) ==
    /\ Selecting(c)
    /\ Ack(DeviceOf[c], id)
    /\ UNCHANGED <<now, gateway>>

-----------------------------------------------------------------------------
GatewayInit ==
    /\ Init
    /\ registry = [d \in Devices |-> NoEntry]
    /\ chan = [c \in Conns |-> <<>>]
    /\ pc = [c \in Conns |-> "connecting"]
    /\ outgoing = [c \in Conns |-> <<>>]
    /\ delivered = [c \in Conns |-> {}]
    /\ inHand = [p \in Processes |-> NoMessage]
    /\ sent = [c \in Conns |-> [m \in Messages |-> 0]]
    /\ dropped = [c \in Conns |-> {}]
    /\ accepts = [m \in Messages |-> 0]

HttpNext ==
    \/ \E r \in Requests : EnqueueCancelled(r)
    \/ \E m \in Messages, t \in 0..now :
        \/ \E r \in Requests : Enqueue(r, m, t)
        \/ EnqueueRefused(m, t)
    \/ \E d \in Devices : \/ \E t \in 0..now : Poll(d, t)
                          \/ \E id \in MessageIds : AckRequest(d, id)

SessionNext(c) ==
    \/ HelloAccepted(c) \/ HelloRejected(c) \/ Register(c) \/ SendHello(c)
    \/ SendNext(c) \/ SendFails(c) \/ Activate(c) \/ ActivateRefused(c)
    \/ LeaveLoop(c) \/ Recv(c) \/ RecvNone(c) \/ Unregister(c)
    \/ \E t \in 0..now : \/ PullBacklog(c, t)
                         \/ \E m \in Messages : \/ InboundPush(c, m, t)
                                                \/ InboundDuplicate(c, m, t)
                                                \/ InboundRefused(c, m, t)
    \/ \E id \in MessageIds : InboundAck(c, id)

GatewayNext ==
    \/ Tick /\ UNCHANGED gateway
    \/ HttpNext
    \/ \E p \in Processes : TrySend(p)
    \/ \E c \in Conns : SessionNext(c)

(***************************************************************************)
(* The runtime polls every runnable task, a write to a socket completes or *)
(* fails, and select! picks among its ready branches at random, so a       *)
(* branch that is ready again and again is taken.  Nothing is assumed of   *)
(* clients, of the clock, or of a handler the server may cancel.           *)
(***************************************************************************)
Fairness ==
    /\ \A p \in Processes : WF_gvars(TrySend(p))
    /\ \A c \in Conns :
        /\ WF_gvars(Register(c))
        /\ WF_gvars(SendHello(c) \/ SendNext(c) \/ SendFails(c))
        /\ WF_gvars(\E t \in 0..now : PullBacklog(c, t))
        /\ WF_gvars(Activate(c) \/ ActivateRefused(c))
        /\ WF_gvars(Unregister(c))
        /\ SF_gvars(Recv(c) \/ RecvNone(c))

GatewaySpec     == GatewayInit /\ [][GatewayNext]_gvars
FairGatewaySpec == GatewaySpec /\ Fairness

-----------------------------------------------------------------------------
(* Properties *)

GatewayTypeOK ==
    /\ registry \in [Devices -> ConnectionState \cup {NoEntry}]
    /\ \A d \in Devices :
          registry[d] # NoEntry => Len(registry[d].pending) <= LiveChannelCapacity
    /\ chan \in [Conns -> Seq(Messages)]
    /\ \A c \in Conns : Len(chan[c]) <= LiveChannelCapacity
    /\ pc \in [Conns -> Stages]
    /\ outgoing \in [Conns -> Seq(Messages)]
    /\ delivered \in [Conns -> SUBSET MessageIds]
    /\ inHand \in [Processes -> Messages \cup {NoMessage}]
    /\ sent \in [Conns -> [Messages -> Nat]]
    /\ dropped \in [Conns -> SUBSET MessageIds]
    /\ accepts \in [Messages -> 0..MaxAccepts]

(***************************************************************************)
(* A session that took its backlog and still owns the entry of its device  *)
(* has written every message the relay holds for that device, or the       *)
(* message is on its way to it: in the backlog, in pending, in the channel *)
(* or with a handler between push and try_send.  The only exceptions are   *)
(* the notices the gateway knowingly gives up.  This is what registering   *)
(* before the pull, queueing until activate, and pushing before try_send   *)
(* are for.  activate compares identifiers, so what it takes for written   *)
(* may be another message of that identifier, acknowledged in between.     *)
(***************************************************************************)
OnTheWay(c, m) ==
    \/ m \in Range(outgoing[c]) \cup Range(chan[c])
    \/ m \in Range(registry[DeviceOf[c]].pending)
    \/ \E p \in Processes : inHand[p] = m

Written(c, id) == \E m \in Messages : m.id = id /\ sent[c][m] > 0

NoStrandedMessage ==
    \A c \in Conns :
        (Registered(c) /\ pc[c] \in {"backlog", "loop", "sending"}) =>
            \A m \in HeldFor(DeviceOf[c]) :
                Written(c, m.id) \/ OnTheWay(c, m) \/ m.id \in dropped[c]

(***************************************************************************)
(* Nothing is written to the channel before activate, so that pending,     *)
(* which has the same capacity, always fits when activate moves it: the    *)
(* unchecked try_send of activate never drops a message.                   *)
(***************************************************************************)
ActivateNeverDrops ==
    [][\A c \in Conns : pc[c] = "backlog" /\ pc'[c] = "loop"
          => dropped'[c] = dropped[c]]_gvars

(***************************************************************************)
(* Only the session that owns the entry of a device removes it: the late   *)
(* unregister of a replaced connection never disconnects its successor.     *)
(***************************************************************************)
EntryLeavesWithItsOwner ==
    [][\A d \in Devices :
          (registry[d] # NoEntry /\ registry'[d] = NoEntry)
            => pc'[registry[d].id] = "closed"]_gvars

(***************************************************************************)
(* An entry of the registry always belongs to a session of that device     *)
(* that has registered and has not returned, so that a channel with a      *)
(* sender has a reader: every way out of websocket_session unregisters.    *)
(* The entry is ready only once that session has written its backlog.      *)
(***************************************************************************)
EntryHasSession ==
    \A d \in Devices : registry[d] # NoEntry =>
        LET c == registry[d].id IN
        /\ DeviceOf[c] = d
        /\ pc[c] \in IF registry[d].ready
                     THEN {"loop", "sending", "unregister"}
                     ELSE {"hello", "pull", "backlog", "unregister"}

(***************************************************************************)
(* No message is written to one connection more often than the relay       *)
(* accepted it: backlog and live delivery are deduplicated.                *)
(***************************************************************************)
NoDuplicateDelivery ==
    \A c \in Conns, m \in Messages : sent[c][m] <= accepts[m]

(***************************************************************************)
(* While a connection owns the entry of its device, every message the      *)
(* relay holds for the device is eventually written to it, or was one of   *)
(* the same identifier, unless it is acknowledged or expires first, its    *)
(* live notice is given up, or the connection loses the entry.             *)
(***************************************************************************)
LiveDelivery ==
    \A c \in Conns : \A m \in Messages :
        (Registered(c) /\ m \in HeldFor(DeviceOf[c])) ~>
            (\/ Written(c, m.id)
             \/ m.id \in dropped[c]
             \/ m \notin HeldFor(DeviceOf[c])
             \/ ~Registered(c))

(***************************************************************************)
(* A session that lost its entry to a newer connection comes to an end:    *)
(* dropping the entry drops the only sender of its channel.                *)
(***************************************************************************)
SupersededSessionEnds ==
    \A c \in Conns :
        (pc[c] \in {"backlog", "loop", "sending"} /\ ~Registered(c)) ~> pc[c] = "closed"

(***************************************************************************)
(* The gateway is a mailbox: its locks, its channels, the pending queue of *)
(* an entry and the order of register, pull and activate implement one.    *)
(***************************************************************************)
TimesIn(m, q) == Cardinality({i \in DOMAIN q : q[i] = m})
PendingOf(c)  == IF Registered(c) THEN registry[DeviceOf[c]].pending ELSE <<>>
FeedOf(c, m)  == TimesIn(m, outgoing[c]) + TimesIn(m, chan[c]) + TimesIn(m, PendingOf(c))

AllHeld      == UNION {HeldFor(d) : d \in Devices}
NoticesOf(m) == {p \in Processes : inHand[p] = m}
Notices      == [m \in Messages |-> Cardinality(NoticesOf(m))]
Uncollected  == {c \in Conns : pc[c] \in {"connecting", "register", "hello", "pull"}}
Feed         == [c \in Conns |-> [m \in Messages |-> FeedOf(c, m)]]

Box == INSTANCE Mailbox WITH
    held    <- AllHeld,
    posts   <- accepts,
    notices <- Notices,
    fresh   <- Uncollected,
    feed    <- Feed,
    written <- sent

ImplementsMailbox == Box!MailboxSpec

=============================================================================
