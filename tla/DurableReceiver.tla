--------------------------- MODULE DurableReceiver ---------------------------
(***************************************************************************)
(* A client that keeps the receiving ratchet of a session in the encrypted *)
(* journal, as core/storage is tested: snapshot, save, and after a restart *)
(* load and from_snapshot.  Packets are opened while saves run, and a      *)
(* crash takes the receiver in memory with it.  Taking the snapshot and    *)
(* the beginning of save are one step.                                     *)
(*                                                                         *)
(* The packet of a counter may arrive at any time and any number of times; *)
(* packets that do not authenticate and snapshots that are refused change  *)
(* nothing (module Ratchet) and are left out.                              *)
(***************************************************************************)
EXTENDS EncryptedJournal

CONSTANTS
    MaxCounter, MaxSkip, MaxSnapshotSkipped,    \* as in module Ratchet
    Lost,           \* no receiver in memory
    Packets         \* bound of the model: the counters whose packets arrive

VARIABLES
    receiver,       \* ReceiveRatchet, or Lost
    opened,         \* history: the counters whose packet was ever opened
    overlapped      \* history: a save began while another was running

clientVars == <<receiver, opened, overlapped>>
durableVars == <<vars, clientVars>>

R == INSTANCE Ratchet WITH
    MaxChain <- MaxCounter + 1, Junk <- Damaged, Malformed <- Damaged, NoSnapshot <- NoPayload,
    sender <- 0, sent <- {}, saved <- NoPayload, savedOpened <- opened

Receivers == [state : R!States, skipped : UNION {[D -> R!MessageKeys] : D \in SUBSET R!Counters}]

\* What is saved are the snapshots of receivers.
ASSUME ReceiverConstants ==
    /\ R!RatchetBounds /\ R!ValuesDistinct
    /\ Payloads = R!Snapshots
    /\ Packets \subseteq R!Counters
    /\ Lost \notin Receivers

Packet(c) == R!KeyAt(R!FromRoot, c)
ResultOf(c) == R!Result(receiver, c, Packet(c))

Open(c) ==
    /\ receiver # Lost
    /\ ResultOf(c) = "Opened"
    /\ receiver' = R!Candidate(receiver, c)
    /\ opened' = opened \cup {c}
    /\ UNCHANGED <<vars, overlapped>>

Running == {w \in Writers : pc[w] # "idle"}

\* Replay or TooFarAhead.
Refuse(c) ==
    /\ receiver # Lost
    /\ ResultOf(c) # "Opened"
    /\ UNCHANGED durableVars

StartSave(w) ==
    /\ receiver # Lost
    /\ Cardinality(DOMAIN receiver.skipped) <= MaxSnapshotSkipped
    /\ Choose(w, R!Snapshot(receiver))
    /\ overlapped' = (overlapped \/ Running # {})
    /\ UNCHANGED <<receiver, opened>>

\* What load returns: the payload of the newest record that authenticates.
Newest == bin[Max(Loadable)].content.payload

\* from_snapshot_parts refuses the last counter.
Restorable == Loadable # {} /\ ~R!Exhausted(Newest.state)

Recover ==
    /\ receiver = Lost
    /\ Restorable
    /\ receiver' = R!FromSnapshot(Newest)
    /\ UNCHANGED <<vars, opened, overlapped>>

\* NoValidRecord, or a snapshot that is refused.
RecoverFails ==
    /\ receiver = Lost
    /\ ~Restorable
    /\ UNCHANGED durableVars

\* The client ends while no save runs.
Quit ==
    /\ receiver # Lost /\ Running = {}
    /\ receiver' = Lost
    /\ UNCHANGED <<vars, opened, overlapped>>

CrashClient == Crash /\ receiver' = Lost /\ UNCHANGED <<opened, overlapped>>

DurableInit ==
    /\ Init
    /\ receiver = [state |-> R!FromRoot, skipped |-> [c \in {} |-> Packet(c)]]
    /\ opened = {}
    /\ overlapped = FALSE

DurableNext ==
    \/ \E c \in Packets : Open(c) \/ Refuse(c)
    \/ \E w \in Writers : StartSave(w)
    \/ (\E w \in Writers : SaveStep(w)) /\ UNCHANGED clientVars
    \/ Quit
    \/ CrashClient
    \/ Recover
    \/ RecoverFails
    \/ Corrupt /\ UNCHANGED clientVars

DurableSpec == DurableInit /\ [][DurableNext]_durableVars

-----------------------------------------------------------------------------
(* Properties *)

\* Types of the journal, the receiver and the histories.
DurableTypeOK ==
    /\ TypeOK
    /\ receiver = Lost \/ R!IsReceiver(receiver)
    /\ opened \subseteq R!Counters
    /\ overlapped \in BOOLEAN

OpenedIn(snapshot) == 0 .. (snapshot.state.counter - 1) \ {e.counter : e \in snapshot.entries}

\* The packets some confirmed save knew to be opened.  Two things undo this
\* knowledge, and then nothing is claimed: a corrupted record, since the client
\* then saves what it recovered from an older one under a later generation, and a
\* save that began while another ran, which may commit the older snapshot last.
KnownOpened ==
    IF overlapped \/ corruptions > 0 THEN {}
    ELSE UNION {OpenedIn(r.payload) : r \in promised}

\* Whatever crashes, fails and is recovered, the receiver refuses a packet as a
\* replay if a confirmed save knew it was opened, and only if it was opened:
\* replay protection survives a restart, and no restart makes a packet that was
\* passed over unreadable.
ReplayAcrossRestarts ==
    receiver # Lost =>
        LET replays == {c \in Packets : ResultOf(c) = "Replay"} IN
        KnownOpened \subseteq replays /\ replays \subseteq opened

=============================================================================
