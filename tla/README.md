# Verification of NEXA messenger

TLA+ models of the gateway (`backend/`) and of the client core (`core/`), the
TLC runs that check them on small instances, and TLAPS proofs for every size.
`src/...` below is the repository; `PROJECT.json` maps each definition to the
lines it stands for.

## 1. The system

| Component | State | Operations | Talks to |
|---|---|---|---|
| Relay store, `backend/src/relay.rs` | a queue of ciphertexts per device, two global counters, one lock | `push`, `pull`, `ack` (each first drops what has expired) | called by HTTP handlers and websocket sessions |
| Gateway, `backend/src/main.rs` | `ConnectionRegistry`: per device one entry (id, sender of a channel, `ready`, `pending`), one lock; one task per websocket | `register`, `unregister`, `try_send`, `activate`; `enqueue`, `poll`, `ack`; `websocket_session` | relay store, authentication, prekey registry |
| Authentication, `backend/src/auth.rs` | nonces and a rate window per device, one lock | `authenticate` | every handler |
| Prekey registry, `backend/src/prekeys.rs` | publications, revocations, claims, requests, one lock | `publish`, `revoke`, `get_active`, `claim_opk` | HTTP handlers |
| Encrypted journal, `core/storage` | files `<prefix>-<generation>.bin` and `.tmp` | `save`, `load` | the file system |
| Message ratchet, `core/ratchet` | chain key, counter, skipped keys | `next_message_key`, `encrypt`, `decrypt`, `snapshot` | session, journal |
| Prekey stores, `core/identity/src/prekeys.rs` | current and retired signed prekeys; one-time prekeys | `rotate`, `prune`, `with_key`; `insert`, `take`, `with_matching` | session |
| Session, `core/session` | a root key on each side | `initiate`, `respond`, `respond_with_one_time_prekey_store` | prekey stores, ratchet |
| DH ratchet, `core/dh-ratchet` | a DH pair and a root | one key transition | nothing calls it yet |
| Framing and codecs, `core/transport`, `core/protocol`, `core/envelope` | `OutboundQueue` | encode, decode, validate, `aad`; `push`, `pop` | gateway, clients |
| Primitives, `core/crypto`, `core/identity/src/lib.rs` | none | AEAD, HKDF, signatures | everything |
| Wallet, mobile applications | none (an enumeration; static screens) | – | – |

What is hard in it:

* **Interleaving.** The relay and the registry have separate locks and no
  handler holds both. A message is pushed, then offered to the live connection;
  a session registers, then pulls, then writes its backlog, then activates.
  Any other task may run between any two of these.
* **Stale readings.** `push`, `pull` and the prekey handlers read the clock
  before they wait for the lock.
* **Replacement.** A device that reconnects replaces its entry while the old
  session is still anywhere in its code.
* **Limits.** 256 pending notices, a channel of 256, 256 messages per device,
  two global counters kept apart from the queues they count.
* **Crashes.** `save` is a sequence of file operations, each of which may be
  the last.
* **Retries.** A lost answer to `claim_opk` is asked for again; a request over
  the rate limit is sent again with its nonce.
* **The network.** Packets of a ratchet come late, twice, out of order, altered
  or never; an init may reach a device after it has rotated its signed prekey;
  a frame may be damaged in any of its words, the lengths included.
* **Limits of two crates.** What the relay stores must fit the frames of
  `core/transport` and the envelopes of `core/envelope`, each with constants of
  its own.

Correctness, per component:

* relay: no message leaves before it expires except by its own `ack`; counters
  exact; limits hold;
* gateway: backlog and live delivery together miss nothing; an entry always
  names a live session; a replaced session ends;
* prekeys: a key goes to one request, a request gets one key, keys of a
  published generation never change, a revocation is final;
* journal: recovery never goes behind a confirmed save; with the receiving
  ratchet in it, replay protection survives every crash;
* authentication: a nonce is authenticated once in its lifetime, a signed request
  only a bounded number of times, the rate is bounded in any interval;
* ratchet: a packet opens at most once, under its own counter, and whatever
  else arrives, one that was not opened and is not too far ahead still does;
* prekey stores and session: a prekey rotated out serves its grace period, a
  one-time prekey serves one session and is lost to none that fails, the two
  sides derive one root exactly if both used the same keys;
* frames and messages: the gateway acts on what a device sent and nothing else;
  what it stores can be sent; what opens is what was sealed.

## 2. Modules

| Module | Models | Notes |
|---|---|---|
| `Queues` | `VecDeque::retain` | `Retain`, which the relay store and authentication share. |
| `RelayStore` | `relay.rs` | One action per operation and outcome. An operation takes a clock reading `t \in 0..now`. |
| `Gateway` | registry, relay handlers and sessions of `main.rs` | Extends `RelayStore`: every store operation is the one of that module, conjoined with the step of the handler or session. |
| `GatewayProofs` | – | Proofs about `RelayStore`, then about `Gateway`: its invariants, and that it implements `Mailbox`. |
| `PreKeyRegistry` | `prekeys.rs` | Likewise with clock readings; answers are kept as history. |
| `PreKeyRegistryProofs` | – | Proofs about `PreKeyRegistry`. |
| `Mailbox` | – | What the gateway promises about delivery: abstract, no locks, channels or queues. |
| `MailboxProofs` | – | What follows from that promise. |
| `EncryptedJournal` | `EncryptedJournal` of `core/storage` | One action per file operation of `save`; `load` is the operator `Loadable`. The file system, crashes and corruption are the environment. |
| `DurableReceiver` | the snapshot test of `core/storage` | Extends `EncryptedJournal`, with an instance of `Ratchet`: a receiver whose snapshots are saved and recovered. |
| `DurableReceiverProofs` | – | Proofs about the journal, and about the receiver that is saved in it. |
| `SecureChannel` | – | What one direction of a ratcheted conversation promises: abstract, no keys. |
| `Ratchet` | `core/ratchet`, `RatchetHeader` | Sender, network, receiver, snapshots; implements `SecureChannel`. |
| `RatchetProofs` | – | Proofs about `Ratchet`, the refinement among them. |
| `RequestAuth` | `auth.rs` | A handler in two steps: the checks before the lock, the section under it. |
| `RequestAuthProofs` | – | Proofs about `RequestAuth`. |
| `PrekeyStores` | `core/identity/src/prekeys.rs` | Both stores; time readings may be behind the clock. |
| `SessionSetup` | `core/session` | Extends `PrekeyStores`: initiators with published bundles against the responder's stores. |
| `SessionSetupProofs` | – | Proofs about both stores and the sessions made from them. |
| `Wire` | `core/transport`, `core/protocol`, `core/envelope` | Encodings and validity as operators over sequences of words. |
| `WireSession` | `OutboundQueue`, the frames of `websocket_session` | Extends `Wire`: a message from its seal through sockets and relay to its opening. |
| `WireSessionProofs` | – | Proofs about the encodings and the sessions that use them. |
| `MC*` | – | Instances for TLC. |

How state corresponds:

* `RelayStore`: `queues`, `totalMessages`, `totalBytes` are the fields of
  `RelayInner`; a device that is not in the map has the empty queue (`ack` and
  `pull` remove empty queues, which nothing can tell apart from that). A
  message is its identifier, sender, recipient, size, send time, and whether
  `valid_message` accepts it.
* `Gateway`: `registry` is the map of `ConnectionRegistry`; `chan` the channel
  of a connection; `pc`, `outgoing`, `delivered` the local state of
  `websocket_session`; `inHand[p]` a message that handler or session `p` has
  pushed and not yet passed to `try_send`. `sent`, `dropped` and `accepts` are
  history. A connection is its own `connection_id`, each used once, as
  `fetch_add` makes them. The only sender of a channel is in the registry
  entry, so a channel is closed exactly when its entry is gone.
* `PreKeyRegistry`: the four maps of `RegistryState`; of `revoked` only the
  keys, as the time is never read. `answered` is history.
* `EncryptedJournal`: `bin` and `tmp` map generations to files; `durable` is
  what the directory holds on disk; `pc`, `gen`, `saving` are the local state
  of a call of `save`. `promised` is history.

* `Ratchet`: a chain key is the number of derivations from the root, a message
  key the chain key and the counter it was derived from, a body the key it is
  sealed under or `Junk`. `sender` and `receiver` are `RatchetState` and
  `ReceiveRatchet`. The loop of `key_for` works on a copy that is dropped on
  any error, so it is one operator (`Candidate`) and the error it ends in
  another (`Error`). `opened` and `savedOpened` are history.
* `RequestAuth`: `nonces` and `rates` per device; `waiting` is the request a
  handler holds at `lock().await`, and whether the clock has moved since its
  checks. `accepted`, the requests of the last `NONCE_TTL`, and `prompt` are
  history.
* `PrekeyStores`: `current`, `retired`, `oneTime` are the fields of the two
  stores; `promised`, `inserted` and `consumed` are history. `SessionSetup` adds
  the published bundles, the inits made and, as history, the sessions and what the
  device took for itself. `PrekeyStores` has no specification of its own:
  `SessionSetup.Maintain` takes its steps. An initiator may work from a bundle whose
  device or one-time prekeys were replaced, which the signature in it does not cover
  (`Altered`). What reaches the responder is an init as it was sent or any other
  identity key, ephemeral key, prekey id and stored one-time prekey (`Arrivals`):
  the responder verifies none of it. The caller knows the init's device, as it knows
  the public key of the one-time prekey.
* `DurableReceiver`: `receiver` is the `ReceiveRatchet` in memory or `Lost`; the
  payloads of the journal are snapshots. Taking the snapshot and the listing of
  the directory are one step, as the caller does nothing between the two; a caller
  that kept its snapshot while another save ran would be as if both overlapped. `opened` and `overlapped` are history.
* `Wire`: a fixed-width field is one word, a variable one a word per unit, so any
  word can be read as any field. `WireSession`: `queue` is `OutboundQueue`;
  `wire` and `out` are what is in a socket and unread; `phase` is how far
  `websocket_session` is; `held` is the relay without its clock. `sealed` and
  `opened` are what the two clients did, `pushed` and `taken` are history. `Opens`
  stands for the ratchet of the recipient, its bound on the jump included: the next
  counter is one past the highest that opened. The fields of a message and of an
  envelope are the same, and so is the record.

How modules fit together: `Gateway` has the store of `RelayStore` and every
interleaving with it, but messages without content; `WireSession` has content and
byte layouts, but one step per frame. `Mailbox` is to `Gateway` what `SecureChannel`
is to `Ratchet`: `ImplementsMailbox` maps the messages of all queues to `held`, a
message between `push` and `try_send` to `notices`, connections before their
`pull` to `fresh`, and the outgoing, channel and pending copies of a connection
to `feed`.

Definitions preceded by a comment "Fault" are not part of any specification.
Each is a definition of the model with a plausible mistake in it, and each
property of a passing run is shown to fail when one of them takes the place of
the definition that follows (`PROJECT.json`, `mutants`).

## 3. Runs

| Run | Shows | States |
|---|---|---|
| `relay` | types, `UniqueIds`, `CountersExact`, `WithinLimits`, `RetentionWindow`, `NoEarlyLoss` | 1,240 |
| `gateway` | `NoStrandedMessage`, `EntryHasSession`, `ActivateNeverDrops`, `EntryLeavesWithItsOwner` with two sessions of a device, while messages expire | 675,949 |
| `gateway_live` | `LiveDelivery` and `SupersededSessionEnds` under fairness, and that the gateway implements `Mailbox` | 96,630 |
| `prekeys` | `OneHolder`, `OneKeyPerRequest`, `ClaimsFollowPublication`, `RevocationIsFinal` | 6,927 |
| `durable` | `RecoveryNeverGoesBack`, `ReplayAcrossRestarts` for two saves at once | 453,593 |
| `ratchet` | `EveryCounterAccountedFor`, `GenuineAnswered`, and that the ratchet implements `SecureChannel` | 2,205 |
| `auth` | `NoReplayWithinTtl`, `RepeatsBounded`, `BurstBounded` | 618,650 |
| `session_setup` | `GraceHonoured`, `OneTimeKeysAccounted`, `InitAnswered`, `RootsAgree` | 305,997 |
| `wire` | `ActsOnWhatWasSent`, `HeldCanBeSent`, `OpenedAsSealed`, `GenuineOpens` | 612,848 |
| `gateway_duplicate` | **violated**: `NoDuplicateDelivery` | |
| `prekey_single_use` | **violated**: `EachPrekeySingleUse` | |
| `journal_orphan` | **violated**: `TempNameIsUnused` | |

### Bounds

* `relay`: two devices that share the global limits (three messages, five
  bytes), two messages per device, so that each of the three limits is reached
  on its own; six messages, with one identifier used by two senders and to two
  recipients, one dated ahead of the clock, one malformed. `OfflineTtl = 2`,
  `MaxClockSkew = 1`, time up to 4: a message can expire and be accepted again.
* `gateway`: two sessions of one device and one HTTP handler; the clock moves
  once, which expires a message (`OfflineTtl = 1`) and lets a task use a late
  reading; `LiveChannelCapacity = 1`, so that one message fills pending or the
  channel; two messages, one of them sent by the session itself; each accepted
  once, so that the state space is finite (`MaxAccepts`).
* `gateway_live`: the same messages and sessions with the clock at rest, and a
  queue of one message, so that `push` is refused.
* `gateway_duplicate`: one session and one message are enough.
* `prekeys`: two devices; two publications of the same generation with
  different keys, one of a later generation that offers a key again, one
  that does not validate; two request ids and the zero one.
* `durable`: two writers, two generations, two crashes, one corruption; packets 0
  and 1, of which 0 may be late or never come, so that a snapshot holds a skipped
  key. The last generation is where `checked_add` overflows, so the model does not
  stop there: `save` returns `GenerationOverflow`. `journal_orphan` needs one writer
  and one crash.
* `ratchet`: counters 0 to 5, of which 5 is the last (`u64::MAX`), jumps of at
  most two and snapshots of at most two skipped keys: two jumps exceed both,
  and sender and receiver reach the last counter. `MaxChain` lets the sender
  fail there once.
* `auth`: two handlers, one device (the state of devices is disjoint, and every
  operation touches one), limit 2 per window of 2. As in `auth.rs` `NONCE_TTL`
  equals the skew, here 3, and spans more than a window. Room for four nonces, the most
  that can be live with these numbers; the code's 120 per minute, five minutes
  and 1024 leave more: at most 719 are live. The clock runs to 9, when no
  timestamp is in time any more, so a request that is repeated as often as it
  can be is seen to its end.
* `session_setup`: three key ids and three keys, a grace set of one (2 in the
  code), grace periods that end within the time bound; two bundles, two ephemeral
  keys, two sessions. One key stands for all that are neither side's (`Others`), and
  one alteration of a bundle or an init may have an effect (`MaxAltered`); those
  that are refused are not counted, as they leave no trace.
* `wire`: headers and ciphertexts of at most three and two words for the relay,
  two and three for the envelope: as in the code, each takes what the other
  refuses. A frame holds just the longest message the relay accepts. Three messages
  sealed and `MaxSkip = 1` (256 in the code), so that the third is too far ahead for
  a recipient who has opened none, and one that was skipped may come late. At most
  three frames queued, Bob's hello and the connections lost among them
  (`MaxSent`); one damaged or alien message and one lost connection. A damaged
  word becomes 0, 1 or 3, which makes every length too
  short or too long, every kind and device another, and the version wrong. Bob is
  connected when the run starts.

Only `wire` disables the deadlock check: clients that have used up what the bounds
let them send, and have read everything, stop.

### Fairness

`gateway_live` assumes weak fairness of every step a task takes without
waiting for a client: the runtime polls runnable tasks, locks are FIFO, and a
write to a socket completes or fails. `Recv` and `RecvNone` have strong
fairness: `select!` picks at random among the ready branches, so a channel that
is ready again and again is served although inbound frames may be chosen many
times. That a write ends is an assumption about the peer and the kernel: the
code puts no timeout on it. Nothing is assumed of clients, of the clock, or of
HTTP handlers the server may drop.

### What the violated runs show

* `gateway_duplicate`: `enqueue` (`main.rs:99-100`) stores a message, a session
  pulls it into its backlog and activates, and only then does `enqueue` call
  `try_send`, which sends it again. `delivered_ids` only filters what came
  before `activate`.
* `prekey_single_use`: claims are filed per generation, so a prekey that a
  device publishes again in its next generation is handed out again.
* `journal_orphan`: the temporary file of a failed save or a crash has the
  name the next save needs, and `create_new` refuses it: no later save succeeds.

### Observations without a run

These follow from the models and contradict no statement of the repository
clearly enough to be a run of their own.

* Two saves at once can choose one generation; when the second creates its
  temporary file after the first has renamed its own, its rename replaces the
  record of the first, which was confirmed. `save` takes `&self`, and
  `storage/src/lib.rs:73` says that old records are retained. The replacing record
  may hold the older snapshot, after which packets the confirmed one knew are
  opened again; `ReplayAcrossRestarts` therefore claims nothing once saves have
  overlapped. One save at a time never does this.
* After a corrupted record `load` returns an older one, and the next save files
  what was recovered under a later generation: from then on the newest record
  knows less than one that was confirmed. `ReplayAcrossRestarts` makes an exception
  of this too.
* `activate` compares identifiers, not messages. A sender may post a second message
  under an identifier that is in the backlog of a session, once the first has been
  acknowledged; its notice is then filtered out of `pending`, and that connection
  never writes it: the recipient sees it on its next one. `NoStrandedMessage` and
  `LiveDelivery` therefore speak of the identifier that was written. Stated of the message
  itself, the invariant is refuted by TLC.
* A nonce is remembered for `NONCE_TTL`, five minutes, while a timestamp is in
  time for up to ten: a signed request can be authenticated again after its nonce
  expired. `RepeatsBounded` says how often: three times with these constants, not
  counting requests that waited for the lock while the clock moved.
* The relay takes headers of up to 16 KiB, the envelope only 256 bytes; the
  envelope takes ciphertexts of up to 16 MiB, the relay 4. A device that sends an
  envelope between the two limits has its session ended with `Invalid`, and an
  envelope with a ciphertext of 16 MiB does not fit a frame at all.
* The limits of the relay, 4 MiB and 16 KiB, leave room in `MAX_FRAME`: if they did
  not, `send_encrypted` would fail for a message that was accepted, and end
  every session of its recipient at its backlog (`HeldCanBeSent`, whose mutant
  shows it).
* `MAX_SKIP` bounds one jump, not the number of skipped keys: after two jumps the
  receiver keeps more than that, and `snapshot` refuses it until old packets
  arrive.
* Rate windows start with their first request, so the requests authenticated
  during `NONCE_TTL` can fall into one window more than the test
  `nonce_capacity_covers_rate_window_and_ttl` counts: 719, not 600.
  1024 covers the true maximum, and `NoReplayWithinTtl` needs just that.
* A snapshot taken at the last counter is refused by `from_snapshot_parts`, so
  `Restart` is not possible from it.
* Once more than `MAX_SKIP` packets in a row are lost, `GenuineAnswered` gives
  `TooFarAhead` for every later one. `GenuineOpens` therefore speaks of messages that
  skip at most `MAX_SKIP` others.
* `backend/README.md:8` says that `GET /v1/relay/{device_id}` drains the queue. It does
  not: `pull` copies it, and a message stays until its `ack` or its expiry, as the
  test `pull_does_not_delete_before_ack` asks for and as delivery needs. `NoEarlyLoss` is
  stated of what the code and the test say. Line 14 of that README, which
  says that there is no authentication and no rate limit, is older than
  `auth.rs` too.
* `respond` and `respond_with_one_time_prekey_store` take the fields of an init and never
  call `SessionInit::verify` (`core/session/src/lib.rs:26`, `:57`). An init whose
  identity or ephemeral key is replaced by another nonzero one is answered like any
  other: it uses up the one-time prekey it names, and the responder holds a root
  that the initiator does not hold. `core/session/README.md` lists authenticated binding
  of the handshake among what is to come. `RootsAgree` therefore says when the two roots
  are one, and `InitAnswered` speaks of one-time prekeys not yet used.
* A bundle's device id and its one-time prekeys are outside the signature that `initiate`
  verifies (`core/identity/src/lib.rs:83-88`). If one of them is another, `initiate` succeeds; the
  init is then refused for its one-time prekey, or the two roots differ.
* `load` skips a record it cannot read (`core/storage/src/lib.rs:161`), so a read error that
  passes makes it return an older one. `Loadable` has no such error, only
  corruption that stays.

## 4. Proofs

The first part of `GatewayProofs` proves every property of the run `relay` for all constants
that satisfy the assumptions of `RelayStore` (finitely many devices, messages
of the right type, limits that are natural numbers). The invariant `RelayInv`
is the conjunction of the type invariant, `UniqueIds`, the exact counters, the
limits and the retention window. None of its parts stands alone: the counters
stay exact under `ack` only because identifiers are unique, and saturating
subtraction is subtraction only because the counters cover each queue. The
argument:

1. sums over queues are sizes of disjoint unions (`Slots`, `ByteSlots`), so
   replacing one queue changes a sum by the difference (`TaggedReplace`);
2. `Retain` is a bijection between kept positions and new ones
   (`RetainIsKept`), so it preserves identifiers, order and bytes;
3. every operation replaces one queue (`QueueReplaced`), and each of them
   gives the counters that step 1 asks for;
4. `RelayNoEarlyLoss` follows from the retention window: a queue entry that
   `remove_expired` takes with a past clock reading is due by the real clock.

`PreKeyRegistryProofs` proves every property of the run `prekeys`.
`RegistryInv` adds to the types that claims and requests are paired one to one
(`ClaimsPaired`), that answers are recorded claims (`AnswersAreClaims`), and
that no claim is ahead of, or disagrees with, the publication (`ClaimsFollow`);
`OneKeyPerRequest` alone is not inductive, since a repeated claim answers from
`claims` and a new one is refused by `requests`.

`RatchetProofs` proves every property of the run `ratchet`, among them that
`Ratchet` implements `SecureChannel`. None is inductive, since what a kept key
opens depends on where it came from. `Inv` says so: `SenderInv`, that chain and
counter of the sender are in step until the last counter and each packet sent is
sealed under the key of its counter; `Consistent`, that the same is true of
every key a receiver holds and that its history agrees with the keys it keeps;
and that a saved snapshot is the snapshot of a consistent receiver. The argument:

1. `OpenedIsNew`: what opens under a counter is sealed under that counter's key,
   and nothing was opened under it before;
2. `OpeningConsistent`: the receiver `key_for` leaves behind is consistent with
   the history extended by the packet;
3. `SnapshotRoundTrip`: `from_snapshot` undoes `snapshot`, so a restart returns
   to a consistent receiver with the history of the save;
4. `StepRefines`: with these, each action is a step of the channel or none.

`MailboxProofs` proves the two consequences of `Mailbox`. The invariant is a balance:
what a connection wrote, has to write and may still be told of is at most what was
posted, and one more once it has collected its backlog.

The rest of `GatewayProofs` proves every safety property of the runs `gateway` and
`gateway_live`, and that the gateway implements `Mailbox`; so both consequences of
`Mailbox` are theorems of the gateway (`GatewayAtMostOneExtraCopy`,
`GatewayOnlyToRecipient`). `AbsentValues` says that "no message" and "no entry" are
not messages and entries. The argument:

1. `StoreStep`: whatever handlers and sessions do, the store takes one of its own
   steps or none, so `RelayInv` holds inside the gateway;
2. `StepKinds`: a step moves one task, or tells a device of a message, or
   only shrinks queues, and each invariant looks at few of these;
3. `Staged`: what a session holds at each of its stages, for instance that nothing is
   in its channel before `activate`. `ActivateNeverDrops` is this and equal capacities;
4. `BacklogAccounted`: until `activate`, each of the delivered identifiers is written
   or still in the backlog. Without it `NoStrandedMessage` is not inductive:
   `activate` throws away the pending notices of these identifiers;
5. the refinement counts copies. `Feed` is the number of times a message is in the
   outgoing, channel and pending queues of a connection; each queue operation changes
   the count as the step of the mailbox says (`TimesInAppend`, `TimesInRetain` and the
   like).

In `Mailbox`, a message is removed from the mailbox of its recipient, whoever else has
one of the same identifier: the step that an `ack` refines.

`SessionSetupProofs` proves every property of the run `session_setup`, assuming that
no key an honest device makes is all zero and no two of them agree on zero
(`Degenerate`). `SetupInv` adds two things to the types. `PromisesKept`:
a grace period that runs is an entry of the grace set, under an id not in use, since
pruning with a late reading keeps more and `rotate` refuses an id in grace.
`OneIdPerKey`: wherever a one-time prekey is named, in the store, a bundle or an init,
it is under one id; without it an init could be refused because another session used
its key. `InitAnswered` follows from these and from `HonestDhs`: honest keys combine to
nothing that is refused. `RootsAgree` needs no more than the types: from a list of
Diffie-Hellman results and its length the keys that went into it can be read off
(`SameResults`), whatever arrived and was not verified. The first result gives
the initiator's identity, as that is no prekey; the third the signed prekey; the fourth
the one-time prekey, as a key of someone else is none of the device's
(`SameOneTimePart`).

`DurableReceiverProofs` proves every property of the run `durable`, for any number of
writers, crashes and corruptions. The journal first: a writer between `create_new`
and `rename` owns its temporary file (`Owned`), a confirmed generation is on disk
whatever a crash undoes (`Committed`), and files that do not authenticate are among the
corruptions counted (`DamageCounted`), so one that does is left while fewer
were damaged than confirmed. Then the client, whose every step is one of the journal's
(`DurableRunsJournal`): each payload is the snapshot of a receiver that refuses
only what was opened (`ClientKept`), and while saves do not overlap and nothing is
damaged, a later generation refuses what a confirmed earlier one does (`Linear`).
`SnapshotRoundTrip` of `RatchetProofs` is what takes a snapshot back to its receiver.

`RequestAuthProofs` proves every property of the run `auth`. That no live nonce is
evicted needs `CapacitySuffices`: some number `w` of rate windows covers
`NONCE_TTL`, and the capacity is at least `w` times the limit. In `auth.rs` `w` is 6: six
minutes cover five, and 720 nonces fit 1024. The argument:

1. `Paced`: with `c` requests counted in the window that starts at `s`, a nonce with
   `c + m * RateLimit` later ones in its queue expires more than `m` windows before
   `s + NONCE_TTL`. A new window turns `m` into `m + 1` (`NextWindowPaced`), another
   request `c` into `c + 1`;
2. so a full queue whose device is under its limit has an expired nonce in front, which
   `retain` has removed (`RoomForOne`), and every request of the last `NONCE_TTL`
   still has its nonce in the queue (`HistoryKept`);
3. `Counted` says the same of the history: before the window that starts at `s`, at most
   `RateLimit - 1` requests are in any interval that reaches over `s`, because the
   window before started with a request that is too old to be in it;
4. `Spread`: the prompt authentications of one request are `NONCE_TTL` apart and all
   within the skew of its timestamp, so there are at most `1 + 2 * skew \div TTL`.

`Retain` keeps the end of a queue in order (`RetainLast`): the last step of both
`retain` on nonces and of what the history forgets.

`WireSessionProofs` proves every property of the run `wire`, for any limits that satisfy
`WireBounds`, any capacity, any number of frames, sessions and faults, and damage to any
word. The argument:

1. each encoding has one inverse, in both directions: what is sent as a frame or message
   is read as it (`BytesOfFrame`, `BytesOfMessage`), and what is read as one is the bytes of
   what was read, nothing left over (`FrameOfBytes`, `MessageOfBytes`). The second is what
   the exact length checks of `from_bytes` and `decode` are for;
2. associated data and ciphertext determine the message (`SameAad`), since the
   length of the header is in it before the header. So what opens is the sealed
   message itself (`OpensSealed`), not one that shares its ciphertext;
3. what validation admits fits a frame (`ValidIsSent`): here `WireBounds` is used;
4. `WireInv` says for each session that after the messages the gateway has read, what
   was pushed is in the socket and then in the queue (`Continues`), which every push,
   pop, read and reconnection preserves; that ended sessions hold nothing; and that the
   counters sealed are exactly those below the number of messages sealed, each once;
5. so a message too far ahead leaves more than `MaxSkip` sealed ones behind that were not
   overtaken (`OutOfReachSkips`): a recipient that refuses a genuine message with
   `TooFarAhead` is missing as many others (`WireGenuineOpens`).

Every safety property of the passing runs is a theorem. Only model-checked:
liveness (`LiveDelivery`, `SupersededSessionEnds`) and fairness, which are out of the
prover's reach.

## 5. Not modelled

* Signatures, hashes, AEAD and key agreement are values: a record opens or does
  not, a publication is authentic or not.
* HTTP status codes, JSON and the postcard encoding of envelopes, which nothing
  but tests uses; formatting.
* In `Gateway`: authentication; handlers are reached by the device they
  authenticated. In `RequestAuth`: what the handler does afterwards.
* Header syntax, hexadecimal and the layout of `signing_bytes`.
* A restart of the sending ratchet: the crate offers no snapshot of it.
* Poisoned locks of the prekey stores: nothing panics while it holds one.
* `PreKeyBundle::validate`: a flag of a publication in `PreKeyRegistry`.
* The DH ratchet: a transition no crate calls. Two sides agree on a root only
  when both step from each other's current key (its test does that); when they
  step is not written yet.
* In `WireSession`: the size of a websocket message, which is that of the largest
  frame; time, expiry, registration and the live channel (in `RelayStore` and
  `Gateway`). The header of a message is a `RatchetHeader`, which
  `decrypt_with_header` takes; the test of `core/envelope` passes a bare counter.
* A timeout on writes to a socket, a sweep of expired messages and a
  resynchronisation of the ratchet: the code has none (`PROJECT.json`, hazards).
* `get`, `is_revoked`, `health` and other reads that return state as it is.
* The wallet enumeration, the mobile screens, deployment and CI files.

## 6. Plan

* Models, when the code grows: the DH ratchet and the endpoint that owns both
  directions; a one-time prekey from `claim_opk` to `with_matching`, once a client
  carries it from one to the other.
