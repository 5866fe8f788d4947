---------------------------- MODULE SessionSetup ----------------------------
(***************************************************************************)
(* Session establishment (core/session) with the prekey stores of the      *)
(* responding device: initiators work from a bundle published earlier, and *)
(* their SessionInit reaches the responder late, again, or altered.  The   *)
(* responder looks the signed prekey up with with_key and, under its lock, *)
(* calls respond_with_one_time_prekey_store.                               *)
(*                                                                         *)
(* A Diffie-Hellman result is the unordered pair of the two keys, or Zero  *)
(* with the zero key; a root is the list of results and the device ids and *)
(* ephemeral key mixed in by derive_root.  A bundle's signature covers the *)
(* signed prekey, its id and the identity, and initiate refuses a bundle   *)
(* in which one of these was changed; the device id and the one-time       *)
(* prekeys may be others.  The functions of the responder take the fields  *)
(* of a SessionInit and do not verify its signature (the README of         *)
(* core/session leaves that to come), so whatever arrives is answered.     *)
(* SessionInit names the one-time prekey by id; the caller of the          *)
(* responder supplies the public key, and it knows which device the init   *)
(* is from.                                                                *)
(***************************************************************************)
EXTENDS PrekeyStores, Sequences

CONSTANTS
    Initiator, Responder,   \* the identities; each is also its agreement key and device
    Ephemerals,             \* fresh ephemeral keys of the initiator
    Zero,                   \* the all-zero key
    Others,                 \* keys and devices of neither, which may arrive instead
    NoOneTime,              \* no one-time prekey
    MaxAltered,             \* bound of the model: bundles and inits altered with effect
    MaxBundles,             \* bound of the model: the bundles published
    MaxSessions             \* bound of the model: the sessions established

ASSUME SessionBounds == {MaxAltered, MaxBundles, MaxSessions} \subseteq Nat

VARIABLES
    bundles,    \* the bundles published: [device, keyId, key, oneTime]
    inits,      \* SessionInits made, with what the initiator mixed into its root
    sessions,   \* history: the sessions of the responder, in order
    handed      \* history: one-time prekeys the device took for itself

setupVars == <<bundles, inits, sessions, handed>>
vars == <<storeVars, setupVars>>

\* Own and peer key as X25519 combines them.
DH(a, b) == IF Zero \in {a, b} THEN Zero ELSE {a, b}
Shared(k) == <<"prekey", k>>
Public(k) == IF k \in Keys THEN Shared(k) ELSE k

\* The keys an honest party holds: its own, a fresh one, a prekey.  None of
\* them, and no result of combining two keys that are not zero, is zero.
HonestKeys == {Initiator, Responder} \cup Ephemerals \cup {Shared(k) : k \in Keys}

ASSUME Degenerate ==
    /\ Zero \notin HonestKeys \cup Others
    /\ \A a, b \in HonestKeys \cup Others : {a, b} # Zero
    /\ Others \cap HonestKeys = {} /\ Others \cap Keys = {}
    /\ \A k \in Keys : Initiator # Shared(k)
    /\ NoOneTime \notin [id : KeyIds, key : Keys \cup Others]

\* Fault: the device ids are not mixed in.
RootWithoutDevices(dhs, from, to, ephemeral) == [ikm |-> dhs, ephemeral |-> ephemeral]

Root(dhs, from, to, ephemeral) == [ikm |-> dhs, from |-> from, to |-> to, ephemeral |-> ephemeral]

-----------------------------------------------------------------------------
(* The initiator *)

\* The device publishes its current record and one-time prekeys.
Publish ==
    /\ Cardinality(bundles) < MaxBundles
    /\ bundles' = bundles \cup
           {[device |-> Responder, keyId |-> current.keyId, key |-> current.key, oneTime |-> oneTime]}
    /\ UNCHANGED <<storeVars, inits, sessions, handed>>

\* What a bundle may have become and initiate accepts.
Altered(b) ==
    {[b EXCEPT !.device = d] : d \in Others}
    \cup {[b EXCEPT !.oneTime = Put(@, id, k)] : id \in KeyIds, k \in Others}

\* What initiate accepts as one-time prekey: one of the bundle, or none.
Advertised(b) == {[id |-> id, key |-> b.oneTime[id]] : id \in DOMAIN b.oneTime} \cup {NoOneTime}

OneTimePart(o, ephemeral) == IF o = NoOneTime THEN <<>> ELSE <<DH(ephemeral, Public(o.key))>>

InitiatorDhs(e, b, o) ==
    <<DH(Initiator, Shared(b.key)), DH(e, Responder), DH(e, Shared(b.key))>> \o OneTimePart(o, e)

\* The initiator's side: what it sends, and what it mixed in besides.
Made(e, b, o) ==
    [ephemeral |-> e, keyId |-> b.keyId, key |-> b.key, oneTime |-> o, to |-> b.device,
     root |-> Root(InitiatorDhs(e, b, o), Initiator, b.device, e)]

\* Made from a bundle as it was published, as far as the init depends on it.
Genuine(i) == i.to = Responder /\ \E b \in bundles : i.oneTime \in Advertised(b)

\* The SessionInit, and the public key the caller knows for its one-time prekey.
Sent(i) == [peer |-> Initiator, ephemeral |-> i.ephemeral, keyId |-> i.keyId, oneTime |-> i.oneTime]

\* How often a bundle or an init was altered and something came of it.
TimesAltered ==
    Cardinality({i \in inits : ~Genuine(i)})
    + Cardinality({n \in DOMAIN sessions : \A i \in inits : sessions[n].init # Sent(i)})

Initiate(e, b, o) ==
    /\ \A i \in inits : i.ephemeral # e
    /\ o \in Advertised(b)
    /\ Genuine(Made(e, b, o)) \/ TimesAltered < MaxAltered
    /\ inits' = inits \cup {Made(e, b, o)}
    /\ UNCHANGED <<storeVars, bundles, sessions, handed>>

-----------------------------------------------------------------------------
(* The responder *)

\* Any keys, id and stored one-time prekey.
Anything ==
    [peer : {Initiator, Zero} \cup Others,
     ephemeral : {i.ephemeral : i \in inits} \cup {Zero} \cup Others,
     keyId : KeyIds,
     oneTime : {NoOneTime} \cup {[id |-> id, key |-> oneTime[id]] : id \in DOMAIN oneTime}]

\* What may arrive: what was sent, or anything instead.
Arrivals == {Sent(i) : i \in inits} \cup (IF TimesAltered < MaxAltered THEN Anything ELSE {})

ResponderDhs(a, key) ==
    <<DH(Shared(key), a.peer), DH(Responder, a.ephemeral), DH(Shared(key), a.ephemeral)>>
        \o OneTimePart(a.oneTime, a.ephemeral)

HasOneTime(o) == o = NoOneTime \/ Matches(o.id, o.key)

\* What answers a at time t: NotFound from either store, PublicKeyMismatch,
\* InvalidSharedSecret, or "established".
Answer(a, t) ==
    IF WithKey(a.keyId, t) = NoKey \/ ~HasOneTime(a.oneTime) THEN "PreKeyStore"
    ELSE IF \E n \in DOMAIN ResponderDhs(a, WithKey(a.keyId, t)) :
                ResponderDhs(a, WithKey(a.keyId, t))[n] = Zero
         THEN "InvalidSharedSecret"
    ELSE "established"

ResponderRoot(a, t) ==
    Root(ResponderDhs(a, WithKey(a.keyId, t)), Initiator, Responder, a.ephemeral)

Respond(a, t) ==
    /\ Answer(a, t) = "established"
    /\ Len(sessions) < MaxSessions
    /\ sessions' = Append(sessions,
           [init |-> a, key |-> WithKey(a.keyId, t), root |-> ResponderRoot(a, t)])
    /\ IF a.oneTime = NoOneTime THEN UNCHANGED <<oneTime, consumed>> ELSE Consume(a.oneTime.id)
    /\ UNCHANGED <<current, retired, made, now, promised, inserted, bundles, inits, handed>>

\* Fault: the one-time prekey is taken before the session is known to succeed.
RefuseConsumes(a, t) ==
    /\ Answer(a, t) # "established"
    /\ IF a.oneTime # NoOneTime /\ HasOneTime(a.oneTime)
       THEN Consume(a.oneTime.id) ELSE UNCHANGED <<oneTime, consumed>>
    /\ UNCHANGED <<current, retired, made, now, promised, inserted, setupVars>>

Refuse(a, t) ==
    /\ Answer(a, t) # "established"
    /\ UNCHANGED vars

-----------------------------------------------------------------------------
Init ==
    /\ StoreInit
    /\ bundles = {}
    /\ inits = {}
    /\ sessions = <<>>
    /\ handed = {}

\* The device's own use of its stores.
Maintain ==
    /\ StoreNext
    /\ handed' = handed \cup (consumed' \ consumed)
    /\ UNCHANGED <<bundles, inits, sessions>>

Next ==
    \/ Maintain
    \/ Publish
    \/ \E e \in Ephemerals, published \in bundles :
        \E b \in {published} \cup Altered(published) : \E o \in Advertised(b) : Initiate(e, b, o)
    \/ \E a \in Arrivals, t \in Readings : Respond(a, t) \/ Refuse(a, t)

Spec == Init /\ [][Next]_vars

-----------------------------------------------------------------------------
(* Properties *)

Used == {sessions[n].init.oneTime : n \in DOMAIN sessions} \ {NoOneTime}
UsedKeys == {o.key : o \in Used}
Spent(o) == o \in Used \/ (o # NoOneTime /\ o.key \in handed)

\* An init made from a bundle as published is answered with the initiator's root
\* if it arrives as sent while its signed prekey is in use or in its grace period
\* and its one-time prekey has not been consumed: other inits, refused ones and
\* rotations do not get in the way.
InitAnswered ==
    \A i \in inits :
        /\ Genuine(i)
        /\ \/ current.keyId = i.keyId /\ current.key = i.key
           \/ \E p \in promised : p.keyId = i.keyId /\ p.key = i.key /\ now < p.until
        /\ ~Spent(i.oneTime)
        => Answer(Sent(i), now) = "established" /\ ResponderRoot(Sent(i), now) = i.root

\* Every one-time prekey ever inserted is in the store, was taken by the device,
\* or was used by a session, exactly one of these and by one session: a session
\* that fails costs none, and no key is found again once it was given away.
OneTimeKeysAccounted ==
    /\ inserted = ValuesOf(oneTime) \cup handed \cup UsedKeys
    /\ ValuesOf(oneTime) \cap (handed \cup UsedKeys) = {}
    /\ handed \cap UsedKeys = {}
    /\ \A m, n \in DOMAIN sessions :
           /\ sessions[m].init.oneTime # NoOneTime
           /\ sessions[m].init.oneTime = sessions[n].init.oneTime
           => m = n

\* The one-time prekey both sides use, if there is one.
KeysOf(o) == IF o = NoOneTime THEN {} ELSE {o.key}

\* A session of the responder and an initiator hold the same root exactly if both
\* used the same keys and the initiator meant this device: whatever is changed in
\* a bundle or an init, or a signed prekey's id that names another key by now,
\* leaves them with different roots, never with one that only seems to be shared.
RootsAgree ==
    \A n \in DOMAIN sessions, i \in inits :
        sessions[n].root = i.root <=>
            /\ sessions[n].init.peer = Initiator
            /\ sessions[n].init.ephemeral = i.ephemeral
            /\ sessions[n].key = i.key
            /\ KeysOf(sessions[n].init.oneTime) = KeysOf(i.oneTime)
            /\ i.to = Responder
=============================================================================
