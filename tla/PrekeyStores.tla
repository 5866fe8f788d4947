---------------------------- MODULE PrekeyStores ----------------------------
(***************************************************************************)
(* The private prekeys of a device (core/identity/src/prekeys.rs): the     *)
(* signed prekey in use with the retired ones in their grace period, and   *)
(* the one-time prekeys.  Every operation holds the lock of its store; the *)
(* time it is given was read before, so it may be behind the clock.        *)
(* Generated keys are numbers.  No operation panics under a lock, so the   *)
(* locks are never poisoned.                                               *)
(***************************************************************************)
EXTENDS Integers, FiniteSets

CONSTANTS
    KeyIds,         \* key ids the device uses
    FirstKeyId,     \* the id of the first signed prekey
    MaxRetired,     \* MAX_RETIRED_SIGNED_PREKEYS
    Graces,         \* grace periods rotate is called with
    MaxMs,          \* u64::MAX
    NoKey,          \* with_key finds nothing
    MaxTime,        \* bound of the model: the last reading of the clock
    MaxKeys         \* bound of the model: the keys the device generates

ASSUME StoreBounds ==
    /\ FirstKeyId \in KeyIds /\ MaxRetired \in Nat /\ Graces \subseteq Nat
    /\ MaxMs \in Nat /\ MaxTime \in 0 .. MaxMs /\ MaxKeys \in Nat \ {0}

Keys == 1 .. MaxKeys

ASSUME NoKeyIsNoKey == NoKey \notin Keys

VARIABLES
    current,    \* the signed prekey in use: [keyId, createdAt, key]
    retired,    \* key id -> [key, expiresAt]
    oneTime,    \* key id -> one-time prekey
    made,       \* how many keys have been generated
    now,        \* the clock
    promised,   \* history: [keyId, key, until] of the keys rotated out
    inserted,   \* history: one-time prekeys ever inserted
    consumed    \* history: one-time prekeys given to a caller or a session

storeVars == <<current, retired, oneTime, made, now, promised, inserted, consumed>>

Only(f, ids)   == [id \in DOMAIN f \cap ids |-> f[id]]
Put(f, id, v)  == [x \in DOMAIN f \cup {id} |-> IF x = id THEN v ELSE f[x]]
ValuesOf(f)    == {f[id] : id \in DOMAIN f}
Readings       == {t \in {now - 1, now} : t >= 0}

-----------------------------------------------------------------------------
(* SignedPrekeyStore *)

\* Fault: a retired key is dropped once it has been retired for a tick.
InGraceShort(t) == {id \in DOMAIN retired : t + 1 < retired[id].expiresAt}

InGrace(t) == {id \in DOMAIN retired : t < retired[id].expiresAt}

\* with_key: the key the operation is run with.
WithKey(id, t) ==
    IF id = current.keyId THEN current.key
    ELSE IF id \in InGrace(t) THEN retired[id].key
    ELSE NoKey

\* Fault: the size of the grace set is not checked.
RotatableAlways(id, t, grace) ==
    id # current.keyId /\ id \notin InGrace(t) /\ t >= current.createdAt /\ t + grace <= MaxMs

\* Not DuplicateKeyId, InvalidTime, RetiredCapacity or GenerationOverflow.
Rotatable(id, t, grace) ==
    /\ id # current.keyId /\ id \notin InGrace(t)
    /\ t >= current.createdAt
    /\ Cardinality(InGrace(t)) < MaxRetired
    /\ t + grace <= MaxMs

Rotate(id, t, grace) ==
    /\ Rotatable(id, t, grace)
    /\ made < MaxKeys
    /\ made' = made + 1
    /\ current' = [keyId |-> id, createdAt |-> t, key |-> made + 1]
    /\ retired' = Put(Only(retired, InGrace(t)), current.keyId,
                      [key |-> current.key, expiresAt |-> t + grace])
    /\ promised' = promised \cup
           {[keyId |-> current.keyId, key |-> current.key, until |-> t + grace]}
    /\ UNCHANGED <<oneTime, now, inserted, consumed>>

\* A refused rotation has pruned already.
RotateRefused(id, t, grace) ==
    /\ ~Rotatable(id, t, grace)
    /\ retired' = Only(retired, InGrace(t))
    /\ UNCHANGED <<current, oneTime, made, now, promised, inserted, consumed>>

Prune(t) ==
    /\ retired' = Only(retired, InGrace(t))
    /\ UNCHANGED <<current, oneTime, made, now, promised, inserted, consumed>>

-----------------------------------------------------------------------------
(* OneTimePrekeyStore *)

Insert(id) ==
    /\ id \notin DOMAIN oneTime
    /\ made < MaxKeys
    /\ made' = made + 1
    /\ oneTime' = Put(oneTime, id, made + 1)
    /\ inserted' = inserted \cup {made + 1}
    /\ UNCHANGED <<current, retired, now, promised, consumed>>

Matches(id, key) == id \in DOMAIN oneTime /\ oneTime[id] = key

\* Fault: the key stays in the store.
ConsumeKeeps(id) ==
    /\ consumed' = consumed \cup {oneTime[id]}
    /\ UNCHANGED oneTime

Consume(id) ==
    /\ consumed' = consumed \cup {oneTime[id]}
    /\ oneTime' = Only(oneTime, KeyIds \ {id})

Take(id) ==
    /\ id \in DOMAIN oneTime
    /\ Consume(id)
    /\ UNCHANGED <<current, retired, made, now, promised, inserted>>

TakeMatching(id, key) ==
    /\ Matches(id, key)
    /\ Consume(id)
    /\ UNCHANGED <<current, retired, made, now, promised, inserted>>

Tick ==
    /\ now < MaxTime
    /\ now' = now + 1
    /\ UNCHANGED <<current, retired, oneTime, made, promised, inserted, consumed>>

-----------------------------------------------------------------------------
StoreInit ==
    /\ now = 0
    /\ made = 1
    /\ current = [keyId |-> FirstKeyId, createdAt |-> now, key |-> 1]
    /\ retired = [id \in {} |-> NoKey]
    /\ oneTime = [id \in {} |-> NoKey]
    /\ promised = {}
    /\ inserted = {}
    /\ consumed = {}

StoreNext ==
    \/ \E id \in KeyIds, t \in Readings, grace \in Graces :
        Rotate(id, t, grace) \/ RotateRefused(id, t, grace)
    \/ \E t \in Readings : Prune(t)
    \/ \E id \in KeyIds : Insert(id) \/ Take(id)
    \/ \E id \in KeyIds, key \in Keys : TakeMatching(id, key)
    \/ Tick

-----------------------------------------------------------------------------
(* Properties *)

\* Types; the grace set is bounded and never holds the id in use.
StoreTypeOK ==
    /\ current \in [keyId : KeyIds, createdAt : Nat, key : Keys]
    /\ DOMAIN retired \subseteq KeyIds \ {current.keyId}
    /\ Cardinality(DOMAIN retired) <= MaxRetired
    /\ ValuesOf(retired) \subseteq [key : Keys, expiresAt : 0 .. MaxMs]
    /\ DOMAIN oneTime \subseteq KeyIds /\ ValuesOf(oneTime) \subseteq Keys
    /\ made \in Keys /\ now \in 0 .. MaxTime
    /\ promised \subseteq [keyId : KeyIds, key : Keys, until : 0 .. MaxMs]
    /\ inserted \subseteq Keys /\ consumed \subseteq Keys

\* A key rotated out is found under its id until its grace period is over,
\* whatever is rotated, pruned or refused meanwhile.
GraceHonoured ==
    \A p \in promised : now < p.until => WithKey(p.keyId, now) = p.key
=============================================================================
