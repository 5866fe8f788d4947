------------------------- MODULE SessionSetupProofs -------------------------
(***************************************************************************)
(* Proofs about the prekey stores and session establishment: for every set *)
(* of key ids, every grace period, capacity, clock and number of bundles,  *)
(* inits and sessions.                                                     *)
(*                                                                         *)
(* Two facts carry the proofs.  A promise of a grace period that is not    *)
(* over is an entry of the grace set, under an id that is not in use       *)
(* (PromisesKept): pruning with a reading behind the clock keeps more, and *)
(* rotate refuses an id whose grace period runs.  And a one-time prekey    *)
(* has one id wherever it is named, in the store, a bundle as published or *)
(* a session (OneIdPerKey), because insert gives every id a new key.       *)
(***************************************************************************)
EXTENDS SessionSetup, FiniteSetTheorems, SequenceTheorems, TLAPS

\* A one-time prekey under its id, the device's or one that came in its place.
Pairs      == [id : KeyIds, key : Keys]
PairsOf(f) == {[id |-> id, key |-> f[id]] : id \in DOMAIN f}
AnyOneTime == Pairs \cup [id : KeyIds, key : Others] \cup {NoOneTime}

\* The stores of prekeys: functions on some ids.
Maps(V)       == UNION {[S -> V] : S \in SUBSET KeyIds}
OneTimeStores == Maps(Keys)
GraceEntry    == [key : Keys, expiresAt : 0 .. MaxMs]
GraceSets     == Maps(GraceEntry)

\* Bundles as published, and as initiate takes them.
Bundles    == [device : {Responder}, keyId : KeyIds, key : Keys, oneTime : OneTimeStores]
AnyBundles == [device : {Responder} \cup Others, keyId : KeyIds, key : Keys,
               oneTime : Maps(Keys \cup Others)]

\* What an initiator made, with the root of its inputs.
IsInit(i) ==
    /\ i.ephemeral \in Ephemerals /\ i.keyId \in KeyIds /\ i.key \in Keys
    /\ i.oneTime \in AnyOneTime /\ i.to \in {Responder} \cup Others
    /\ i.root = Root(ResponderDhs(Sent(i), i.key), Initiator, i.to, i.ephemeral)

\* What a responder answers, and what it stores for it.
Answered == [peer : {Initiator, Zero} \cup Others, ephemeral : Ephemerals \cup {Zero} \cup Others,
             keyId : KeyIds, oneTime : Pairs \cup {NoOneTime}]

SessionOf(a, key) ==
    [init |-> a, key |-> key,
     root |-> Root(ResponderDhs(a, key), Initiator, Responder, a.ephemeral)]

Established == {SessionOf(a, key) : a \in Answered, key \in Keys}

\* Types of the stores, stronger than StoreTypeOK: the functions are functions,
\* the grace set is finite.
StoresTyped ==
    /\ current \in [keyId : KeyIds, createdAt : Nat, key : Keys]
    /\ retired \in GraceSets /\ current.keyId \notin DOMAIN retired
    /\ IsFiniteSet(DOMAIN retired) /\ Cardinality(DOMAIN retired) <= MaxRetired
    /\ oneTime \in OneTimeStores
    /\ made \in Keys /\ now \in 0 .. MaxTime
    /\ promised \subseteq [keyId : KeyIds, key : Keys, until : 0 .. MaxMs]
    /\ inserted \subseteq 1 .. made /\ consumed \subseteq Keys

\* Bundles, inits and sessions; every init carries the root of its inputs.
SetupTyped ==
    /\ bundles \subseteq Bundles
    /\ \A i \in inits : IsInit(i)
    /\ sessions \in Seq(Established)
    /\ handed \subseteq Keys

\* A grace period that is not over is an entry of the grace set.
PromisesKept ==
    \A p \in promised : now < p.until =>
        /\ p.keyId \in DOMAIN retired
        /\ retired[p.keyId] = [key |-> p.key, expiresAt |-> p.until]

\* The one-time prekeys the device, a bundle or a session names.
OfBundles == UNION {PairsOf(b.oneTime) : b \in bundles}
Named     == PairsOf(oneTime) \cup OfBundles \cup Used

\* Each of them was inserted, and a key has one id.
OneIdPerKey ==
    /\ \A o \in Named : o.key \in inserted
    /\ \A o, u \in Named : o.key = u.key => o = u

\* What was consumed was handed to the device or used by a session.
ConsumedAccounted == consumed = handed \cup UsedKeys
Accounts          == OneTimeKeysAccounted /\ ConsumedAccounted

SetupInv ==
    /\ StoresTyped
    /\ SetupTyped
    /\ PromisesKept
    /\ OneIdPerKey
    /\ Accounts

-----------------------------------------------------------------------------
(* The maps of the stores *)

\* A map is a function on its domain, with values in V.
LEMMA MapFacts ==
    ASSUME NEW V, NEW f \in Maps(V)
    PROVE  DOMAIN f \subseteq KeyIds /\ f \in [DOMAIN f -> V]
BY DEF Maps

\* insert puts one entry (HashMap::insert).
LEMMA PutFacts ==
    ASSUME NEW f, NEW k, NEW v
    PROVE  /\ DOMAIN Put(f, k, v) = DOMAIN f \cup {k}
           /\ Put(f, k, v)[k] = v
           /\ \A x \in DOMAIN f \ {k} : Put(f, k, v)[x] = f[x]
BY DEF Put

LEMMA PutTyped ==
    ASSUME NEW V, NEW f \in Maps(V), NEW k \in KeyIds, NEW v \in V
    PROVE  Put(f, k, v) \in Maps(V)
<1>1. DOMAIN f \subseteq KeyIds /\ f \in [DOMAIN f -> V]
  BY MapFacts
<1>2. Put(f, k, v) \in [DOMAIN f \cup {k} -> V]
  BY <1>1 DEF Put
<1>3. DOMAIN f \cup {k} \in SUBSET KeyIds
  BY <1>1
<1> QED BY <1>2, <1>3 DEF Maps

\* retain and remove keep the other entries as they are.
LEMMA OnlyFacts ==
    ASSUME NEW f, NEW ids
    PROVE  /\ DOMAIN Only(f, ids) = DOMAIN f \cap ids
           /\ \A x \in DOMAIN f \cap ids : Only(f, ids)[x] = f[x]
BY DEF Only

LEMMA OnlyTyped ==
    ASSUME NEW V, NEW f \in Maps(V), NEW ids
    PROVE  Only(f, ids) \in Maps(V)
<1>1. DOMAIN f \subseteq KeyIds /\ f \in [DOMAIN f -> V]
  BY MapFacts
<1>2. Only(f, ids) \in [DOMAIN f \cap ids -> V]
  BY <1>1 DEF Only
<1>3. DOMAIN f \cap ids \in SUBSET KeyIds
  BY <1>1
<1> QED BY <1>2, <1>3 DEF Maps

\* Diffie-Hellman does not tell the sides apart.
LEMMA SameDhs ==
    ASSUME NEW e, NEW b, NEW o, NEW a, a.peer = Initiator, a.ephemeral = e, a.oneTime = o
    PROVE  InitiatorDhs(e, b, o) = ResponderDhs(a, b.key)
<1>1. \A x, y : DH(x, y) = DH(y, x)
  BY DEF DH
<1>2. DH(Initiator, Shared(b.key)) = DH(Shared(b.key), Initiator)
  BY <1>1
<1>3. DH(e, Responder) = DH(Responder, e)
  BY <1>1
<1>4. DH(e, Shared(b.key)) = DH(Shared(b.key), e)
  BY <1>1
<1> QED BY <1>2, <1>3, <1>4 DEF InitiatorDhs, ResponderDhs

-----------------------------------------------------------------------------
(* The stores keep their types *)

\* A consume removes the entry of one id and gives its key away.
Gives(id) ==
    /\ id \in DOMAIN oneTime
    /\ Consume(id)

\* What a session does to the one-time prekeys: nothing, or one is consumed,
\* the one the init names.
LEMMA RespondConsumes ==
    ASSUME NEW i, NEW t, Respond(i, t)
    PROVE  /\ WithKey(i.keyId, t) # NoKey
           /\ \/ i.oneTime = NoOneTime /\ UNCHANGED <<oneTime, consumed>>
              \/ /\ i.oneTime # NoOneTime /\ Gives(i.oneTime.id)
                 /\ oneTime[i.oneTime.id] = i.oneTime.key
BY DEF Respond, Answer, HasOneTime, Matches, Gives

\* The ids in grace are some of the retired ones.
LEMMA GraceSubset ==
    ASSUME NEW t
    PROVE  InGrace(t) \subseteq DOMAIN retired
BY DEF InGrace

\* The key found under an id is a key or nothing.
LEMMA WithKeyTyped ==
    ASSUME StoresTyped, NEW id, NEW t, WithKey(id, t) # NoKey
    PROVE  WithKey(id, t) \in Keys
<1>1. CASE id = current.keyId
  BY <1>1 DEF WithKey, StoresTyped
<1>2. CASE id # current.keyId
  <2>1. id \in InGrace(t) /\ WithKey(id, t) = retired[id].key
    BY <1>2 DEF WithKey
  <2>2. id \in DOMAIN retired /\ retired \in [DOMAIN retired -> GraceEntry]
    BY <2>1, GraceSubset, MapFacts DEF StoresTyped, GraceSets
  <2> QED BY <2>1, <2>2 DEF GraceEntry
<1> QED BY <1>1, <1>2

\* Pruning, alone or by a rotation, keeps the grace set a bounded map that does
\* not hold the id in use.
LEMMA PruneTyped ==
    ASSUME StoresTyped, NEW t
    PROVE  /\ Only(retired, InGrace(t)) \in GraceSets
           /\ DOMAIN Only(retired, InGrace(t)) = InGrace(t)
           /\ IsFiniteSet(InGrace(t)) /\ Cardinality(InGrace(t)) <= Cardinality(DOMAIN retired)
           /\ InGrace(t) \subseteq KeyIds \ {current.keyId}
           /\ \A id \in InGrace(t) : Only(retired, InGrace(t))[id] = retired[id]
<1>1. InGrace(t) \subseteq DOMAIN retired /\ DOMAIN retired \cap InGrace(t) = InGrace(t)
  BY GraceSubset
<1>2. DOMAIN retired \subseteq KeyIds
  BY MapFacts DEF StoresTyped, GraceSets
<1>3. IsFiniteSet(InGrace(t)) /\ Cardinality(InGrace(t)) <= Cardinality(DOMAIN retired)
  BY <1>1, FS_Subset DEF StoresTyped
<1>4. retired \in Maps(GraceEntry) /\ current.keyId \notin DOMAIN retired
  BY DEF StoresTyped, GraceSets
<1>5. /\ Only(retired, InGrace(t)) \in Maps(GraceEntry)
      /\ DOMAIN Only(retired, InGrace(t)) = DOMAIN retired \cap InGrace(t)
      /\ \A id \in DOMAIN retired \cap InGrace(t) : Only(retired, InGrace(t))[id] = retired[id]
  BY <1>4, OnlyFacts, OnlyTyped
<1> QED BY <1>1, <1>2, <1>3, <1>4, <1>5 DEF GraceSets

LEMMA RotateTyped ==
    ASSUME StoresTyped, NEW id \in KeyIds, NEW t \in Readings, NEW grace \in Graces,
           Rotate(id, t, grace)
    PROVE  StoresTyped'
<1> DEFINE kept == Only(retired, InGrace(t))
           old  == [key |-> current.key, expiresAt |-> t + grace]
<1>1. t \in Nat /\ grace \in Nat /\ t + grace \in 0 .. MaxMs
  BY StoreBounds DEF Readings, StoresTyped, Rotate, Rotatable
<1>2. old \in GraceEntry /\ current.keyId \in KeyIds
  <2>1. current.key \in Keys /\ current.keyId \in KeyIds
    BY DEF StoresTyped
  <2> QED BY <1>1, <2>1 DEF GraceEntry
<1>3. /\ kept \in GraceSets /\ DOMAIN kept = InGrace(t)
      /\ IsFiniteSet(InGrace(t)) /\ InGrace(t) \subseteq KeyIds \ {current.keyId}
  BY PruneTyped
<1>4. retired' = Put(kept, current.keyId, old)
  BY DEF Rotate
<1> HIDE DEF kept, old
<1>5. retired' \in GraceSets /\ DOMAIN retired' = InGrace(t) \cup {current.keyId}
  <2>1. Put(kept, current.keyId, old) \in GraceSets
    BY <1>2, <1>3, PutTyped DEF GraceSets
  <2>2. DOMAIN Put(kept, current.keyId, old) = InGrace(t) \cup {current.keyId}
    BY <1>3 DEF Put
  <2> QED BY <1>4, <2>1, <2>2
<1>6. IsFiniteSet(DOMAIN retired') /\ Cardinality(DOMAIN retired') <= MaxRetired
  <2>1. Cardinality(InGrace(t)) < MaxRetired
    BY DEF Rotate, Rotatable
  <2>2. Cardinality(InGrace(t)) \in Nat
    BY <1>3, FS_CardinalityType
  <2>3. /\ IsFiniteSet(InGrace(t) \cup {current.keyId})
        /\ Cardinality(InGrace(t) \cup {current.keyId}) = Cardinality(InGrace(t)) + 1
    BY <1>3, FS_AddElement
  <2> QED BY <1>5, <2>1, <2>2, <2>3, StoreBounds
<1>7. current' \in [keyId : KeyIds, createdAt : Nat, key : Keys] /\ current'.keyId = id
      /\ made' \in Keys /\ made \in Nat /\ made' = made + 1
  BY <1>1, StoreBounds DEF Rotate, StoresTyped, Keys
<1>8. current'.keyId \notin DOMAIN retired'
  BY <1>5, <1>7 DEF Rotate, Rotatable
<1>9. promised' \subseteq [keyId : KeyIds, key : Keys, until : 0 .. MaxMs]
  BY <1>1 DEF Rotate, StoresTyped
<1>10. UNCHANGED <<oneTime, now, inserted, consumed>> /\ inserted' \subseteq 1 .. made'
  BY <1>7 DEF Rotate, StoresTyped
<1> QED BY <1>5, <1>6, <1>7, <1>8, <1>9, <1>10 DEF StoresTyped

LEMMA PrunedTyped ==
    ASSUME StoresTyped, NEW t,
           retired' = Only(retired, InGrace(t)),
           UNCHANGED <<current, oneTime, made, now, promised, inserted, consumed>>
    PROVE  StoresTyped'
<1>1. /\ retired' \in GraceSets /\ DOMAIN retired' = InGrace(t)
      /\ IsFiniteSet(InGrace(t)) /\ Cardinality(InGrace(t)) <= Cardinality(DOMAIN retired)
      /\ InGrace(t) \subseteq KeyIds \ {current.keyId}
  BY PruneTyped
<1>2. Cardinality(InGrace(t)) \in Nat /\ Cardinality(DOMAIN retired) \in Nat
  BY <1>1, FS_CardinalityType DEF StoresTyped
<1>3. Cardinality(DOMAIN retired') <= MaxRetired
  BY <1>1, <1>2, StoreBounds DEF StoresTyped
<1> QED BY <1>1, <1>3 DEF StoresTyped

LEMMA InsertTyped ==
    ASSUME StoresTyped, NEW id \in KeyIds, Insert(id)
    PROVE  StoresTyped'
<1>1. made' \in Keys /\ made' = made + 1 /\ made \in Nat
  BY StoreBounds DEF Insert, StoresTyped, Keys
<1>2. oneTime' \in OneTimeStores
  BY <1>1, PutTyped DEF Insert, StoresTyped, OneTimeStores
<1>3. inserted' \subseteq 1 .. made'
  <2>1. inserted' = inserted \cup {made + 1} /\ inserted \subseteq 1 .. made
    BY DEF Insert, StoresTyped
  <2> QED BY <1>1, <2>1
<1> QED BY <1>1, <1>2, <1>3 DEF Insert, StoresTyped

LEMMA GivesTyped ==
    ASSUME StoresTyped, NEW id, Gives(id),
           UNCHANGED <<current, retired, made, now, promised, inserted>>
    PROVE  StoresTyped'
<1>1. oneTime[id] \in Keys
  BY MapFacts DEF Gives, StoresTyped, OneTimeStores
<1>2. oneTime' \in OneTimeStores
  BY OnlyTyped DEF Gives, Consume, StoresTyped, OneTimeStores
<1> QED BY <1>1, <1>2 DEF Gives, Consume, StoresTyped

\* The kinds of step, and what each of them leaves alone.
Keeps == UNCHANGED <<current, retired, oneTime, made, promised, inserted, consumed, now>>

\* Every operation keeps the types of the stores.
LEMMA StoresTypedNext ==
    ASSUME StoresTyped, [Next]_vars
    PROVE  StoresTyped'
<1>1. ASSUME NEW id \in KeyIds, NEW t \in Readings, NEW grace \in Graces,
             Rotate(id, t, grace) \/ RotateRefused(id, t, grace)
      PROVE  StoresTyped'
  BY <1>1, RotateTyped, PrunedTyped DEF RotateRefused
<1>2. ASSUME NEW t, Prune(t) PROVE StoresTyped'
  BY <1>2, PrunedTyped DEF Prune
<1>3. ASSUME NEW id \in KeyIds, Insert(id) PROVE StoresTyped'
  BY <1>3, InsertTyped
<1>4. ASSUME NEW id, Take(id) PROVE StoresTyped'
  BY <1>4, GivesTyped DEF Take, Gives
<1>5. ASSUME NEW id, NEW key, TakeMatching(id, key) PROVE StoresTyped'
  BY <1>5, GivesTyped DEF TakeMatching, Matches, Gives
<1>6. CASE Tick
  BY <1>6, StoreBounds DEF Tick, StoresTyped
<1>7. CASE Keeps
  BY <1>7 DEF Keeps, StoresTyped
<1>8. ASSUME NEW i, NEW t, Respond(i, t) PROVE StoresTyped'
  <2>1. UNCHANGED <<current, retired, made, now, promised, inserted>>
    BY <1>8 DEF Respond
  <2>2. CASE UNCHANGED <<oneTime, consumed>>
    BY <2>1, <2>2 DEF StoresTyped
  <2>3. CASE Gives(i.oneTime.id)
    BY <2>1, <2>3, GivesTyped
  <2> QED BY <1>8, <2>2, <2>3, RespondConsumes
<1>9. Maintain => StoresTyped'
  BY <1>1, <1>2, <1>3, <1>4, <1>5, <1>6 DEF Maintain, StoreNext
<1>10. Publish \/ (\E e, b, o : Initiate(e, b, o)) \/ (\E a, t : Refuse(a, t)) \/ UNCHANGED vars => Keeps
  BY DEF Publish, Initiate, Refuse, vars, storeVars, Keeps
<1> QED BY <1>7, <1>8, <1>9, <1>10 DEF Next

-----------------------------------------------------------------------------
(* Bundles, inits and sessions *)

\* What initiate works from is well-typed, altered or not.
LEMMA AlteredTyped ==
    ASSUME NEW p \in Bundles, NEW b \in {p} \cup Altered(p)
    PROVE  b \in AnyBundles
<1>1. p \in AnyBundles
  <2>1. Maps(Keys) \subseteq Maps(Keys \cup Others)
    BY DEF Maps
  <2> QED BY <2>1 DEF Bundles, AnyBundles, OneTimeStores
<1>2. ASSUME NEW d \in Others, b = [p EXCEPT !.device = d] PROVE b \in AnyBundles
  BY <1>1, <1>2 DEF AnyBundles
<1>3. ASSUME NEW id \in KeyIds, NEW k \in Others, b = [p EXCEPT !.oneTime = Put(p.oneTime, id, k)]
      PROVE  b \in AnyBundles
  <2>1. p.oneTime \in Maps(Keys \cup Others) /\ k \in Keys \cup Others
    BY <1>1 DEF AnyBundles
  <2>2. Put(p.oneTime, id, k) \in Maps(Keys \cup Others)
    BY <2>1, PutTyped
  <2> QED BY <1>1, <1>3, <2>2 DEF AnyBundles
<1> QED BY <1>1, <1>2, <1>3 DEF Altered

\* What initiate accepts as one-time prekey is a pair of an id and a key, or none.
LEMMA AdvertisedTyped ==
    ASSUME NEW b \in AnyBundles, NEW o \in Advertised(b)
    PROVE  o \in AnyOneTime
<1>1. b.oneTime \in Maps(Keys \cup Others)
  BY DEF AnyBundles
<1>2. DOMAIN b.oneTime \subseteq KeyIds /\ b.oneTime \in [DOMAIN b.oneTime -> Keys \cup Others]
  BY <1>1, MapFacts
<1>3. CASE o = NoOneTime
  BY <1>3 DEF AnyOneTime
<1>4. ASSUME NEW id \in DOMAIN b.oneTime, o = [id |-> id, key |-> b.oneTime[id]] PROVE o \in AnyOneTime
  <2>1. id \in KeyIds /\ (b.oneTime[id] \in Keys \/ b.oneTime[id] \in Others)
    BY <1>2
  <2> QED BY <1>4, <2>1 DEF AnyOneTime, Pairs
<1> QED BY <1>3, <1>4 DEF Advertised

\* An initiator's init carries the root of its inputs.
LEMMA InitiateFacts ==
    ASSUME bundles \subseteq Bundles, NEW e \in Ephemerals, NEW p \in bundles,
           NEW b \in {p} \cup Altered(p), NEW o \in Advertised(b), Initiate(e, b, o)
    PROVE  /\ inits' = inits \cup {Made(e, b, o)}
           /\ IsInit(Made(e, b, o))
           /\ UNCHANGED <<storeVars, bundles, sessions, handed>>
<1>1. b \in AnyBundles /\ o \in AnyOneTime
  <2>1. b \in AnyBundles
    BY AlteredTyped
  <2> QED BY <2>1, AdvertisedTyped
<1>2. PICK i : i = Made(e, b, o)
  OBVIOUS
<1>3. /\ i.ephemeral = e /\ i.keyId = b.keyId /\ i.key = b.key /\ i.oneTime = o /\ i.to = b.device
      /\ i.root = Root(InitiatorDhs(e, b, o), Initiator, b.device, e)
  BY <1>2 DEF Made
<1>4. Sent(i).peer = Initiator /\ Sent(i).ephemeral = e /\ Sent(i).oneTime = o
  BY <1>3 DEF Sent
<1>5. InitiatorDhs(e, b, o) = ResponderDhs(Sent(i), b.key)
  BY <1>4, SameDhs
<1>6. b.keyId \in KeyIds /\ b.key \in Keys /\ b.device \in {Responder} \cup Others
  BY <1>1 DEF AnyBundles
<1>7. IsInit(i)
  BY <1>1, <1>3, <1>5, <1>6 DEF IsInit
<1> QED BY <1>2, <1>7 DEF Initiate

\* A one-time prekey that is found in the store is one of the device's.
LEMMA FoundTyped ==
    ASSUME StoresTyped, NEW o \in AnyOneTime, HasOneTime(o)
    PROVE  /\ o \in Pairs \cup {NoOneTime}
           /\ o # NoOneTime => o \in PairsOf(oneTime)
<1>1. CASE o = NoOneTime
  BY <1>1
<1>2. CASE o # NoOneTime
  <2>1. o.id \in DOMAIN oneTime /\ oneTime[o.id] = o.key
    BY <1>2 DEF HasOneTime, Matches
  <2>2. oneTime[o.id] \in Keys
    BY <2>1, MapFacts DEF StoresTyped, OneTimeStores
  <2>3. o \in Pairs
    BY <1>2, <2>1, <2>2, Degenerate DEF AnyOneTime
  <2>4. o = [id |-> o.id, key |-> oneTime[o.id]]
    BY <2>1, <2>3 DEF Pairs
  <2> QED BY <2>1, <2>3, <2>4 DEF PairsOf
<1> QED BY <1>1, <1>2

\* What arrives is made of some keys, an id and a one-time prekey.
LEMMA ArrivalFields ==
    ASSUME StoresTyped, SetupTyped, NEW a \in Arrivals
    PROVE  /\ a = [peer |-> a.peer, ephemeral |-> a.ephemeral, keyId |-> a.keyId, oneTime |-> a.oneTime]
           /\ a.peer \in {Initiator, Zero} \cup Others
           /\ a.ephemeral \in Ephemerals \cup {Zero} \cup Others
           /\ a.keyId \in KeyIds /\ a.oneTime \in AnyOneTime
<1>1. ASSUME NEW i \in inits, a = Sent(i)
      PROVE  /\ a = [peer |-> a.peer, ephemeral |-> a.ephemeral, keyId |-> a.keyId, oneTime |-> a.oneTime]
             /\ a.peer = Initiator /\ a.ephemeral = i.ephemeral
             /\ a.keyId = i.keyId /\ a.oneTime = i.oneTime /\ IsInit(i)
  BY <1>1 DEF Sent, SetupTyped
<1>2. CASE a \in Anything
  <2>1. /\ a = [peer |-> a.peer, ephemeral |-> a.ephemeral, keyId |-> a.keyId, oneTime |-> a.oneTime]
        /\ a.peer \in {Initiator, Zero} \cup Others
        /\ a.ephemeral \in {i.ephemeral : i \in inits} \cup {Zero} \cup Others
        /\ a.keyId \in KeyIds
        /\ a.oneTime \in {NoOneTime} \cup {[id |-> id, key |-> oneTime[id]] : id \in DOMAIN oneTime}
    BY <1>2 DEF Anything
  <2>2. \A i \in inits : i.ephemeral \in Ephemerals
    BY DEF SetupTyped, IsInit
  <2>3. DOMAIN oneTime \subseteq KeyIds /\ \A id \in DOMAIN oneTime : oneTime[id] \in Keys
    BY MapFacts DEF StoresTyped, OneTimeStores
  <2>4. a.oneTime \in AnyOneTime
    BY <2>1, <2>3 DEF AnyOneTime, Pairs
  <2> QED BY <2>1, <2>2, <2>4
<1>3. CASE \E i \in inits : a = Sent(i)
  BY <1>1, <1>3 DEF IsInit
<1> QED BY <1>2, <1>3 DEF Arrivals

\* A session is made of what arrived and of the signed prekey found for it.
LEMMA RespondFacts ==
    ASSUME StoresTyped, SetupTyped, NEW a \in Arrivals, NEW t, Respond(a, t)
    PROVE  /\ a \in Answered
           /\ a.oneTime # NoOneTime => a.oneTime \in PairsOf(oneTime)
           /\ WithKey(a.keyId, t) \in Keys
           /\ sessions' = Append(sessions, SessionOf(a, WithKey(a.keyId, t)))
<1>1. /\ a = [peer |-> a.peer, ephemeral |-> a.ephemeral, keyId |-> a.keyId, oneTime |-> a.oneTime]
      /\ a.peer \in {Initiator, Zero} \cup Others
      /\ a.ephemeral \in Ephemerals \cup {Zero} \cup Others
      /\ a.keyId \in KeyIds /\ a.oneTime \in AnyOneTime
  BY ArrivalFields
<1>2. HasOneTime(a.oneTime)
  BY DEF Respond, Answer
<1>3. /\ a.oneTime \in Pairs \cup {NoOneTime}
      /\ a.oneTime # NoOneTime => a.oneTime \in PairsOf(oneTime)
  BY <1>1, <1>2, FoundTyped
<1>4. a \in Answered
  BY <1>1, <1>3 DEF Answered
<1>5. WithKey(a.keyId, t) \in Keys
  BY RespondConsumes, WithKeyTyped
<1>6. sessions' = Append(sessions, SessionOf(a, WithKey(a.keyId, t)))
  BY DEF Respond, SessionOf, ResponderRoot
<1> QED BY <1>3, <1>4, <1>5, <1>6

\* What a step does to bundles, inits and sessions.
SameSetup == UNCHANGED <<bundles, inits, sessions, handed>>

\* A step is one of these.
LEMMA StepKinds ==
    ASSUME Next
    PROVE  \/ Maintain
           \/ Publish
           \/ \E e \in Ephemerals, p \in bundles :
                \E b \in {p} \cup Altered(p) : \E o \in Advertised(b) : Initiate(e, b, o)
           \/ \E a \in Arrivals, t \in Readings : Respond(a, t)
           \/ UNCHANGED vars
BY DEF Next, Refuse

\* Every operation keeps the types of bundles, inits and sessions.
LEMMA SetupTypedNext ==
    ASSUME StoresTyped, StoresTyped', SetupTyped, [Next]_vars
    PROVE  SetupTyped'
<1>1. CASE Maintain
  <2>1. UNCHANGED <<bundles, inits, sessions>> /\ handed' = handed \cup (consumed' \ consumed)
    BY <1>1 DEF Maintain
  <2>2. handed' \subseteq Keys
    BY <2>1 DEF StoresTyped, SetupTyped
  <2> QED BY <2>1, <2>2 DEF SetupTyped
<1>2. CASE Publish
  <2>1. [device |-> Responder, keyId |-> current.keyId, key |-> current.key, oneTime |-> oneTime]
          \in Bundles
    BY DEF StoresTyped, Bundles
  <2>2. bundles' \subseteq Bundles /\ UNCHANGED <<inits, sessions, handed>>
    BY <1>2, <2>1 DEF Publish, SetupTyped
  <2> QED BY <2>2 DEF SetupTyped
<1>3. ASSUME NEW e \in Ephemerals, NEW p \in bundles, NEW b \in {p} \cup Altered(p),
             NEW o \in Advertised(b), Initiate(e, b, o)
      PROVE  SetupTyped'
  <2>1. /\ inits' = inits \cup {Made(e, b, o)} /\ IsInit(Made(e, b, o))
        /\ UNCHANGED <<bundles, sessions, handed>>
    BY <1>3, InitiateFacts DEF SetupTyped
  <2>2. \A i \in inits' : IsInit(i)
    BY <2>1 DEF SetupTyped
  <2> QED BY <2>1, <2>2 DEF SetupTyped
<1>4. ASSUME NEW a \in Arrivals, NEW t \in Readings, Respond(a, t)
      PROVE  SetupTyped'
  <2>1. /\ a \in Answered /\ WithKey(a.keyId, t) \in Keys
        /\ sessions' = Append(sessions, SessionOf(a, WithKey(a.keyId, t)))
    BY <1>4, RespondFacts
  <2>2. UNCHANGED <<bundles, inits, handed>>
    BY <1>4 DEF Respond
  <2>3. SessionOf(a, WithKey(a.keyId, t)) \in Established
    BY <2>1 DEF Established
  <2>4. sessions' \in Seq(Established)
    BY <2>1, <2>3, AppendProperties DEF SetupTyped
  <2> QED BY <2>2, <2>4 DEF SetupTyped
<1>5. CASE UNCHANGED vars
  BY <1>5 DEF vars, setupVars, SetupTyped
<1> QED BY <1>1, <1>2, <1>3, <1>4, <1>5, StepKinds

-----------------------------------------------------------------------------
(* Grace periods *)

\* An entry whose grace period is not over is in grace at any reading: the
\* time an operation was given may be behind the clock, never ahead of it.
LEMMA LiveIsInGrace ==
    ASSUME StoresTyped, NEW p \in promised, PromisesKept, now < p.until, NEW t \in Readings
    PROVE  p.keyId \in InGrace(t)
<1>1. p.until \in Nat /\ now \in Nat
  BY StoreBounds DEF StoresTyped
<1>2. t < p.until
  BY <1>1 DEF Readings
<1>3. p.keyId \in DOMAIN retired /\ retired[p.keyId] = [key |-> p.key, expiresAt |-> p.until]
  BY DEF PromisesKept
<1>4. retired[p.keyId].expiresAt = p.until
  BY <1>3
<1> QED BY <1>2, <1>3, <1>4 DEF InGrace

\* A prune, by the application or by a refused rotation, keeps the entries in grace.
LEMMA PruneKeepsPromises ==
    ASSUME StoresTyped, PromisesKept, NEW t \in Readings,
           retired' = Only(retired, InGrace(t)), UNCHANGED <<promised, now>>
    PROVE  PromisesKept'
<1>1. ASSUME NEW p \in promised, now < p.until
      PROVE  /\ p.keyId \in DOMAIN retired'
             /\ retired'[p.keyId] = [key |-> p.key, expiresAt |-> p.until]
  <2>1. p.keyId \in InGrace(t)
    BY <1>1, LiveIsInGrace
  <2>2. retired'[p.keyId] = retired[p.keyId] /\ p.keyId \in DOMAIN retired'
    BY <2>1, PruneTyped
  <2> QED BY <1>1, <2>2 DEF PromisesKept
<1> QED BY <1>1 DEF PromisesKept

\* A rotation adds the key it retires; every other live promise is in grace at
\* the reading it was given, under an id that is not the one retired.
LEMMA RotateKeepsPromises ==
    ASSUME StoresTyped, PromisesKept,
           NEW id \in KeyIds, NEW t \in Readings, NEW grace \in Graces, Rotate(id, t, grace)
    PROVE  PromisesKept'
<1> DEFINE kept == Only(retired, InGrace(t))
           old  == [key |-> current.key, expiresAt |-> t + grace]
<1>1. /\ retired' = Put(kept, current.keyId, old) /\ now' = now
      /\ promised' = promised \cup
             {[keyId |-> current.keyId, key |-> current.key, until |-> t + grace]}
  BY DEF Rotate
<1>2. /\ DOMAIN kept = InGrace(t) /\ InGrace(t) \subseteq KeyIds \ {current.keyId}
      /\ \A x \in InGrace(t) : kept[x] = retired[x]
  BY PruneTyped
<1> HIDE DEF kept
<1>3. /\ DOMAIN retired' = InGrace(t) \cup {current.keyId} /\ retired'[current.keyId] = old
      /\ \A x \in InGrace(t) : retired'[x] = retired[x]
  BY <1>1, <1>2 DEF Put
<1>4. ASSUME NEW p \in promised, now < p.until
      PROVE  /\ p.keyId \in DOMAIN retired'
             /\ retired'[p.keyId] = [key |-> p.key, expiresAt |-> p.until]
  <2>1. p.keyId \in InGrace(t)
    BY <1>4, LiveIsInGrace
  <2> QED BY <1>3, <1>4, <2>1 DEF PromisesKept
<1> QED BY <1>1, <1>3, <1>4 DEF PromisesKept

\* Every operation keeps the promises.
LEMMA PromisesKeptNext ==
    ASSUME StoresTyped, PromisesKept, [Next]_vars
    PROVE  PromisesKept'
<1>1. ASSUME NEW id \in KeyIds, NEW t \in Readings, NEW grace \in Graces,
             Rotate(id, t, grace) \/ RotateRefused(id, t, grace)
      PROVE  PromisesKept'
  BY <1>1, RotateKeepsPromises, PruneKeepsPromises DEF RotateRefused
<1>2. ASSUME NEW t \in Readings, Prune(t) PROVE PromisesKept'
  BY <1>2, PruneKeepsPromises DEF Prune
<1>3. ASSUME UNCHANGED <<retired, promised, now>> PROVE PromisesKept'
  BY <1>3 DEF PromisesKept
<1>4. ASSUME NEW id, NEW key, Insert(id) \/ Take(id) \/ TakeMatching(id, key)
      PROVE  PromisesKept'
  BY <1>3, <1>4 DEF Insert, Take, TakeMatching
<1>5. CASE Tick
  <2>1. UNCHANGED <<retired, promised>> /\ now' = now + 1 /\ now \in Nat
    BY <1>5, StoreBounds DEF Tick, StoresTyped
  <2>2. \A p \in promised : p.until \in Nat
    BY StoreBounds DEF StoresTyped
  <2> QED BY <2>1, <2>2 DEF PromisesKept
<1>6. CASE Maintain
  BY <1>1, <1>2, <1>4, <1>5, <1>6 DEF Maintain, StoreNext
<1>7. ASSUME NEW e, NEW b, NEW o, NEW a, NEW t,
             Publish \/ Initiate(e, b, o) \/ Respond(a, t) \/ UNCHANGED vars
      PROVE  PromisesKept'
  BY <1>3, <1>7 DEF Publish, Initiate, Respond, vars, storeVars
<1> QED BY <1>6, <1>7, StepKinds

-----------------------------------------------------------------------------
(* One id per one-time prekey *)

\* Removing entries names no other prekey; inserting one names that one.
LEMMA PairsOfMaps ==
    ASSUME NEW f
    PROVE  /\ \A ids : PairsOf(Only(f, ids)) \subseteq PairsOf(f)
           /\ \A k, v : PairsOf(Put(f, k, v)) \subseteq PairsOf(f) \cup {[id |-> k, key |-> v]}
BY DEF PairsOf, Only, Put

\* A session adds the one-time prekey its init names, if it names one.
LEMMA UsedBySession ==
    ASSUME sessions \in Seq(Established), NEW i \in Answered, NEW key \in Keys,
           sessions' = Append(sessions, SessionOf(i, key))
    PROVE  /\ DOMAIN sessions' = DOMAIN sessions \cup {Len(sessions) + 1}
           /\ Len(sessions) + 1 \notin DOMAIN sessions
           /\ \A n \in DOMAIN sessions : sessions'[n].init.oneTime = sessions[n].init.oneTime
           /\ sessions'[Len(sessions) + 1].init.oneTime = i.oneTime
           /\ Used' = Used \cup ({i.oneTime} \ {NoOneTime})
<1>1. SessionOf(i, key) \in Established /\ SessionOf(i, key).init = i
  BY DEF Established, SessionOf
<1>2. /\ Len(sessions') = Len(sessions) + 1
      /\ \A n \in 1 .. Len(sessions) : sessions'[n] = sessions[n]
      /\ sessions'[Len(sessions) + 1] = SessionOf(i, key)
      /\ Len(sessions) \in Nat /\ DOMAIN sessions = 1 .. Len(sessions)
      /\ DOMAIN sessions' = 1 .. Len(sessions')
  BY <1>1, AppendProperties
<1>3. /\ DOMAIN sessions' = DOMAIN sessions \cup {Len(sessions) + 1}
      /\ Len(sessions) + 1 \notin DOMAIN sessions
  BY <1>2
<1>4. /\ \A n \in DOMAIN sessions : sessions'[n].init.oneTime = sessions[n].init.oneTime
      /\ sessions'[Len(sessions) + 1].init.oneTime = i.oneTime
  BY <1>1, <1>2
<1>5. {sessions'[n].init.oneTime : n \in DOMAIN sessions'}
        = {sessions[n].init.oneTime : n \in DOMAIN sessions} \cup {i.oneTime}
  BY <1>3, <1>4
<1> QED BY <1>3, <1>4, <1>5 DEF Used

\* While no prekey is named that was not named before, ids stay unique.
LEMMA NamesShrink ==
    ASSUME OneIdPerKey, Named' \subseteq Named, inserted \subseteq inserted'
    PROVE  OneIdPerKey'
BY DEF OneIdPerKey

\* Every operation keeps one id per key: publishing and answering pass on
\* what the store named, and insert generates a key that no id has yet.
LEMMA OneIdPerKeyNext ==
    ASSUME StoresTyped, SetupTyped, OneIdPerKey, [Next]_vars
    PROVE  OneIdPerKey'
<1>1. ASSUME UNCHANGED <<oneTime, bundles, sessions, inserted>> PROVE OneIdPerKey'
  BY <1>1, NamesShrink DEF Named, OfBundles, Used
<1>2. ASSUME NEW id, Gives(id), UNCHANGED <<bundles, sessions, inserted>> PROVE OneIdPerKey'
  <2>1. PairsOf(oneTime') \subseteq PairsOf(oneTime)
    BY <1>2, PairsOfMaps DEF Gives, Consume
  <2> QED BY <1>2, <2>1, NamesShrink DEF Named, OfBundles, Used
<1>3. ASSUME NEW id \in KeyIds, Insert(id), UNCHANGED <<bundles, sessions>> PROVE OneIdPerKey'
  <2> DEFINE new == [id |-> id, key |-> made + 1]
  <2>1. PairsOf(oneTime') \subseteq PairsOf(oneTime) \cup {new}
    BY <1>3, PairsOfMaps DEF Insert
  <2>2. Named' \subseteq Named \cup {new}
    BY <1>3, <2>1 DEF Named, OfBundles, Used
  <2>3. inserted' = inserted \cup {made + 1} /\ new.key = made + 1
    BY <1>3 DEF Insert
  <2>4. inserted \subseteq 1 .. made /\ made \in Nat
    BY DEF StoresTyped, Keys
  <2>5. \A o \in Named : o.key \in inserted /\ o.key # made + 1
    BY <2>4 DEF OneIdPerKey
  <2> HIDE DEF new
  <2>6. \A o \in Named' : o.key \in inserted'
    BY <2>2, <2>3, <2>5
  <2>7. \A o, u \in Named' : o.key = u.key => o = u
    BY <2>2, <2>3, <2>5 DEF OneIdPerKey
  <2> QED BY <2>6, <2>7 DEF OneIdPerKey
<1>4. CASE Publish
  <2>1. /\ UNCHANGED <<oneTime, sessions, inserted>>
        /\ bundles' = bundles \cup
               {[device |-> Responder, keyId |-> current.keyId, key |-> current.key, oneTime |-> oneTime]}
    BY <1>4 DEF Publish, storeVars
  <2>2. Named' \subseteq Named
    BY <2>1 DEF Named, OfBundles, Used
  <2> QED BY <2>1, <2>2, NamesShrink
<1>5. ASSUME NEW e, NEW b, NEW o, Initiate(e, b, o) PROVE OneIdPerKey'
  BY <1>1, <1>5 DEF Initiate, storeVars
<1>6. ASSUME NEW a \in Arrivals, NEW t, Respond(a, t) PROVE OneIdPerKey'
  <2>1. UNCHANGED <<bundles, inserted>>
    BY <1>6 DEF Respond
  <2>2. PairsOf(oneTime)' \subseteq PairsOf(oneTime)
    BY <1>6, RespondConsumes, PairsOfMaps DEF Gives, Consume
  <2>3. Used' = Used \cup ({a.oneTime} \ {NoOneTime})
    BY <1>6, RespondFacts, UsedBySession DEF SetupTyped
  <2>4. {a.oneTime} \ {NoOneTime} \subseteq PairsOf(oneTime)
    BY <1>6, RespondFacts
  <2>5. OfBundles' = OfBundles
    BY <2>1 DEF OfBundles
  <2>6. Named' \subseteq Named
    BY <2>2, <2>3, <2>4, <2>5 DEF Named
  <2> QED BY <2>1, <2>6, NamesShrink
<1>7. CASE Maintain
  <2>1. UNCHANGED <<bundles, sessions>>
    BY <1>7 DEF Maintain
  <2>2. ASSUME NEW id \in KeyIds, NEW t, NEW grace, NEW key,
               \/ Rotate(id, t, grace) \/ RotateRefused(id, t, grace) \/ Prune(t) \/ Tick
               \/ Insert(id) \/ Take(id) \/ TakeMatching(id, key)
        PROVE  OneIdPerKey'
    <3>1. CASE Rotate(id, t, grace) \/ RotateRefused(id, t, grace) \/ Prune(t) \/ Tick
      BY <1>1, <2>1, <3>1 DEF Rotate, RotateRefused, Prune, Tick
    <3>2. CASE Insert(id)
      BY <1>3, <2>1, <3>2
    <3>3. CASE Take(id) \/ TakeMatching(id, key)
      BY <1>2, <2>1, <3>3 DEF Take, TakeMatching, Matches, Gives
    <3> QED BY <2>2, <3>1, <3>2, <3>3
  <2>3. FirstKeyId \in KeyIds
    BY StoreBounds
  <2> QED BY <1>7, <2>2, <2>3 DEF Maintain, StoreNext
<1>8. CASE UNCHANGED vars
  BY <1>1, <1>8 DEF vars, storeVars, setupVars
<1> QED BY <1>4, <1>5, <1>6, <1>7, <1>8, StepKinds

-----------------------------------------------------------------------------
(* Where the one-time prekeys are *)

\* Taking an entry moves one key from the store to the consumed ones: no other
\* id has it.
LEMMA GivesOneKey ==
    ASSUME StoresTyped, OneIdPerKey, NEW id, Gives(id)
    PROVE  /\ oneTime[id] \in ValuesOf(oneTime)
           /\ ValuesOf(oneTime)' = ValuesOf(oneTime) \ {oneTime[id]}
           /\ consumed' = consumed \cup {oneTime[id]}
<1>1. id \in DOMAIN oneTime /\ oneTime' = Only(oneTime, KeyIds \ {id})
  BY DEF Gives, Consume
<1>2. DOMAIN oneTime \subseteq KeyIds
  BY MapFacts DEF StoresTyped, OneTimeStores
<1>3. /\ DOMAIN oneTime' = DOMAIN oneTime \ {id}
      /\ \A x \in DOMAIN oneTime \ {id} : oneTime'[x] = oneTime[x]
  BY <1>1, <1>2 DEF Only
<1>4. ASSUME NEW x \in DOMAIN oneTime, oneTime[x] = oneTime[id] PROVE x = id
  <2>1. [id |-> x, key |-> oneTime[x]] \in Named /\ [id |-> id, key |-> oneTime[id]] \in Named
    BY <1>1 DEF Named, OfBundles, Used, PairsOf
  <2> QED BY <1>4, <2>1 DEF OneIdPerKey
<1>5. ValuesOf(oneTime') = ValuesOf(oneTime) \ {oneTime[id]}
  BY <1>1, <1>3, <1>4 DEF ValuesOf
<1> QED BY <1>1, <1>5 DEF Gives, Consume, ValuesOf

\* The device's own operations: nothing is consumed, a fresh key is inserted,
\* or one is handed to the device.
LEMMA MaintainAccounts ==
    ASSUME StoresTyped, OneIdPerKey, Accounts, Maintain
    PROVE  Accounts'
<1>1. UNCHANGED sessions /\ handed' = handed \cup (consumed' \ consumed)
  BY DEF Maintain
<1>2. UsedKeys' = UsedKeys
  BY <1>1 DEF UsedKeys, Used
<1> DEFINE Sessions(s) == \A m, n \in DOMAIN s : /\ s[m].init.oneTime # NoOneTime
                                                 /\ s[m].init.oneTime = s[n].init.oneTime => m = n
<1>3. ASSUME UNCHANGED <<oneTime, inserted, consumed>> PROVE Accounts'
  <2>1. handed' = handed
    BY <1>1, <1>3
  <2> QED BY <1>1, <1>2, <1>3, <2>1 DEF Accounts, OneTimeKeysAccounted, ConsumedAccounted
<1>4. ASSUME NEW id, Gives(id), UNCHANGED inserted PROVE Accounts'
  <2> DEFINE k == oneTime[id]
  <2>1. /\ k \in ValuesOf(oneTime) /\ ValuesOf(oneTime)' = ValuesOf(oneTime) \ {k}
        /\ consumed' = consumed \cup {k}
    BY <1>4, GivesOneKey
  <2> HIDE DEF k
  <2>2. k \notin handed \cup UsedKeys
    BY <2>1 DEF Accounts, OneTimeKeysAccounted
  <2>3. handed' = handed \cup {k}
    BY <1>1, <2>1, <2>2 DEF Accounts, ConsumedAccounted
  <2> QED BY <1>1, <1>2, <1>4, <2>1, <2>2, <2>3 DEF Accounts, OneTimeKeysAccounted, ConsumedAccounted
<1>5. ASSUME NEW id \in KeyIds, Insert(id) PROVE Accounts'
  <2>1. /\ inserted' = inserted \cup {made + 1} /\ consumed' = consumed
        /\ id \notin DOMAIN oneTime /\ oneTime' = Put(oneTime, id, made + 1)
    BY <1>5 DEF Insert
  <2>2. ValuesOf(oneTime)' = ValuesOf(oneTime) \cup {made + 1}
    BY <2>1 DEF ValuesOf, Put
  <2>3. made + 1 \notin inserted
    BY DEF StoresTyped, Keys
  <2>4. handed' = handed
    BY <1>1, <2>1
  <2> QED BY <1>1, <1>2, <2>1, <2>2, <2>3, <2>4 DEF Accounts, OneTimeKeysAccounted, ConsumedAccounted
<1>6. ASSUME NEW id \in KeyIds, NEW t, NEW grace, NEW key,
             \/ Rotate(id, t, grace) \/ RotateRefused(id, t, grace) \/ Prune(t) \/ Tick
             \/ Insert(id) \/ Take(id) \/ TakeMatching(id, key)
      PROVE  Accounts'
  <2>1. CASE Rotate(id, t, grace) \/ RotateRefused(id, t, grace) \/ Prune(t) \/ Tick
    BY <1>3, <2>1 DEF Rotate, RotateRefused, Prune, Tick
  <2>2. CASE Insert(id)
    BY <1>5, <2>2
  <2>3. CASE Take(id) \/ TakeMatching(id, key)
    BY <1>4, <2>3 DEF Take, TakeMatching, Matches, Gives
  <2> QED BY <1>6, <2>1, <2>2, <2>3
<1> QED BY <1>6, StoreBounds DEF Maintain, StoreNext

\* A session takes the one-time prekey of its init from the store; the key was
\* not used before, so no earlier session names it.
LEMMA RespondAccounts ==
    ASSUME StoresTyped, SetupTyped, OneIdPerKey, Accounts,
           NEW i \in Arrivals, NEW t, Respond(i, t)
    PROVE  Accounts'
<1> DEFINE key == WithKey(i.keyId, t)
           new == Len(sessions) + 1
<1>1. i \in Answered /\ key \in Keys /\ sessions' = Append(sessions, SessionOf(i, key))
  BY RespondFacts
<1> HIDE DEF key
<1>2. /\ DOMAIN sessions' = DOMAIN sessions \cup {new} /\ new \notin DOMAIN sessions
      /\ \A n \in DOMAIN sessions : sessions'[n].init.oneTime = sessions[n].init.oneTime
      /\ sessions'[new].init.oneTime = i.oneTime
      /\ Used' = Used \cup ({i.oneTime} \ {NoOneTime})
  BY <1>1, UsedBySession DEF SetupTyped
<1> HIDE DEF new
<1>3. UNCHANGED <<inserted, handed>>
  BY DEF Respond
<1>4. CASE i.oneTime = NoOneTime /\ UNCHANGED <<oneTime, consumed>>
  <2>1. UsedKeys' = UsedKeys
    BY <1>2, <1>4 DEF UsedKeys
  <2>2. ASSUME NEW m \in DOMAIN sessions', NEW n \in DOMAIN sessions',
               sessions'[m].init.oneTime # NoOneTime,
               sessions'[m].init.oneTime = sessions'[n].init.oneTime
        PROVE  m = n
    BY <1>2, <1>4, <2>2 DEF Accounts, OneTimeKeysAccounted
  <2> QED BY <1>3, <1>4, <2>1, <2>2 DEF Accounts, OneTimeKeysAccounted, ConsumedAccounted
<1>5. CASE i.oneTime # NoOneTime /\ Gives(i.oneTime.id) /\ oneTime[i.oneTime.id] = i.oneTime.key
  <2> DEFINE k == i.oneTime.key
  <2>1. /\ k \in ValuesOf(oneTime) /\ ValuesOf(oneTime)' = ValuesOf(oneTime) \ {k}
        /\ consumed' = consumed \cup {k}
    BY <1>5, GivesOneKey
  <2>2. UsedKeys' = UsedKeys \cup {k}
    BY <1>2, <1>5 DEF UsedKeys
  <2>3. i.oneTime \notin Used
    BY <2>1 DEF Accounts, OneTimeKeysAccounted, UsedKeys
  <2>4. \A n \in DOMAIN sessions : sessions'[n].init.oneTime # i.oneTime
    BY <1>2, <1>5, <2>3 DEF Used
  <2>5. ASSUME NEW m \in DOMAIN sessions', NEW n \in DOMAIN sessions',
               sessions'[m].init.oneTime # NoOneTime,
               sessions'[m].init.oneTime = sessions'[n].init.oneTime
        PROVE  m = n
    BY <1>2, <2>4, <2>5 DEF Accounts, OneTimeKeysAccounted
  <2> HIDE DEF k
  <2>6. /\ inserted' = (ValuesOf(oneTime) \cup handed \cup UsedKeys)'
        /\ (ValuesOf(oneTime) \cap (handed \cup UsedKeys))' = {}
        /\ (handed \cap UsedKeys)' = {} /\ ConsumedAccounted'
    BY <1>3, <2>1, <2>2 DEF Accounts, OneTimeKeysAccounted, ConsumedAccounted
  <2> QED BY <2>5, <2>6 DEF Accounts, OneTimeKeysAccounted
<1> QED BY <1>1, <1>4, <1>5, RespondConsumes

\* Every operation keeps the accounts.
LEMMA AccountsNext ==
    ASSUME StoresTyped, SetupTyped, OneIdPerKey, Accounts, [Next]_vars
    PROVE  Accounts'
<1>1. ASSUME UNCHANGED <<oneTime, inserted, consumed, sessions, handed>> PROVE Accounts'
  BY <1>1 DEF Accounts, OneTimeKeysAccounted, ConsumedAccounted, UsedKeys, Used
<1>2. ASSUME NEW e, NEW b, NEW o, Publish \/ Initiate(e, b, o) \/ UNCHANGED vars
      PROVE  Accounts'
  BY <1>1, <1>2 DEF Publish, Initiate, vars, storeVars, setupVars
<1> QED BY <1>2, MaintainAccounts, RespondAccounts, StepKinds

-----------------------------------------------------------------------------
(* The inductive invariant, and what follows from it *)

LEMMA SetupInvInit ==
    ASSUME Init
    PROVE  SetupInv
<1>1. StoresTyped
  <2>1. retired = [id \in {} |-> NoKey] /\ oneTime = [id \in {} |-> NoKey]
    BY DEF Init, StoreInit
  <2>2. /\ retired \in GraceSets /\ oneTime \in OneTimeStores
        /\ DOMAIN retired = {}
    <3>1. \A V : [id \in {} |-> NoKey] \in [{} -> V]
      OBVIOUS
    <3>2. \A V : [id \in {} |-> NoKey] \in Maps(V)
      BY <3>1 DEF Maps
    <3> QED BY <2>1, <3>2 DEF GraceSets, OneTimeStores
  <2>3. IsFiniteSet(DOMAIN retired) /\ Cardinality(DOMAIN retired) = 0
    BY <2>2, FS_EmptySet
  <2> QED BY <2>2, <2>3, StoreBounds DEF Init, StoreInit, StoresTyped, Keys
<1>2. SetupTyped
  BY DEF Init, SetupTyped
<1>3. PromisesKept
  BY DEF Init, StoreInit, PromisesKept
<1>4. oneTime = [id \in {} |-> NoKey] /\ ValuesOf(oneTime) = {} /\ PairsOf(oneTime) = {}
  BY DEF Init, StoreInit, ValuesOf, PairsOf
<1>5. OneIdPerKey
  BY <1>4 DEF Init, OneIdPerKey, Named, OfBundles, Used
<1>6. Used = {} /\ UsedKeys = {} /\ DOMAIN sessions = {}
  BY DEF Init, Used, UsedKeys
<1>7. Accounts
  BY <1>4, <1>6 DEF Init, StoreInit, Accounts, OneTimeKeysAccounted, ConsumedAccounted
<1> QED BY <1>1, <1>2, <1>3, <1>5, <1>7 DEF SetupInv

LEMMA SetupInvNext ==
    ASSUME SetupInv, [Next]_vars
    PROVE  SetupInv'
<1>1. StoresTyped'
  BY StoresTypedNext DEF SetupInv
<1>2. SetupTyped'
  BY <1>1, SetupTypedNext DEF SetupInv
<1>3. PromisesKept'
  BY PromisesKeptNext DEF SetupInv
<1>4. OneIdPerKey'
  BY OneIdPerKeyNext DEF SetupInv
<1>5. Accounts'
  BY AccountsNext DEF SetupInv
<1> QED BY <1>1, <1>2, <1>3, <1>4, <1>5 DEF SetupInv

\* The prekey stores, bundles, inits and sessions stay well-formed, live grace
\* periods stay in the grace set, every one-time prekey keeps one id and one place.
THEOREM SetupInvariant == Spec => []SetupInv
<1>1. Init => SetupInv
  BY SetupInvInit
<1>2. SetupInv /\ [Next]_vars => SetupInv'
  BY SetupInvNext
<1> QED BY <1>1, <1>2, PTL DEF Spec

\* The values of a map are in its range.
LEMMA ValuesTyped ==
    ASSUME NEW V, NEW f \in Maps(V)
    PROVE  DOMAIN f \subseteq KeyIds /\ ValuesOf(f) \subseteq V
BY MapFacts DEF ValuesOf

LEMMA StoreTypes ==
    ASSUME SetupInv
    PROVE  StoreTypeOK
<1>1. DOMAIN retired \subseteq KeyIds /\ ValuesOf(retired) \subseteq [key : Keys, expiresAt : 0 .. MaxMs]
  BY ValuesTyped DEF SetupInv, StoresTyped, GraceSets, GraceEntry
<1>2. DOMAIN oneTime \subseteq KeyIds /\ ValuesOf(oneTime) \subseteq Keys
  BY ValuesTyped DEF SetupInv, StoresTyped, OneTimeStores
<1>3. inserted \subseteq Keys
  BY StoreBounds DEF SetupInv, StoresTyped, Keys
<1> QED BY <1>1, <1>2, <1>3 DEF SetupInv, StoresTyped, StoreTypeOK

\* The stores are well-typed, and the grace set stays within MaxRetired and
\* never holds the id in use (SignedPrekeyStore, OneTimePrekeyStore).
THEOREM SetupTypeCorrect == Spec => []StoreTypeOK
BY SetupInvariant, StoreTypes, PTL

\* A live promise is what with_key finds.
LEMMA PromiseFound ==
    ASSUME SetupInv, NEW p \in promised, now < p.until
    PROVE  WithKey(p.keyId, now) = p.key
<1>1. p.keyId \in DOMAIN retired /\ retired[p.keyId] = [key |-> p.key, expiresAt |-> p.until]
  BY DEF SetupInv, PromisesKept
<1>2. retired[p.keyId].expiresAt = p.until /\ retired[p.keyId].key = p.key
  BY <1>1
<1>3. p.keyId \in InGrace(now) /\ p.keyId # current.keyId
  BY <1>1, <1>2 DEF InGrace, SetupInv, StoresTyped
<1> QED BY <1>2, <1>3 DEF WithKey

\* with_key finds a key rotated out until its grace period is over, whatever
\* rotate, prune_expired and refused rotations do meanwhile.
THEOREM SetupGraceHonoured == Spec => []GraceHonoured
<1>1. SetupInv => GraceHonoured
  BY PromiseFound DEF GraceHonoured
<1> QED BY <1>1, SetupInvariant, PTL

\* Every one-time prekey is in the store, was handed out by the device or was
\* used by exactly one session (respond_with_one_time_prekey_store).
THEOREM SetupOneTimeKeysAccounted == Spec => []OneTimeKeysAccounted
<1>1. SetupInv => OneTimeKeysAccounted
  BY DEF SetupInv, Accounts
<1> QED BY <1>1, SetupInvariant, PTL

\* A one-time prekey that an init took from a bundle as published and nobody
\* consumed is in the store under the id the init names.
LEMMA UnspentIsStored ==
    ASSUME SetupInv, NEW i \in inits, Genuine(i), ~Spent(i.oneTime)
    PROVE  HasOneTime(i.oneTime)
<1>1. SUFFICES ASSUME i.oneTime # NoOneTime PROVE Matches(i.oneTime.id, i.oneTime.key)
  BY DEF HasOneTime
<1>2. PICK b \in bundles : i.oneTime \in Advertised(b)
  BY DEF Genuine
<1>3. PICK o : o = i.oneTime
  OBVIOUS
<1>4. o \in PairsOf(b.oneTime)
  BY <1>1, <1>2, <1>3 DEF Advertised, PairsOf
<1>5. o \in Named
  BY <1>4 DEF Named, OfBundles
<1>6. o.key \in inserted
  BY <1>5 DEF SetupInv, OneIdPerKey
<1>7. o.key \notin handed /\ o \notin Used
  BY <1>1, <1>3 DEF Spent
<1>8. o.key \notin UsedKeys
  <2>1. SUFFICES ASSUME NEW u \in Used, u.key = o.key PROVE FALSE
    BY DEF UsedKeys
  <2>2. u \in Named
    BY DEF Named
  <2>3. u = o
    BY <1>5, <2>1, <2>2 DEF SetupInv, OneIdPerKey
  <2> QED BY <1>7, <2>1, <2>3
<1>9. o.key \in ValuesOf(oneTime)
  BY <1>6, <1>7, <1>8 DEF SetupInv, Accounts, OneTimeKeysAccounted
<1>10. PICK id \in DOMAIN oneTime : oneTime[id] = o.key
  BY <1>9 DEF ValuesOf
<1>11. [id |-> id, key |-> oneTime[id]] \in Named
  BY DEF Named, PairsOf
<1>12. [id |-> id, key |-> oneTime[id]] = o
  BY <1>5, <1>10, <1>11 DEF SetupInv, OneIdPerKey
<1>13. o.id = id
  BY <1>12
<1> QED BY <1>3, <1>10, <1>13 DEF Matches

\* The results of a key agreement, one by one.
LEMMA ListFacts ==
    ASSUME NEW x, NEW y, NEW z, NEW o, NEW e
    PROVE  /\ DOMAIN (<<x, y, z>> \o OneTimePart(o, e)) = 1 .. (IF o = NoOneTime THEN 3 ELSE 4)
           /\ (<<x, y, z>> \o OneTimePart(o, e))[1] = x
           /\ (<<x, y, z>> \o OneTimePart(o, e))[2] = y
           /\ (<<x, y, z>> \o OneTimePart(o, e))[3] = z
           /\ o # NoOneTime => (<<x, y, z>> \o OneTimePart(o, e))[4] = DH(e, Public(o.key))
<1> DEFINE last == DH(e, Public(o.key))
           S    == {x, y, z, last}
<1>1. PICK first : first = <<x, y, z>>
  OBVIOUS
<1>2. PICK rest : rest = OneTimePart(o, e)
  OBVIOUS
<1>3. /\ first \in Seq(S) /\ Len(first) = 3
      /\ first[1] = x /\ first[2] = y /\ first[3] = z
  BY <1>1
<1>4. rest = IF o = NoOneTime THEN <<>> ELSE <<last>>
  BY <1>2 DEF OneTimePart
<1> HIDE DEF last
<1>5. rest \in Seq(S)
  <2>1. last \in S
    OBVIOUS
  <2> HIDE DEF S
  <2>2. <<>> \in Seq(S) /\ <<last>> \in Seq(S)
    BY <2>1
  <2> QED BY <1>4, <2>2
<1>6. Len(rest) = (IF o = NoOneTime THEN 0 ELSE 1) /\ (o # NoOneTime => rest[1] = last)
  BY <1>4
<1> HIDE DEF S
<1>7. /\ first \o rest \in Seq(S) /\ Len(first \o rest) = Len(first) + Len(rest)
      /\ \A n \in 1 .. Len(first) + Len(rest) :
             (first \o rest)[n] = IF n <= Len(first) THEN first[n] ELSE rest[n - Len(first)]
  BY <1>3, <1>5, ConcatProperties, Zenon
<1>8. Len(first) + Len(rest) = IF o = NoOneTime THEN 3 ELSE 4
  BY <1>3, <1>6
<1>9. DOMAIN (first \o rest) = 1 .. (IF o = NoOneTime THEN 3 ELSE 4)
  BY <1>7, <1>8
<1>10. 1 \in 1 .. Len(first) + Len(rest) /\ 2 \in 1 .. Len(first) + Len(rest)
       /\ 3 \in 1 .. Len(first) + Len(rest) /\ (o # NoOneTime => 4 \in 1 .. Len(first) + Len(rest))
  BY <1>8
<1>11. (first \o rest)[1] = x /\ (first \o rest)[2] = y /\ (first \o rest)[3] = z
  BY <1>3, <1>7, <1>10
<1>12. o # NoOneTime => (first \o rest)[4] = last
  BY <1>3, <1>6, <1>7, <1>10
<1> QED BY <1>1, <1>2, <1>9, <1>11, <1>12 DEF last

\* Keys that are not zero combine to their pair, which is not zero.
LEMMA NonZeroDH ==
    ASSUME NEW a \in HonestKeys \cup Others, NEW b \in HonestKeys \cup Others
    PROVE  DH(a, b) = {a, b} /\ DH(a, b) # Zero
BY Degenerate DEF DH

\* The keys that go into an honest init's root.
LEMMA KeysOfInit ==
    ASSUME NEW i, IsInit(i)
    PROVE  /\ i.ephemeral \in HonestKeys /\ Initiator \in HonestKeys /\ Responder \in HonestKeys
           /\ i.key \in Keys /\ Shared(i.key) \in HonestKeys
           /\ i.oneTime # NoOneTime =>
                  i.oneTime.key \in Keys \cup Others /\ Public(i.oneTime.key) \in HonestKeys \cup Others
<1>1. i.ephemeral \in Ephemerals /\ i.key \in Keys /\ i.oneTime \in AnyOneTime
  BY DEF IsInit
<1>2. /\ i.ephemeral \in HonestKeys /\ Initiator \in HonestKeys /\ Responder \in HonestKeys
      /\ \A k \in Keys : Shared(k) \in HonestKeys
  BY <1>1 DEF HonestKeys
<1>3. i.oneTime # NoOneTime => i.oneTime.key \in Keys \cup Others
  BY <1>1 DEF AnyOneTime, Pairs
<1>4. \A k \in Keys \cup Others : Public(k) \in HonestKeys \cup Others
  BY <1>2 DEF Public
<1> QED BY <1>1, <1>2, <1>3, <1>4

\* Honest keys never combine to the zero key.
LEMMA HonestDhs ==
    ASSUME NEW i, IsInit(i)
    PROVE  \A n \in DOMAIN ResponderDhs(Sent(i), i.key) : ResponderDhs(Sent(i), i.key)[n] # Zero
<1> DEFINE x == DH(Shared(i.key), Initiator)
           y == DH(Responder, i.ephemeral)
           z == DH(Shared(i.key), i.ephemeral)
<1>1. Sent(i).peer = Initiator /\ Sent(i).ephemeral = i.ephemeral /\ Sent(i).oneTime = i.oneTime
  BY DEF Sent
<1>2. PICK dhs : dhs = ResponderDhs(Sent(i), i.key)
  OBVIOUS
<1>3. dhs = <<x, y, z>> \o OneTimePart(i.oneTime, i.ephemeral)
  BY <1>1, <1>2 DEF ResponderDhs
<1>4. x # Zero /\ y # Zero /\ z # Zero
  BY KeysOfInit, NonZeroDH
<1>5. i.oneTime # NoOneTime => DH(i.ephemeral, Public(i.oneTime.key)) # Zero
  BY KeysOfInit, NonZeroDH
<1> HIDE DEF x, y, z
<1>6. /\ DOMAIN dhs = 1 .. (IF i.oneTime = NoOneTime THEN 3 ELSE 4)
      /\ dhs[1] = x /\ dhs[2] = y /\ dhs[3] = z
      /\ i.oneTime # NoOneTime => dhs[4] = DH(i.ephemeral, Public(i.oneTime.key))
  BY <1>3, ListFacts
<1>7. \A n \in DOMAIN dhs : n = 1 \/ n = 2 \/ n = 3 \/ (n = 4 /\ i.oneTime # NoOneTime)
  BY <1>6
<1>8. \A n \in DOMAIN dhs : dhs[n] # Zero
  BY <1>4, <1>5, <1>6, <1>7
<1> QED BY <1>2, <1>8

\* An init that arrives as sent, whose signed prekey is found as it was published
\* and whose one-time prekey is in the store, is answered with the initiator's root.
LEMMA FoundIsAnswered ==
    ASSUME SetupInv, NEW i \in inits, Genuine(i),
           WithKey(i.keyId, now) = i.key, HasOneTime(i.oneTime)
    PROVE  Answer(Sent(i), now) = "established" /\ ResponderRoot(Sent(i), now) = i.root
<1>1. IsInit(i)
  BY DEF SetupInv, SetupTyped
<1>2. /\ i.key \in Keys /\ i.to = Responder
      /\ i.root = Root(ResponderDhs(Sent(i), i.key), Initiator, i.to, i.ephemeral)
  BY <1>1 DEF IsInit, Genuine
<1>3. i.key # NoKey
  BY <1>2, NoKeyIsNoKey
<1>4. /\ Sent(i).keyId = i.keyId /\ Sent(i).oneTime = i.oneTime /\ Sent(i).ephemeral = i.ephemeral
  BY DEF Sent
<1>5. \A n \in DOMAIN ResponderDhs(Sent(i), i.key) : ResponderDhs(Sent(i), i.key)[n] # Zero
  BY <1>1, HonestDhs
<1>6. Answer(Sent(i), now) = "established"
  BY <1>3, <1>4, <1>5 DEF Answer
<1>7. ResponderRoot(Sent(i), now) = i.root
  BY <1>2, <1>4 DEF ResponderRoot
<1> QED BY <1>6, <1>7

\* An init made from a bundle as published and arriving as sent is answered with
\* the initiator's root while its signed prekey is in use or in grace and its
\* one-time prekey is unspent: altered inits, refused ones, rotations, prunes and
\* other sessions do not get in the way (respond_with_one_time_prekey_store under
\* with_key).
THEOREM SetupInitAnswered == Spec => []InitAnswered
<1>1. SetupInv => InitAnswered
  <2>1. SUFFICES
          ASSUME SetupInv, NEW i \in inits, Genuine(i),
                 \/ current.keyId = i.keyId /\ current.key = i.key
                 \/ \E p \in promised : p.keyId = i.keyId /\ p.key = i.key /\ now < p.until,
                 ~Spent(i.oneTime)
          PROVE  Answer(Sent(i), now) = "established" /\ ResponderRoot(Sent(i), now) = i.root
    BY DEF InitAnswered
  <2>2. WithKey(i.keyId, now) = i.key
    <3>1. CASE current.keyId = i.keyId /\ current.key = i.key
      BY <3>1 DEF WithKey
    <3>2. CASE \E p \in promised : p.keyId = i.keyId /\ p.key = i.key /\ now < p.until
      <4>1. PICK p \in promised : p.keyId = i.keyId /\ p.key = i.key /\ now < p.until
        BY <3>2
      <4>2. WithKey(p.keyId, now) = p.key
        BY <2>1, <4>1, PromiseFound
      <4> QED BY <4>1, <4>2
    <3> QED BY <2>1, <3>1, <3>2
  <2>3. HasOneTime(i.oneTime)
    BY <2>1, UnspentIsStored
  <2> QED BY <2>1, <2>2, <2>3, FoundIsAnswered
<1> QED BY <1>1, SetupInvariant, PTL

\* Two inits' one-time parts are the same exactly if both name the same key, or
\* none: a key that is not the device's is none of the device's shared ones.
LEMMA SameOneTimePart ==
    ASSUME NEW e \in HonestKeys, NEW o, NEW u,
           o # NoOneTime => o.key \in Keys, u # NoOneTime => u.key \in Keys \cup Others,
           o # NoOneTime, u # NoOneTime, DH(e, Public(o.key)) = DH(e, Public(u.key))
    PROVE  o.key = u.key
<1>1. /\ Public(o.key) = Shared(o.key) /\ Shared(o.key) \in HonestKeys
      /\ Public(u.key) \in HonestKeys \cup Others
  BY DEF Public, HonestKeys
<1>2. {e, Shared(o.key)} = {e, Public(u.key)}
  BY <1>1, NonZeroDH
<1>3. Shared(o.key) = Public(u.key)
  BY <1>2
<1>4. u.key \in Keys
  BY <1>1, <1>3, Degenerate DEF Public
<1> QED BY <1>3, <1>4 DEF Public, Shared

\* The responder's results are the initiator's exactly if both used the same keys.
LEMMA SameResults ==
    ASSUME NEW i, IsInit(i), NEW a \in Answered, NEW key \in Keys, a.ephemeral = i.ephemeral
    PROVE  ResponderDhs(a, key) = ResponderDhs(Sent(i), i.key) <=>
               /\ a.peer = Initiator /\ key = i.key
               /\ KeysOf(a.oneTime) = KeysOf(i.oneTime)
<1>1. PICK e : e = i.ephemeral
  OBVIOUS
<1>2. /\ e \in HonestKeys /\ Initiator \in HonestKeys /\ i.key \in Keys
      /\ Shared(i.key) \in HonestKeys /\ Shared(key) \in HonestKeys
      /\ i.oneTime # NoOneTime => i.oneTime.key \in Keys \cup Others
  BY <1>1, KeysOfInit DEF HonestKeys
<1>3. /\ a.peer \in {Initiator, Zero} \cup Others
      /\ a.oneTime # NoOneTime => a.oneTime.key \in Keys
  BY DEF Answered, Pairs
<1> DEFINE x == DH(Shared(key), a.peer)
           y == DH(Responder, e)
           z == DH(Shared(key), e)
           xi == DH(Shared(i.key), Initiator)
           zi == DH(Shared(i.key), e)
<1>4. PICK theirs : theirs = ResponderDhs(a, key)
  OBVIOUS
<1>5. PICK ours : ours = ResponderDhs(Sent(i), i.key)
  OBVIOUS
<1>6. theirs = <<x, y, z>> \o OneTimePart(a.oneTime, e)
  BY <1>1, <1>4 DEF ResponderDhs
<1>7. ours = <<xi, y, zi>> \o OneTimePart(i.oneTime, e)
  BY <1>1, <1>5 DEF ResponderDhs, Sent
<1>8. ASSUME theirs = ours
      PROVE  a.peer = Initiator /\ key = i.key /\ KeysOf(a.oneTime) = KeysOf(i.oneTime)
  <2> HIDE DEF x, y, z, xi, zi
  <2>1. /\ DOMAIN theirs = 1 .. (IF a.oneTime = NoOneTime THEN 3 ELSE 4)
        /\ theirs[1] = x /\ theirs[3] = z
        /\ a.oneTime # NoOneTime => theirs[4] = DH(e, Public(a.oneTime.key))
    BY <1>6, ListFacts
  <2>2. /\ DOMAIN ours = 1 .. (IF i.oneTime = NoOneTime THEN 3 ELSE 4)
        /\ ours[1] = xi /\ ours[3] = zi
        /\ i.oneTime # NoOneTime => ours[4] = DH(e, Public(i.oneTime.key))
    BY <1>7, ListFacts
  <2>3. x = xi /\ z = zi
    BY <1>8, <2>1, <2>2
  <2>4. xi = {Shared(i.key), Initiator} /\ xi # Zero
    BY <1>2, NonZeroDH DEF xi
  <2>5. a.peer # Zero
    BY <2>3, <2>4 DEF x, DH
  <2>6. x = {Shared(key), a.peer}
    <3>1. a.peer \in HonestKeys \cup Others
      BY <1>2, <1>3, <2>5
    <3> QED BY <1>2, <3>1, NonZeroDH DEF x
  <2>7. a.peer = Initiator
    <3>1. Initiator # Shared(key)
      BY Degenerate
    <3> QED BY <2>3, <2>4, <2>6, <3>1
  <2>8. key = i.key
    <3>1. z = {Shared(key), e} /\ zi = {Shared(i.key), e}
      BY <1>2, NonZeroDH DEF z, zi
    <3>2. {Shared(key), e} = {Shared(i.key), e}
      BY <2>3, <3>1
    <3>3. Shared(key) = Shared(i.key)
      BY <3>2
    <3> QED BY <3>3 DEF Shared
  <2>9. (a.oneTime = NoOneTime) <=> (i.oneTime = NoOneTime)
    <3>1. 4 \in 1 .. 4 /\ 4 \notin 1 .. 3
      OBVIOUS
    <3> QED BY <1>8, <2>1, <2>2, <3>1
  <2>10. KeysOf(a.oneTime) = KeysOf(i.oneTime)
    <3>1. CASE a.oneTime = NoOneTime
      BY <2>9, <3>1 DEF KeysOf
    <3>2. CASE a.oneTime # NoOneTime
      <4>1. i.oneTime # NoOneTime /\ DH(e, Public(a.oneTime.key)) = DH(e, Public(i.oneTime.key))
        BY <1>8, <2>1, <2>2, <2>9, <3>2
      <4>2. a.oneTime.key = i.oneTime.key
        BY <1>2, <1>3, <3>2, <4>1, SameOneTimePart
      <4> QED BY <3>2, <4>1, <4>2 DEF KeysOf
    <3> QED BY <3>1, <3>2
  <2> QED BY <2>7, <2>8, <2>10
<1>9. ASSUME a.peer = Initiator, key = i.key, KeysOf(a.oneTime) = KeysOf(i.oneTime)
      PROVE  theirs = ours
  <2>1. x = xi /\ z = zi
    BY <1>9
  <2>2. OneTimePart(a.oneTime, e) = OneTimePart(i.oneTime, e)
    BY <1>9 DEF OneTimePart, KeysOf
  <2> QED BY <1>6, <1>7, <2>1, <2>2
<1> QED BY <1>4, <1>5, <1>8, <1>9

\* A session of the responder and an initiator hold the same root exactly if both
\* used the same keys and the initiator meant this device (derive_root): what was
\* altered on the way, which respond_inner does not notice, shows in the root.
THEOREM SetupRootsAgree == Spec => []RootsAgree
<1>1. SetupInv => RootsAgree
  <2>1. SUFFICES ASSUME SetupInv, NEW n \in DOMAIN sessions, NEW i \in inits
                 PROVE  sessions[n].root = i.root <=>
                            /\ sessions[n].init.peer = Initiator
                            /\ sessions[n].init.ephemeral = i.ephemeral
                            /\ sessions[n].key = i.key
                            /\ KeysOf(sessions[n].init.oneTime) = KeysOf(i.oneTime)
                            /\ i.to = Responder
    BY DEF RootsAgree
  <2>2. IsInit(i) /\ sessions[n] \in Established
    BY <2>1 DEF SetupInv, SetupTyped
  <2>3. PICK a \in Answered, key \in Keys : sessions[n] = SessionOf(a, key)
    BY <2>2 DEF Established
  <2>4. /\ sessions[n].init = a /\ sessions[n].key = key
        /\ sessions[n].root = Root(ResponderDhs(a, key), Initiator, Responder, a.ephemeral)
    BY <2>3 DEF SessionOf
  <2>5. i.root = Root(ResponderDhs(Sent(i), i.key), Initiator, i.to, i.ephemeral)
    BY <2>2 DEF IsInit
  <2>6. sessions[n].root = i.root <=>
            /\ ResponderDhs(a, key) = ResponderDhs(Sent(i), i.key)
            /\ Responder = i.to /\ a.ephemeral = i.ephemeral
    BY <2>4, <2>5 DEF Root
  <2>7. CASE a.ephemeral = i.ephemeral
    BY <2>2, <2>4, <2>6, <2>7, SameResults
  <2>8. CASE a.ephemeral # i.ephemeral
    BY <2>4, <2>6, <2>8
  <2> QED BY <2>7, <2>8
<1> QED BY <1>1, SetupInvariant, PTL

=============================================================================
