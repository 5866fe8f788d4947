--------------------------- MODULE PreKeyRegistry ---------------------------
(***************************************************************************)
(* The prekey directory of the gateway (backend/src/prekeys.rs): the       *)
(* current signed publication of each device, revocations, and the claims  *)
(* of one-time prekeys (OPKs).  publish, revoke and claim_opk each run     *)
(* under one lock; the clock reading they use was taken by the handler     *)
(* before the lock was awaited, so it may be older than the clock.         *)
(*                                                                         *)
(* Signatures and key material are values: a publication says whether      *)
(* bundle.validate and the two signature checks accept it.                 *)
(***************************************************************************)
EXTENDS Integers, FiniteSets

CONSTANTS
    Devices,            \* device identifiers
    KeyIds,             \* key_id of a one-time prekey
    PublicKeys,         \* public keys of one-time prekeys
    RequestIds,         \* request_id of a claim; all but NilRequest are non-zero
    NilRequest,         \* the all-zero request_id
    Publications,       \* the publications clients send
    MaxLifetime,        \* MAX_LIFETIME_MS
    MaxClockSkew,       \* MAX_CLOCK_SKEW_MS
    NoPublication,      \* no entry in publications
    MaxTime             \* bound of the model: the last reading of the clock

PartialKeys == UNION {[ids -> PublicKeys] : ids \in SUBSET KeyIds}

Publication ==
    [device : Devices, generation : Nat, issuedAt : Nat, expiresAt : Nat,
     opks : PartialKeys, authentic : BOOLEAN]

ASSUME PublicationsTyped ==
    Publications \subseteq Publication /\ NoPublication \notin Publications
ASSUME RegistryBounds ==
    MaxLifetime \in Nat /\ MaxClockSkew \in Nat /\ MaxTime \in Nat

ClaimKey   == [device : Devices, generation : Nat, keyId : KeyIds]
RequestKey == [claimant : Devices, requestId : RequestIds \ {NilRequest}]
OpkClaim   == [requestId : RequestIds \ {NilRequest}, claimant : Devices, recipient : Devices,
               generation : Nat, keyId : KeyIds, publicKey : PublicKeys]

VARIABLES
    publications,   \* publications[d]: the current publication of device d
    revoked,        \* devices with a revocation (its time is never read)
    claims,         \* ClaimKey -> OpkClaim
    requests,       \* RequestKey -> ClaimKey
    answered,       \* history: the claims returned to claimants
    now             \* the wall clock

vars == <<publications, revoked, claims, requests, answered, now>>

Put(f, k, v) == [x \in DOMAIN f \cup {k} |-> IF x = k THEN v ELSE f[x]]

-----------------------------------------------------------------------------
(* publish *)

Valid(p, t) ==
    /\ p.authentic
    /\ p.issuedAt <= t + MaxClockSkew
    /\ p.expiresAt > p.issuedAt
    /\ p.expiresAt - p.issuedAt <= MaxLifetime
    /\ p.expiresAt > t

(* Fault: a generation may be published twice *)
NotOlder(p) ==
    publications[p.device] # NoPublication =>
        p.generation >= publications[p.device].generation

Newer(p) ==
    publications[p.device] # NoPublication =>
        p.generation > publications[p.device].generation

Publish(p, t) ==
    /\ Valid(p, t)
    /\ p.device \notin revoked
    /\ Newer(p)
    /\ publications' = [publications EXCEPT ![p.device] = p]
    /\ UNCHANGED <<revoked, claims, requests, answered, now>>

PublishRefused(p, t) ==
    /\ ~Valid(p, t) \/ p.device \in revoked \/ ~Newer(p)
    /\ UNCHANGED vars

(* revoke: the generation must be the current one; a revocation is final *)
Revoke(d, generation) ==
    /\ publications[d] # NoPublication
    /\ publications[d].generation = generation
    /\ d \notin revoked
    /\ revoked' = revoked \cup {d}
    /\ UNCHANGED <<publications, claims, requests, answered, now>>

-----------------------------------------------------------------------------
(* claim_opk *)

(* Fault: revocations are not looked up *)
OfferedIfRevoked(recipient, generation, t) ==
    /\ publications[recipient] # NoPublication
    /\ publications[recipient].expiresAt > t
    /\ publications[recipient].generation = generation

(* The checks on the recipient that come before the claim is looked up *)
Offered(recipient, generation, t) ==
    /\ recipient \notin revoked
    /\ publications[recipient] # NoPublication
    /\ publications[recipient].expiresAt > t
    /\ publications[recipient].generation = generation

KeyOf(recipient, generation, keyId) ==
    [device |-> recipient, generation |-> generation, keyId |-> keyId]

RequestOf(claimant, requestId) ==
    [claimant |-> claimant, requestId |-> requestId]

(* Faults: a lookup of claim_opk is left out *)
AnyRequest(requestId) == TRUE
AnyKey(key)           == TRUE
AnyUse(request)       == TRUE

NonZero(requestId) == requestId # NilRequest
Unclaimed(key)     == key \notin DOMAIN claims
Unused(request)    == request \notin DOMAIN requests

(* A key nobody holds goes to the claimant *)
Claim(recipient, generation, keyId, claimant, requestId, t) ==
    LET key     == KeyOf(recipient, generation, keyId)
        request == RequestOf(claimant, requestId)
        opks    == publications[recipient].opks
        claim   == [requestId |-> requestId, claimant |-> claimant,
                    recipient |-> recipient, generation |-> generation,
                    keyId |-> keyId, publicKey |-> opks[keyId]]
    IN  /\ NonZero(requestId)
        /\ Offered(recipient, generation, t)
        /\ Unclaimed(key)
        /\ Unused(request)
        /\ keyId \in DOMAIN opks
        /\ claims' = Put(claims, key, claim)
        /\ requests' = Put(requests, request, key)
        /\ answered' = answered \cup {claim}
        /\ UNCHANGED <<publications, revoked, now>>

(* The holder that repeats its request is given the same claim again *)
ClaimRepeated(recipient, generation, keyId, claimant, requestId, t) ==
    LET key == KeyOf(recipient, generation, keyId) IN
    /\ NonZero(requestId)
    /\ Offered(recipient, generation, t)
    /\ ~Unclaimed(key)
    /\ claims[key].claimant = claimant
    /\ claims[key].requestId = requestId
    /\ answered' = answered \cup {claims[key]}
    /\ UNCHANGED <<publications, revoked, claims, requests, now>>

(* AlreadyClaimed, or a request id the claimant has used for another key *)
ClaimRefused(recipient, generation, keyId, claimant, requestId, t) ==
    LET key == KeyOf(recipient, generation, keyId) IN
    /\ \/ ~NonZero(requestId)
       \/ ~Offered(recipient, generation, t)
       \/ /\ ~Unclaimed(key)
          /\ claims[key].claimant # claimant \/ claims[key].requestId # requestId
       \/ /\ Offered(recipient, generation, t)
          /\ Unclaimed(key)
          /\ \/ ~Unused(RequestOf(claimant, requestId))
             \/ keyId \notin DOMAIN publications[recipient].opks
    /\ UNCHANGED vars

-----------------------------------------------------------------------------
(* get_active: what a claimant is offered *)
GetActive(d, t) ==
    IF d \notin revoked /\ publications[d] # NoPublication /\ publications[d].expiresAt > t
    THEN publications[d]
    ELSE NoPublication

Init ==
    /\ publications = [d \in Devices |-> NoPublication]
    /\ revoked = {}
    /\ claims = [k \in {} |-> NoPublication]
    /\ requests = [r \in {} |-> NoPublication]
    /\ answered = {}
    /\ now = 0

Tick ==
    /\ now < MaxTime
    /\ now' = now + 1
    /\ UNCHANGED <<publications, revoked, claims, requests, answered>>

Generations == {p.generation : p \in Publications}

Next ==
    \/ Tick
    \/ \E p \in Publications, t \in 0..now : Publish(p, t) \/ PublishRefused(p, t)
    \/ \E d \in Devices, g \in Generations : Revoke(d, g)
    \/ \E d, c \in Devices, g \in Generations, k \in KeyIds, r \in RequestIds, t \in 0..now :
        \/ Claim(d, g, k, c, r, t)
        \/ ClaimRepeated(d, g, k, c, r, t)
        \/ ClaimRefused(d, g, k, c, r, t)

Spec == Init /\ [][Next]_vars

-----------------------------------------------------------------------------
(* Properties *)

TypeOK ==
    /\ publications \in [Devices -> Publications \cup {NoPublication}]
    /\ revoked \in SUBSET Devices
    /\ DOMAIN claims \subseteq ClaimKey
    /\ \A k \in DOMAIN claims : claims[k] \in OpkClaim
    /\ DOMAIN requests \subseteq RequestKey
    /\ \A r \in DOMAIN requests : requests[r] \in ClaimKey
    /\ answered \in SUBSET OpkClaim
    /\ now \in 0..MaxTime

(***************************************************************************)
(* No two answers of claim_opk give the same one-time prekey of the same   *)
(* generation to different requests, however claims, retries and new       *)
(* publications interleave.                                                *)
(***************************************************************************)
OneHolder ==
    \A a, b \in answered :
        (a.recipient = b.recipient /\ a.generation = b.generation /\ a.keyId = b.keyId)
            => a = b

(***************************************************************************)
(* Repeating a request never yields a second key: all answers to one       *)
(* request id of a claimant are the same claim, over all recipients and    *)
(* generations.                                                            *)
(***************************************************************************)
OneKeyPerRequest ==
    \A a, b \in answered :
        (a.claimant = b.claimant /\ a.requestId = b.requestId) => a = b

(***************************************************************************)
(* A claim is never ahead of the publication of its recipient, and a claim *)
(* on the current generation carries the key published there: publish      *)
(* never replaces the keys of a generation that may have been claimed.     *)
(***************************************************************************)
Follows(a) ==
    LET p == publications[a.recipient] IN
    /\ p # NoPublication
    /\ a.generation <= p.generation
    /\ a.generation = p.generation =>
          a.keyId \in DOMAIN p.opks /\ p.opks[a.keyId] = a.publicKey

ClaimsFollowPublication == \A a \in answered : Follows(a)

(***************************************************************************)
(* A revoked device stays revoked, keeps the publication it had, and no    *)
(* claim on it is answered any more; otherwise generations only grow.      *)
(***************************************************************************)
RevokedStays(d) ==
    d \in revoked =>
        /\ d \in revoked'
        /\ publications'[d] = publications[d]
        /\ \A a \in answered' \ answered : a.recipient # d

GenerationGrows(d) ==
    publications'[d] # publications[d] =>
        \/ publications[d] = NoPublication
        \/ publications'[d].generation > publications[d].generation

RevocationIsFinal == [][\A d \in Devices : RevokedStays(d) /\ GenerationGrows(d)]_vars

(***************************************************************************)
(* Each one-time prekey is reserved at most once (docs/KEY_LIFECYCLE.md).  *)
(***************************************************************************)
EachPrekeySingleUse ==
    \A a, b \in answered :
        (a.recipient = b.recipient /\ a.publicKey = b.publicKey) => a = b

=============================================================================
