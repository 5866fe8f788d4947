------------------------ MODULE PreKeyRegistryProofs ------------------------
(***************************************************************************)
(* The prekey registry for every number of devices, keys, requests and     *)
(* publications.  claims and requests describe the same pairing: a claim   *)
(* is filed under its own key, and the request it answers leads back to    *)
(* that key.  What claim_opk has answered is always such a claim.          *)
(***************************************************************************)
EXTENDS PreKeyRegistry, TLAPS

KeyOfClaim(a)     == KeyOf(a.recipient, a.generation, a.keyId)
RequestOfClaim(a) == RequestOf(a.claimant, a.requestId)

ClaimsPaired ==
    \A k \in DOMAIN claims :
        /\ KeyOfClaim(claims[k]) = k
        /\ RequestOfClaim(claims[k]) \in DOMAIN requests
        /\ requests[RequestOfClaim(claims[k])] = k

AnswersAreClaims ==
    \A a \in answered :
        KeyOfClaim(a) \in DOMAIN claims /\ claims[KeyOfClaim(a)] = a

ClaimsFollow == \A k \in DOMAIN claims : Follows(claims[k])

RegistryInv ==
    /\ TypeOK
    /\ ClaimsPaired
    /\ AnswersAreClaims
    /\ ClaimsFollow

(* A publication maps the key ids it offers to public keys *)
LEMMA OfferedKeys ==
    ASSUME NEW p \in Publications, NEW k \in DOMAIN p.opks
    PROVE  k \in KeyIds /\ p.opks[k] \in PublicKeys
<1>1. p.opks \in PartialKeys
  BY PublicationsTyped DEF Publication
<1>2. PICK ids \in SUBSET KeyIds : p.opks \in [ids -> PublicKeys]
  BY <1>1 DEF PartialKeys
<1> QED
  BY <1>2

(* The empty registry satisfies the invariant *)
LEMMA RegistryInvInit == Init => RegistryInv
<1> SUFFICES ASSUME Init PROVE RegistryInv
  OBVIOUS
<1>1. DOMAIN claims = {} /\ DOMAIN requests = {}
  BY DEF Init
<1>2. TypeOK
  BY <1>1, RegistryBounds DEF Init, TypeOK
<1> QED
  BY <1>1, <1>2 DEF Init, RegistryInv, ClaimsPaired, AnswersAreClaims, ClaimsFollow

(* An accepted publication only replaces an older generation *)
LEMMA PublishInv ==
    ASSUME RegistryInv, NEW p \in Publications, NEW t \in 0..now, Publish(p, t)
    PROVE  RegistryInv'
<1> USE DEF Publish
<1>1. p.device \in Devices /\ p.generation \in Nat /\ p # NoPublication
  BY PublicationsTyped DEF Publication
<1>2. TypeOK'
  BY <1>1 DEF RegistryInv, TypeOK
<1>3. ClaimsPaired' /\ AnswersAreClaims'
  BY DEF RegistryInv, ClaimsPaired, AnswersAreClaims
<1>4. ASSUME NEW k \in DOMAIN claims
      PROVE  Follows(claims[k])'
  <2> DEFINE a == claims[k]
             q == publications[a.recipient]
  <2>1. a.generation \in Nat /\ a.recipient \in Devices
    BY DEF RegistryInv, TypeOK, OpkClaim
  <2>2. Follows(a)
    BY DEF RegistryInv, ClaimsFollow
  <2>3. CASE a.recipient = p.device
    <3>1. q # NoPublication /\ a.generation <= q.generation
      BY <2>2 DEF Follows
    <3>2. q.generation \in Nat
      BY <2>1, <3>1, PublicationsTyped DEF RegistryInv, TypeOK, Publication
    <3>3. a.generation < p.generation
      BY <1>1, <2>1, <2>3, <3>1, <3>2 DEF Newer
    <3>4. publications'[a.recipient] = p
      BY <2>1, <2>3 DEF RegistryInv, TypeOK
    <3> QED
      BY <1>1, <2>1, <3>3, <3>4 DEF Follows
  <2>4. CASE a.recipient # p.device
    <3>1. publications'[a.recipient] = q
      BY <2>1, <2>4 DEF RegistryInv, TypeOK
    <3> QED
      BY <2>2, <3>1 DEF Follows
  <2> QED
    BY <2>3, <2>4
<1> QED
  BY <1>2, <1>3, <1>4 DEF RegistryInv, ClaimsFollow

(* A claim of a free key is filed under the key and under the request *)
LEMMA ClaimInv ==
    ASSUME RegistryInv,
           NEW d \in Devices, NEW c \in Devices, NEW g \in Nat,
           NEW k \in KeyIds, NEW r \in RequestIds, NEW t \in 0..now,
           Claim(d, g, k, c, r, t)
    PROVE  RegistryInv'
<1> DEFINE key     == KeyOf(d, g, k)
           request == RequestOf(c, r)
           pub     == publications[d]
           claim   == [requestId |-> r, claimant |-> c, recipient |-> d,
                       generation |-> g, keyId |-> k, publicKey |-> pub.opks[k]]
<1>1. /\ r # NilRequest
      /\ key \notin DOMAIN claims
      /\ request \notin DOMAIN requests
      /\ pub # NoPublication
      /\ pub.generation = g
      /\ k \in DOMAIN pub.opks
  BY DEF Claim, NonZero, Offered, Unclaimed, Unused
<1>2. /\ claims' = Put(claims, key, claim)
      /\ requests' = Put(requests, request, key)
      /\ answered' = answered \cup {claim}
      /\ UNCHANGED <<publications, revoked, now>>
  BY DEF Claim
<1>3. claim \in OpkClaim
  <2>1. pub \in Publications
    BY <1>1 DEF RegistryInv, TypeOK
  <2>2. pub.opks[k] \in PublicKeys
    BY <1>1, <2>1, OfferedKeys
  <2> QED
    BY <1>1, <2>2 DEF OpkClaim
<1>4. key \in ClaimKey /\ request \in RequestKey
  BY <1>1 DEF KeyOf, RequestOf, ClaimKey, RequestKey
<1>5. KeyOfClaim(claim) = key /\ RequestOfClaim(claim) = request
  BY DEF KeyOfClaim, RequestOfClaim
<1>6. Follows(claim)
  BY <1>1 DEF Follows, RegistryInv, TypeOK
<1> HIDE DEF key, request, claim
<1>7. /\ DOMAIN claims' = DOMAIN claims \cup {key}
      /\ claims'[key] = claim
      /\ \A x \in DOMAIN claims : x # key => claims'[x] = claims[x]
  BY <1>2 DEF Put
<1>8. /\ DOMAIN requests' = DOMAIN requests \cup {request}
      /\ requests'[request] = key
      /\ \A x \in DOMAIN requests : x # request => requests'[x] = requests[x]
  BY <1>2 DEF Put
<1>9. TypeOK'
  <2>1. DOMAIN claims' \subseteq ClaimKey /\ \A x \in DOMAIN claims' : claims'[x] \in OpkClaim
    BY <1>3, <1>4, <1>7 DEF RegistryInv, TypeOK
  <2>2. DOMAIN requests' \subseteq RequestKey /\ \A x \in DOMAIN requests' : requests'[x] \in ClaimKey
    BY <1>4, <1>8 DEF RegistryInv, TypeOK
  <2> QED
    BY <1>2, <1>3, <2>1, <2>2 DEF RegistryInv, TypeOK
<1>10. ClaimsPaired'
  BY <1>1, <1>5, <1>7, <1>8 DEF RegistryInv, ClaimsPaired
<1>11. AnswersAreClaims'
  BY <1>1, <1>2, <1>5, <1>7 DEF RegistryInv, AnswersAreClaims
<1>12. ClaimsFollow'
  <2>1. \A a : Follows(a)' <=> Follows(a)
    BY <1>2 DEF Follows
  <2>2. ASSUME NEW x \in DOMAIN claims' PROVE Follows(claims'[x])
    BY <1>6, <1>7 DEF RegistryInv, ClaimsFollow
  <2> QED
    BY <2>1, <2>2 DEF ClaimsFollow
<1> QED
  BY <1>9, <1>10, <1>11, <1>12 DEF RegistryInv

(* A repeated claim adds nothing but an answer that was given before *)
LEMMA ClaimRepeatedInv ==
    ASSUME RegistryInv,
           NEW d, NEW c, NEW g, NEW k, NEW r, NEW t,
           ClaimRepeated(d, g, k, c, r, t)
    PROVE  RegistryInv'
<1> DEFINE key == KeyOf(d, g, k)
<1>1. /\ key \in DOMAIN claims
      /\ answered' = answered \cup {claims[key]}
      /\ UNCHANGED <<publications, revoked, claims, requests, now>>
  BY DEF ClaimRepeated, Unclaimed
<1>2. TypeOK'
  BY <1>1 DEF RegistryInv, TypeOK
<1>3. KeyOfClaim(claims[key]) = key
  BY <1>1 DEF RegistryInv, ClaimsPaired
<1>4. AnswersAreClaims'
  BY <1>1, <1>3 DEF RegistryInv, AnswersAreClaims
<1>5. ClaimsPaired' /\ ClaimsFollow'
  BY <1>1 DEF RegistryInv, ClaimsPaired, ClaimsFollow, Follows
<1> QED
  BY <1>2, <1>4, <1>5 DEF RegistryInv

(* A step that leaves publications, claims, requests and answers alone *)
LEMMA RegistryUnchangedInv ==
    ASSUME RegistryInv, UNCHANGED <<publications, claims, requests, answered>>, TypeOK'
    PROVE  RegistryInv'
  BY DEF RegistryInv, ClaimsPaired, AnswersAreClaims, ClaimsFollow, Follows

(* The generations of the model are those of publications *)
LEMMA GenerationsAreNat == Generations \subseteq Nat
  BY PublicationsTyped DEF Generations, Publication

(* Every operation of the registry keeps the invariant *)
LEMMA RegistryInvNext == RegistryInv /\ [Next]_vars => RegistryInv'
<1> SUFFICES ASSUME RegistryInv, [Next]_vars PROVE RegistryInv'
  OBVIOUS
<1>1. CASE UNCHANGED vars
  <2>1. TypeOK'
    BY <1>1 DEF vars, RegistryInv, TypeOK
  <2> QED
    BY <1>1, <2>1, RegistryUnchangedInv DEF vars
<1>2. CASE Tick
  <2>1. TypeOK'
    BY <1>2, RegistryBounds DEF Tick, RegistryInv, TypeOK
  <2> QED
    BY <1>2, <2>1, RegistryUnchangedInv DEF Tick
<1>3. ASSUME NEW p \in Publications, NEW t \in 0..now, Publish(p, t)
      PROVE  RegistryInv'
  BY <1>3, PublishInv
<1>4. ASSUME NEW p, NEW t, PublishRefused(p, t) PROVE RegistryInv'
  BY <1>1, <1>4 DEF PublishRefused
<1>5. ASSUME NEW d \in Devices, NEW g, Revoke(d, g) PROVE RegistryInv'
  <2>1. TypeOK'
    BY <1>5 DEF Revoke, RegistryInv, TypeOK
  <2> QED
    BY <1>5, <2>1, RegistryUnchangedInv DEF Revoke
<1>6. ASSUME NEW d \in Devices, NEW c \in Devices, NEW g \in Generations,
             NEW k \in KeyIds, NEW r \in RequestIds, NEW t \in 0..now,
             Claim(d, g, k, c, r, t)
      PROVE  RegistryInv'
  BY <1>6, ClaimInv, GenerationsAreNat
<1>7. ASSUME NEW d, NEW c, NEW g, NEW k, NEW r, NEW t, ClaimRepeated(d, g, k, c, r, t)
      PROVE  RegistryInv'
  BY <1>7, ClaimRepeatedInv
<1>8. ASSUME NEW d, NEW c, NEW g, NEW k, NEW r, NEW t, ClaimRefused(d, g, k, c, r, t)
      PROVE  RegistryInv'
  BY <1>1, <1>8 DEF ClaimRefused
<1> QED
  BY <1>1, <1>2, <1>3, <1>4, <1>5, <1>6, <1>7, <1>8 DEF Next

-----------------------------------------------------------------------------
(***************************************************************************)
(* The inductive invariant: publications, claims, requests and answers     *)
(* agree after any sequence of publish, revoke and claim_opk calls.        *)
(***************************************************************************)
THEOREM RegistryInvariant == Spec => []RegistryInv
  BY RegistryInvInit, RegistryInvNext, PTL DEF Spec

(* The maps of RegistryState keep their types; no zero request is filed. *)
THEOREM RegistryTypeCorrect == Spec => []TypeOK
<1>1. RegistryInv => TypeOK
  BY DEF RegistryInv
<1> QED
  BY <1>1, RegistryInvariant, PTL

(***************************************************************************)
(* claim_opk never answers two requests with the same one-time prekey of a *)
(* generation.                                                             *)
(***************************************************************************)
THEOREM RegistryOneHolder == Spec => []OneHolder
<1>1. RegistryInv => OneHolder
  BY DEF RegistryInv, AnswersAreClaims, OneHolder, KeyOfClaim
<1> QED
  BY <1>1, RegistryInvariant, PTL

(***************************************************************************)
(* A request id of a claimant is only ever answered with one claim: a      *)
(* retry of claim_opk never takes a second key.                            *)
(***************************************************************************)
THEOREM RegistryOneKeyPerRequest == Spec => []OneKeyPerRequest
<1>1. RegistryInv => OneKeyPerRequest
  <2> SUFFICES ASSUME RegistryInv, NEW a \in answered, NEW b \in answered,
                      a.claimant = b.claimant, a.requestId = b.requestId
               PROVE  a = b
    BY DEF OneKeyPerRequest
  <2>1. /\ KeyOfClaim(a) \in DOMAIN claims /\ claims[KeyOfClaim(a)] = a
        /\ KeyOfClaim(b) \in DOMAIN claims /\ claims[KeyOfClaim(b)] = b
    BY DEF RegistryInv, AnswersAreClaims
  <2>2. /\ requests[RequestOfClaim(a)] = KeyOfClaim(a)
        /\ requests[RequestOfClaim(b)] = KeyOfClaim(b)
    BY <2>1 DEF RegistryInv, ClaimsPaired
  <2>3. RequestOfClaim(a) = RequestOfClaim(b)
    BY DEF RequestOfClaim
  <2> QED
    BY <2>1, <2>2, <2>3
<1> QED
  BY <1>1, RegistryInvariant, PTL

(***************************************************************************)
(* publish never replaces the keys of a generation that claim_opk may have *)
(* answered from.                                                          *)
(***************************************************************************)
THEOREM RegistryClaimsFollowPublication == Spec => []ClaimsFollowPublication
<1>1. RegistryInv => ClaimsFollowPublication
  BY DEF RegistryInv, AnswersAreClaims, ClaimsFollow, ClaimsFollowPublication
<1> QED
  BY <1>1, RegistryInvariant, PTL

(* What one step may do to the publication and the answers of a device *)
LEMMA RevocationStep ==
    ASSUME RegistryInv, [Next]_vars, NEW d \in Devices
    PROVE  RevokedStays(d) /\ GenerationGrows(d)
<1>1. CASE UNCHANGED <<publications, revoked, answered>>
  BY <1>1 DEF RevokedStays, GenerationGrows
<1>2. ASSUME NEW p \in Publications, NEW t, Publish(p, t)
      PROVE  RevokedStays(d) /\ GenerationGrows(d)
  <2>1. p.device \notin revoked /\ Newer(p) /\ UNCHANGED <<revoked, answered>>
    BY <1>2 DEF Publish
  <2>2. publications' = [publications EXCEPT ![p.device] = p]
    BY <1>2 DEF Publish
  <2>3. d # p.device => publications'[d] = publications[d]
    BY <2>2 DEF RegistryInv, TypeOK
  <2>4. d = p.device => publications'[d] = p
    BY <2>2 DEF RegistryInv, TypeOK
  <2> QED
    BY <2>1, <2>3, <2>4 DEF RevokedStays, GenerationGrows, Newer
<1>3. ASSUME NEW e, NEW g, Revoke(e, g)
      PROVE  RevokedStays(d) /\ GenerationGrows(d)
  BY <1>3 DEF Revoke, RevokedStays, GenerationGrows
<1>4. ASSUME NEW e, NEW c, NEW g, NEW k, NEW r, NEW t, Claim(e, g, k, c, r, t)
      PROVE  RevokedStays(d) /\ GenerationGrows(d)
  <2>1. e \notin revoked /\ UNCHANGED <<publications, revoked>>
    BY <1>4 DEF Claim, Offered
  <2>2. \A a \in answered' \ answered : a.recipient = e
    BY <1>4 DEF Claim
  <2> QED
    BY <2>1, <2>2 DEF RevokedStays, GenerationGrows
<1>5. ASSUME NEW e, NEW c, NEW g, NEW k, NEW r, NEW t, ClaimRepeated(e, g, k, c, r, t)
      PROVE  RevokedStays(d) /\ GenerationGrows(d)
  <2> DEFINE key == KeyOf(e, g, k)
  <2>1. e \notin revoked /\ UNCHANGED <<publications, revoked>>
    BY <1>5 DEF ClaimRepeated, Offered
  <2>2. key \in DOMAIN claims /\ answered' = answered \cup {claims[key]}
    BY <1>5 DEF ClaimRepeated, Unclaimed
  <2>3. KeyOfClaim(claims[key]) = key
    BY <2>2 DEF RegistryInv, ClaimsPaired
  <2>4. claims[key].recipient = e
    BY <2>3 DEF KeyOfClaim, KeyOf
  <2> QED
    BY <2>1, <2>2, <2>4 DEF RevokedStays, GenerationGrows
<1> QED
  BY <1>1, <1>2, <1>3, <1>4, <1>5 DEF Next, vars, Tick, PublishRefused, ClaimRefused

(***************************************************************************)
(* After revoke a device stays revoked, its publication stays as it is and *)
(* claim_opk answers nothing for it; publish only moves generations up.    *)
(***************************************************************************)
THEOREM RegistryRevocationIsFinal == Spec => RevocationIsFinal
<1>1. RegistryInv /\ [Next]_vars => [\A d \in Devices : RevokedStays(d) /\ GenerationGrows(d)]_vars
  BY RevocationStep
<1> QED
  BY <1>1, RegistryInvariant, PTL DEF Spec, RevocationIsFinal

=============================================================================
