--------------------------- MODULE GatewayProofs ----------------------------
(***************************************************************************)
(* Proofs about the relay store and the gateway around it, for any devices, *)
(* connections, requests, messages, limits and capacities.  First the      *)
(* store: its type, the uniqueness of queued identifiers, the exactness of *)
(* its counters, its limits and the retention of messages.  Then the       *)
(* gateway: what is proved of the store holds inside it, the type of its   *)
(* state, who may hold and remove an entry of the registry, that activate  *)
(* drops nothing, that no message is stranded, and that it implements      *)
(* Mailbox.                                                                *)
(***************************************************************************)
EXTENDS Gateway, FiniteSetTheorems, SequenceTheorems, TLAPS

-----------------------------------------------------------------------------
(* Retain *)

Rank(keep, i) == Cardinality({j \in keep : j <= i})

(* Positions of keep are numbered 1, 2, ... in increasing order: the rank  *)
(* Retain counts is a bijection.                                           *)
LEMMA RankBijection ==
    ASSUME NEW n \in Nat, NEW keep \in SUBSET (1..n)
    PROVE  /\ Cardinality(keep) \in Nat
           /\ \A i \in keep : Rank(keep, i) \in 1..Cardinality(keep)
           /\ \A i, j \in keep : Rank(keep, i) = Rank(keep, j) => i = j
           /\ \A k \in 1..Cardinality(keep) : \E i \in keep : Rank(keep, i) = k
<1> DEFINE below(i) == {j \in keep : j <= i}
           rank == [i \in keep |-> Rank(keep, i)]
           m == Cardinality(keep)
<1>1. IsFiniteSet(keep) /\ m \in Nat
  <2>1. IsFiniteSet(1..n)
    BY FS_Interval
  <2> QED
    BY <2>1, FS_Subset, FS_CardinalityType
<1>2. \A i \in keep : /\ IsFiniteSet(below(i))
                      /\ Cardinality(below(i)) \in 1..m
  <2> TAKE i \in keep
  <2>1. IsFiniteSet(below(i)) /\ Cardinality(below(i)) <= m
    BY <1>1, FS_Subset, below(i) \in SUBSET keep
  <2>2. i \in below(i)
    OBVIOUS
  <2>3. Cardinality(below(i)) \in Nat /\ Cardinality(below(i)) # 0
    BY <2>1, <2>2, FS_CardinalityType, FS_EmptySet
  <2> QED
    BY <2>1, <2>3, <1>1
<1>3. ASSUME NEW i \in keep, NEW j \in keep, i < j
      PROVE  Cardinality(below(i)) # Cardinality(below(j))
  <2>1. \A k \in keep : k \in Int
    OBVIOUS
  <2>2. j \in below(j) /\ j \notin below(i)
    BY <2>1, <1>3
  <2>3. \A k \in below(i) : k \in below(j)
    BY <2>1, <1>3
  <2> QED
    BY <2>2, <2>3, <1>2, FS_Subset
<1>4. rank \in Injection(keep, 1..m)
  <2>1. rank \in [keep -> 1..m]
    BY <1>2 DEF Rank
  <2>2. \A i, j \in keep : rank[i] = rank[j] => i = j
    BY <1>3 DEF Rank
  <2> QED
    BY <2>1, <2>2 DEF Injection, IsInjective
<1>5. IsFiniteSet(1..m) /\ Cardinality(1..m) = m
  BY <1>1, FS_Interval
<1>6. rank \in Surjection(keep, 1..m)
  BY <1>4, <1>5, FS_Injection
<1> QED
  BY <1>1, <1>4, <1>6 DEF Injection, Surjection, IsInjective

(***************************************************************************)
(* VecDeque::retain: what Retain returns is the sequence of the kept       *)
(* entries; positionOf tells where each came from.                         *)
(***************************************************************************)
LEMMA RetainIsKept ==
    ASSUME NEW S, NEW q \in Seq(S), NEW keep \in SUBSET DOMAIN q
    PROVE  /\ Retain(q, keep) \in Seq(S)
           /\ IsFiniteSet(keep)
           /\ Len(Retain(q, keep)) = Cardinality(keep)
           /\ Cardinality(keep) <= Len(q)
           /\ \E positionOf \in Bijection(1..Cardinality(keep), keep) :
                \A k \in 1..Cardinality(keep) :
                    Retain(q, keep)[k] = q[positionOf[k]]
<1> DEFINE n == Len(q)
           m == Cardinality(keep)
           pos == [k \in 1..m |-> CHOOSE i \in keep : Rank(keep, i) = k]
<1>1. n \in Nat /\ keep \in SUBSET (1..n) /\ DOMAIN q = 1..n
  OBVIOUS
<1>2. /\ m \in Nat
      /\ \A i \in keep : Rank(keep, i) \in 1..m
      /\ \A i, j \in keep : Rank(keep, i) = Rank(keep, j) => i = j
      /\ \A k \in 1..m : \E i \in keep : Rank(keep, i) = k
  BY <1>1, RankBijection
<1>3. \A k \in 1..m : pos[k] \in keep /\ Rank(keep, pos[k]) = k
  BY <1>2
<1>4. pos \in Bijection(1..m, keep)
  <2>1. pos \in [1..m -> keep]
    BY <1>3
  <2>2. \A k, l \in 1..m : pos[k] = pos[l] => k = l
    BY <1>3
  <2>3. \A i \in keep : \E k \in 1..m : pos[k] = i
    BY <1>2, <1>3
  <2> QED
    BY <2>1, <2>2, <2>3 DEF Bijection, Injection, Surjection, IsInjective
<1>5. Retain(q, keep) = [k \in 1..m |-> q[pos[k]]]
  BY DEF Retain, Rank
<1>6. Retain(q, keep) \in [1..m -> S]
  BY <1>1, <1>3, <1>5
<1>7. IsFiniteSet(keep) /\ m <= n
  <2>1. IsFiniteSet(1..n) /\ Cardinality(1..n) = IF 1 > n THEN 0 ELSE n - 1 + 1
    BY <1>1, FS_Interval
  <2>2. Cardinality(1..n) = n
    BY <1>1, <2>1
  <2> QED
    BY <1>1, <2>1, <2>2, FS_Subset
<1> HIDE DEF pos
<1> QED
  BY <1>2, <1>4, <1>5, <1>6, <1>7

-----------------------------------------------------------------------------
(* Disjoint unions *)

(* The size of an interval of positions of a queue *)
LEMMA IntervalSize ==
    ASSUME NEW n \in Nat
    PROVE  IsFiniteSet(1..n) /\ Cardinality(1..n) = n
BY FS_Interval

(* What belongs to a disjoint union of positions or byte units *)
LEMMA TaggedMember ==
    ASSUME NEW D, NEW F, NEW u
    PROVE  u \in Tagged(D, F) <=> \E x \in D : u \in {x} \X F[x]
BY DEF Tagged

(* A disjoint union over finitely many queues or entries is finite *)
LEMMA TaggedFinite ==
    ASSUME NEW D, IsFiniteSet(D), NEW F, \A x \in D : IsFiniteSet(F[x])
    PROVE  IsFiniteSet(Tagged(D, F)) /\ Cardinality(Tagged(D, F)) \in Nat
<1> DEFINE parts == {{x} \X F[x] : x \in D}
           part == [x \in D |-> {x} \X F[x]]
<1>1. part \in Surjection(D, parts)
  BY DEF Surjection
<1>2. IsFiniteSet(parts)
  BY <1>1, FS_Surjection
<1>3. ASSUME NEW x \in D
      PROVE  IsFiniteSet({x} \X F[x])
  BY FS_Singleton, FS_Product
<1>4. \A T \in parts : IsFiniteSet(T)
  BY <1>3
<1>5. IsFiniteSet(UNION parts)
  BY <1>2, <1>4, FS_UNION
<1> QED
  BY <1>5, FS_CardinalityType DEF Tagged

(* The disjoint union over a single queue or entry has its size *)
LEMMA TaggedSingle ==
    ASSUME NEW x, NEW F, IsFiniteSet(F[x])
    PROVE  Cardinality(Tagged({x}, F)) = Cardinality(F[x])
<1>1. Tagged({x}, F) = {x} \X F[x]
  <2>1. \A u : u \in Tagged({x}, F) <=> \E y \in {x} : u \in {y} \X F[y]
    BY TaggedMember
  <2> QED
    BY <2>1, Zenon
<1>2. IsFiniteSet({x}) /\ Cardinality({x}) = 1
  BY FS_Singleton
<1>3. Cardinality({x} \X F[x]) = 1 * Cardinality(F[x]) /\ Cardinality(F[x]) \in Nat
  BY <1>2, FS_Product, FS_CardinalityType
<1>4. \A n \in Nat : 1 * n = n
  OBVIOUS
<1> QED
  BY <1>1, <1>3, <1>4

(* Disjoint sets of positions add up in the sum of accounted_bytes *)
LEMMA TaggedSplit ==
    ASSUME NEW A, IsFiniteSet(A), NEW B, IsFiniteSet(B), A \cap B = {},
           NEW F, \A x \in A \cup B : IsFiniteSet(F[x])
    PROVE  Cardinality(Tagged(A \cup B, F)) =
                Cardinality(Tagged(A, F)) + Cardinality(Tagged(B, F))
<1>1. /\ IsFiniteSet(Tagged(A, F)) /\ Cardinality(Tagged(A, F)) \in Nat
      /\ IsFiniteSet(Tagged(B, F)) /\ Cardinality(Tagged(B, F)) \in Nat
  BY TaggedFinite
<1>2. Tagged(A \cup B, F) = Tagged(A, F) \cup Tagged(B, F)
  <2>1. /\ \A u : u \in Tagged(A \cup B, F) <=> \E x \in A \cup B : u \in {x} \X F[x]
        /\ \A u : u \in Tagged(A, F) <=> \E x \in A : u \in {x} \X F[x]
        /\ \A u : u \in Tagged(B, F) <=> \E x \in B : u \in {x} \X F[x]
    BY TaggedMember
  <2>2. \A u : u \in Tagged(A \cup B, F) <=> u \in Tagged(A, F) \/ u \in Tagged(B, F)
    BY <2>1, Zenon
  <2> QED
    BY <2>2
<1>3. Tagged(A, F) \cap Tagged(B, F) = {}
  BY DEF Tagged
<1>4. Cardinality(Tagged(A, F) \cap Tagged(B, F)) = 0
  BY <1>3, FS_EmptySet
<1>5. Cardinality(Tagged(A, F) \cup Tagged(B, F)) =
          Cardinality(Tagged(A, F)) + Cardinality(Tagged(B, F))
            - Cardinality(Tagged(A, F) \cap Tagged(B, F))
  BY <1>1, FS_Union
<1>6. \A m, n \in Nat : m + n - 0 = m + n
  OBVIOUS
<1>7. Cardinality(Tagged(A, F) \cup Tagged(B, F)) =
          Cardinality(Tagged(A, F)) + Cardinality(Tagged(B, F))
  BY <1>1, <1>4, <1>5, <1>6, Zenon
<1> QED
  BY <1>2, <1>7, Zenon

(* Renaming the tags does not change the size *)
LEMMA TaggedRename ==
    ASSUME NEW D, IsFiniteSet(D), NEW E, NEW F, NEW G,
           NEW f, f \in Bijection(D, E),
           \A x \in D : IsFiniteSet(F[x]),
           \A x \in D : G[f[x]] = F[x]
    PROVE  Cardinality(Tagged(E, G)) = Cardinality(Tagged(D, F))
<1> DEFINE g == [u \in Tagged(D, F) |-> <<f[u[1]], u[2]>>]
<1>1. /\ f \in [D -> E]
      /\ \A x, y \in D : f[x] = f[y] => x = y
      /\ \A e \in E : \E x \in D : f[x] = e
  BY DEF Bijection, Injection, Surjection, IsInjective
<1>2. \A u \in Tagged(D, F) : u[1] \in D /\ u[2] \in F[u[1]] /\ u = <<u[1], u[2]>>
  BY DEF Tagged
<1>3. \A x \in D : \A y \in F[x] : <<x, y>> \in Tagged(D, F)
  BY DEF Tagged
<1>4. \A e \in E : \A y \in G[e] : <<e, y>> \in Tagged(E, G)
  BY DEF Tagged
<1>5. \A u \in Tagged(E, G) : u[1] \in E /\ u[2] \in G[u[1]] /\ u = <<u[1], u[2]>>
  BY DEF Tagged
<1>6. g \in [Tagged(D, F) -> Tagged(E, G)]
  BY <1>1, <1>2, <1>4
<1>7. \A u, v \in Tagged(D, F) : g[u] = g[v] => u = v
  BY <1>1, <1>2
<1>8. ASSUME NEW v \in Tagged(E, G)
      PROVE  \E u \in Tagged(D, F) : g[u] = v
  <2>1. PICK x \in D : f[x] = v[1]
    BY <1>1, <1>5
  <2>2. <<x, v[2]>> \in Tagged(D, F)
    BY <2>1, <1>5, <1>3
  <2>3. g[<<x, v[2]>>] = v
    BY <2>1, <2>2, <1>5
  <2> QED
    BY <2>2, <2>3
<1>9. g \in Bijection(Tagged(D, F), Tagged(E, G))
  BY <1>6, <1>7, <1>8 DEF Bijection, Injection, Surjection, IsInjective
<1> QED
  BY <1>9, TaggedFinite, FS_Bijection DEF ExistsBijection

(* Replacing one component changes the size by the difference *)
LEMMA TaggedReplace ==
    ASSUME NEW D, IsFiniteSet(D), NEW d \in D, NEW F, NEW G,
           \A x \in D : IsFiniteSet(F[x]) /\ IsFiniteSet(G[x]),
           \A x \in D \ {d} : G[x] = F[x]
    PROVE  \E others \in Nat :
              /\ Cardinality(Tagged(D, F)) = others + Cardinality(F[d])
              /\ Cardinality(Tagged(D, G)) = others + Cardinality(G[d])
<1> DEFINE A == D \ {d}
<1>1. /\ IsFiniteSet(A) /\ IsFiniteSet({d}) /\ A \cap {d} = {}
      /\ A \cup {d} = D /\ d \notin A /\ A \subseteq D
  BY FS_Difference, FS_Singleton
<1>2. Tagged(A, G) = Tagged(A, F)
  <2>1. /\ \A u : u \in Tagged(A, G) <=> \E x \in A : u \in {x} \X G[x]
        /\ \A u : u \in Tagged(A, F) <=> \E x \in A : u \in {x} \X F[x]
    BY TaggedMember
  <2>2. \A u : u \in Tagged(A, G) <=> u \in Tagged(A, F)
    BY <2>1
  <2> QED
    BY <2>2
<1> HIDE DEF A
<1>3. Cardinality(Tagged(A, F)) \in Nat
  BY <1>1, TaggedFinite
<1>4. Cardinality(Tagged(A \cup {d}, F)) =
          Cardinality(Tagged(A, F)) + Cardinality(Tagged({d}, F))
  BY <1>1, TaggedSplit
<1>5. Cardinality(Tagged(A \cup {d}, G)) =
          Cardinality(Tagged(A, G)) + Cardinality(Tagged({d}, G))
  BY <1>1, TaggedSplit
<1>6. /\ Cardinality(Tagged({d}, F)) = Cardinality(F[d])
      /\ Cardinality(Tagged({d}, G)) = Cardinality(G[d])
  BY TaggedSingle
<1> QED
  BY <1>1, <1>2, <1>3, <1>4, <1>5, <1>6, Zenon

-----------------------------------------------------------------------------
(* Bytes of a queue *)

(* accounted_bytes of one entry is the number of its byte units *)
LEMMA EntryBytes ==
    ASSUME NEW q \in Seq(StoredMessage), NEW i \in DOMAIN q
    PROVE  /\ q[i].bytes \in Nat
           /\ IsFiniteSet(1..q[i].bytes)
           /\ Cardinality(1..q[i].bytes) = q[i].bytes
<1>1. q[i] \in StoredMessage
  OBVIOUS
<1>2. q[i].bytes \in Nat
  BY <1>1 DEF StoredMessage
<1> QED
  BY <1>2, IntervalSize

(* The byte units of a set of positions of a queue are finitely many *)
LEMMA UnitsFinite ==
    ASSUME NEW q \in Seq(StoredMessage), NEW idx \in SUBSET DOMAIN q
    PROVE  /\ IsFiniteSet(idx)
           /\ IsFiniteSet(UnitsAt(q, idx))
           /\ BytesAt(q, idx) \in Nat
           /\ \A i \in DOMAIN q : IsFiniteSet([j \in DOMAIN q |-> 1..q[j].bytes][i])
<1>1. IsFiniteSet(idx)
  BY RetainIsKept
<1>2. \A i \in DOMAIN q : IsFiniteSet(1..q[i].bytes)
  BY EntryBytes
<1>3. \A i \in DOMAIN q : IsFiniteSet([j \in DOMAIN q |-> 1..q[j].bytes][i])
  BY <1>2
<1>4. /\ IsFiniteSet(Tagged(idx, [j \in DOMAIN q |-> 1..q[j].bytes]))
      /\ Cardinality(Tagged(idx, [j \in DOMAIN q |-> 1..q[j].bytes])) \in Nat
  BY <1>1, <1>3, TaggedFinite
<1> QED
  BY <1>1, <1>3, <1>4 DEF UnitsAt, BytesAt

(* What retain keeps and what it removes add up to the bytes of a queue *)
LEMMA BytesSplit ==
    ASSUME NEW q \in Seq(StoredMessage), NEW keep \in SUBSET DOMAIN q
    PROVE  BytesAt(q, DOMAIN q) = BytesAt(q, keep) + BytesAt(q, DOMAIN q \ keep)
<1> DEFINE F == [j \in DOMAIN q |-> 1..q[j].bytes]
           rest == DOMAIN q \ keep
<1>1. keep \cup rest = DOMAIN q /\ keep \cap rest = {}
  OBVIOUS
<1>2. IsFiniteSet(keep) /\ IsFiniteSet(rest) /\ \A x \in keep \cup rest : IsFiniteSet(F[x])
  BY <1>1, UnitsFinite
<1> HIDE DEF F, rest
<1>3. Cardinality(Tagged(keep \cup rest, F)) =
          Cardinality(Tagged(keep, F)) + Cardinality(Tagged(rest, F))
  BY <1>1, <1>2, TaggedSplit
<1> QED
  BY <1>1, <1>3, Zenon DEF F, rest, BytesAt, UnitsAt

(* The bytes at one position are the accounted_bytes of its entry *)
LEMMA BytesOfOne ==
    ASSUME NEW q \in Seq(StoredMessage), NEW i \in DOMAIN q
    PROVE  BytesAt(q, {i}) = q[i].bytes
<1> DEFINE F == [j \in DOMAIN q |-> 1..q[j].bytes]
<1>1. F[i] = 1..q[i].bytes
  OBVIOUS
<1>2. IsFiniteSet(F[i]) /\ Cardinality(F[i]) = q[i].bytes
  BY <1>1, EntryBytes
<1> HIDE DEF F
<1>3. Cardinality(Tagged({i}, F)) = Cardinality(F[i])
  BY <1>2, TaggedSingle
<1> QED
  BY <1>2, <1>3 DEF F, BytesAt, UnitsAt

(* retain does not change accounted_bytes of the entries it keeps *)
LEMMA BytesRetain ==
    ASSUME NEW q \in Seq(StoredMessage), NEW keep \in SUBSET DOMAIN q
    PROVE  BytesAt(Retain(q, keep), DOMAIN Retain(q, keep)) = BytesAt(q, keep)
<1> DEFINE r == Retain(q, keep)
           D == 1..Cardinality(keep)
           F == [j \in DOMAIN r |-> 1..r[j].bytes]
           G == [j \in DOMAIN q |-> 1..q[j].bytes]
<1>1. r \in Seq(StoredMessage) /\ DOMAIN r = D
  BY RetainIsKept
<1>2. PICK f \in Bijection(D, keep) : \A k \in D : r[k] = q[f[k]]
  BY RetainIsKept
<1>3. f \in Bijection(D, keep) /\ \A k \in D : f[k] \in keep
  BY <1>2 DEF Bijection, Injection
<1>4. IsFiniteSet(D) /\ \A k \in D : IsFiniteSet(F[k])
  BY <1>1, UnitsFinite
<1>5. \A k \in D : G[f[k]] = F[k]
  BY <1>1, <1>2, <1>3
<1>6. Cardinality(Tagged(keep, G)) = Cardinality(Tagged(D, F))
  <2> HIDE DEF D, F, G
  <2> QED
    BY <1>3, <1>4, <1>5, TaggedRename
<1> QED
  BY <1>1, <1>6 DEF BytesAt, UnitsAt

(* push_back adds the accounted_bytes of the new entry *)
LEMMA BytesAppend ==
    ASSUME NEW q \in Seq(StoredMessage), NEW s \in StoredMessage
    PROVE  BytesAt(Append(q, s), DOMAIN Append(q, s)) = BytesAt(q, DOMAIN q) + s.bytes
<1> DEFINE r == Append(q, s)
           last == Len(q) + 1
           F == [j \in DOMAIN q |-> 1..q[j].bytes]
           G == [j \in DOMAIN r |-> 1..r[j].bytes]
<1>1. /\ r \in Seq(StoredMessage) /\ last \in DOMAIN r /\ r[last] = s
      /\ DOMAIN q \in SUBSET DOMAIN r /\ DOMAIN r \ DOMAIN q = {last}
      /\ \A i \in DOMAIN q : r[i] = q[i]
  OBVIOUS
<1>2. BytesAt(r, DOMAIN r) = BytesAt(r, DOMAIN q) + BytesAt(r, DOMAIN r \ DOMAIN q)
  BY <1>1, BytesSplit
<1>3. BytesAt(r, {last}) = s.bytes
  BY <1>1, BytesOfOne
<1>4. Tagged(DOMAIN q, G) = Tagged(DOMAIN q, F)
  <2>1. \A x \in DOMAIN q : G[x] = F[x]
    BY <1>1
  <2> HIDE DEF F, G
  <2>2. /\ \A u : u \in Tagged(DOMAIN q, G) <=> \E x \in DOMAIN q : u \in {x} \X G[x]
        /\ \A u : u \in Tagged(DOMAIN q, F) <=> \E x \in DOMAIN q : u \in {x} \X F[x]
    BY TaggedMember
  <2>3. \A u : u \in Tagged(DOMAIN q, G) <=> u \in Tagged(DOMAIN q, F)
    BY <2>1, <2>2
  <2> QED
    BY <2>3
<1>5. BytesAt(r, DOMAIN q) = BytesAt(q, DOMAIN q)
  BY <1>4 DEF BytesAt, UnitsAt
<1> QED
  BY <1>1, <1>2, <1>3, <1>5

-----------------------------------------------------------------------------
(* The inductive invariant *)

SlotsOf(qs)     == Tagged(Devices, [d \in Devices |-> DOMAIN qs[d]])
ByteSlotsOf(qs) == Tagged(Devices, [d \in Devices |-> UnitsAt(qs[d], DOMAIN qs[d])])

Bytes(q)    == BytesAt(q, DOMAIN q)
Distinct(q) == \A i, j \in DOMAIN q : q[i].message.id = q[j].message.id => i = j
InWindow(s) ==
    /\ s.message.sentAt + OfflineTtl <= s.expiresAt + MaxClockSkew
    /\ s.expiresAt <= s.message.sentAt + 2 * OfflineTtl
    /\ s.expiresAt <= now + OfflineTtl

RelayInv ==
    /\ TypeOK
    /\ UniqueIds
    /\ CountersExact
    /\ WithinLimits
    /\ RetentionWindow

(* The sizes of a store whose queue of d becomes r *)
LEMMA SizesReplaced ==
    ASSUME NEW qs \in [Devices -> Seq(StoredMessage)], NEW d \in Devices,
           NEW r \in Seq(StoredMessage)
    PROVE  /\ \E n \in Nat : /\ Cardinality(SlotsOf(qs)) = n + Len(qs[d])
                             /\ Cardinality(SlotsOf([qs EXCEPT ![d] = r])) = n + Len(r)
           /\ \E n \in Nat : /\ Cardinality(ByteSlotsOf(qs)) = n + Bytes(qs[d])
                             /\ Cardinality(ByteSlotsOf([qs EXCEPT ![d] = r])) = n + Bytes(r)
<1> DEFINE new == [qs EXCEPT ![d] = r]
           F == [e \in Devices |-> DOMAIN qs[e]]
           G == [e \in Devices |-> DOMAIN new[e]]
           FB == [e \in Devices |-> UnitsAt(qs[e], DOMAIN qs[e])]
           GB == [e \in Devices |-> UnitsAt(new[e], DOMAIN new[e])]
<1>1. /\ new \in [Devices -> Seq(StoredMessage)] /\ new[d] = r
      /\ \A e \in Devices \ {d} : new[e] = qs[e]
  OBVIOUS
<1>2. ASSUME NEW q \in Seq(StoredMessage)
      PROVE  /\ IsFiniteSet(DOMAIN q) /\ Cardinality(DOMAIN q) = Len(q)
             /\ IsFiniteSet(UnitsAt(q, DOMAIN q))
  <2>1. DOMAIN q = 1..Len(q) /\ Len(q) \in Nat
    OBVIOUS
  <2>2. IsFiniteSet(1..Len(q)) /\ Cardinality(1..Len(q)) = Len(q)
    BY <2>1, IntervalSize
  <2> QED
    BY <2>1, <2>2, UnitsFinite
<1>3. \E n \in Nat : /\ Cardinality(Tagged(Devices, F)) = n + Cardinality(F[d])
                     /\ Cardinality(Tagged(Devices, G)) = n + Cardinality(G[d])
  <2>1. \A e \in Devices : IsFiniteSet(F[e]) /\ IsFiniteSet(G[e])
    BY <1>1, <1>2
  <2>2. \A e \in Devices \ {d} : G[e] = F[e]
    BY <1>1
  <2> HIDE DEF F, G
  <2> QED
    BY <2>1, <2>2, FiniteDevices, TaggedReplace
<1>4. \E n \in Nat : /\ Cardinality(Tagged(Devices, FB)) = n + Cardinality(FB[d])
                     /\ Cardinality(Tagged(Devices, GB)) = n + Cardinality(GB[d])
  <2>1. \A e \in Devices : IsFiniteSet(FB[e]) /\ IsFiniteSet(GB[e])
    BY <1>1, <1>2
  <2>2. \A e \in Devices \ {d} : GB[e] = FB[e]
    BY <1>1
  <2> HIDE DEF FB, GB
  <2> QED
    BY <2>1, <2>2, FiniteDevices, TaggedReplace
<1>5. /\ Cardinality(F[d]) = Len(qs[d])
      /\ Cardinality(G[d]) = Len(r)
      /\ Cardinality(FB[d]) = Bytes(qs[d])
      /\ Cardinality(GB[d]) = Bytes(r)
  BY <1>1, <1>2 DEF Bytes, BytesAt
<1> QED
  BY <1>3, <1>4, <1>5 DEF SlotsOf, ByteSlotsOf

(* Every operation replaces one queue; what it must ensure of the new one *)
LEMMA QueueReplaced ==
    ASSUME RelayInv, NEW d \in Devices, NEW r \in Seq(StoredMessage),
           queues' = [queues EXCEPT ![d] = r], now' = now,
           Distinct(r), Len(r) <= MaxPerDevice,
           \A k \in DOMAIN r : InWindow(r[k]),
           totalMessages' \in Nat, totalMessages' <= MaxTotalMessages,
           totalMessages' + Len(queues[d]) = totalMessages + Len(r),
           totalBytes' \in Nat, totalBytes' <= MaxTotalBytes,
           totalBytes' + Bytes(queues[d]) = totalBytes + Bytes(r)
    PROVE  RelayInv'
<1>1. /\ queues \in [Devices -> Seq(StoredMessage)] /\ queues[d] \in Seq(StoredMessage)
      /\ totalMessages = Cardinality(Slots) /\ totalBytes = Cardinality(ByteSlots)
  BY DEF RelayInv, TypeOK, CountersExact
<1>2. TypeOK'
  BY <1>1 DEF RelayInv, TypeOK
<1>3. UniqueIds'
  BY <1>1 DEF RelayInv, UniqueIds, Distinct
<1>4. RetentionWindow'
  BY <1>1 DEF RelayInv, RetentionWindow, InWindow
<1>5. Len(r) \in Nat /\ Len(queues[d]) \in Nat /\ Bytes(r) \in Nat /\ Bytes(queues[d]) \in Nat
  BY <1>1, UnitsFinite DEF Bytes
<1>6. /\ Slots = SlotsOf(queues) /\ Slots' = SlotsOf([queues EXCEPT ![d] = r])
      /\ ByteSlots = ByteSlotsOf(queues) /\ ByteSlots' = ByteSlotsOf([queues EXCEPT ![d] = r])
  BY DEF Slots, ByteSlots, SlotsOf, ByteSlotsOf
<1>7. /\ \E n \in Nat : /\ Cardinality(Slots) = n + Len(queues[d])
                        /\ Cardinality(Slots') = n + Len(r)
      /\ \E n \in Nat : /\ Cardinality(ByteSlots) = n + Bytes(queues[d])
                        /\ Cardinality(ByteSlots') = n + Bytes(r)
  BY <1>1, <1>6, SizesReplaced
<1>8. totalMessages' = Cardinality(Slots') /\ totalBytes' = Cardinality(ByteSlots')
  <2>1. totalMessages \in Nat /\ totalBytes \in Nat
    BY DEF RelayInv, TypeOK
  <2>2. PICK n \in Nat : /\ Cardinality(Slots) = n + Len(queues[d])
                         /\ Cardinality(Slots') = n + Len(r)
    BY <1>7
  <2>3. PICK k \in Nat : /\ Cardinality(ByteSlots) = k + Bytes(queues[d])
                         /\ Cardinality(ByteSlots') = k + Bytes(r)
    BY <1>7
  <2>4. totalMessages = n + Len(queues[d]) /\ totalBytes = k + Bytes(queues[d])
    BY <1>1, <2>2, <2>3
  <2>5. totalMessages' = n + Len(r)
    <3> DEFINE x == totalMessages'
               y == totalMessages
               a == Len(queues[d])
               b == Len(r)
    <3>1. x \in Nat /\ y \in Nat /\ a \in Nat /\ b \in Nat /\ x + a = y + b /\ y = n + a
      BY <2>1, <2>4, <1>5
    <3>2. x = n + b
      <4> HIDE DEF x, y, a, b
      <4> QED
        BY <3>1
    <3> QED
      BY <3>2
  <2>6. totalBytes' = k + Bytes(r)
    <3> DEFINE x == totalBytes'
               y == totalBytes
               a == Bytes(queues[d])
               b == Bytes(r)
    <3>1. x \in Nat /\ y \in Nat /\ a \in Nat /\ b \in Nat /\ x + a = y + b /\ y = k + a
      BY <2>1, <2>4, <1>5
    <3>2. x = k + b
      <4> HIDE DEF x, y, a, b
      <4> QED
        BY <3>1
    <3> QED
      BY <3>2
  <2> QED
    BY <2>2, <2>3, <2>5, <2>6
<1>9. WithinLimits'
  BY <1>1, <1>8 DEF RelayInv, WithinLimits
<1> QED
  BY <1>2, <1>3, <1>4, <1>8, <1>9 DEF RelayInv, CountersExact

-----------------------------------------------------------------------------
(* What retain keeps of a well-formed queue *)

(* retain on one queue keeps the invariant if the counters follow *)
LEMMA RetainKeepsInv ==
    ASSUME RelayInv, NEW d \in Devices, NEW keep \in SUBSET DOMAIN queues[d]
    PROVE  LET q == queues[d]
               r == Retain(q, keep)
           IN  /\ r \in Seq(StoredMessage)
               /\ Distinct(r)
               /\ \A k \in DOMAIN r : InWindow(r[k])
               /\ \A k \in DOMAIN r : \E i \in keep : r[k] = q[i]
               /\ \A i \in keep : \E k \in DOMAIN r : r[k] = q[i]
               /\ Len(r) \in Nat /\ Len(r) <= Len(q) /\ Len(q) <= MaxPerDevice
               /\ Len(r) + Cardinality(DOMAIN q \ keep) = Len(q)
               /\ Cardinality(DOMAIN q \ keep) \in Nat
               /\ Bytes(r) + BytesAt(q, DOMAIN q \ keep) = Bytes(q)
               /\ Bytes(r) \in Nat /\ BytesAt(q, DOMAIN q \ keep) \in Nat
<1> DEFINE q == queues[d]
           r == Retain(q, keep)
<1>1. q \in Seq(StoredMessage) /\ keep \in SUBSET DOMAIN q /\ DOMAIN q = 1..Len(q) /\ Len(q) \in Nat
  BY DEF RelayInv, TypeOK
<1>2. \A i, j \in DOMAIN q : q[i].message.id = q[j].message.id => i = j
  BY DEF RelayInv, UniqueIds
<1>3. \A i \in DOMAIN q : InWindow(q[i])
  BY DEF RelayInv, RetentionWindow, InWindow
<1>4. Len(q) <= MaxPerDevice
  BY DEF RelayInv, WithinLimits
<1> HIDE DEF q
<1>5. r \in Seq(StoredMessage) /\ Len(r) = Cardinality(keep) /\ Len(r) <= Len(q)
      /\ DOMAIN r = 1..Cardinality(keep) /\ Len(r) \in Nat
  BY <1>1, RetainIsKept
<1>6. PICK f \in Bijection(1..Cardinality(keep), keep) :
          \A k \in 1..Cardinality(keep) : r[k] = q[f[k]]
  BY <1>1, RetainIsKept
<1>7. /\ \A k \in DOMAIN r : f[k] \in keep /\ r[k] = q[f[k]]
      /\ \A k, l \in DOMAIN r : f[k] = f[l] => k = l
      /\ \A i \in keep : \E k \in DOMAIN r : f[k] = i
  BY <1>5, <1>6 DEF Bijection, Injection, Surjection, IsInjective
<1> HIDE DEF r
<1>8. /\ \A k \in DOMAIN r : \E i \in keep : r[k] = q[i]
      /\ \A i \in keep : \E k \in DOMAIN r : r[k] = q[i]
  BY <1>7
<1>9. Distinct(r)
  BY <1>1, <1>2, <1>7 DEF Distinct
<1>10. \A k \in DOMAIN r : InWindow(r[k])
  <2> TAKE k \in DOMAIN r
  <2>1. PICK i \in DOMAIN q : r[k] = q[i]
    BY <1>1, <1>8
  <2>2. InWindow(q[i])
    BY <1>3
  <2> QED
    BY <2>1, <2>2 DEF InWindow
<1>11. Len(r) + Cardinality(DOMAIN q \ keep) = Len(q) /\ Cardinality(DOMAIN q \ keep) \in Nat
  <2> DEFINE rest == DOMAIN q \ keep
  <2>1. IsFiniteSet(DOMAIN q) /\ Cardinality(DOMAIN q) = Len(q)
    BY <1>1, IntervalSize
  <2>2. Cardinality(rest) = Cardinality(DOMAIN q) - Cardinality(DOMAIN q \cap keep)
        /\ IsFiniteSet(rest)
    BY <2>1, FS_Difference
  <2>3. DOMAIN q \cap keep = keep
    BY <1>1
  <2>4. Cardinality(rest) \in Nat
    BY <2>2, FS_CardinalityType
  <2> HIDE DEF rest
  <2>5. Cardinality(rest) = Len(q) - Len(r)
    BY <2>1, <2>2, <2>3, <1>5
  <2>6. Len(r) + Cardinality(rest) = Len(q)
    BY <2>5, <1>1, <1>5
  <2> QED
    BY <2>4, <2>6 DEF rest
<1>12. Bytes(r) + BytesAt(q, DOMAIN q \ keep) = Bytes(q)
       /\ Bytes(r) \in Nat /\ BytesAt(q, DOMAIN q \ keep) \in Nat
  <2>1. Bytes(r) = BytesAt(q, keep)
    BY <1>1, BytesRetain DEF Bytes, r
  <2>2. Bytes(q) = BytesAt(q, keep) + BytesAt(q, DOMAIN q \ keep)
    BY <1>1, BytesSplit DEF Bytes
  <2>3. BytesAt(q, keep) \in Nat /\ BytesAt(q, DOMAIN q \ keep) \in Nat
    BY <1>1, UnitsFinite
  <2> QED
    BY <2>1, <2>2, <2>3
<1> QED
  BY <1>4, <1>5, <1>8, <1>9, <1>10, <1>11, <1>12 DEF q, r

(* The counters cover what any one queue holds, so nothing saturates *)
LEMMA CountersCover ==
    ASSUME RelayInv, NEW d \in Devices
    PROVE  /\ totalMessages \in Nat /\ Len(queues[d]) \in Nat
           /\ Len(queues[d]) <= totalMessages /\ totalMessages <= MaxTotalMessages
           /\ totalBytes \in Nat /\ Bytes(queues[d]) \in Nat
           /\ Bytes(queues[d]) <= totalBytes /\ totalBytes <= MaxTotalBytes
<1>1. /\ queues \in [Devices -> Seq(StoredMessage)] /\ queues[d] \in Seq(StoredMessage)
      /\ totalMessages \in Nat /\ totalMessages = Cardinality(Slots)
      /\ totalBytes \in Nat /\ totalBytes = Cardinality(ByteSlots)
      /\ Cardinality(Slots) <= MaxTotalMessages
      /\ Cardinality(ByteSlots) <= MaxTotalBytes
  BY DEF RelayInv, TypeOK, CountersExact, WithinLimits
<1>2. Len(queues[d]) \in Nat /\ Bytes(queues[d]) \in Nat
  BY <1>1, UnitsFinite DEF Bytes
<1>3. /\ \E n \in Nat : Cardinality(SlotsOf(queues)) = n + Len(queues[d])
      /\ \E n \in Nat : Cardinality(ByteSlotsOf(queues)) = n + Bytes(queues[d])
  BY <1>1, SizesReplaced
<1>4. /\ \E n \in Nat : Cardinality(Slots) = n + Len(queues[d])
      /\ \E n \in Nat : Cardinality(ByteSlots) = n + Bytes(queues[d])
  BY <1>3 DEF SlotsOf, ByteSlotsOf, Slots, ByteSlots
<1> QED
  BY <1>1, <1>2, <1>4

(* What remove_expired keeps and removes, and the counters after it *)
LEMMA ExpiryFacts ==
    ASSUME RelayInv, NEW d \in Devices, NEW t \in Nat
    PROVE  LET q == queues[d]
               r == Unexpired(d, t)
           IN  /\ Alive(q, t) \in SUBSET DOMAIN q
               /\ Expired(q, t) = DOMAIN q \ Alive(q, t)
               /\ MessagesAfter(d, t) \in Nat /\ MessagesAfter(d, t) <= MaxTotalMessages
               /\ MessagesAfter(d, t) + Len(q) = totalMessages + Len(r)
               /\ BytesAfter(d, t) \in Nat /\ BytesAfter(d, t) <= MaxTotalBytes
               /\ BytesAfter(d, t) + Bytes(q) = totalBytes + Bytes(r)
<1> DEFINE q == queues[d]
           r == Unexpired(d, t)
           m == Cardinality(Expired(q, t))
           b == BytesAt(q, Expired(q, t))
<1>1. Alive(q, t) \in SUBSET DOMAIN q /\ Expired(q, t) = DOMAIN q \ Alive(q, t)
  <2>1. \A i \in DOMAIN q : q[i] \in StoredMessage
    BY DEF RelayInv, TypeOK
  <2>2. \A i \in DOMAIN q : q[i].expiresAt \in Nat
    BY <2>1 DEF StoredMessage
  <2> QED
    BY <2>2 DEF Alive, Expired
<1>2. /\ Len(r) + m = Len(q) /\ m \in Nat /\ Len(r) \in Nat
      /\ Bytes(r) + b = Bytes(q) /\ b \in Nat /\ Bytes(r) \in Nat
  BY <1>1, RetainKeepsInv DEF Unexpired
<1>3. /\ totalMessages \in Nat /\ Len(q) <= totalMessages /\ totalMessages <= MaxTotalMessages
      /\ totalBytes \in Nat /\ Bytes(q) <= totalBytes /\ totalBytes <= MaxTotalBytes
      /\ Len(q) \in Nat /\ Bytes(q) \in Nat
  BY CountersCover
<1>4. /\ MessagesAfter(d, t) = SaturatingSub(totalMessages, m)
      /\ BytesAfter(d, t) = SaturatingSub(totalBytes, b)
  BY DEF MessagesAfter, BytesAfter
<1> HIDE DEF q, r, m, b
<1>5. /\ MessagesAfter(d, t) = totalMessages - m
      /\ BytesAfter(d, t) = totalBytes - b
  BY <1>2, <1>3, <1>4 DEF SaturatingSub
<1>6. MaxTotalMessages \in Nat /\ MaxTotalBytes \in Nat
  BY LimitsAreNat
<1>7. /\ MessagesAfter(d, t) \in Nat /\ MessagesAfter(d, t) <= MaxTotalMessages
      /\ MessagesAfter(d, t) + Len(q) = totalMessages + Len(r)
  BY <1>2, <1>3, <1>5, <1>6
<1>8. /\ BytesAfter(d, t) \in Nat /\ BytesAfter(d, t) <= MaxTotalBytes
      /\ BytesAfter(d, t) + Bytes(q) = totalBytes + Bytes(r)
  BY <1>2, <1>3, <1>5, <1>6
<1> QED
  BY <1>1, <1>7, <1>8 DEF q, r

-----------------------------------------------------------------------------
(* Each operation preserves the invariant *)

(* remove_expired, in pull and in a refused push, keeps the invariant *)
LEMMA RemoveExpiredInv ==
    ASSUME RelayInv, NEW d \in Devices, NEW t \in Nat, RemoveExpired(d, t), now' = now
    PROVE  RelayInv'
<1> DEFINE r == Unexpired(d, t)
<1>1. /\ r \in Seq(StoredMessage) /\ Distinct(r)
      /\ \A k \in DOMAIN r : InWindow(r[k])
      /\ Len(r) \in Nat /\ Len(r) <= Len(queues[d]) /\ Len(queues[d]) <= MaxPerDevice
      /\ Len(queues[d]) \in Nat
  BY ExpiryFacts, RetainKeepsInv, CountersCover DEF Unexpired
<1>2. Len(r) <= MaxPerDevice
  BY <1>1, LimitsAreNat
<1>3. /\ queues' = [queues EXCEPT ![d] = r]
      /\ totalMessages' = MessagesAfter(d, t) /\ totalBytes' = BytesAfter(d, t)
  BY DEF RemoveExpired
<1>4. /\ MessagesAfter(d, t) \in Nat /\ MessagesAfter(d, t) <= MaxTotalMessages
      /\ MessagesAfter(d, t) + Len(queues[d]) = totalMessages + Len(r)
      /\ BytesAfter(d, t) \in Nat /\ BytesAfter(d, t) <= MaxTotalBytes
      /\ BytesAfter(d, t) + Bytes(queues[d]) = totalBytes + Bytes(r)
  BY ExpiryFacts
<1> HIDE DEF r
<1> QED
  BY <1>1, <1>2, <1>3, <1>4, QueueReplaced

(* An accepted push keeps the invariant *)
LEMMA PushAcceptedInv ==
    ASSUME RelayInv, NEW m \in Messages, NEW t \in 0..now, PushAccepted(m, t), now' = now
    PROVE  RelayInv'
<1> DEFINE d == m.recipient
           q == Unexpired(d, t)
           s == Stored(m, t)
           r == Append(q, s)
<1>1. /\ m \in Message /\ d \in Devices /\ m.size \in Nat /\ m.sentAt \in Nat
      /\ t \in Nat /\ now \in Nat /\ t <= now
  BY MessagesTyped DEF Message, RelayInv, TypeOK
<1>2. s \in StoredMessage /\ s.message = m /\ s.bytes = m.size /\ s.expiresAt = t + OfflineTtl
  BY <1>1, LimitsAreNat DEF Stored, StoredMessage
<1>3. /\ q \in Seq(StoredMessage) /\ Distinct(q)
      /\ \A k \in DOMAIN q : InWindow(q[k])
      /\ \A k \in DOMAIN q : \E i \in Alive(queues[d], t) : q[k] = queues[d][i]
      /\ Len(q) \in Nat /\ Len(queues[d]) \in Nat /\ Bytes(q) \in Nat
  <2> HIDE DEF d
  <2>1. Alive(queues[d], t) \in SUBSET DOMAIN queues[d] /\ d \in Devices
    BY <1>1, ExpiryFacts
  <2>2. q = Retain(queues[d], Alive(queues[d], t))
    BY DEF Unexpired
  <2> HIDE DEF q
  <2> QED
    BY <2>1, <2>2, RetainKeepsInv, CountersCover
<1>4. /\ MessagesAfter(d, t) \in Nat
      /\ MessagesAfter(d, t) + Len(queues[d]) = totalMessages + Len(q)
      /\ BytesAfter(d, t) \in Nat
      /\ BytesAfter(d, t) + Bytes(queues[d]) = totalBytes + Bytes(q)
      /\ totalMessages \in Nat /\ totalBytes \in Nat /\ Bytes(queues[d]) \in Nat
  BY <1>1, ExpiryFacts, CountersCover
<1>5. /\ queues' = [queues EXCEPT ![d] = r]
      /\ totalMessages' = MessagesAfter(d, t) + 1 /\ totalBytes' = BytesAfter(d, t) + m.size
      /\ ~(Len(q) >= MaxPerDevice) /\ ~(MessagesAfter(d, t) >= MaxTotalMessages)
      /\ ~(BytesAfter(d, t) + m.size > MaxTotalBytes)
      /\ ~IsInvalid(m, t) /\ ~IsDuplicate(m, t)
  BY DEF PushAccepted, IsFull
<1>6. InWindow(s)
  <2>1. m.sentAt <= t + MaxClockSkew /\ SaturatingSub(t, m.sentAt) <= OfflineTtl
    BY <1>5 DEF IsInvalid, Timely
  <2>2. t <= m.sentAt + OfflineTtl
    BY <2>1, <1>1, LimitsAreNat DEF SaturatingSub
  <2> HIDE DEF s
  <2> QED
    BY <2>1, <2>2, <1>1, <1>2, LimitsAreNat DEF InWindow
<1>7. \A k \in DOMAIN q : q[k].message.id # m.id
  BY <1>3, <1>5 DEF IsDuplicate
<1> HIDE DEF d, q, s
<1>8. /\ r \in Seq(StoredMessage) /\ Len(r) = Len(q) + 1 /\ DOMAIN r = 1..Len(q) + 1
      /\ \A k \in DOMAIN q : r[k] = q[k]
      /\ r[Len(q) + 1] = s
      /\ \A k \in DOMAIN r : k \in DOMAIN q \/ k = Len(q) + 1
  BY <1>2, <1>3
<1>9. Distinct(r)
  BY <1>2, <1>3, <1>7, <1>8 DEF Distinct
<1>10. \A k \in DOMAIN r : InWindow(r[k])
  <2> TAKE k \in DOMAIN r
  <2>1. CASE k \in DOMAIN q
    <3>1. r[k] = q[k] /\ InWindow(q[k])
      BY <2>1, <1>3, <1>8
    <3> QED
      BY <3>1 DEF InWindow
  <2>2. CASE k = Len(q) + 1
    <3>1. r[k] = s
      BY <2>2, <1>8
    <3> QED
      BY <3>1, <1>6 DEF InWindow
  <2> QED
    BY <2>1, <2>2, <1>8
<1>11. Bytes(r) = Bytes(q) + m.size
  BY <1>2, <1>3, BytesAppend DEF Bytes
<1> HIDE DEF r
<1>12. /\ Len(r) <= MaxPerDevice
       /\ totalMessages' \in Nat /\ totalMessages' <= MaxTotalMessages
       /\ totalMessages' + Len(queues[d]) = totalMessages + Len(r)
  <2>1. Len(r) <= MaxPerDevice
    BY <1>3, <1>5, <1>8, LimitsAreNat
  <2> DEFINE x == MessagesAfter(d, t)
             y == totalMessages
             a == Len(queues[d])
             b == Len(q)
             max == MaxTotalMessages
  <2>2. /\ x \in Nat /\ y \in Nat /\ a \in Nat /\ b \in Nat /\ max \in Nat
        /\ x + a = y + b /\ ~(x >= max)
    BY <1>3, <1>4, <1>5, LimitsAreNat
  <2>3. x + 1 \in Nat /\ x + 1 <= max /\ (x + 1) + a = y + (b + 1)
    <3> HIDE DEF x, y, a, b, max
    <3> QED
      BY <2>2
  <2> QED
    BY <2>1, <2>3, <1>5, <1>8
<1>13. /\ totalBytes' \in Nat /\ totalBytes' <= MaxTotalBytes
       /\ totalBytes' + Bytes(queues[d]) = totalBytes + Bytes(r)
  <2> DEFINE x == BytesAfter(d, t)
             y == totalBytes
             a == Bytes(queues[d])
             b == Bytes(q)
             n == m.size
             max == MaxTotalBytes
  <2>1. /\ x \in Nat /\ y \in Nat /\ a \in Nat /\ b \in Nat /\ n \in Nat /\ max \in Nat
        /\ x + a = y + b /\ ~(x + n > max)
    BY <1>1, <1>3, <1>4, <1>5, LimitsAreNat
  <2>2. x + n \in Nat /\ x + n <= max /\ (x + n) + a = y + (b + n)
    <3> HIDE DEF x, y, a, b, n, max
    <3> QED
      BY <2>1
  <2> QED
    BY <2>2, <1>5, <1>11
<1>14. d \in Devices
  BY <1>1 DEF d
<1> QED
  BY <1>5, <1>8, <1>9, <1>10, <1>12, <1>13, <1>14, QueueReplaced

(* ack keeps the invariant: unique ids make its count of one exact *)
LEMMA AckInv ==
    ASSUME RelayInv, NEW d \in Devices, NEW id \in MessageIds, Ack(d, id), now' = now
    PROVE  RelayInv'
<1> DEFINE q == queues[d]
           gone == Acked(d, id)
           r == Retain(q, DOMAIN q \ gone)
<1>1. gone \in SUBSET DOMAIN q /\ DOMAIN q \ (DOMAIN q \ gone) = gone
  BY DEF Acked
<1>2. /\ r \in Seq(StoredMessage) /\ Distinct(r)
      /\ \A k \in DOMAIN r : InWindow(r[k])
      /\ Len(r) \in Nat /\ Len(r) <= Len(q) /\ Len(q) <= MaxPerDevice
      /\ Len(r) + Cardinality(gone) = Len(q)
      /\ Bytes(r) + BytesAt(q, gone) = Bytes(q) /\ Bytes(r) \in Nat
  <2> DEFINE keep == DOMAIN q \ gone
  <2>1. keep \in SUBSET DOMAIN queues[d]
    OBVIOUS
  <2> HIDE DEF keep, gone
  <2>2. /\ Retain(q, keep) \in Seq(StoredMessage) /\ Distinct(Retain(q, keep))
        /\ \A k \in DOMAIN Retain(q, keep) : InWindow(Retain(q, keep)[k])
        /\ Len(Retain(q, keep)) \in Nat /\ Len(Retain(q, keep)) <= Len(q) /\ Len(q) <= MaxPerDevice
        /\ Len(Retain(q, keep)) + Cardinality(DOMAIN q \ keep) = Len(q)
        /\ Bytes(Retain(q, keep)) + BytesAt(q, DOMAIN q \ keep) = Bytes(q)
        /\ Bytes(Retain(q, keep)) \in Nat
    BY <2>1, RetainKeepsInv
  <2>3. DOMAIN q \ keep = gone
    BY <1>1 DEF keep
  <2> QED
    BY <2>2, <2>3 DEF keep
<1>3. /\ totalMessages \in Nat /\ Len(q) <= totalMessages /\ totalMessages <= MaxTotalMessages
      /\ totalBytes \in Nat /\ Bytes(q) <= totalBytes /\ totalBytes <= MaxTotalBytes
      /\ Len(q) \in Nat /\ Bytes(q) \in Nat
  BY CountersCover
<1>4. queues' = [queues EXCEPT ![d] = r]
  BY DEF Ack
<1>5. Len(r) <= MaxPerDevice
  BY <1>2, <1>3, LimitsAreNat
<1>6. CASE gone = {}
  <2>1. totalMessages' = totalMessages /\ totalBytes' = totalBytes
    BY <1>6 DEF Ack
  <2>2. Cardinality(gone) = 0 /\ BytesAt(q, gone) = 0
    <3>1. UnitsAt(q, {}) = {}
      BY DEF UnitsAt, Tagged
    <3> QED
      BY <3>1, <1>6, FS_EmptySet DEF BytesAt
  <2> HIDE DEF q, r, gone
  <2>3. Len(r) = Len(q) /\ Bytes(r) = Bytes(q)
    BY <2>2, <1>2, <1>3
  <2>4. /\ totalMessages' \in Nat /\ totalMessages' <= MaxTotalMessages
        /\ totalMessages' + Len(q) = totalMessages + Len(r)
        /\ totalBytes' \in Nat /\ totalBytes' <= MaxTotalBytes
        /\ totalBytes' + Bytes(q) = totalBytes + Bytes(r)
    BY <2>1, <2>3, <1>3
  <2> QED
    BY <2>4, <1>2, <1>4, <1>5, QueueReplaced DEF q
<1>7. CASE gone # {}
  <2>1. PICK i \in DOMAIN q : gone = {i}
    <3>1. \A i, j \in gone : i = j
      BY DEF Acked, RelayInv, UniqueIds
    <3> QED
      BY <3>1, <1>1, <1>7
  <2>2. (CHOOSE k \in gone : \A j \in gone : j <= k) = i
    <3>1. i \in Int
      BY <2>1 DEF RelayInv, TypeOK
    <3> QED
      BY <2>1, <3>1
  <2>3. /\ totalMessages' = SaturatingSub(totalMessages, 1)
        /\ totalBytes' = SaturatingSub(totalBytes, q[i].bytes)
    BY <1>7, <2>2 DEF Ack
  <2>4. Cardinality(gone) = 1 /\ BytesAt(q, gone) = q[i].bytes /\ q[i].bytes \in Nat
    <3>1. q \in Seq(StoredMessage)
      BY DEF RelayInv, TypeOK
    <3> HIDE DEF q, gone
    <3> QED
      BY <2>1, <3>1, FS_Singleton, BytesOfOne, EntryBytes
  <2> HIDE DEF q, r, gone
  <2>5. /\ totalMessages' = totalMessages - 1 /\ 1 <= totalMessages
        /\ totalBytes' = totalBytes - q[i].bytes /\ q[i].bytes <= totalBytes
    BY <2>3, <2>4, <1>2, <1>3 DEF SaturatingSub
  <2>6. /\ totalMessages' \in Nat /\ totalMessages' <= MaxTotalMessages
        /\ totalMessages' + Len(q) = totalMessages + Len(r)
    BY <2>4, <2>5, <1>2, <1>3, LimitsAreNat
  <2>7. /\ totalBytes' \in Nat /\ totalBytes' <= MaxTotalBytes
        /\ totalBytes' + Bytes(q) = totalBytes + Bytes(r)
    <3> DEFINE y == totalBytes
               a == Bytes(q)
               b == Bytes(r)
               n == q[i].bytes
               max == MaxTotalBytes
    <3>1. /\ y \in Nat /\ a \in Nat /\ b \in Nat /\ n \in Nat /\ max \in Nat
          /\ b + n = a /\ n <= y /\ y <= max
      BY <2>4, <2>5, <1>2, <1>3, LimitsAreNat
    <3>2. y - n \in Nat /\ y - n <= max /\ (y - n) + a = y + b
      <4> HIDE DEF y, a, b, n, max
      <4> QED
        BY <3>1
    <3> QED
      BY <3>2, <2>5
  <2> QED
    BY <2>6, <2>7, <1>2, <1>4, <1>5, QueueReplaced DEF q
<1> QED
  BY <1>6, <1>7

(* A step that leaves the store alone keeps the invariant (the clock) *)
LEMMA StoreUnchangedInv ==
    ASSUME RelayInv, UNCHANGED store, now' \in 0..MaxTime, now <= now'
    PROVE  RelayInv'
<1>1. queues' = queues /\ totalMessages' = totalMessages /\ totalBytes' = totalBytes
  BY DEF store
<1>2. TypeOK'
  BY <1>1 DEF RelayInv, TypeOK
<1>3. UniqueIds' /\ CountersExact' /\ WithinLimits'
  BY <1>1 DEF RelayInv, UniqueIds, CountersExact, WithinLimits, Slots, ByteSlots
<1>4. RetentionWindow'
  <2> SUFFICES ASSUME NEW d \in Devices, NEW i \in DOMAIN queues[d]
               PROVE  /\ queues[d][i].message.sentAt + OfflineTtl <= queues[d][i].expiresAt + MaxClockSkew
                      /\ queues[d][i].expiresAt <= queues[d][i].message.sentAt + 2 * OfflineTtl
                      /\ queues[d][i].expiresAt <= now' + OfflineTtl
    BY <1>1 DEF RetentionWindow
  <2>1. /\ queues[d][i].message.sentAt + OfflineTtl <= queues[d][i].expiresAt + MaxClockSkew
        /\ queues[d][i].expiresAt <= queues[d][i].message.sentAt + 2 * OfflineTtl
        /\ queues[d][i].expiresAt <= now + OfflineTtl
    BY DEF RelayInv, RetentionWindow
  <2>2. queues[d][i] \in StoredMessage /\ now \in Nat /\ now' \in Nat
    BY DEF RelayInv, TypeOK
  <2>3. queues[d][i].expiresAt \in Nat
    BY <2>2 DEF StoredMessage
  <2> QED
    BY <2>1, <2>2, <2>3, LimitsAreNat
<1> QED
  BY <1>2, <1>3, <1>4 DEF RelayInv

-----------------------------------------------------------------------------
(* Theorems *)

(* The empty store satisfies the invariant *)
LEMMA RelayInvInit == Init => RelayInv
<1> SUFFICES ASSUME Init PROVE RelayInv
  OBVIOUS
<1>1. \A d \in Devices : queues[d] = <<>> /\ DOMAIN queues[d] = {}
  BY DEF Init
<1>2. TypeOK
  BY LimitsAreNat DEF Init, TypeOK
<1>3. Slots = {} /\ ByteSlots = {}
  <2>1. \A d \in Devices : UnitsAt(queues[d], DOMAIN queues[d]) = {}
    BY <1>1 DEF UnitsAt, Tagged
  <2> QED
    BY <1>1, <2>1 DEF Slots, ByteSlots, Tagged
<1>4. Cardinality(Slots) = 0 /\ Cardinality(ByteSlots) = 0
  BY <1>3, FS_EmptySet
<1>5. CountersExact
  BY <1>4 DEF Init, CountersExact
<1>6. UniqueIds /\ RetentionWindow
  BY <1>1 DEF UniqueIds, RetentionWindow
<1>7. WithinLimits
  BY <1>1, <1>4, LimitsAreNat DEF WithinLimits
<1> QED
  BY <1>2, <1>5, <1>6, <1>7 DEF RelayInv

(* Every operation of the store keeps the invariant *)
LEMMA RelayInvNext == RelayInv /\ [Next]_vars => RelayInv'
<1> SUFFICES ASSUME RelayInv, [Next]_vars PROVE RelayInv'
  OBVIOUS
<1>1. now \in 0..MaxTime /\ now \in Nat /\ MaxTime \in Nat
  BY LimitsAreNat DEF RelayInv, TypeOK
<1>2. CASE Tick
  BY <1>1, <1>2, StoreUnchangedInv DEF Tick
<1>3. ASSUME NEW m \in Messages, NEW t \in 0..now, Push(m, t), now' = now
      PROVE  RelayInv'
  <2>1. m.recipient \in Devices /\ t \in Nat
    BY <1>1, MessagesTyped DEF Message
  <2>2. CASE PushInvalid(m, t)
    BY <2>2, <1>1, <1>3, StoreUnchangedInv DEF PushInvalid
  <2>3. CASE PushDuplicate(m, t) \/ PushFull(m, t)
    BY <2>1, <2>3, <1>3, RemoveExpiredInv DEF PushDuplicate, PushFull
  <2>4. CASE PushAccepted(m, t)
    BY <2>4, <1>3, PushAcceptedInv
  <2> QED
    BY <1>3, <2>2, <2>3, <2>4 DEF Push
<1>4. ASSUME NEW d \in Devices, NEW t \in 0..now, Pull(d, t), now' = now
      PROVE  RelayInv'
  BY <1>1, <1>4, RemoveExpiredInv DEF Pull
<1>5. ASSUME NEW d \in Devices, NEW id \in MessageIds, Ack(d, id), now' = now
      PROVE  RelayInv'
  BY <1>5, AckInv
<1>6. CASE UNCHANGED vars
  BY <1>1, <1>6, StoreUnchangedInv DEF vars, store
<1> QED
  BY <1>2, <1>3, <1>4, <1>5, <1>6 DEF Next

(***************************************************************************)
(* The store keeps its type, unique identifiers per queue, exact counters, *)
(* its limits and the retention window, whatever the devices, messages,    *)
(* limits and clock readings of push, pull and ack.                        *)
(***************************************************************************)
THEOREM RelayInvariant == Spec => []RelayInv
BY RelayInvInit, RelayInvNext, PTL DEF Spec

(* The variables of the store keep their types (RelayInner). *)
THEOREM RelayTypeCorrect == Spec => []TypeOK
<1>1. RelayInv => TypeOK
  BY DEF RelayInv
<1> QED
  BY <1>1, RelayInvariant, PTL

(* push never queues an identifier twice for a device. *)
THEOREM RelayUniqueIds == Spec => []UniqueIds
<1>1. RelayInv => UniqueIds
  BY DEF RelayInv
<1> QED
  BY <1>1, RelayInvariant, PTL

(* total_messages and total_bytes are what the queues hold. *)
THEOREM RelayCountersExact == Spec => []CountersExact
<1>1. RelayInv => CountersExact
  BY DEF RelayInv
<1> QED
  BY <1>1, RelayInvariant, PTL

(* What the queues hold respects MAX_PER_DEVICE and the two global limits. *)
THEOREM RelayWithinLimits == Spec => []WithinLimits
<1>1. RelayInv => WithinLimits
  BY DEF RelayInv
<1> QED
  BY <1>1, RelayInvariant, PTL

(* Queued messages expire within the window push's clock checks leave. *)
THEOREM RelayRetentionWindow == Spec => []RetentionWindow
<1>1. RelayInv => RetentionWindow
  BY DEF RelayInv
<1> QED
  BY <1>1, RelayInvariant, PTL

-----------------------------------------------------------------------------
(* Messages are not lost early *)

(* remove_expired with a past clock reading only takes what is due *)
LEMMA NotEarlyIsAlive ==
    ASSUME RelayInv, NEW d \in Devices, NEW t \in 0..now, NEW i \in DOMAIN queues[d],
           TooEarly(queues[d][i].message)
    PROVE  \E k \in DOMAIN Unexpired(d, t) : Unexpired(d, t)[k] = queues[d][i]
<1> DEFINE s == queues[d][i]
<1>1. now \in Nat /\ t \in Nat /\ t <= now /\ s \in StoredMessage
  BY LimitsAreNat DEF RelayInv, TypeOK
<1>2. s.expiresAt \in Nat /\ s.message \in Message
  BY <1>1, MessagesTyped DEF StoredMessage
<1>3. s.message.sentAt \in Nat
  BY <1>2 DEF Message
<1>4. s.message.sentAt + OfflineTtl <= s.expiresAt + MaxClockSkew
  BY DEF RelayInv, RetentionWindow
<1>5. s.message.sentAt + OfflineTtl > now + MaxClockSkew
  BY DEF TooEarly
<1>6. s.expiresAt > t
  BY <1>1, <1>2, <1>3, <1>4, <1>5, LimitsAreNat
<1>7. i \in Alive(queues[d], t) /\ Alive(queues[d], t) \in SUBSET DOMAIN queues[d]
  BY <1>6 DEF Alive
<1> QED
  BY <1>7, RetainKeepsInv DEF Unexpired

(* Only ack takes a message that is not due yet *)
LEMMA OnlyAckLosesEarlyStep == RelayInv /\ [Next]_vars => OnlyAckLosesEarly
<1> SUFFICES ASSUME RelayInv, [Next]_vars,
                    NEW d \in Devices, NEW i \in DOMAIN queues[d],
                    queues[d][i].message \notin HeldFor(d)',
                    TooEarly(queues[d][i].message)
             PROVE  Ack(d, queues[d][i].message.id)
  BY DEF OnlyAckLosesEarly, HeldFor
<1> DEFINE m == queues[d][i].message
<1>1. queues \in [Devices -> Seq(StoredMessage)] /\ now \in Nat
  BY LimitsAreNat DEF RelayInv, TypeOK
<1>2. ~ \E k \in DOMAIN queues'[d] : queues'[d][k].message = m
  BY DEF HeldFor
<1>3. queues'[d] # queues[d]
  BY <1>2
<1>4. ASSUME NEW e \in Devices, NEW t \in 0..now, RemoveExpired(e, t)
      PROVE  FALSE
  <2>1. e = d /\ queues'[d] = Unexpired(d, t)
    BY <1>1, <1>3, <1>4 DEF RemoveExpired
  <2> QED
    BY <2>1, <1>2, NotEarlyIsAlive
<1>5. ASSUME NEW n \in Messages, NEW t \in 0..now, PushAccepted(n, t)
      PROVE  FALSE
  <2>1. n.recipient = d /\ queues'[d] = Append(Unexpired(d, t), Stored(n, t))
    BY <1>1, <1>3, <1>5 DEF PushAccepted
  <2>2. Unexpired(d, t) \in Seq(StoredMessage)
    <3>1. t \in Nat
      BY <1>1
    <3>2. Alive(queues[d], t) \in SUBSET DOMAIN queues[d]
      BY <3>1, ExpiryFacts
    <3> QED
      BY <3>2, RetainKeepsInv DEF Unexpired
  <2>3. PICK k \in DOMAIN Unexpired(d, t) : Unexpired(d, t)[k] = queues[d][i]
    BY NotEarlyIsAlive
  <2>4. k \in DOMAIN queues'[d] /\ queues'[d][k] = queues[d][i]
    BY <2>1, <2>2, <2>3
  <2> QED
    BY <2>4, <1>2
<1>6. ASSUME NEW e \in Devices, NEW id \in MessageIds, Ack(e, id)
      PROVE  Ack(d, m.id)
  <2>1. e = d /\ queues'[d] = Retain(queues[d], DOMAIN queues[d] \ Acked(d, id))
    BY <1>1, <1>3, <1>6 DEF Ack
  <2>2. CASE m.id = id
    BY <2>1, <2>2, <1>6
  <2>3. CASE m.id # id
    <3> DEFINE keep == DOMAIN queues[d] \ Acked(d, id)
    <3>1. i \in keep /\ keep \in SUBSET DOMAIN queues[d] /\ queues'[d] = Retain(queues[d], keep)
      BY <2>1, <2>3 DEF Acked
    <3>2. \E k \in DOMAIN queues'[d] : queues'[d][k] = queues[d][i]
      <4> HIDE DEF keep
      <4>1. i \in keep /\ keep \in SUBSET DOMAIN queues[d]
        BY <3>1
      <4>2. \A j \in keep : \E k \in DOMAIN Retain(queues[d], keep) :
                Retain(queues[d], keep)[k] = queues[d][j]
        BY <4>1, RetainKeepsInv
      <4> QED
        BY <3>1, <4>2
    <3> QED
      BY <3>2, <1>2
  <2> QED
    BY <2>2, <2>3
<1>7. ASSUME UNCHANGED store PROVE FALSE
  BY <1>7, <1>3 DEF store
<1>8. \A n \in Messages : n.recipient \in Devices
  BY MessagesTyped DEF Message
<1> QED
  BY <1>4, <1>5, <1>6, <1>7, <1>8
  DEF Next, vars, store, Tick, Push, PushInvalid, PushDuplicate, PushFull, Pull

(***************************************************************************)
(* A message leaves its queue early only through an acknowledgement of its *)
(* identifier by its own recipient.                                        *)
(***************************************************************************)
THEOREM RelayNoEarlyLoss == Spec => NoEarlyLoss
<1>1. RelayInv /\ [Next]_vars => [OnlyAckLosesEarly]_vars
  BY OnlyAckLosesEarlyStep
<1> QED
  BY <1>1, RelayInvariant, PTL DEF Spec, NoEarlyLoss

-----------------------------------------------------------------------------
(* The kinds of steps *)

(* No queue of the store holds a message it did not hold *)
Shrinks == \A d \in Devices : HeldFor(d)' \subseteq HeldFor(d)

(* The store, which takes nothing in, or the clock, and nothing else *)
StoreOnly == Shrinks /\ UNCHANGED gateway

(* p has pushed m and will try_send it *)
Accepts(p, m) ==
    /\ inHand[p] = NoMessage
    /\ \E t \in 0..now : Accept(p, m, t)
    /\ UNCHANGED <<now, registry, session, dropped>>

(* The task of c goes to another stage, and the store takes nothing in *)
Moves(c, stage) ==
    /\ Goto(c, stage)
    /\ \/ pc[c] = "connecting" /\ stage \in {"register", "closed"}
       \/ pc[c] = "hello" /\ stage = "pull"
       \/ pc[c] \in {"hello", "backlog", "sending", "loop"} /\ stage = "unregister"
       \/ pc[c] = "backlog" /\ ~Registered(c) /\ stage = "closed"
    /\ Shrinks /\ (pc[c] # "loop" => UNCHANGED store)
    /\ UNCHANGED <<registry, chan, outgoing, delivered, sent, inHand, dropped, accepts>>

Pulls(c) == \E t \in 0..now : PullBacklog(c, t)

(* Whatever the step does, the store takes one of its own steps or none *)
LEMMA StoreStep == [GatewayNext]_gvars => [Next]_vars
<1> SUFFICES ASSUME [GatewayNext]_gvars PROVE [Next]_vars
  OBVIOUS
<1>1. ASSUME NEW m \in Messages, NEW t \in 0..now, Push(m, t), now' = now PROVE Next
  BY <1>1 DEF Next
<1>2. ASSUME NEW d \in Devices, NEW t \in 0..now, Pull(d, t), now' = now PROVE Next
  BY <1>2 DEF Next
<1>3. ASSUME NEW d \in Devices, NEW id \in MessageIds, Ack(d, id), now' = now PROVE Next
  BY <1>3 DEF Next
<1>4. CASE UNCHANGED gvars
  BY <1>4 DEF gvars
<1>5. CASE Tick /\ UNCHANGED gateway
  BY <1>5 DEF Next
<1>6. CASE HttpNext
  <2>1. ASSUME NEW r \in Requests, EnqueueCancelled(r) PROVE UNCHANGED vars
    BY <2>1 DEF EnqueueCancelled
  <2>2. ASSUME NEW m \in Messages, NEW t \in 0..now,
               EnqueueRefused(m, t) \/ \E r \in Requests : Enqueue(r, m, t)
        PROVE  Push(m, t) /\ now' = now
    BY <2>2 DEF EnqueueRefused, Enqueue, Accept, Push
  <2>3. ASSUME NEW d \in Devices, NEW t \in 0..now, Poll(d, t) PROVE Pull(d, t) /\ now' = now
    BY <2>3 DEF Poll
  <2>4. ASSUME NEW d \in Devices, NEW id \in MessageIds, AckRequest(d, id)
        PROVE  Ack(d, id) /\ now' = now
    BY <2>4 DEF AckRequest
  <2> QED
    BY <1>6, <2>1, <2>2, <2>3, <2>4, <1>1, <1>2, <1>3 DEF HttpNext
<1>7. ASSUME NEW p \in Processes, TrySend(p) PROVE UNCHANGED vars
  BY <1>7 DEF TrySend
<1>8. ASSUME NEW c \in Conns, SessionNext(c) PROVE [Next]_vars
  <2>1. DeviceOf[c] \in Devices
    BY ConnectionsTyped
  <2>2. ASSUME NEW t \in 0..now, PullBacklog(c, t) PROVE Next
    BY <2>1, <2>2, <1>2 DEF PullBacklog
  <2>3. ASSUME NEW t \in 0..now, NEW m \in Messages,
               InboundPush(c, m, t) \/ InboundDuplicate(c, m, t)
        PROVE  Next
    BY <2>3, <1>1 DEF InboundPush, InboundDuplicate, Accept, Push
  <2>4. ASSUME NEW t \in 0..now, NEW m \in Messages, InboundRefused(c, m, t)
        PROVE  [Next]_vars
    <3>1. CASE UNCHANGED store
      BY <3>1, <2>4 DEF InboundRefused, vars, store
    <3>2. CASE Push(m, t)
      BY <3>2, <2>4, <1>1 DEF InboundRefused
    <3> QED
      BY <3>1, <3>2, <2>4 DEF InboundRefused, Push
  <2>5. ASSUME NEW id \in MessageIds, InboundAck(c, id) PROVE Next
    BY <2>1, <2>5, <1>3 DEF InboundAck
  <2>6. CASE \/ HelloAccepted(c) \/ HelloRejected(c) \/ Register(c) \/ SendHello(c)
             \/ SendNext(c) \/ SendFails(c) \/ Activate(c) \/ ActivateRefused(c)
             \/ LeaveLoop(c) \/ Recv(c) \/ RecvNone(c) \/ Unregister(c)
    BY <2>6 DEF HelloAccepted, HelloRejected, Register, SendHello, SendNext, SendFails, Activate,
                ActivateRefused, LeaveLoop, Recv, RecvNone, Unregister, allButPc
  <2> QED
    BY <1>8, <2>2, <2>3, <2>4, <2>5, <2>6 DEF SessionNext
<1> QED
  BY <1>4, <1>5, <1>6, <1>7, <1>8 DEF GatewayNext

(* Every entry that retain leaves is one of the entries it was given *)
LEMMA RetainFrom ==
    ASSUME NEW S, NEW q \in Seq(S), NEW keep \in SUBSET DOMAIN q
    PROVE  \A k \in DOMAIN Retain(q, keep) : \E i \in keep : Retain(q, keep)[k] = q[i]
<1> DEFINE r == Retain(q, keep)
<1>1. /\ r \in Seq(S) /\ Len(r) = Cardinality(keep)
      /\ \E f \in Bijection(1..Cardinality(keep), keep) :
            \A k \in 1..Cardinality(keep) : r[k] = q[f[k]]
  BY RetainIsKept
<1> HIDE DEF r
<1>2. PICK f \in Bijection(1..Cardinality(keep), keep) :
            \A k \in 1..Cardinality(keep) : r[k] = q[f[k]]
  BY <1>1
<1>3. \A k \in DOMAIN r : f[k] \in keep /\ r[k] = q[f[k]]
  BY <1>1, <1>2 DEF Bijection, Injection
<1> QED
  BY <1>3 DEF r

(***************************************************************************)
(* What a step of the store leaves in the queues: retain only keeps, and   *)
(* nothing but an accepted push adds a message.                            *)
(***************************************************************************)
LEMMA RetainedAreHeld ==
    ASSUME RelayInv, NEW d \in Devices, NEW keep \in SUBSET DOMAIN queues[d],
           queues' = [queues EXCEPT ![d] = Retain(queues[d], keep)]
    PROVE  Shrinks
<1> SUFFICES ASSUME NEW e \in Devices, NEW i \in DOMAIN queues'[e]
             PROVE  queues'[e][i].message \in HeldFor(e)
  BY DEF Shrinks, HeldFor
<1>1. queues \in [Devices -> Seq(StoredMessage)]
  BY DEF RelayInv, TypeOK
<1>2. CASE e # d
  BY <1>1, <1>2 DEF HeldFor
<1>3. CASE e = d
  <2> DEFINE q == queues[d]
             r == Retain(q, keep)
  <2>1. queues'[e] = r /\ q \in Seq(StoredMessage)
    BY <1>1, <1>3
  <2> HIDE DEF q, r
  <2>2. \E j \in DOMAIN q : r[i] = q[j]
    BY <2>1, RetainFrom DEF q, r
  <2> QED
    BY <1>3, <2>1, <2>2 DEF HeldFor, q
<1> QED
  BY <1>2, <1>3

(* A step that leaves the queues alone *)
LEMMA UnchangedShrinks == UNCHANGED queues => Shrinks
BY DEF Shrinks, HeldFor

(* remove_expired, in pull and in push *)
LEMMA RemoveExpiredShrinks ==
    ASSUME RelayInv, NEW d \in Devices, NEW t \in 0..now, RemoveExpired(d, t)
    PROVE  Shrinks
<1>1. Alive(queues[d], t) \in SUBSET DOMAIN queues[d]
  BY DEF Alive
<1> QED
  BY <1>1, RetainedAreHeld DEF RemoveExpired, Unexpired

(* A push that is not accepted *)
LEMMA RefusedShrinks ==
    ASSUME RelayInv, NEW m \in Messages, NEW t \in 0..now,
           PushInvalid(m, t) \/ PushDuplicate(m, t) \/ PushFull(m, t)
    PROVE  Shrinks
<1>1. m.recipient \in Devices
  BY MessagesTyped DEF Message
<1> QED
  BY <1>1, RemoveExpiredShrinks, UnchangedShrinks
  DEF PushInvalid, PushDuplicate, PushFull, store

(* ack *)
LEMMA AckShrinks ==
    ASSUME RelayInv, NEW d \in Devices, NEW id \in MessageIds, Ack(d, id)
    PROVE  Shrinks
<1> DEFINE keep == DOMAIN queues[d] \ Acked(d, id)
<1>1. keep \in SUBSET DOMAIN queues[d]
  OBVIOUS
<1>2. queues' = [queues EXCEPT ![d] = Retain(queues[d], keep)]
  BY DEF Ack, RelayInv, TypeOK
<1> HIDE DEF keep
<1> QED
  BY <1>1, <1>2, RetainedAreHeld

(* An accepted push adds its message to the queue of its recipient *)
LEMMA AcceptedIsHeld ==
    ASSUME RelayInv, NEW m \in Messages, NEW t \in 0..now, PushAccepted(m, t)
    PROVE  \A d \in Devices :
              HeldFor(d)' \subseteq HeldFor(d) \cup (IF d = m.recipient THEN {m} ELSE {})
<1> DEFINE d == m.recipient
           q == Unexpired(d, t)
<1>1. d \in Devices /\ queues \in [Devices -> Seq(StoredMessage)] /\ t \in Nat
  BY MessagesTyped, LimitsAreNat DEF Message, RelayInv, TypeOK
<1>2. /\ Alive(queues[d], t) \in SUBSET DOMAIN queues[d]
      /\ q \in Seq(StoredMessage)
  <2>1. Alive(queues[d], t) \in SUBSET DOMAIN queues[d]
    BY DEF Alive
  <2> QED
    BY <1>1, <2>1, RetainKeepsInv DEF Unexpired
<1>3. \A i \in DOMAIN q : q[i].message \in HeldFor(d)
  <2>1. queues[d] \in Seq(StoredMessage)
    BY <1>1
  <2>2. \A i \in DOMAIN q : \E j \in DOMAIN queues[d] : q[i] = queues[d][j]
    BY <1>2, <2>1, RetainFrom DEF Unexpired
  <2> HIDE DEF q
  <2> QED
    BY <2>2 DEF HeldFor
<1>4. queues' = [queues EXCEPT ![d] = Append(q, Stored(m, t))]
  BY DEF PushAccepted
<1> HIDE DEF q
<1> TAKE e \in Devices
<1>5. CASE e # d
  <2>1. queues'[e] = queues[e]
    BY <1>1, <1>4, <1>5
  <2> QED
    BY <2>1 DEF HeldFor
<1>6. CASE e = d
  <2>1. queues'[e] = Append(q, Stored(m, t))
    BY <1>1, <1>4, <1>6
  <2>2. /\ \A i \in DOMAIN Append(q, Stored(m, t)) : i \in DOMAIN q \/ i = Len(q) + 1
        /\ \A i \in DOMAIN q : Append(q, Stored(m, t))[i] = q[i]
        /\ Append(q, Stored(m, t))[Len(q) + 1] = Stored(m, t)
    BY <1>2
  <2>3. Stored(m, t).message = m
    BY DEF Stored
  <2> QED
    BY <1>3, <1>6, <2>1, <2>2, <2>3 DEF HeldFor
<1> QED
  BY <1>5, <1>6

(* Every step is of one of these kinds *)
LEMMA StepKinds ==
    ASSUME RelayInv, [GatewayNext]_gvars
    PROVE  \/ StoreOnly
           \/ \E p \in Processes, m \in Messages : Accepts(p, m)
           \/ \E c \in Conns, stage \in Stages : Moves(c, stage)
           \/ \E p \in Processes : TrySend(p)
           \/ \E r \in Requests : EnqueueCancelled(r)
           \/ \E c \in Conns : \/ Register(c) \/ Pulls(c) \/ SendNext(c)
                               \/ Activate(c) \/ Recv(c) \/ Unregister(c)
<1>1. UNCHANGED vars \/ UNCHANGED store => Shrinks
  BY UnchangedShrinks DEF vars, store
<1>2. CASE UNCHANGED gvars
  BY <1>1, <1>2 DEF gvars, StoreOnly
<1>3. CASE Tick /\ UNCHANGED gateway
  BY <1>1, <1>3 DEF Tick, StoreOnly
<1>4. CASE HttpNext
  <2>1. ASSUME NEW r \in Requests, NEW m \in Messages, NEW t \in 0..now, Enqueue(r, m, t)
        PROVE  r \in Processes /\ Accepts(r, m)
    BY <2>1 DEF Enqueue, Accepts, Processes
  <2>2. ASSUME NEW m \in Messages, NEW t \in 0..now, EnqueueRefused(m, t) PROVE StoreOnly
    BY RefusedShrinks, <2>2 DEF EnqueueRefused, StoreOnly
  <2>3. ASSUME NEW d \in Devices, NEW t \in 0..now, Poll(d, t) PROVE StoreOnly
    BY RemoveExpiredShrinks, <2>3 DEF Poll, Pull, StoreOnly
  <2>4. ASSUME NEW d \in Devices, NEW id \in MessageIds, AckRequest(d, id) PROVE StoreOnly
    BY AckShrinks, <2>4 DEF AckRequest, StoreOnly
  <2> QED
    BY <1>4, <2>1, <2>2, <2>3, <2>4 DEF HttpNext
<1>5. ASSUME NEW c \in Conns, SessionNext(c)
      PROVE  \/ StoreOnly
             \/ \E p \in Processes, m \in Messages : Accepts(p, m)
             \/ \E stage \in Stages : Moves(c, stage)
             \/ Register(c) \/ Pulls(c) \/ SendNext(c)
             \/ Activate(c) \/ Recv(c) \/ Unregister(c)
  <2>1. CASE HelloAccepted(c)
    <3>1. Moves(c, "register")
      BY <1>1, <2>1 DEF HelloAccepted, Moves, allButPc, vars, store
    <3> QED
      BY <3>1 DEF Stages
  <2>2. CASE HelloRejected(c)
    <3>1. Moves(c, "closed")
      BY <1>1, <2>2 DEF HelloRejected, Moves, allButPc, vars, store
    <3> QED
      BY <3>1 DEF Stages
  <2>3. CASE SendHello(c)
    <3>1. Moves(c, "pull")
      BY <1>1, <2>3 DEF SendHello, Moves, allButPc, vars, store
    <3> QED
      BY <3>1 DEF Stages
  <2>4. CASE SendFails(c) \/ LeaveLoop(c) \/ RecvNone(c)
    <3>1. Moves(c, "unregister")
      BY <1>1, <2>4 DEF SendFails, LeaveLoop, RecvNone, Selecting, Moves, allButPc, vars, store
    <3> QED
      BY <3>1 DEF Stages
  <2>5. CASE ActivateRefused(c)
    <3>1. Moves(c, "closed")
      BY <1>1, <2>5 DEF ActivateRefused, Moves, allButPc, vars, store
    <3> QED
      BY <3>1 DEF Stages
  <2>6. ASSUME NEW t \in 0..now, NEW m \in Messages, InboundRefused(c, m, t)
        PROVE  \E stage \in Stages : Moves(c, stage)
    <3>1. Moves(c, "unregister")
      BY <1>1, RefusedShrinks, <2>6 DEF InboundRefused, Selecting, Moves
    <3> QED
      BY <3>1 DEF Stages
  <2>7. ASSUME NEW t \in 0..now, NEW m \in Messages, InboundPush(c, m, t)
        PROVE  c \in Processes /\ Accepts(c, m)
    BY <2>7 DEF InboundPush, Selecting, Accepts, Processes
  <2>8. ASSUME NEW t \in 0..now, NEW m \in Messages, InboundDuplicate(c, m, t) PROVE StoreOnly
    BY RefusedShrinks, <2>8 DEF InboundDuplicate, StoreOnly
  <2>9. ASSUME NEW id \in MessageIds, InboundAck(c, id) PROVE StoreOnly
    BY AckShrinks, ConnectionsTyped, <2>9 DEF InboundAck, StoreOnly
  <2> QED
    BY <1>5, <2>1, <2>2, <2>3, <2>4, <2>5, <2>6, <2>7, <2>8, <2>9 DEF SessionNext, Pulls
<1> QED
  BY <1>2, <1>3, <1>4, <1>5 DEF GatewayNext

(***************************************************************************)
(* The store inside the gateway behaves as the store alone: handlers and   *)
(* sessions only use push, pull and ack.                                   *)
(***************************************************************************)
THEOREM GatewayRunsRelay == GatewaySpec => Spec
<1>1. GatewayInit => Init
  BY DEF GatewayInit
<1> QED
  BY <1>1, StoreStep, PTL DEF GatewaySpec, Spec

(* So whatever the connections do, the store keeps its invariant. *)
THEOREM GatewayRelayInvariant == GatewaySpec => []RelayInv
BY GatewayRunsRelay, RelayInvariant, PTL

-----------------------------------------------------------------------------
(* Types *)

(* An entry of the registry, when there is one *)
LEMMA EntryTyped ==
    ASSUME GatewayTypeOK, NEW d \in Devices, registry[d] # NoEntry
    PROVE  /\ registry[d] \in ConnectionState
           /\ registry[d].id \in Conns
           /\ registry[d].ready \in BOOLEAN
           /\ registry[d].pending \in Seq(Messages)
           /\ Len(registry[d].pending) <= LiveChannelCapacity
BY DEF GatewayTypeOK, ConnectionState

(* pull returns a queue of messages, those the store then holds *)
LEMMA PulledFacts ==
    ASSUME RelayInv, NEW d \in Devices, NEW t \in 0..now
    PROVE  /\ Pulled(d, t) \in Seq(Messages)
           /\ Pull(d, t) => HeldFor(d)' = Range(Pulled(d, t))
<1> DEFINE q == Unexpired(d, t)
<1>1. q \in Seq(StoredMessage)
  <2>1. t \in Nat
    BY LimitsAreNat DEF RelayInv, TypeOK
  <2>2. Alive(queues[d], t) \in SUBSET DOMAIN queues[d]
    BY <2>1, ExpiryFacts
  <2> QED
    BY <2>2, RetainKeepsInv DEF Unexpired
<1> HIDE DEF q
<1>2. [i \in DOMAIN q |-> q[i].message] \in Seq(Messages)
  <2>1. Len(q) \in Nat /\ DOMAIN q = 1..Len(q)
    BY <1>1, LenProperties
  <2>2. \A i \in 1..Len(q) : q[i].message \in Messages
    <3>1. \A i \in 1..Len(q) : q[i] \in StoredMessage
      BY <1>1, ElementOfSeq
    <3> QED
      BY <3>1 DEF StoredMessage
  <2>3. [i \in DOMAIN q |-> q[i].message] \in [1..Len(q) -> Messages]
    BY <2>1, <2>2
  <2> QED
    BY <2>1, <2>3, SeqDef
<1>3. ASSUME Pull(d, t) PROVE HeldFor(d)' = Range(Pulled(d, t))
  <2>1. queues'[d] = q
    BY <1>3 DEF Pull, RemoveExpired, RelayInv, TypeOK, q
  <2> QED
    BY <2>1 DEF HeldFor, Pulled, Range, q
<1> QED
  BY <1>2, <1>3 DEF Pulled, q

(* The parts of a queue that is not empty *)
LEMMA HeadAndTail ==
    ASSUME NEW q \in Seq(Messages), q # <<>>
    PROVE  /\ Head(q) \in Messages /\ Tail(q) \in Seq(Messages)
           /\ <<Head(q)>> \in Seq(Messages)
           /\ Len(Tail(q)) = Len(q) - 1 /\ Len(q) \in Nat
           /\ Range(q) = {Head(q)} \cup Range(Tail(q))
<1>1. Len(q) \in Nat /\ Len(q) # 0 /\ Head(q) = q[1] /\ DOMAIN q = 1..Len(q)
  OBVIOUS
<1>2. /\ Head(q) \in Messages /\ Tail(q) \in Seq(Messages) /\ Len(Tail(q)) = Len(q) - 1
      /\ \A i \in 1..(Len(q) - 1) : Tail(q)[i] = q[i + 1]
  BY <1>1
<1>3. ASSUME NEW i \in 1..Len(q) PROVE i = 1 \/ i - 1 \in 1..(Len(q) - 1)
  BY <1>1
<1>4. Range(q) \subseteq {Head(q)} \cup Range(Tail(q))
  <2> SUFFICES ASSUME NEW i \in 1..Len(q), i # 1 PROVE q[i] \in Range(Tail(q))
    BY <1>1 DEF Range
  <2>1. Tail(q)[i - 1] = q[i] /\ i - 1 \in DOMAIN Tail(q)
    BY <1>1, <1>2, <1>3
  <2> QED
    BY <2>1 DEF Range
<1>5. {Head(q)} \cup Range(Tail(q)) \subseteq Range(q)
  <2>1. \A i \in DOMAIN Tail(q) : i + 1 \in DOMAIN q /\ Tail(q)[i] = q[i + 1]
    BY <1>1, <1>2
  <2>2. 1 \in DOMAIN q
    BY <1>1
  <2> QED
    BY <1>1, <2>1, <2>2 DEF Range
<1> QED
  BY <1>1, <1>2, <1>4, <1>5

(* What a queue holds after a message has been appended *)
LEMMA RangeOfAppend ==
    ASSUME NEW q \in Seq(Messages), NEW m \in Messages
    PROVE  /\ Append(q, m) \in Seq(Messages)
           /\ Len(Append(q, m)) = Len(q) + 1 /\ Len(q) \in Nat
           /\ Range(Append(q, m)) = Range(q) \cup {m}
<1>1. /\ Append(q, m) \in Seq(Messages)
      /\ Len(Append(q, m)) = Len(q) + 1 /\ Len(q) \in Nat
      /\ DOMAIN Append(q, m) = DOMAIN q \cup {Len(q) + 1}
      /\ \A i \in DOMAIN q : Append(q, m)[i] = q[i]
      /\ Append(q, m)[Len(q) + 1] = m
  OBVIOUS
<1> QED
  BY <1>1 DEF Range

(* The entry that activate leaves *)
LEMMA EntryActivated ==
    ASSUME NEW e \in ConnectionState
    PROVE  LET f == [e EXCEPT !.pending = <<>>, !.ready = TRUE]
           IN  f \in ConnectionState /\ f.id = e.id /\ f.ready /\ f.pending = <<>>
<1> DEFINE f == [e EXCEPT !.pending = <<>>, !.ready = TRUE]
<1>1. f \in ConnectionState
  <2>1. ASSUME NEW B, NEW b \in B, NEW P, NEW p \in P, NEW g \in [id : Conns, ready : B, pending : P]
        PROVE  [g EXCEPT !.pending = p, !.ready = b] \in [id : Conns, ready : B, pending : P]
    OBVIOUS
  <2>2. <<>> \in Seq(Messages)
    OBVIOUS
  <2> QED
    BY <2>1, <2>2 DEF ConnectionState
<1>2. f.id = e.id /\ f.pending = <<>>
  BY DEF ConnectionState
<1>3. f.ready
  <2>1. DOMAIN e = {"id", "ready", "pending"}
    BY DEF ConnectionState
  <2>2. f = [x \in {"id", "ready", "pending"} |->
                IF x = "pending" THEN <<>> ELSE IF x = "ready" THEN TRUE ELSE e[x]]
    BY <2>1, Zenon
  <2>3. "ready" # "pending"
    OBVIOUS
  <2> QED
    BY <2>2, <2>3, Zenon
<1> QED
  BY <1>1, <1>2, <1>3

(***************************************************************************)
(* What activate moves: the messages of pending not in the backlog follow  *)
(* the channel, and a prefix of them fits.                                 *)
(***************************************************************************)
LEMMA ActivateMoves ==
    ASSUME NEW c \in Conns, NEW old \in Seq(Messages), NEW pend \in Seq(Messages)
    PROVE  LET kept == NotDelivered(c, pend)
               live == old \o kept
           IN  /\ kept \in Seq(Messages) /\ Len(kept) <= Len(pend)
               /\ live \in Seq(Messages) /\ Len(live) = Len(old) + Len(kept)
               /\ Len(old) \in Nat /\ Len(kept) \in Nat /\ Len(live) \in Nat
               /\ Range(old) \subseteq Range(live)
               /\ \A m \in Range(pend) : m.id \in delivered[c] \/ m \in Range(live)
<1> DEFINE keep == {i \in DOMAIN pend : pend[i].id \notin delivered[c]}
           kept == NotDelivered(c, pend)
           live == old \o kept
<1>1. keep \in SUBSET DOMAIN pend /\ kept = Retain(pend, keep)
  BY DEF NotDelivered
<1> HIDE DEF keep, kept
<1>2. /\ kept \in Seq(Messages)
      /\ Len(kept) = Cardinality(keep) /\ Cardinality(keep) <= Len(pend)
      /\ \E positionOf \in Bijection(1..Cardinality(keep), keep) :
            \A k \in 1..Cardinality(keep) : kept[k] = pend[positionOf[k]]
  BY <1>1, RetainIsKept
<1>3. \A i \in keep : pend[i] \in Range(kept)
  <2> TAKE i \in keep
  <2>1. PICK f \in Bijection(1..Cardinality(keep), keep) :
            \A k \in 1..Cardinality(keep) : kept[k] = pend[f[k]]
    BY <1>2
  <2>2. PICK k \in 1..Cardinality(keep) : f[k] = i
    BY DEF Bijection, Surjection
  <2>3. k \in DOMAIN kept /\ kept[k] = pend[i]
    BY <1>2, <2>1, <2>2
  <2> QED
    BY <2>3 DEF Range
<1>4. /\ live \in Seq(Messages) /\ Len(live) = Len(old) + Len(kept)
      /\ Len(old) \in Nat /\ Len(kept) \in Nat /\ Len(live) \in Nat
      /\ \A i \in 1..Len(old) : live[i] = old[i]
      /\ \A i \in 1..Len(kept) : live[Len(old) + i] = kept[i]
  <2>1. Len(old) \in Nat /\ Len(kept) \in Nat
    BY <1>2, LenProperties
  <2>2. /\ live \in Seq(Messages) /\ Len(live) = Len(old) + Len(kept)
        /\ \A i \in 1..(Len(old) + Len(kept)) :
              live[i] = IF i <= Len(old) THEN old[i] ELSE kept[i - Len(old)]
    BY <1>2, ConcatProperties
  <2>3. \A i \in 1..Len(old) : live[i] = old[i]
    BY <2>1, <2>2
  <2>4. \A i \in 1..Len(kept) : live[Len(old) + i] = kept[i]
    <3> TAKE i \in 1..Len(kept)
    <3> DEFINE n == Len(old)
    <3>1. n + i \in 1..(n + Len(kept)) /\ ~(n + i <= n) /\ (n + i) - n = i
      BY <2>1
    <3> HIDE DEF n, live
    <3> QED
      BY <3>1, <2>2 DEF n
  <2> HIDE DEF live
  <2> QED
    BY <2>1, <2>2, <2>3, <2>4
<1>5. Range(old) \subseteq Range(live) /\ Range(kept) \subseteq Range(live)
  <2>1. \A i \in DOMAIN old : i \in DOMAIN live /\ live[i] = old[i]
    BY <1>4
  <2>2. \A i \in DOMAIN kept : Len(old) + i \in DOMAIN live /\ live[Len(old) + i] = kept[i]
    BY <1>2, <1>4
  <2> QED
    BY <2>1, <2>2 DEF Range
<1>6. \A i \in DOMAIN pend : i \in keep \/ pend[i].id \in delivered[c]
  BY DEF keep
<1>7. \A m \in Range(pend) : m.id \in delivered[c] \/ m \in Range(live)
  BY <1>3, <1>5, <1>6 DEF Range
<1> QED
  BY <1>2, <1>4, <1>5, <1>7 DEF kept

(* Every step of the gateway keeps the types of its variables *)
LEMMA GatewayTypeNext ==
    ASSUME RelayInv, GatewayTypeOK, [GatewayNext]_gvars
    PROVE  GatewayTypeOK'
<1> USE DEF GatewayTypeOK
<1>1. CASE StoreOnly
  BY <1>1 DEF StoreOnly, gateway, session
<1>2. ASSUME NEW p \in Processes, NEW m \in Messages, Accepts(p, m)
      PROVE  GatewayTypeOK'
  <2>1. /\ accepts[m] < MaxAccepts
        /\ inHand' = [inHand EXCEPT ![p] = m]
        /\ accepts' = [accepts EXCEPT ![m] = @ + 1]
        /\ UNCHANGED <<registry, chan, pc, outgoing, delivered, sent, dropped>>
    BY <1>2 DEF Accepts, Accept, session
  <2>2. accepts' \in [Messages -> 0..MaxAccepts]
    <3>1. accepts[m] \in 0..MaxAccepts /\ accepts[m] + 1 \in 0..MaxAccepts
      BY <2>1, ConnectionsTyped
    <3> QED
      BY <2>1, <3>1
  <2> QED
    BY <2>1, <2>2
<1>3. ASSUME NEW c \in Conns, NEW stage \in Stages, Moves(c, stage)
      PROVE  GatewayTypeOK'
  <2>1. pc' \in [Conns -> Stages]
    BY <1>3 DEF Moves, Goto
  <2> QED
    BY <1>3, <2>1 DEF Moves
<1>4. ASSUME NEW p \in Processes, TrySend(p)
      PROVE  GatewayTypeOK'
  <2>1. PICK m \in Messages : \/ TrySendPending(p, m)
                              \/ TrySendChannel(p, m)
                              \/ TrySendDropped(p, m)
                              \/ TrySendOffline(p, m)
    BY <1>4 DEF TrySend
  <2>2. m.recipient \in Devices /\ m.id \in MessageIds
    BY MessagesTyped DEF Message
  <2>3. inHand' \in [Processes -> Messages \cup {NoMessage}]
    BY <1>4 DEF TrySend
  <2>4. UNCHANGED <<pc, outgoing, delivered, sent, accepts>>
    BY <1>4 DEF TrySend
  <2> DEFINE d == m.recipient
             e == registry[d]
  <2>5. CASE TrySendPending(p, m)
    <3>1. /\ e # NoEntry /\ Len(e.pending) < LiveChannelCapacity
          /\ registry' = [registry EXCEPT ![d].pending = Append(@, m)]
          /\ UNCHANGED <<chan, dropped>>
      BY <2>5 DEF TrySendPending
    <3>2. e \in ConnectionState /\ e.pending \in Seq(Messages)
      BY <2>2, <3>1, EntryTyped
    <3>3. /\ Append(e.pending, m) \in Seq(Messages)
          /\ Len(Append(e.pending, m)) <= LiveChannelCapacity
      BY <3>1, <3>2, RangeOfAppend, ConnectionsTyped
    <3>4. registry' = [registry EXCEPT ![d] = [e EXCEPT !.pending = Append(e.pending, m)]]
      BY <2>2, <3>1
    <3>5. /\ [e EXCEPT !.pending = Append(e.pending, m)] \in ConnectionState
          /\ [e EXCEPT !.pending = Append(e.pending, m)].pending = Append(e.pending, m)
      BY <3>2, <3>3 DEF ConnectionState
    <3>6. /\ registry' \in [Devices -> ConnectionState \cup {NoEntry}]
          /\ \A f \in Devices :
                registry'[f] # NoEntry => Len(registry'[f].pending) <= LiveChannelCapacity
      <4> HIDE DEF d, e
      <4> QED
        BY <2>2, <3>3, <3>4, <3>5 DEF d
    <3> QED
      BY <2>3, <2>4, <3>1, <3>6
  <2>6. CASE TrySendChannel(p, m)
    <3>1. /\ e # NoEntry /\ Len(chan[e.id]) < LiveChannelCapacity
          /\ chan' = [chan EXCEPT ![e.id] = Append(@, m)]
          /\ UNCHANGED <<registry, dropped>>
      BY <2>6 DEF TrySendChannel
    <3>2. e.id \in Conns /\ chan[e.id] \in Seq(Messages)
      BY <2>2, <3>1, EntryTyped
    <3>3. /\ Append(chan[e.id], m) \in Seq(Messages)
          /\ Len(Append(chan[e.id], m)) <= LiveChannelCapacity
      BY <3>1, <3>2, RangeOfAppend, ConnectionsTyped
    <3>4. chan' \in [Conns -> Seq(Messages)]
          /\ \A c \in Conns : Len(chan'[c]) <= LiveChannelCapacity
      <4> HIDE DEF e
      <4> QED
        BY <3>1, <3>2, <3>3
    <3> QED
      BY <2>3, <2>4, <3>1, <3>4
  <2>7. CASE TrySendDropped(p, m)
    <3>1. e # NoEntry /\ dropped' = [dropped EXCEPT ![e.id] = @ \cup {m.id}]
          /\ UNCHANGED <<registry, chan>>
      BY <2>7 DEF TrySendDropped
    <3>2. dropped' \in [Conns -> SUBSET MessageIds]
      BY <2>2, <3>1
    <3> QED
      BY <2>3, <2>4, <3>1, <3>2
  <2>8. CASE TrySendOffline(p, m)
    BY <2>3, <2>4, <2>8 DEF TrySendOffline
  <2> QED
    BY <2>1, <2>5, <2>6, <2>7, <2>8
<1>5. ASSUME NEW r \in Requests, EnqueueCancelled(r)
      PROVE  GatewayTypeOK'
  <2>1. PICK m \in Messages :
            dropped' = [c \in Conns |->
                IF registry[m.recipient] # NoEntry /\ registry[m.recipient].id = c
                THEN dropped[c] \cup {m.id} ELSE dropped[c]]
    BY <1>5 DEF EnqueueCancelled
  <2>2. dropped' \in [Conns -> SUBSET MessageIds]
    BY <2>1, MessagesTyped DEF Message
  <2>3. /\ inHand' \in [Processes -> Messages \cup {NoMessage}]
        /\ UNCHANGED <<registry, chan, pc, outgoing, delivered, sent, accepts>>
    BY <1>5 DEF EnqueueCancelled, session
  <2> QED
    BY <2>2, <2>3
<1>6. ASSUME NEW c \in Conns, Register(c)
      PROVE  GatewayTypeOK'
  <2> DEFINE entry == [id |-> c, ready |-> FALSE, pending |-> <<>>]
  <2>1. entry \in ConnectionState /\ entry.pending = <<>> /\ Len(<<>>) = 0
    BY DEF ConnectionState
  <2>2. DeviceOf[c] \in Devices /\ registry' = [registry EXCEPT ![DeviceOf[c]] = entry]
    BY <1>6, ConnectionsTyped DEF Register
  <2>3. /\ registry' \in [Devices -> ConnectionState \cup {NoEntry}]
        /\ \A d \in Devices :
              registry'[d] # NoEntry => Len(registry'[d].pending) <= LiveChannelCapacity
    <3> HIDE DEF entry
    <3> QED
      BY <2>1, <2>2, ConnectionsTyped
  <2>4. pc' \in [Conns -> Stages]
    BY <1>6 DEF Register, Goto, Stages
  <2> QED
    BY <1>6, <2>3, <2>4 DEF Register
<1>7. ASSUME NEW c \in Conns, NEW t \in 0..now, PullBacklog(c, t)
      PROVE  GatewayTypeOK'
  <2>1. DeviceOf[c] \in Devices
    BY ConnectionsTyped
  <2>2. Pulled(DeviceOf[c], t) \in Seq(Messages)
    BY <2>1, PulledFacts
  <2>3. Range(Pulled(DeviceOf[c], t)) \subseteq Messages
    BY <2>2 DEF Range
  <2>4. /\ outgoing' \in [Conns -> Seq(Messages)]
        /\ delivered' \in [Conns -> SUBSET MessageIds]
        /\ dropped' \in [Conns -> SUBSET MessageIds]
        /\ pc' \in [Conns -> Stages]
    BY <1>7, <2>2, <2>3, MessagesTyped DEF PullBacklog, Goto, Stages, Message
  <2> QED
    BY <1>7, <2>4 DEF PullBacklog
<1>8. ASSUME NEW c \in Conns, SendNext(c)
      PROVE  GatewayTypeOK'
  <2>1. Head(outgoing[c]) \in Messages /\ Tail(outgoing[c]) \in Seq(Messages)
    BY <1>8, HeadAndTail DEF SendNext
  <2>2. sent' \in [Conns -> [Messages -> Nat]]
    <3>1. sent[c] \in [Messages -> Nat] /\ sent[c][Head(outgoing[c])] \in Nat
      BY <2>1
    <3> DEFINE f == sent[c]
               h == Head(outgoing[c])
    <3>2. [f EXCEPT ![h] = f[h] + 1] \in [Messages -> Nat]
      <4>1. f \in [Messages -> Nat] /\ h \in Messages
        BY <2>1
      <4> HIDE DEF f, h
      <4> QED
        BY <4>1
    <3> QED
      BY <1>8, <3>2 DEF SendNext
  <2>3. outgoing' \in [Conns -> Seq(Messages)] /\ pc' \in [Conns -> Stages]
    BY <1>8, <2>1 DEF SendNext, Goto, Stages
  <2> QED
    BY <1>8, <2>2, <2>3 DEF SendNext
<1>9. ASSUME NEW c \in Conns, Activate(c)
      PROVE  GatewayTypeOK'
  <2> DEFINE d == DeviceOf[c]
             e == registry[d]
             live == chan[c] \o NotDelivered(c, registry[d].pending)
             fits == IF Len(live) <= LiveChannelCapacity THEN Len(live) ELSE LiveChannelCapacity
  <2>1. d \in Devices /\ e # NoEntry /\ e.id = c
    BY <1>9, ConnectionsTyped DEF Activate, Registered
  <2>2. e \in ConnectionState /\ e.pending \in Seq(Messages)
    BY <2>1, EntryTyped
  <2>3. live \in Seq(Messages) /\ Len(live) \in Nat
    BY <2>2, ActivateMoves
  <2>4. /\ registry' = [registry EXCEPT ![d].pending = <<>>, ![d].ready = TRUE]
        /\ chan' = [chan EXCEPT ![c] = SubSeq(live, 1, fits)]
        /\ dropped' = [dropped EXCEPT ![c] = @ \cup {live[i].id : i \in (fits + 1)..Len(live)}]
        /\ pc' = [pc EXCEPT ![c] = "loop"]
        /\ UNCHANGED <<outgoing, delivered, sent, inHand, accepts>>
    BY <1>9 DEF Activate, Goto
  <2> HIDE DEF live
  <2>5. /\ registry' \in [Devices -> ConnectionState \cup {NoEntry}]
        /\ \A f \in Devices :
              registry'[f] # NoEntry => Len(registry'[f].pending) <= LiveChannelCapacity
    <3> DEFINE entry == [e EXCEPT !.pending = <<>>, !.ready = TRUE]
    <3>1. entry \in ConnectionState /\ entry.pending = <<>> /\ Len(<<>>) = 0
      BY <2>2, EntryActivated
    <3>2. registry' = [registry EXCEPT ![d] = entry]
      BY <2>1, <2>4
    <3> HIDE DEF entry, d
    <3> QED
      BY <2>1, <3>1, <3>2, ConnectionsTyped
  <2>6. /\ fits \in Nat /\ fits <= Len(live) /\ fits <= LiveChannelCapacity
    BY <2>3, ConnectionsTyped
  <2> HIDE DEF fits
  <2>7. SubSeq(live, 1, fits) \in Seq(Messages) /\ Len(SubSeq(live, 1, fits)) <= LiveChannelCapacity
    <3>1. \A i \in 1..fits : live[i] \in Messages
      BY <2>3, <2>6
    <3> QED
      BY <2>6, <3>1, SubSeqProperties, ConnectionsTyped
  <2>8. \A i \in (fits + 1)..Len(live) : live[i].id \in MessageIds
    BY <2>3, <2>6, MessagesTyped DEF Message
  <2>9. dropped' \in [Conns -> SUBSET MessageIds]
    BY <2>4, <2>8
  <2>10. chan' \in [Conns -> Seq(Messages)] /\ \A f \in Conns : Len(chan'[f]) <= LiveChannelCapacity
    BY <2>4, <2>7
  <2>11. pc' \in [Conns -> Stages]
    BY <2>4 DEF Stages
  <2> QED
    BY <2>4, <2>5, <2>9, <2>10, <2>11
<1>10. ASSUME NEW c \in Conns, Recv(c)
       PROVE  GatewayTypeOK'
  <2>1. chan[c] \in Seq(Messages) /\ chan[c] # <<>>
    BY <1>10 DEF Recv
  <2>2. /\ Tail(chan[c]) \in Seq(Messages) /\ Len(Tail(chan[c])) <= LiveChannelCapacity
        /\ <<Head(chan[c])>> \in Seq(Messages)
    <3>1. Len(chan[c]) <= LiveChannelCapacity
      OBVIOUS
    <3> QED
      BY <2>1, <3>1, HeadAndTail, ConnectionsTyped
  <2>3. /\ chan' \in [Conns -> Seq(Messages)] /\ \A f \in Conns : Len(chan'[f]) <= LiveChannelCapacity
        /\ outgoing' \in [Conns -> Seq(Messages)]
    BY <1>10, <2>2 DEF Recv
  <2>4. pc' \in [Conns -> Stages]
    BY <1>10 DEF Recv, Goto, Stages
  <2> QED
    BY <1>10, <2>3, <2>4 DEF Recv
<1>11. ASSUME NEW c \in Conns, Unregister(c)
       PROVE  GatewayTypeOK'
  <2>1. DeviceOf[c] \in Devices
    BY ConnectionsTyped
  <2>2. /\ registry' \in [Devices -> ConnectionState \cup {NoEntry}]
        /\ \A d \in Devices : registry'[d] = registry[d] \/ registry'[d] = NoEntry
    BY <1>11, <2>1 DEF Unregister
  <2>3. pc' \in [Conns -> Stages]
    BY <1>11 DEF Unregister, Goto, Stages
  <2> QED
    BY <1>11, <2>2, <2>3 DEF Unregister
<1> QED
  BY StepKinds, <1>1, <1>2, <1>3, <1>4, <1>5, <1>6, <1>7, <1>8, <1>9, <1>10, <1>11 DEF Pulls

-----------------------------------------------------------------------------
(* The entries of the registry *)

(* The session of an entry, while EntryHasSession holds *)
LEMMA OwnerFacts ==
    ASSUME GatewayTypeOK, EntryHasSession, NEW d \in Devices, registry[d] # NoEntry
    PROVE  /\ registry[d].id \in Conns
           /\ DeviceOf[registry[d].id] = d
           /\ Registered(registry[d].id)
BY EntryTyped DEF EntryHasSession, Registered

(* What try_send leaves of the registry: only pending grows *)
LEMMA TrySendKeepsEntries ==
    ASSUME GatewayTypeOK, NEW p \in Processes, TrySend(p), NEW d \in Devices
    PROVE  /\ registry'[d] = NoEntry <=> registry[d] = NoEntry
           /\ registry[d] # NoEntry =>
                /\ registry'[d].id = registry[d].id
                /\ registry'[d].ready = registry[d].ready
                /\ Range(registry[d].pending) \subseteq Range(registry'[d].pending)
<1>1. PICK m \in Messages : \/ TrySendPending(p, m)
                            \/ TrySendChannel(p, m)
                            \/ TrySendDropped(p, m)
                            \/ TrySendOffline(p, m)
  BY DEF TrySend
<1> DEFINE e == registry[m.recipient]
           f == [e EXCEPT !.pending = Append(e.pending, m)]
<1>2. CASE registry' = registry
  BY <1>2
<1>3. CASE TrySendPending(p, m)
  <2>1. m.recipient \in Devices /\ e # NoEntry
    BY <1>3, MessagesTyped DEF Message, TrySendPending
  <2>2. e \in ConnectionState /\ e.pending \in Seq(Messages)
    BY <2>1, EntryTyped
  <2>3. registry' = [registry EXCEPT ![m.recipient] = f] /\ registry \in [Devices -> ConnectionState \cup {NoEntry}]
    BY <1>3, <2>1 DEF TrySendPending, GatewayTypeOK
  <2>4. f.id = e.id /\ f.ready = e.ready /\ f.pending = Append(e.pending, m)
    BY <2>2 DEF ConnectionState
  <2>5. f \in ConnectionState
    <3>1. Append(e.pending, m) \in Seq(Messages)
      BY <2>2
    <3> QED
      BY <2>2, <3>1 DEF ConnectionState
  <2>6. Range(e.pending) \subseteq Range(f.pending)
    BY <2>2, <2>4, RangeOfAppend
  <2>7. f # NoEntry
    BY <2>5, AbsentValues
  <2> HIDE DEF f
  <2> QED
    BY <2>1, <2>3, <2>4, <2>6, <2>7
<1> QED
  BY <1>1, <1>2, <1>3 DEF TrySendChannel, TrySendDropped, TrySendOffline

HasSession(d) ==
    /\ DeviceOf[registry[d].id] = d
    /\ pc[registry[d].id] \in IF registry[d].ready
                              THEN {"loop", "sending", "unregister"}
                              ELSE {"hello", "pull", "backlog", "unregister"}

(* Every step keeps the entries with live sessions of their devices *)
LEMMA EntryHasSessionNext ==
    ASSUME RelayInv, GatewayTypeOK, EntryHasSession, [GatewayNext]_gvars
    PROVE  EntryHasSession'
<1>1. GatewayTypeOK'
  BY GatewayTypeNext
<1> SUFFICES ASSUME NEW d \in Devices, registry'[d] # NoEntry
             PROVE  HasSession(d)'
  BY DEF EntryHasSession, HasSession
<1> USE DEF HasSession
<1> DEFINE owner == registry[d].id
<1>2. ASSUME registry[d] # NoEntry
      PROVE  /\ owner \in Conns /\ DeviceOf[owner] = d /\ Registered(owner)
             /\ HasSession(d)
  BY <1>2, OwnerFacts DEF EntryHasSession
<1>3. CASE UNCHANGED <<registry, pc>>
  BY <1>2, <1>3
<1>4. ASSUME NEW c \in Conns, NEW stage \in Stages, Moves(c, stage)
      PROVE  HasSession(d)'
  <2>1. registry' = registry /\ pc' = [pc EXCEPT ![c] = stage]
    BY <1>4 DEF Moves, Goto
  <2>2. CASE c # owner
    BY <2>1, <2>2, <1>2
  <2>3. CASE c = owner
    <3>1. Registered(c) /\ pc[c] # "connecting"
      BY <2>1, <2>3, <1>2
    <3>2. pc'[owner] = stage
      BY <2>1, <2>3, <1>2 DEF GatewayTypeOK
    <3>3. \/ pc[c] = "hello" /\ stage = "pull"
          \/ stage = "unregister"
      BY <1>4, <3>1 DEF Moves
    <3> QED
      BY <2>1, <2>3, <3>2, <3>3, <1>2
  <2> QED
    BY <2>2, <2>3
<1>5. ASSUME NEW p \in Processes, TrySend(p)
      PROVE  HasSession(d)'
  <2>1. /\ registry[d] # NoEntry /\ registry'[d].id = owner
        /\ registry'[d].ready = registry[d].ready
    BY <1>5, TrySendKeepsEntries
  <2>2. pc' = pc
    BY <1>5 DEF TrySend
  <2> QED
    BY <2>1, <2>2, <1>2
<1>6. ASSUME NEW c \in Conns, Register(c)
      PROVE  HasSession(d)'
  <2> DEFINE entry == [id |-> c, ready |-> FALSE, pending |-> <<>>]
  <2>1. /\ pc[c] = "register" /\ pc' = [pc EXCEPT ![c] = "hello"]
        /\ registry' = [registry EXCEPT ![DeviceOf[c]] = entry]
    BY <1>6 DEF Register, Goto
  <2>2. entry.id = c /\ ~entry.ready
    OBVIOUS
  <2> HIDE DEF entry
  <2>3. pc'[c] = "hello"
    BY <2>1 DEF GatewayTypeOK
  <2>4. CASE d = DeviceOf[c]
    <3>1. registry'[d] = entry
      BY <2>1, <2>4 DEF GatewayTypeOK
    <3> QED
      BY <2>2, <2>3, <2>4, <3>1
  <2>5. CASE d # DeviceOf[c]
    <3>1. registry'[d] = registry[d]
      BY <2>1, <2>5 DEF GatewayTypeOK
    <3>2. c # owner
      BY <3>1, <2>5, <1>2
    <3> QED
      BY <2>1, <3>1, <3>2, <1>2
  <2> QED
    BY <2>4, <2>5
<1>7. ASSUME NEW c \in Conns, Pulls(c) \/ SendNext(c) \/ Recv(c)
      PROVE  HasSession(d)'
  <2>1. registry' = registry /\ \A b \in Conns \ {c} : pc'[b] = pc[b]
    BY <1>7 DEF Pulls, PullBacklog, SendNext, Recv, Goto, GatewayTypeOK
  <2>2. \/ pc[c] = "pull" /\ pc'[c] = "backlog"
        \/ pc[c] = "backlog" /\ pc'[c] = "backlog"
        \/ pc[c] = "sending" /\ pc'[c] = "loop"
        \/ pc[c] = "loop" /\ pc'[c] = "sending"
    BY <1>7 DEF Pulls, PullBacklog, SendNext, Recv, Selecting, Goto, GatewayTypeOK
  <2>3. CASE c # owner
    BY <2>1, <2>3, <1>2
  <2>4. CASE c = owner
    BY <2>1, <2>2, <2>4, <1>2
  <2> QED
    BY <2>3, <2>4
<1>8. ASSUME NEW c \in Conns, Activate(c)
      PROVE  HasSession(d)'
  <2> DEFINE e == registry[DeviceOf[c]]
             f == [e EXCEPT !.pending = <<>>, !.ready = TRUE]
  <2>1. DeviceOf[c] \in Devices /\ e # NoEntry /\ e.id = c
    BY <1>8, ConnectionsTyped DEF Activate, Registered
  <2>2. pc' = [pc EXCEPT ![c] = "loop"] /\ pc'[c] = "loop"
    BY <1>8 DEF Activate, Goto, GatewayTypeOK
  <2>3. registry' = [registry EXCEPT ![DeviceOf[c]] = f]
    BY <1>8, <2>1 DEF Activate
  <2>4. f.id = c /\ f.ready
    BY <2>1, EntryTyped, EntryActivated
  <2> HIDE DEF f
  <2>5. CASE d = DeviceOf[c]
    <3>1. registry'[d] = f
      BY <2>3, <2>5 DEF GatewayTypeOK
    <3> QED
      BY <2>2, <2>4, <2>5, <3>1
  <2>6. CASE d # DeviceOf[c]
    <3>1. registry'[d] = registry[d]
      BY <2>3, <2>6 DEF GatewayTypeOK
    <3>2. c # owner
      BY <3>1, <2>6, <1>2
    <3> QED
      BY <2>2, <3>1, <3>2, <1>2
  <2> QED
    BY <2>5, <2>6
<1>9. ASSUME NEW c \in Conns, Unregister(c)
      PROVE  HasSession(d)'
  <2>1. pc' = [pc EXCEPT ![c] = "closed"]
    BY <1>9 DEF Unregister, Goto
  <2>2. registry'[d] = registry[d] /\ ~(Registered(c) /\ d = DeviceOf[c])
    BY <1>9 DEF Unregister, GatewayTypeOK
  <2>3. c # owner
    BY <2>2, <1>2
  <2> QED
    BY <2>1, <2>2, <2>3, <1>2
<1>10. ASSUME NEW p \in Processes, NEW m \in Messages, Accepts(p, m)
       PROVE  UNCHANGED <<registry, pc>>
  BY <1>10 DEF Accepts, session
<1>11. ASSUME NEW r \in Requests, EnqueueCancelled(r)
       PROVE  UNCHANGED <<registry, pc>>
  BY <1>11 DEF EnqueueCancelled, session
<1>12. CASE StoreOnly
  BY <1>3, <1>12 DEF StoreOnly, gateway, session
<1> QED
  BY StepKinds, <1>3, <1>4, <1>5, <1>6, <1>7, <1>8, <1>9, <1>10, <1>11, <1>12

-----------------------------------------------------------------------------
(* The stages of a session *)

(* Nothing is in the channel before activate, nothing is being written     *)
(* before the backlog or while the loop selects, and one live message is   *)
(* written at a time.                                                      *)
Staged(c) ==
    /\ pc[c] \in {"connecting", "register", "hello", "pull", "backlog"} => chan[c] = <<>>
    /\ pc[c] \in {"connecting", "register", "hello", "pull", "loop"} => outgoing[c] = <<>>
    /\ pc[c] = "sending" => Len(outgoing[c]) = 1

StagesKept == \A c \in Conns : Staged(c)

(* A queue of one message is empty after it is taken *)
LEMMA TailOfOne ==
    ASSUME NEW q \in Seq(Messages), Len(q) = 1
    PROVE  Tail(q) = <<>>
<1>1. q # <<>>
  BY EmptySeq
<1>2. Tail(q) \in Seq(Messages) /\ Len(Tail(q)) = 0
  BY <1>1, HeadAndTail
<1> QED
  BY <1>2, EmptySeq

(* Every step keeps the stages *)
LEMMA StagesNext ==
    ASSUME RelayInv, GatewayTypeOK, EntryHasSession, StagesKept, [GatewayNext]_gvars
    PROVE  StagesKept'
<1> SUFFICES ASSUME NEW b \in Conns PROVE Staged(b)'
  BY DEF StagesKept
<1> USE DEF Staged
<1>0. Staged(b)
  BY DEF StagesKept
<1>1. CASE UNCHANGED <<chan, pc, outgoing>>
  BY <1>0, <1>1
<1>2. CASE StoreOnly
  BY <1>1, <1>2 DEF StoreOnly, gateway, session
<1>3. ASSUME NEW p \in Processes, NEW m \in Messages, Accepts(p, m)
      PROVE  UNCHANGED <<chan, pc, outgoing>>
  BY <1>3 DEF Accepts, session
<1>4. ASSUME NEW r \in Requests, EnqueueCancelled(r)
      PROVE  UNCHANGED <<chan, pc, outgoing>>
  BY <1>4 DEF EnqueueCancelled, session
<1>5. ASSUME NEW c \in Conns, NEW stage \in Stages, Moves(c, stage)
      PROVE  Staged(b)'
  <2>1. UNCHANGED <<chan, outgoing>> /\ pc' = [pc EXCEPT ![c] = stage]
    BY <1>5 DEF Moves, Goto
  <2>2. CASE b # c
    BY <1>0, <2>1, <2>2
  <2>3. CASE b = c
    <3>1. pc'[b] = stage
      BY <2>1, <2>3 DEF GatewayTypeOK
    <3> QED
      BY <1>0, <1>5, <2>1, <2>3, <3>1 DEF Moves
  <2> QED
    BY <2>2, <2>3
<1>6. ASSUME NEW p \in Processes, TrySend(p)
      PROVE  Staged(b)'
  <2>1. UNCHANGED <<pc, outgoing>>
    BY <1>6 DEF TrySend
  <2>2. CASE chan'[b] = chan[b]
    BY <1>0, <2>1, <2>2
  <2>3. CASE chan'[b] # chan[b]
    <3>1. PICK m \in Messages : TrySendChannel(p, m)
      BY <1>6, <2>3 DEF TrySend, TrySendPending, TrySendDropped, TrySendOffline
    <3> DEFINE e == registry[m.recipient]
    <3>2. m.recipient \in Devices /\ e # NoEntry /\ e.ready /\ e.id = b
      BY <2>3, <3>1, MessagesTyped DEF TrySendChannel, Message, GatewayTypeOK
    <3>3. pc[b] \in {"loop", "sending", "unregister"}
      BY <3>2 DEF EntryHasSession
    <3> QED
      BY <1>0, <2>1, <3>3
  <2> QED
    BY <2>2, <2>3
<1>7. ASSUME NEW c \in Conns, Register(c) \/ Pulls(c) \/ Unregister(c)
      PROVE  Staged(b)'
  <2>1. chan' = chan /\ (b # c => pc'[b] = pc[b] /\ outgoing'[b] = outgoing[b])
    BY <1>7 DEF Register, Pulls, PullBacklog, Unregister, Goto, GatewayTypeOK
  <2>2. \/ pc[c] = "register" /\ pc'[c] = "hello" /\ outgoing' = outgoing
        \/ pc[c] = "pull" /\ pc'[c] = "backlog"
        \/ pc[c] = "unregister" /\ pc'[c] = "closed" /\ outgoing' = outgoing
    BY <1>7 DEF Register, Pulls, PullBacklog, Unregister, Goto, GatewayTypeOK
  <2> QED
    BY <1>0, <2>1, <2>2
<1>8. ASSUME NEW c \in Conns, SendNext(c)
      PROVE  Staged(b)'
  <2>1. /\ chan' = chan /\ (b # c => pc'[b] = pc[b] /\ outgoing'[b] = outgoing[b])
        /\ outgoing'[c] = Tail(outgoing[c]) /\ outgoing[c] \in Seq(Messages)
    BY <1>8 DEF SendNext, Goto, GatewayTypeOK
  <2>2. \/ pc[c] = "sending" /\ pc'[c] = "loop"
        \/ pc[c] = "backlog" /\ pc'[c] = "backlog"
    BY <1>8 DEF SendNext, Goto, GatewayTypeOK
  <2> QED
    BY <1>0, <2>1, <2>2, TailOfOne
<1>9. ASSUME NEW c \in Conns, Activate(c)
      PROVE  Staged(b)'
  <2>1. /\ outgoing' = outgoing /\ outgoing[c] = <<>>
        /\ (b # c => pc'[b] = pc[b] /\ chan'[b] = chan[b])
        /\ pc'[c] = "loop"
    BY <1>9 DEF Activate, Goto, GatewayTypeOK
  <2> QED
    BY <1>0, <2>1
<1>10. ASSUME NEW c \in Conns, Recv(c)
       PROVE  Staged(b)'
  <2>1. /\ (b # c => pc'[b] = pc[b] /\ chan'[b] = chan[b] /\ outgoing'[b] = outgoing[b])
        /\ pc'[c] = "sending" /\ outgoing'[c] = <<Head(chan[c])>>
    BY <1>10 DEF Recv, Goto, GatewayTypeOK
  <2>2. Len(<<Head(chan[c])>>) = 1
    OBVIOUS
  <2> QED
    BY <1>0, <2>1, <2>2
<1> QED
  BY StepKinds, <1>1, <1>2, <1>3, <1>4, <1>5, <1>6, <1>7, <1>8, <1>9, <1>10

-----------------------------------------------------------------------------
(* What a step may never do *)

(* activate moves all of pending, which the empty channel has room for *)
LEMMA ActivateNeverDropsStep ==
    ASSUME RelayInv, GatewayTypeOK, EntryHasSession, StagesKept, [GatewayNext]_gvars,
           NEW b \in Conns, pc[b] = "backlog", pc'[b] = "loop"
    PROVE  dropped'[b] = dropped[b]
<1>1. Activate(b)
  <2>1. pc' # pc
    OBVIOUS
  <2>2. ASSUME NEW c \in Conns, NEW stage \in Stages, Moves(c, stage) PROVE FALSE
    BY <2>2 DEF Moves, Goto, GatewayTypeOK
  <2>3. ASSUME NEW c \in Conns, Register(c) \/ Pulls(c) \/ SendNext(c) \/ Recv(c) \/ Unregister(c)
        PROVE  FALSE
    BY <2>3 DEF Register, Pulls, PullBacklog, SendNext, Recv, Selecting, Unregister, Goto, GatewayTypeOK
  <2>4. ASSUME NEW c \in Conns, Activate(c) PROVE c = b
    BY <2>4 DEF Activate, Goto, GatewayTypeOK
  <2> QED
    BY StepKinds, <2>1, <2>2, <2>3, <2>4
    DEF StoreOnly, gateway, session, Accepts, TrySend, EnqueueCancelled
<1> DEFINE e == registry[DeviceOf[b]]
           kept == NotDelivered(b, e.pending)
           live == chan[b] \o kept
           fits == IF Len(live) <= LiveChannelCapacity THEN Len(live) ELSE LiveChannelCapacity
<1>2. /\ e \in ConnectionState /\ e.pending \in Seq(Messages)
      /\ Len(e.pending) <= LiveChannelCapacity
  <2>1. DeviceOf[b] \in Devices /\ e # NoEntry
    BY <1>1, ConnectionsTyped DEF Activate, Registered
  <2> QED
    BY <2>1, EntryTyped
<1>3. chan[b] = <<>> /\ chan[b] \in Seq(Messages) /\ Len(chan[b]) = 0
  BY EmptySeq DEF StagesKept, Staged, GatewayTypeOK
<1>4. /\ Len(live) = Len(chan[b]) + Len(kept)
      /\ Len(kept) \in Nat /\ Len(kept) <= Len(e.pending)
  BY <1>2, <1>3, ActivateMoves
<1>5. Len(e.pending) \in Nat
  BY <1>2
<1>6. dropped' = [dropped EXCEPT ![b] = @ \cup {live[i].id : i \in (fits + 1)..Len(live)}]
  BY <1>1 DEF Activate
<1> HIDE DEF live, kept, e
<1>7. Len(live) \in Nat /\ fits = Len(live)
  BY <1>2, <1>3, <1>4, <1>5, ConnectionsTyped
<1>8. (fits + 1)..Len(live) = {}
  BY <1>7
<1> QED
  BY <1>6, <1>8 DEF GatewayTypeOK

(* Only unregister removes an entry, and it removes its own *)
LEMMA EntryLeavesStep ==
    ASSUME RelayInv, GatewayTypeOK, [GatewayNext]_gvars,
           NEW d \in Devices, registry[d] # NoEntry, registry'[d] = NoEntry
    PROVE  pc'[registry[d].id] = "closed"
<1>1. registry' # registry
  OBVIOUS
<1>2. ASSUME NEW c \in Conns, Unregister(c)
      PROVE  registry[d].id = c /\ pc'[c] = "closed"
  BY <1>1, <1>2 DEF Unregister, Registered, Goto, GatewayTypeOK
<1>3. ASSUME NEW p \in Processes, TrySend(p) PROVE FALSE
  BY <1>3, TrySendKeepsEntries
<1>4. ASSUME NEW c \in Conns, Register(c) PROVE FALSE
  <2> DEFINE entry == [id |-> c, ready |-> FALSE, pending |-> <<>>]
  <2>1. entry \in ConnectionState
    BY DEF ConnectionState
  <2>2. registry'[d] \in {registry[d], entry}
    BY <1>4 DEF Register, GatewayTypeOK
  <2> QED
    BY <2>1, <2>2, AbsentValues
<1>5. ASSUME NEW c \in Conns, Activate(c) PROVE FALSE
  <2> DEFINE e == registry[DeviceOf[c]]
             f == [e EXCEPT !.pending = <<>>, !.ready = TRUE]
  <2>1. DeviceOf[c] \in Devices /\ e # NoEntry
    BY <1>5, ConnectionsTyped DEF Activate, Registered
  <2>2. f \in ConnectionState
    BY <2>1, EntryTyped, EntryActivated
  <2>3. registry' = [registry EXCEPT ![DeviceOf[c]] = f]
    BY <1>5, <2>1 DEF Activate
  <2> HIDE DEF f
  <2> QED
    BY <2>1, <2>2, <2>3, AbsentValues DEF GatewayTypeOK
<1>6. ASSUME NEW c \in Conns, Pulls(c) \/ SendNext(c) \/ Recv(c) PROVE FALSE
  BY <1>1, <1>6 DEF Pulls, PullBacklog, SendNext, Recv
<1> QED
  BY StepKinds, <1>1, <1>2, <1>3, <1>4, <1>5, <1>6
  DEF StoreOnly, gateway, session, Accepts, Moves, EnqueueCancelled

-----------------------------------------------------------------------------
(* No message is stranded *)

(* A message is held for its recipient *)
HeldAreAddressed == \A d \in Devices : \A m \in HeldFor(d) : m.recipient = d

(***************************************************************************)
(* Until activate, every identifier of delivered_ids has been written or   *)
(* is in what remains of the backlog: what activate filters out of pending *)
(* by its identifier is then written.                                      *)
(***************************************************************************)
BacklogAccounted ==
    \A c \in Conns : pc[c] = "backlog" =>
        \A id \in delivered[c] :
            Written(c, id) \/ \E m \in Range(outgoing[c]) : m.id = id

GatewayInv ==
    /\ RelayInv
    /\ GatewayTypeOK
    /\ EntryHasSession
    /\ StagesKept
    /\ HeldAreAddressed
    /\ BacklogAccounted
    /\ NoStrandedMessage

(* Messages that are held are messages *)
LEMMA HeldTyped ==
    ASSUME RelayInv, NEW d \in Devices
    PROVE  HeldFor(d) \subseteq Messages
<1>1. queues[d] \in Seq(StoredMessage)
  BY DEF RelayInv, TypeOK
<1>2. \A i \in DOMAIN queues[d] : queues[d][i] \in StoredMessage
  BY <1>1
<1> QED
  BY <1>2 DEF StoredMessage, HeldFor

(* The store, as seen by the messages it holds, in every step *)
LEMMA HeldNext ==
    ASSUME RelayInv, [GatewayNext]_gvars
    PROVE  Shrinks \/ \E p \in Processes, m \in Messages :
                         /\ Accepts(p, m)
                         /\ \A d \in Devices : HeldFor(d)' \subseteq
                                HeldFor(d) \cup (IF d = m.recipient THEN {m} ELSE {})
<1>1. ASSUME NEW p \in Processes, NEW m \in Messages, Accepts(p, m)
      PROVE  \A d \in Devices : HeldFor(d)' \subseteq
                HeldFor(d) \cup (IF d = m.recipient THEN {m} ELSE {})
  BY <1>1, AcceptedIsHeld DEF Accepts, Accept
<1>2. UNCHANGED vars => Shrinks
  BY UnchangedShrinks DEF vars
<1>3. ASSUME NEW c \in Conns, Pulls(c) PROVE Shrinks
  BY <1>3, RemoveExpiredShrinks, ConnectionsTyped DEF Pulls, PullBacklog, Pull
<1> QED
  BY StepKinds, <1>1, <1>2, <1>3
  DEF StoreOnly, Moves, TrySend, EnqueueCancelled, Register, SendNext, Activate, Recv, Unregister

(* A message is only ever pushed into the queue of its recipient *)
LEMMA HeldAreAddressedNext ==
    ASSUME RelayInv, HeldAreAddressed, [GatewayNext]_gvars
    PROVE  HeldAreAddressed'
BY HeldNext DEF HeldAreAddressed, Shrinks

(* What has been written stays written *)
LEMMA WrittenStays ==
    ASSUME RelayInv, GatewayTypeOK, [GatewayNext]_gvars,
           NEW c \in Conns, NEW id \in MessageIds, Written(c, id)
    PROVE  Written(c, id)'
<1>1. PICK m \in Messages : m.id = id /\ sent[c][m] > 0
  BY DEF Written
<1> SUFFICES sent'[c][m] > 0
  BY <1>1 DEF Written
<1>2. CASE sent' = sent
  BY <1>1, <1>2
<1>3. ASSUME NEW b \in Conns, SendNext(b) PROVE sent'[c][m] > 0
  <2> DEFINE h == Head(outgoing[b])
  <2>1. h \in Messages /\ sent[b] \in [Messages -> Nat] /\ sent[b][h] \in Nat
        /\ sent[c] \in [Messages -> Nat] /\ sent[c][m] \in Nat
    <3>1. outgoing[b] \in Seq(Messages) /\ outgoing[b] # <<>>
      BY <1>3 DEF SendNext, GatewayTypeOK
    <3>2. h \in Messages
      BY <3>1, HeadAndTail
    <3> QED
      BY <3>2 DEF GatewayTypeOK
  <2>2. sent' = [sent EXCEPT ![b] = [sent[b] EXCEPT ![h] = sent[b][h] + 1]]
    BY <1>3, <2>1 DEF SendNext, GatewayTypeOK
  <2>3. sent'[c] = sent[c] \/ (c = b /\ sent'[c] = [sent[c] EXCEPT ![h] = sent[c][h] + 1])
    BY <2>2 DEF GatewayTypeOK
  <2> DEFINE f == sent[c]
             n == sent[c][m]
  <2>4. [f EXCEPT ![h] = f[h] + 1][m] \in {f[m], f[m] + 1}
    <3>1. f \in [Messages -> Nat]
      BY <2>1
    <3> HIDE DEF f, h
    <3> QED
      BY <3>1
  <2>5. sent'[c][m] \in {n, n + 1} /\ n \in Nat /\ n > 0
    BY <1>1, <2>1, <2>3, <2>4
  <2> HIDE DEF n
  <2> QED
    BY <2>5
<1> QED
  BY StepKinds, <1>2, <1>3
  DEF StoreOnly, gateway, session, Accepts, Moves, TrySend, EnqueueCancelled,
      Register, Pulls, PullBacklog, Activate, Recv, Unregister

(* send_encrypted writes the head of what the session has taken *)
LEMMA SendNextWrites ==
    ASSUME GatewayTypeOK, NEW c \in Conns, SendNext(c)
    PROVE  /\ \E m \in Messages :
                /\ m = Head(outgoing[c])
                /\ Written(c, m.id)'
                /\ Range(outgoing[c]) = {m} \cup Range(outgoing'[c])
           /\ \A b \in Conns \ {c} : outgoing'[b] = outgoing[b]
<1> DEFINE q == outgoing[c]
           m == Head(q)
           f == sent[c]
<1>1. q \in Seq(Messages) /\ q # <<>> /\ outgoing' = [outgoing EXCEPT ![c] = Tail(@)]
  BY DEF SendNext, GatewayTypeOK
<1>2. m \in Messages /\ Range(q) = {m} \cup Range(Tail(q))
  BY <1>1, HeadAndTail
<1>3. /\ outgoing'[c] = Tail(q)
      /\ \A b \in Conns \ {c} : outgoing'[b] = outgoing[b]
  BY <1>1 DEF GatewayTypeOK
<1>4. f \in [Messages -> Nat] /\ f[m] \in Nat
  BY <1>2 DEF GatewayTypeOK
<1>5. sent'[c] = [f EXCEPT ![m] = f[m] + 1]
  BY <1>2 DEF SendNext, GatewayTypeOK
<1>6. sent'[c][m] > 0
  <2> HIDE DEF f, m
  <2> QED
    BY <1>2, <1>4, <1>5
<1>7. ASSUME NEW n \in Messages, n = m PROVE Written(c, n.id)'
  BY <1>6, <1>7 DEF Written
<1>8. Range(q) = {m} \cup Range(outgoing'[c])
  BY <1>2, <1>3
<1> QED
  BY <1>2, <1>3, <1>7, <1>8

(* Every step keeps account of the backlog *)
LEMMA BacklogAccountedNext ==
    ASSUME GatewayInv, [GatewayNext]_gvars
    PROVE  BacklogAccounted'
<1> USE DEF GatewayInv
<1> SUFFICES ASSUME NEW b \in Conns, pc'[b] = "backlog", NEW id \in delivered'[b]
             PROVE  Written(b, id)' \/ \E m \in Range(outgoing'[b]) : m.id = id
  BY DEF BacklogAccounted
<1>1. id \in MessageIds
  BY GatewayTypeNext DEF GatewayTypeOK
<1>2. CASE pc[b] = "backlog" /\ delivered'[b] = delivered[b] /\ outgoing'[b] = outgoing[b]
  BY <1>1, <1>2, WrittenStays DEF BacklogAccounted
<1>3. ASSUME NEW c \in Conns, NEW t \in 0..now, PullBacklog(c, t), c = b
      PROVE  \E m \in Range(outgoing'[b]) : m.id = id
  BY <1>3 DEF PullBacklog, GatewayTypeOK
<1>4. ASSUME NEW c \in Conns, SendNext(c)
      PROVE  Written(b, id)' \/ \E m \in Range(outgoing'[b]) : m.id = id
  <2>1. /\ delivered' = delivered /\ pc[b] = "backlog"
    BY <1>4 DEF SendNext, Goto, GatewayTypeOK
  <2>2. CASE c # b
    BY <1>2, <1>4, <2>1, <2>2, SendNextWrites
  <2>3. CASE c = b
    <3>1. CASE Written(b, id)
      BY <1>1, <3>1, WrittenStays
    <3>2. ASSUME NEW m \in Range(outgoing[b]), m.id = id
          PROVE  Written(b, id)' \/ m \in Range(outgoing'[b])
      <4>1. PICK h \in Messages :
                Written(b, h.id)' /\ Range(outgoing[b]) = {h} \cup Range(outgoing'[b])
        BY <1>4, <2>3, SendNextWrites
      <4>2. m = h \/ m \in Range(outgoing'[b])
        BY <4>1
      <4> QED
        BY <3>2, <4>1, <4>2
    <3> QED
      BY <2>1, <3>1, <3>2 DEF BacklogAccounted
  <2> QED
    BY <2>2, <2>3
<1>5. ASSUME NEW c \in Conns, NEW stage \in Stages, Moves(c, stage)
      PROVE  pc[b] = "backlog" /\ delivered' = delivered /\ outgoing' = outgoing
  BY <1>5 DEF Moves, Goto, GatewayTypeOK
<1>6. ASSUME NEW c \in Conns,
             Register(c) \/ Activate(c) \/ Unregister(c) \/ Recv(c)
                 \/ \E t \in 0..now : c # b /\ PullBacklog(c, t)
      PROVE  pc[b] = "backlog" /\ delivered'[b] = delivered[b] /\ outgoing'[b] = outgoing[b]
  BY <1>6 DEF Register, Activate, Unregister, Recv, PullBacklog, Goto, GatewayTypeOK
<1>7. CASE UNCHANGED <<pc, delivered, outgoing>>
  BY <1>2, <1>7
<1> QED
  BY StepKinds, <1>2, <1>3, <1>4, <1>5, <1>6, <1>7
  DEF Pulls, StoreOnly, gateway, session, Accepts, TrySend, EnqueueCancelled

(* m is accounted for at c *)
Reached(c, m) == Written(c, m.id) \/ OnTheWay(c, m) \/ m.id \in dropped[c]

(* Taking, cancelling and sending a notice keep account of its message *)
LEMMA NoticesKeepReached ==
    ASSUME GatewayInv, [GatewayNext]_gvars,
           NEW b \in Conns, Registered(b),
           NEW m \in Messages, m.recipient = DeviceOf[b], Reached(b, m),
           \/ \E p \in Processes : TrySend(p)
           \/ \E r \in Requests : EnqueueCancelled(r)
    PROVE  Reached(b, m)'
<1> USE DEF GatewayInv
<1> DEFINE d == DeviceOf[b]
<1>0. /\ d \in Devices /\ m.id \in MessageIds
      /\ registry[d] # NoEntry /\ registry[d].id = b
      /\ registry[d].pending \in Seq(Messages)
  BY ConnectionsTyped, MessagesTyped, EntryTyped DEF Registered, Message
<1>1. Written(b, m.id) => Written(b, m.id)'
  BY <1>0, WrittenStays
<1>2. ASSUME NEW p \in Processes, TrySend(p) PROVE Reached(b, m)'
  <2>1. PICK n \in Messages : \/ TrySendPending(p, n)
                              \/ TrySendChannel(p, n)
                              \/ TrySendDropped(p, n)
                              \/ TrySendOffline(p, n)
    BY <1>2 DEF TrySend
  <2>2. /\ inHand[p] = n /\ inHand' = [inHand EXCEPT ![p] = NoMessage]
        /\ outgoing' = outgoing
    BY <1>2, <2>1 DEF TrySend, TrySendPending, TrySendChannel, TrySendDropped, TrySendOffline, LiveNotice
  <2>3. n.recipient \in Devices
    BY MessagesTyped DEF Message
  <2>4. /\ Range(chan[b]) \subseteq Range(chan'[b])
        /\ dropped[b] \subseteq dropped'[b]
        /\ Range(registry[d].pending) \subseteq Range(registry'[d].pending)
    <3>1. Range(registry[d].pending) \subseteq Range(registry'[d].pending)
      BY <1>0, <1>2, TrySendKeepsEntries
    <3>2. CASE chan' = chan
      BY <2>1, <3>1, <3>2
      DEF TrySendPending, TrySendChannel, TrySendDropped, TrySendOffline, GatewayTypeOK
    <3>3. CASE TrySendChannel(p, n)
      <4> DEFINE e == registry[n.recipient]
      <4>1. /\ chan' = [chan EXCEPT ![e.id] = Append(chan[e.id], n)] /\ dropped' = dropped
            /\ e.id \in Conns /\ chan[e.id] \in Seq(Messages)
        BY <2>3, <3>3, EntryTyped DEF TrySendChannel, GatewayTypeOK
      <4>2. chan'[b] = chan[b] \/ (e.id = b /\ chan'[b] = Append(chan[b], n))
        BY <4>1 DEF GatewayTypeOK
      <4> QED
        BY <3>1, <4>1, <4>2, RangeOfAppend
    <3> QED
      BY <2>1, <3>2, <3>3 DEF TrySendPending, TrySendDropped, TrySendOffline
  <2>5. CASE m = n
    <3>1. CASE TrySendPending(p, n)
      <4> DEFINE f == [registry[d] EXCEPT !.pending = Append(registry[d].pending, m)]
      <4>1. registry' = [registry EXCEPT ![d] = f] /\ registry'[d] = f
        BY <1>0, <2>5, <3>1 DEF TrySendPending, GatewayTypeOK
      <4>2. f.pending = Append(registry[d].pending, m)
        BY <1>0, EntryTyped DEF ConnectionState
      <4>3. m \in Range(registry'[d].pending)
        <5> HIDE DEF f
        <5>1. registry'[d].pending = Append(registry[d].pending, m)
          BY <4>1, <4>2
        <5>2. m \in Range(Append(registry[d].pending, m))
          BY <1>0, RangeOfAppend
        <5> QED
          BY <5>1, <5>2
      <4> QED
        BY <4>3 DEF Reached, OnTheWay
    <3>2. CASE TrySendChannel(p, n)
      <4>1. chan'[b] = Append(chan[b], m) /\ chan[b] \in Seq(Messages)
        BY <1>0, <2>5, <3>2 DEF TrySendChannel, GatewayTypeOK
      <4>2. m \in Range(chan'[b])
        BY <4>1, RangeOfAppend
      <4> QED
        BY <4>2 DEF Reached, OnTheWay
    <3>3. CASE TrySendDropped(p, n)
      <4>1. m.id \in dropped'[b]
        BY <1>0, <2>5, <3>3 DEF TrySendDropped, GatewayTypeOK
      <4> QED
        BY <4>1 DEF Reached
    <3>4. CASE TrySendOffline(p, n)
      BY <1>0, <2>5, <3>4 DEF TrySendOffline
    <3> QED
      BY <2>1, <3>1, <3>2, <3>3, <3>4
  <2>6. CASE m # n
    <3>1. \A q \in Processes : inHand[q] = m => inHand'[q] = m
      BY <2>2, <2>6 DEF GatewayTypeOK
    <3> QED
      BY <1>1, <2>2, <2>4, <3>1 DEF Reached, OnTheWay
  <2> QED
    BY <2>5, <2>6
<1>3. ASSUME NEW r \in Requests, EnqueueCancelled(r) PROVE Reached(b, m)'
  <2>1. PICK n \in Messages :
            /\ inHand[r] = n
            /\ dropped' = [c \in Conns |->
                   IF registry[n.recipient] # NoEntry /\ registry[n.recipient].id = c
                   THEN dropped[c] \cup {n.id} ELSE dropped[c]]
    BY <1>3 DEF EnqueueCancelled, LiveNotice
  <2>2. /\ inHand' = [inHand EXCEPT ![r] = NoMessage] /\ r \in Processes
        /\ UNCHANGED <<registry, chan, outgoing>>
    BY <1>3 DEF EnqueueCancelled, session, Processes
  <2>3. CASE m = n
    BY <1>0, <2>1, <2>3 DEF Reached
  <2>4. CASE m # n
    <3>1. \A q \in Processes : inHand[q] = m => inHand'[q] = m
      BY <2>1, <2>2, <2>4 DEF GatewayTypeOK
    <3>2. dropped[b] \subseteq dropped'[b]
      BY <2>1
    <3> QED
      BY <1>1, <2>2, <3>1, <3>2 DEF Reached, OnTheWay
  <2> QED
    BY <2>3, <2>4
<1> QED
  BY <1>2, <1>3

(* activate keeps account of every message of its device *)
LEMMA ActivateKeepsReached ==
    ASSUME GatewayInv, [GatewayNext]_gvars, NEW b \in Conns, Activate(b),
           NEW m \in Messages, Reached(b, m)
    PROVE  Reached(b, m)'
<1> USE DEF GatewayInv
<1> DEFINE e == registry[DeviceOf[b]]
           live == chan[b] \o NotDelivered(b, e.pending)
           fits == IF Len(live) <= LiveChannelCapacity THEN Len(live) ELSE LiveChannelCapacity
<1>1. /\ pc[b] = "backlog" /\ outgoing[b] = <<>> /\ DeviceOf[b] \in Devices /\ e # NoEntry
      /\ inHand' = inHand /\ m.id \in MessageIds
  BY ConnectionsTyped, MessagesTyped DEF Activate, Registered, Message
<1>2. e.pending \in Seq(Messages) /\ chan[b] \in Seq(Messages)
  BY <1>1, EntryTyped DEF GatewayTypeOK
<1>3. /\ live \in Seq(Messages) /\ Len(live) \in Nat
      /\ Range(chan[b]) \subseteq Range(live)
      /\ \A n \in Range(e.pending) : n.id \in delivered[b] \/ n \in Range(live)
  BY <1>2, ActivateMoves
<1>4. /\ chan'[b] = SubSeq(live, 1, fits)
      /\ dropped'[b] = dropped[b] \cup {live[i].id : i \in (fits + 1)..Len(live)}
  BY DEF Activate, GatewayTypeOK
<1>5. Written(b, m.id) => Written(b, m.id)'
  BY <1>1, WrittenStays
<1> HIDE DEF live
<1>6. fits \in Nat /\ fits <= Len(live)
  BY <1>3, ConnectionsTyped
<1> HIDE DEF fits
<1>7. ASSUME m \in Range(live) PROVE Reached(b, m)'
  <2>1. PICK i \in 1..Len(live) : live[i] = m
    BY <1>3, <1>7 DEF Range
  <2>2. CASE i <= fits
    <3>1. \A k \in 1..fits : live[k] \in Messages
      BY <1>3, <1>6
    <3>2. /\ SubSeq(live, 1, fits) \in Seq(Messages)
          /\ Len(SubSeq(live, 1, fits)) = IF 1 <= fits THEN fits - 1 + 1 ELSE 0
          /\ \A k \in 1..(fits - 1 + 1) : SubSeq(live, 1, fits)[k] = live[1 + k - 1]
      BY <1>6, <3>1, SubSeqProperties
    <3>3. i \in 1..(fits - 1 + 1) /\ 1 + i - 1 = i
      BY <1>6, <2>2
    <3>4. i \in DOMAIN SubSeq(live, 1, fits) /\ SubSeq(live, 1, fits)[i] = m
      BY <1>6, <2>1, <2>2, <3>2, <3>3
    <3>5. m \in Range(chan'[b])
      BY <1>4, <3>4 DEF Range
    <3> QED
      BY <3>5 DEF Reached, OnTheWay
  <2>3. CASE ~(i <= fits)
    <3>1. i \in (fits + 1)..Len(live)
      BY <1>3, <1>6, <2>3
    <3> QED
      BY <1>4, <2>1, <3>1 DEF Reached
  <2> QED
    BY <2>2, <2>3
<1>8. ASSUME m.id \in delivered[b] PROVE Written(b, m.id)
  BY <1>1, <1>8 DEF BacklogAccounted, Range
<1>9. CASE m \in Range(e.pending)
  BY <1>3, <1>5, <1>7, <1>8, <1>9 DEF Reached
<1>10. CASE m \in Range(chan[b])
  BY <1>3, <1>7, <1>10
<1>11. CASE m \in Range(outgoing[b])
  BY <1>1, <1>11 DEF Range
<1>12. CASE \E p \in Processes : inHand[p] = m
  BY <1>1, <1>12 DEF Reached, OnTheWay
<1>13. CASE Written(b, m.id) \/ m.id \in dropped[b]
  BY <1>4, <1>5, <1>13 DEF Reached
<1> QED
  BY <1>9, <1>10, <1>11, <1>12, <1>13 DEF Reached, OnTheWay

(* Every step keeps account of the messages held for a live session *)
LEMMA NoStrandedMessageNext ==
    ASSUME GatewayInv, [GatewayNext]_gvars
    PROVE  NoStrandedMessage'
<1> USE DEF GatewayInv
<1> SUFFICES ASSUME NEW b \in Conns, Registered(b)', pc'[b] \in {"backlog", "loop", "sending"},
                    NEW m \in HeldFor(DeviceOf[b])'
             PROVE  Reached(b, m)'
  BY DEF NoStrandedMessage, Reached
<1> DEFINE d == DeviceOf[b]
           live == {"backlog", "loop", "sending"}
<1>0. /\ d \in Devices /\ m \in Messages /\ m.recipient = d /\ m.id \in MessageIds
  <2>1. d \in Devices
    BY ConnectionsTyped
  <2>2. RelayInv' /\ HeldAreAddressed'
    BY StoreStep, RelayInvNext, HeldAreAddressedNext
  <2>3. m \in Messages
    <3>1. queues'[d] \in Seq(StoredMessage)
      BY <2>1, <2>2 DEF RelayInv, TypeOK
    <3>2. PICK i \in DOMAIN queues'[d] : m = queues'[d][i].message
      BY DEF HeldFor
    <3>3. queues'[d][i] \in StoredMessage
      BY <3>1
    <3> QED
      BY <3>2, <3>3 DEF StoredMessage
  <2> QED
    BY <2>1, <2>2, <2>3, MessagesTyped DEF HeldAreAddressed, Message
<1>1. Written(b, m.id) => Written(b, m.id)'
  BY <1>0, WrittenStays
<1>2. ASSUME Registered(b), pc[b] \in live, m \in HeldFor(d)
      PROVE  Reached(b, m)
  BY <1>2 DEF NoStrandedMessage, Reached
<1>3. Shrinks => m \in HeldFor(d)
  BY <1>0 DEF Shrinks
<1>4. CASE StoreOnly
  <2>1. UNCHANGED <<registry, chan, pc, outgoing, sent, inHand, dropped>>
    BY <1>4 DEF StoreOnly, gateway, session
  <2> QED
    BY <1>2, <1>3, <1>4, <2>1 DEF StoreOnly, Registered, Reached, OnTheWay, Written
<1>5. ASSUME NEW p \in Processes, NEW n \in Messages, Accepts(p, n)
      PROVE  Reached(b, m)'
  <2>1. /\ UNCHANGED <<registry, chan, pc, outgoing, sent, dropped>>
        /\ inHand[p] = NoMessage /\ inHand' = [inHand EXCEPT ![p] = n]
    BY <1>5 DEF Accepts, Accept, session
  <2>2. CASE m = n
    <3>1. inHand'[p] = m
      BY <2>1, <2>2 DEF GatewayTypeOK
    <3> QED
      BY <3>1 DEF Reached, OnTheWay
  <2>3. CASE m # n
    <3>1. m \in HeldFor(d)
      BY <1>0, <1>5, <2>3, AcceptedIsHeld DEF Accepts, Accept
    <3>2. Reached(b, m)
      BY <1>2, <2>1, <3>1 DEF Registered
    <3>3. \A q \in Processes : inHand[q] = m => inHand'[q] = m
      BY <1>0, <2>1, AbsentValues DEF GatewayTypeOK
    <3> QED
      BY <2>1, <3>2, <3>3 DEF Reached, OnTheWay, Written
  <2> QED
    BY <2>2, <2>3
<1>6. ASSUME NEW c \in Conns, NEW stage \in Stages, Moves(c, stage)
      PROVE  Reached(b, m)'
  <2>1. UNCHANGED <<registry, chan, outgoing, sent, inHand, dropped>>
    BY <1>6 DEF Moves
  <2>2. c # b /\ pc'[b] = pc[b]
    BY <1>6 DEF Moves, Goto, GatewayTypeOK
  <2> QED
    BY <1>2, <1>3, <1>6, <2>1, <2>2 DEF Moves, Registered, Reached, OnTheWay, Written
<1>7. ASSUME \/ \E p \in Processes : TrySend(p)
             \/ \E r \in Requests : EnqueueCancelled(r)
      PROVE  Reached(b, m)'
  <2>1. Shrinks /\ pc' = pc
    BY <1>7, UnchangedShrinks DEF TrySend, EnqueueCancelled, vars, session
  <2>2. Registered(b)
    <3>1. CASE registry' = registry
      BY <3>1 DEF Registered
    <3>2. ASSUME NEW p \in Processes, TrySend(p) PROVE Registered(b)
      BY <1>0, <3>2, TrySendKeepsEntries DEF Registered
    <3> QED
      BY <1>7, <3>1, <3>2 DEF EnqueueCancelled
  <2> QED
    BY <1>0, <1>2, <1>3, <1>7, <2>1, <2>2, NoticesKeepReached
<1>8. ASSUME NEW c \in Conns, Register(c) \/ Unregister(c)
      PROVE  Reached(b, m)'
  <2>1. UNCHANGED <<chan, outgoing, sent, inHand, dropped>> /\ Shrinks
    BY <1>8, UnchangedShrinks DEF Register, Unregister, vars
  <2>2. c # b /\ pc'[b] = pc[b]
    BY <1>8 DEF Register, Unregister, Goto, GatewayTypeOK
  <2>3. registry'[d] = registry[d]
    <3>1. CASE Register(c)
      <4> DEFINE entry == [id |-> c, ready |-> FALSE, pending |-> <<>>]
      <4>1. registry' = [registry EXCEPT ![DeviceOf[c]] = entry] /\ entry.id = c
        BY <3>1 DEF Register
      <4> HIDE DEF entry
      <4> QED
        BY <1>0, <2>2, <4>1 DEF Registered, GatewayTypeOK
    <3>2. CASE Unregister(c)
      BY <1>0, <3>2 DEF Unregister, Registered, GatewayTypeOK
    <3> QED
      BY <1>8, <3>1, <3>2
  <2> QED
    BY <1>2, <1>3, <2>1, <2>2, <2>3 DEF Registered, Reached, OnTheWay, Written
<1>9. ASSUME NEW c \in Conns, NEW t \in 0..now, PullBacklog(c, t)
      PROVE  Reached(b, m)'
  <2>1. CASE c = b
    <3>1. HeldFor(d)' = Range(Pulled(d, t))
      BY <1>0, <1>9, <2>1, PulledFacts DEF PullBacklog
    <3>2. m \in Range(outgoing'[b])
      BY <1>9, <2>1, <3>1 DEF PullBacklog, GatewayTypeOK
    <3> QED
      BY <3>2 DEF Reached, OnTheWay
  <2>2. CASE c # b
    <3>1. /\ UNCHANGED <<registry, chan, sent, inHand>> /\ pc'[b] = pc[b]
          /\ outgoing'[b] = outgoing[b] /\ dropped'[b] = dropped[b]
      BY <1>9, <2>2 DEF PullBacklog, Goto, GatewayTypeOK
    <3>2. Shrinks
      BY <1>9, RemoveExpiredShrinks, ConnectionsTyped DEF PullBacklog, Pull
    <3> QED
      BY <1>2, <1>3, <3>1, <3>2 DEF Registered, Reached, OnTheWay, Written
  <2> QED
    BY <2>1, <2>2
<1>10. ASSUME NEW c \in Conns, SendNext(c)
       PROVE  Reached(b, m)'
  <2>1. UNCHANGED <<registry, chan, inHand, dropped>> /\ Shrinks
    BY <1>10, UnchangedShrinks DEF SendNext, vars
  <2>2. pc[b] \in live
    BY <1>10 DEF SendNext, Goto, GatewayTypeOK
  <2>3. Reached(b, m)
    BY <1>2, <1>3, <2>1, <2>2 DEF Registered
  <2>4. CASE m \in Range(outgoing[b])
    <3>1. CASE c # b
      BY <1>10, <2>4, <3>1, SendNextWrites DEF Reached, OnTheWay
    <3>2. CASE c = b
      <4>1. PICK h \in Messages :
                Written(b, h.id)' /\ Range(outgoing[b]) = {h} \cup Range(outgoing'[b])
        BY <1>10, <3>2, SendNextWrites
      <4> QED
        BY <2>4, <4>1 DEF Reached, OnTheWay
    <3> QED
      BY <3>1, <3>2
  <2>5. CASE m \notin Range(outgoing[b])
    BY <1>1, <2>1, <2>3, <2>5 DEF Reached, OnTheWay
  <2> QED
    BY <2>4, <2>5
<1>11. ASSUME NEW c \in Conns, Activate(c)
       PROVE  Reached(b, m)'
  <2>1. Shrinks /\ sent' = sent /\ inHand' = inHand /\ outgoing' = outgoing
    BY <1>11, UnchangedShrinks DEF Activate, vars
  <2>2. CASE c = b
    <3>1. Registered(b) /\ pc[b] \in live
      BY <1>11, <2>2 DEF Activate
    <3> QED
      BY <1>0, <1>2, <1>3, <1>11, <2>1, <2>2, <3>1, ActivateKeepsReached
  <2>3. CASE c # b
    <3>1. /\ pc'[b] = pc[b] /\ chan'[b] = chan[b] /\ dropped'[b] = dropped[b]
      BY <1>11, <2>3 DEF Activate, Goto, GatewayTypeOK
    <3>2. registry'[d] = registry[d]
      <4> DEFINE e == registry[DeviceOf[c]]
                 f == [e EXCEPT !.pending = <<>>, !.ready = TRUE]
      <4>1. DeviceOf[c] \in Devices /\ e # NoEntry /\ e.id = c
        BY <1>11, ConnectionsTyped DEF Activate, Registered
      <4>2. f.id = c
        BY <4>1, EntryTyped, EntryActivated
      <4>3. registry' = [registry EXCEPT ![DeviceOf[c]] = f]
        BY <1>11, <4>1 DEF Activate
      <4> HIDE DEF f
      <4> QED
        BY <1>0, <2>3, <4>1, <4>2, <4>3 DEF Registered, GatewayTypeOK
    <3> QED
      BY <1>2, <1>3, <2>1, <3>1, <3>2 DEF Registered, Reached, OnTheWay, Written
  <2> QED
    BY <2>2, <2>3
<1>12. ASSUME NEW c \in Conns, Recv(c)
       PROVE  Reached(b, m)'
  <2>1. UNCHANGED <<registry, sent, inHand, dropped>> /\ Shrinks
    BY <1>12, UnchangedShrinks DEF Recv, vars
  <2>2. pc[b] \in live
    BY <1>12 DEF Recv, Selecting, Goto, GatewayTypeOK
  <2>3. Reached(b, m)
    BY <1>2, <1>3, <2>1, <2>2 DEF Registered
  <2>4. CASE c # b
    <3>1. chan'[b] = chan[b] /\ outgoing'[b] = outgoing[b]
      BY <1>12, <2>4 DEF Recv, GatewayTypeOK
    <3> QED
      BY <2>1, <2>3, <3>1 DEF Reached, OnTheWay, Written
  <2>5. CASE c = b
    <3>1. outgoing[b] = <<>> /\ chan[b] \in Seq(Messages) /\ chan[b] # <<>>
      BY <1>12, <2>5 DEF Recv, Selecting, StagesKept, Staged, GatewayTypeOK
    <3>2. Range(chan[b]) = {Head(chan[b])} \cup Range(Tail(chan[b]))
      BY <3>1, HeadAndTail
    <3>3. chan'[b] = Tail(chan[b]) /\ outgoing'[b] = <<Head(chan[b])>>
      BY <1>12, <2>5 DEF Recv, GatewayTypeOK
    <3>4. Range(outgoing[b]) = {} /\ Head(chan[b]) \in Range(outgoing'[b])
      BY <3>1, <3>3 DEF Range
    <3> QED
      BY <2>1, <2>3, <3>2, <3>3, <3>4 DEF Reached, OnTheWay, Written
  <2> QED
    BY <2>4, <2>5
<1> QED
  BY StepKinds, <1>4, <1>5, <1>6, <1>7, <1>8, <1>9, <1>10, <1>11, <1>12 DEF Pulls

-----------------------------------------------------------------------------
(* Theorems *)

(* No connection, no entry and an empty store *)
LEMMA GatewayInvInit == GatewayInit => GatewayInv
<1> SUFFICES ASSUME GatewayInit PROVE GatewayInv
  OBVIOUS
<1> USE DEF GatewayInit
<1>1. RelayInv
  BY RelayInvInit
<1>2. GatewayTypeOK
  <2>1. Len(<<>>) <= LiveChannelCapacity /\ 0 \in 0..MaxAccepts
    BY ConnectionsTyped
  <2> QED
    BY <2>1 DEF GatewayTypeOK, Stages
<1>3. EntryHasSession /\ StagesKept
  BY DEF EntryHasSession, StagesKept, Staged
<1>4. \A d \in Devices : HeldFor(d) = {}
  BY DEF Init, HeldFor
<1>5. HeldAreAddressed /\ BacklogAccounted /\ NoStrandedMessage
  BY <1>4 DEF HeldAreAddressed, BacklogAccounted, NoStrandedMessage
<1> QED
  BY <1>1, <1>2, <1>3, <1>5 DEF GatewayInv

(* Every step of the gateway keeps its invariant *)
LEMMA GatewayInvNext == GatewayInv /\ [GatewayNext]_gvars => GatewayInv'
<1> SUFFICES ASSUME GatewayInv, [GatewayNext]_gvars PROVE GatewayInv'
  OBVIOUS
<1>1. RelayInv'
  BY StoreStep, RelayInvNext DEF GatewayInv
<1>2. GatewayTypeOK' /\ EntryHasSession' /\ StagesKept' /\ HeldAreAddressed'
  BY GatewayTypeNext, EntryHasSessionNext, StagesNext, HeldAreAddressedNext DEF GatewayInv
<1>3. BacklogAccounted' /\ NoStrandedMessage'
  BY BacklogAccountedNext, NoStrandedMessageNext
<1> QED
  BY <1>1, <1>2, <1>3 DEF GatewayInv

(***************************************************************************)
(* The inductive invariant of the gateway: its types, the owners of its    *)
(* entries, the stages of its sessions, and the account of every message   *)
(* held for a live session, whatever the connections, requests, messages,  *)
(* identifiers and capacities.                                             *)
(***************************************************************************)
THEOREM GatewayInvariant == GatewaySpec => []GatewayInv
BY GatewayInvInit, GatewayInvNext, PTL DEF GatewaySpec

(* The registry, the channels and the sessions keep their types and the    *)
(* capacity of LIVE_CHANNEL_CAPACITY.                                      *)
THEOREM GatewayTypeCorrect == GatewaySpec => []GatewayTypeOK
<1>1. GatewayInv => GatewayTypeOK
  BY DEF GatewayInv
<1> QED
  BY <1>1, GatewayInvariant, PTL

(* Every entry of the registry belongs to a session that has not returned. *)
THEOREM GatewayEntryHasSession == GatewaySpec => []EntryHasSession
<1>1. GatewayInv => EntryHasSession
  BY DEF GatewayInv
<1> QED
  BY <1>1, GatewayInvariant, PTL

(* Register before pull, queue until activate and push before try_send     *)
(* together strand no message whose identifier was not written already.    *)
THEOREM GatewayStrandsNoMessage == GatewaySpec => []NoStrandedMessage
<1>1. GatewayInv => NoStrandedMessage
  BY DEF GatewayInv
<1> QED
  BY <1>1, GatewayInvariant, PTL

(* The unchecked try_send of activate never meets a full channel. *)
THEOREM GatewayActivateNeverDrops == GatewaySpec => ActivateNeverDrops
<1>1. GatewayInv /\ [GatewayNext]_gvars =>
          [\A c \in Conns : pc[c] = "backlog" /\ pc'[c] = "loop" => dropped'[c] = dropped[c]]_gvars
  BY ActivateNeverDropsStep DEF GatewayInv
<1> QED
  BY <1>1, GatewayInvariant, PTL DEF GatewaySpec, ActivateNeverDrops

(* The late unregister of a replaced connection leaves its successor alone. *)
THEOREM GatewayEntryLeavesWithItsOwner == GatewaySpec => EntryLeavesWithItsOwner
<1>1. GatewayInv /\ [GatewayNext]_gvars =>
          [\A d \in Devices : (registry[d] # NoEntry /\ registry'[d] = NoEntry)
                                  => pc'[registry[d].id] = "closed"]_gvars
  BY EntryLeavesStep DEF GatewayInv
<1> QED
  BY <1>1, GatewayInvariant, PTL DEF GatewaySpec, EntryLeavesWithItsOwner

-----------------------------------------------------------------------------
(* How often a message is in a queue *)

(* The positions of m in q *)
At(m, q) == {i \in DOMAIN q : q[i] = m}

LEMMA TimesInTyped ==
    ASSUME NEW q \in Seq(Messages), NEW m
    PROVE  /\ IsFiniteSet(At(m, q)) /\ At(m, q) \subseteq 1..Len(q)
           /\ TimesIn(m, q) = Cardinality(At(m, q)) /\ TimesIn(m, q) \in Nat
<1>1. Len(q) \in Nat /\ DOMAIN q = 1..Len(q) /\ At(m, q) \subseteq 1..Len(q)
  BY DEF At
<1>2. IsFiniteSet(1..Len(q))
  BY <1>1, FS_Interval
<1>3. IsFiniteSet(At(m, q)) /\ Cardinality(At(m, q)) \in Nat
  BY <1>1, <1>2, FS_Subset, FS_CardinalityType
<1> QED
  BY <1>1, <1>3 DEF TimesIn, At

LEMMA TimesInEmpty == \A m : TimesIn(m, <<>>) = 0
<1> TAKE m
<1>1. {i \in DOMAIN <<>> : <<>>[i] = m} = {}
  OBVIOUS
<1> QED
  BY <1>1, FS_EmptySet DEF TimesIn

(* Counting positions does not depend on where they start *)
LEMMA Shifted ==
    ASSUME NEW B \in SUBSET Nat, IsFiniteSet(B), NEW n \in Nat
    PROVE  LET T == {n + i : i \in B} IN IsFiniteSet(T) /\ Cardinality(T) = Cardinality(B)
<1> DEFINE T == {n + i : i \in B}
           f == [i \in B |-> n + i]
<1>1. f \in Bijection(B, T)
  <2>1. f \in [B -> T]
    OBVIOUS
  <2>2. \A i, j \in B : f[i] = f[j] => i = j
    OBVIOUS
  <2>3. \A t \in T : \E i \in B : f[i] = t
    OBVIOUS
  <2> QED
    BY <2>1, <2>2, <2>3 DEF Bijection, Injection, Surjection, IsInjective
<1> HIDE DEF T, f
<1>2. ExistsBijection(B, T)
  BY <1>1 DEF ExistsBijection
<1> QED
  BY <1>2, FS_Bijection DEF T

(* The times in a queue and then in another *)
LEMMA TimesInConcat ==
    ASSUME NEW q \in Seq(Messages), NEW r \in Seq(Messages), NEW m
    PROVE  TimesIn(m, q \o r) = TimesIn(m, q) + TimesIn(m, r)
<1> DEFINE n == Len(q)
           s == q \o r
           T == {n + i : i \in At(m, r)}
<1>1. /\ n \in Nat /\ Len(r) \in Nat /\ s \in Seq(Messages) /\ Len(s) = n + Len(r)
      /\ \A i \in 1..(n + Len(r)) : s[i] = IF i <= n THEN q[i] ELSE r[i - n]
  BY ConcatProperties, LenProperties
<1>2. DOMAIN q = 1..n /\ DOMAIN r = 1..Len(r) /\ DOMAIN s = 1..(n + Len(r))
  BY <1>1, LenProperties
<1> HIDE DEF s
<1>3. At(m, s) = At(m, q) \cup T /\ At(m, q) \cap T = {}
  <2>1. ASSUME NEW i \in At(m, s) PROVE i \in At(m, q) \cup T
    <3>1. CASE i <= n
      BY <1>1, <1>2, <2>1, <3>1 DEF At
    <3>2. CASE i > n
      <4>1. i - n \in At(m, r) /\ i = n + (i - n)
        BY <1>1, <1>2, <2>1, <3>2 DEF At
      <4> QED
        BY <4>1
    <3> QED
      BY <1>1, <1>2, <2>1, <3>1, <3>2 DEF At
  <2>2. ASSUME NEW i \in At(m, q) PROVE i \in At(m, s) /\ i \notin T
    BY <1>1, <1>2, <2>2 DEF At
  <2>3. ASSUME NEW i \in At(m, r) PROVE n + i \in At(m, s)
    <3>1. i \in 1..Len(r) /\ r[i] = m
      BY <1>2 DEF At
    <3>2. n + i \in 1..(n + Len(r)) /\ ~(n + i <= n) /\ (n + i) - n = i
      BY <1>1, <3>1
    <3>3. s[n + i] = r[(n + i) - n]
      BY <1>1, <3>2
    <3> QED
      BY <1>2, <3>1, <3>2, <3>3 DEF At
  <2> QED
    BY <2>1, <2>2, <2>3
<1>4. /\ IsFiniteSet(At(m, q)) /\ IsFiniteSet(At(m, r)) /\ At(m, r) \in SUBSET Nat
      /\ TimesIn(m, q) = Cardinality(At(m, q)) /\ TimesIn(m, r) = Cardinality(At(m, r))
      /\ TimesIn(m, s) = Cardinality(At(m, s))
  BY <1>1, TimesInTyped
<1>5. IsFiniteSet(T) /\ Cardinality(T) = Cardinality(At(m, r))
  BY <1>1, <1>4, Shifted
<1>6. Cardinality(At(m, q) \cup T) = Cardinality(At(m, q)) + Cardinality(T)
  <2> HIDE DEF T
  <2>1. Cardinality(At(m, q) \cap T) = 0
    BY <1>3, FS_EmptySet
  <2>2. /\ Cardinality(At(m, q)) \in Nat /\ Cardinality(T) \in Nat
        /\ Cardinality(At(m, q) \cup T)
              = Cardinality(At(m, q)) + Cardinality(T) - Cardinality(At(m, q) \cap T)
    BY <1>4, <1>5, FS_Union, FS_CardinalityType
  <2> QED
    BY <2>1, <2>2
<1> QED
  BY <1>3, <1>4, <1>5, <1>6 DEF s

(* A queue of one *)
LEMMA TimesInOne ==
    ASSUME NEW x, NEW m
    PROVE  TimesIn(m, <<x>>) = IF x = m THEN 1 ELSE 0
<1>1. {i \in DOMAIN <<x>> : <<x>>[i] = m} = IF x = m THEN {1} ELSE {}
  OBVIOUS
<1> QED
  BY <1>1, FS_EmptySet, FS_Singleton DEF TimesIn

LEMMA TimesInAppend ==
    ASSUME NEW q \in Seq(Messages), NEW x \in Messages, NEW m
    PROVE  TimesIn(m, Append(q, x)) = TimesIn(m, q) + IF x = m THEN 1 ELSE 0
<1> DEFINE one == <<x>>
           r == Append(q, x)
<1>1. r = q \o one /\ one \in Seq(Messages)
  OBVIOUS
<1>2. TimesIn(m, one) = IF x = m THEN 1 ELSE 0
  BY TimesInOne
<1> HIDE DEF one, r
<1>3. TimesIn(m, r) = TimesIn(m, q) + TimesIn(m, one)
  BY <1>1, TimesInConcat
<1> QED
  BY <1>2, <1>3 DEF r

LEMMA TimesInTail ==
    ASSUME NEW q \in Seq(Messages), q # <<>>, NEW m
    PROVE  TimesIn(m, q) = TimesIn(m, Tail(q)) + IF Head(q) = m THEN 1 ELSE 0
<1> DEFINE h == <<Head(q)>>
           t == Tail(q)
<1>1. q = h \o t /\ h \in Seq(Messages) /\ t \in Seq(Messages)
  OBVIOUS
<1>2. TimesIn(m, h) = IF Head(q) = m THEN 1 ELSE 0
  BY TimesInOne
<1>3. TimesIn(m, t) \in Nat
  BY <1>1, TimesInTyped
<1> HIDE DEF h, t
<1>4. TimesIn(m, q) = TimesIn(m, h) + TimesIn(m, t)
  BY <1>1, TimesInConcat
<1> QED
  BY <1>2, <1>3, <1>4 DEF t

(* A prefix, and what retain leaves, have a message at most as often *)
LEMMA TimesInPrefix ==
    ASSUME NEW q \in Seq(Messages), NEW n \in 0..Len(q), NEW m
    PROVE  SubSeq(q, 1, n) \in Seq(Messages) /\ TimesIn(m, SubSeq(q, 1, n)) <= TimesIn(m, q)
<1> DEFINE p == SubSeq(q, 1, n)
<1>1. p \in Seq(Messages) /\ Len(p) = n /\ \A i \in 1..n : p[i] = q[i]
  BY SubSeqProperties
<1>2. DOMAIN p = 1..n /\ DOMAIN q = 1..Len(q) /\ Len(q) \in Nat
  BY <1>1
<1> HIDE DEF p
<1>3. At(m, p) \subseteq At(m, q)
  BY <1>1, <1>2 DEF At
<1>4. Cardinality(At(m, p)) <= Cardinality(At(m, q))
  BY <1>3, TimesInTyped, FS_Subset
<1> QED
  BY <1>1, <1>4, TimesInTyped DEF p

LEMMA TimesInRetain ==
    ASSUME NEW q \in Seq(Messages), NEW keep \in SUBSET DOMAIN q, NEW m
    PROVE  /\ Retain(q, keep) \in Seq(Messages)
           /\ TimesIn(m, Retain(q, keep)) <= TimesIn(m, q)
<1> DEFINE r == Retain(q, keep)
<1>1. /\ r \in Seq(Messages) /\ Len(r) = Cardinality(keep)
      /\ \E f \in Bijection(1..Cardinality(keep), keep) :
            \A k \in 1..Cardinality(keep) : r[k] = q[f[k]]
  BY RetainIsKept
<1> HIDE DEF r
<1>2. PICK f \in Bijection(1..Cardinality(keep), keep) :
            \A k \in 1..Cardinality(keep) : r[k] = q[f[k]]
  BY <1>1
<1>3. DOMAIN r = 1..Cardinality(keep)
  BY <1>1
<1> DEFINE g == [k \in At(m, r) |-> f[k]]
<1>4. g \in Injection(At(m, r), At(m, q))
  <2>1. \A k \in 1..Cardinality(keep) : f[k] \in keep
    BY DEF Bijection, Injection
  <2>2. \A j, k \in 1..Cardinality(keep) : f[j] = f[k] => j = k
    BY DEF Bijection, Injection, IsInjective
  <2>3. \A k \in At(m, r) : k \in 1..Cardinality(keep) /\ f[k] \in At(m, q)
    BY <1>2, <1>3, <2>1 DEF At
  <2>4. g \in [At(m, r) -> At(m, q)]
    BY <2>3
  <2>5. \A j, k \in At(m, r) : g[j] = g[k] => j = k
    BY <2>2, <2>3
  <2> QED
    BY <2>4, <2>5 DEF Injection, IsInjective
<1>5. Cardinality(At(m, r)) <= Cardinality(At(m, q))
  <2> HIDE DEF g
  <2> QED
    BY <1>4, TimesInTyped, FS_Injection
<1> QED
  BY <1>1, <1>5, TimesInTyped DEF r

(* A queue without repetitions *)
LEMMA TimesInDistinct ==
    ASSUME NEW q \in Seq(Messages), \A i, j \in DOMAIN q : q[i] = q[j] => i = j, NEW m
    PROVE  TimesIn(m, q) = IF m \in Range(q) THEN 1 ELSE 0
<1>1. CASE m \in Range(q)
  <2>1. PICK i \in DOMAIN q : q[i] = m
    BY <1>1 DEF Range
  <2>2. At(m, q) = {i}
    BY <2>1 DEF At
  <2> QED
    BY <1>1, <2>2, TimesInTyped, FS_Singleton
<1>2. CASE m \notin Range(q)
  <2>1. At(m, q) = {}
    BY <1>2 DEF At, Range
  <2> QED
    BY <1>2, <2>1, TimesInTyped, FS_EmptySet
<1> QED
  BY <1>1, <1>2

-----------------------------------------------------------------------------
(* The gateway as a mailbox *)

(* The handlers and sessions between a push and its try_send *)
Busy == {p \in Processes : inHand[p] # NoMessage}

BusyFinite == IsFiniteSet(Busy)

LEMMA BusyInit == GatewayInit => BusyFinite
<1> SUFFICES ASSUME GatewayInit PROVE BusyFinite
  OBVIOUS
<1>1. Busy = {}
  BY DEF GatewayInit, Busy
<1> QED
  BY <1>1, FS_EmptySet DEF BusyFinite

LEMMA BusyNext ==
    ASSUME RelayInv, GatewayTypeOK, BusyFinite, [GatewayNext]_gvars
    PROVE  BusyFinite'
<1>1. \/ inHand' = inHand
      \/ \E p \in Processes : \E x : inHand' = [inHand EXCEPT ![p] = x]
  <2>1. ASSUME NEW p \in Processes, NEW m \in Messages, Accepts(p, m)
        PROVE  inHand' = [inHand EXCEPT ![p] = m]
    BY <2>1 DEF Accepts, Accept
  <2>2. ASSUME NEW p \in Processes, TrySend(p)
        PROVE  inHand' = [inHand EXCEPT ![p] = NoMessage]
    BY <2>2 DEF TrySend
  <2>3. ASSUME NEW r \in Requests, EnqueueCancelled(r)
        PROVE  r \in Processes /\ inHand' = [inHand EXCEPT ![r] = NoMessage]
    BY <2>3 DEF EnqueueCancelled, Processes
  <2>4. ASSUME StoreOnly \/ \E c \in Conns : \/ \E stage \in Stages : Moves(c, stage)
                                             \/ Register(c) \/ Pulls(c) \/ SendNext(c)
                                             \/ Activate(c) \/ Recv(c) \/ Unregister(c)
        PROVE  inHand' = inHand
    BY <2>4 DEF StoreOnly, gateway, Moves, Register, Pulls, PullBacklog, SendNext, Activate,
                Recv, Unregister
  <2> QED
    BY StepKinds, <2>1, <2>2, <2>3, <2>4
<1>2. CASE inHand' = inHand
  BY <1>2 DEF BusyFinite, Busy
<1>3. ASSUME NEW p \in Processes, NEW x, inHand' = [inHand EXCEPT ![p] = x]
      PROVE  BusyFinite'
  <2>1. Busy' \subseteq Busy \cup {p}
    BY <1>3 DEF Busy, GatewayTypeOK
  <2>2. IsFiniteSet(Busy \cup {p})
    BY FS_AddElement DEF BusyFinite
  <2> QED
    BY <2>1, <2>2, FS_Subset DEF BusyFinite
<1> QED
  BY <1>1, <1>2, <1>3

(* One more notice, or one fewer *)
LEMMA NoticeAdded ==
    ASSUME GatewayTypeOK, BusyFinite, NEW p \in Processes, NEW m \in Messages,
           inHand[p] = NoMessage, inHand' = [inHand EXCEPT ![p] = m]
    PROVE  Notices' = [Notices EXCEPT ![m] = @ + 1]
<1>1. NoMessage \notin Messages
  BY AbsentValues
<1>2. NoticesOf(m)' = NoticesOf(m) \cup {p} /\ p \notin NoticesOf(m)
  BY <1>1 DEF NoticesOf, GatewayTypeOK
<1>3. ASSUME NEW x \in Messages \ {m} PROVE NoticesOf(x)' = NoticesOf(x)
  BY <1>1, <1>3 DEF NoticesOf, GatewayTypeOK
<1>4. IsFiniteSet(NoticesOf(m))
  <2>1. NoticesOf(m) \subseteq Busy
    BY <1>1 DEF NoticesOf, Busy
  <2> QED
    BY <2>1, FS_Subset DEF BusyFinite
<1>5. Cardinality(NoticesOf(m)') = Cardinality(NoticesOf(m)) + 1
  BY <1>2, <1>4, FS_AddElement
<1> QED
  BY <1>3, <1>5 DEF Notices

LEMMA NoticeTaken ==
    ASSUME GatewayTypeOK, BusyFinite, NEW p \in Processes, NEW m \in Messages,
           inHand[p] = m, inHand' = [inHand EXCEPT ![p] = NoMessage]
    PROVE  Notices[m] > 0 /\ Notices' = [Notices EXCEPT ![m] = @ - 1]
<1>1. NoMessage \notin Messages
  BY AbsentValues
<1>2. NoticesOf(m)' = NoticesOf(m) \ {p} /\ p \in NoticesOf(m)
  BY <1>1 DEF NoticesOf, GatewayTypeOK
<1>3. ASSUME NEW x \in Messages \ {m} PROVE NoticesOf(x)' = NoticesOf(x)
  BY <1>1, <1>3 DEF NoticesOf, GatewayTypeOK
<1>4. IsFiniteSet(NoticesOf(m))
  <2>1. NoticesOf(m) \subseteq Busy
    BY <1>1 DEF NoticesOf, Busy
  <2> QED
    BY <2>1, FS_Subset DEF BusyFinite
<1>5. /\ Cardinality(NoticesOf(m)') = Cardinality(NoticesOf(m)) - 1
      /\ IsFiniteSet(NoticesOf(m)')
  BY <1>2, <1>4, FS_RemoveElement
<1>6. Cardinality(NoticesOf(m)) \in Nat /\ Cardinality(NoticesOf(m)') \in Nat
  BY <1>4, <1>5, FS_CardinalityType
<1>7. Cardinality(NoticesOf(m)) > 0
  BY <1>5, <1>6
<1>8. Notices' = [Notices EXCEPT ![m] = @ - 1]
  BY <1>3, <1>5 DEF Notices
<1> QED
  BY <1>7, <1>8 DEF Notices

(* The sessions that have not pulled *)
Early == {"connecting", "register", "hello", "pull"}

LEMMA UncollectedNext ==
    ASSUME GatewayTypeOK, NEW c \in Conns, NEW stage \in Stages, Goto(c, stage)
    PROVE  /\ (pc[c] \in Early <=> stage \in Early) => Uncollected' = Uncollected
           /\ (pc[c] \in Early /\ stage \notin Early)
                 => c \in Uncollected /\ Uncollected' = Uncollected \ {c}
BY DEF Goto, GatewayTypeOK, Uncollected, Early

(* The queues of a connection *)
SameFeed(c) == UNCHANGED <<outgoing[c], chan[c], PendingOf(c)>>

LEMMA QueuesTyped ==
    ASSUME GatewayTypeOK, NEW c \in Conns
    PROVE  /\ outgoing[c] \in Seq(Messages) /\ chan[c] \in Seq(Messages)
           /\ PendingOf(c) \in Seq(Messages)
<1>1. DeviceOf[c] \in Devices
  BY ConnectionsTyped
<1>2. PendingOf(c) \in Seq(Messages)
  BY <1>1, EntryTyped DEF PendingOf, Registered
<1> QED
  BY <1>2 DEF GatewayTypeOK

LEMMA FeedTyped ==
    ASSUME GatewayTypeOK, NEW c \in Conns, NEW m
    PROVE  /\ TimesIn(m, outgoing[c]) \in Nat /\ TimesIn(m, chan[c]) \in Nat
           /\ TimesIn(m, PendingOf(c)) \in Nat /\ FeedOf(c, m) \in Nat
BY QueuesTyped, TimesInTyped DEF FeedOf

LEMMA FeedStays ==
    ASSUME NEW c \in Conns, SameFeed(c), NEW m
    PROVE  FeedOf(c, m)' = FeedOf(c, m)
BY DEF SameFeed, FeedOf

(* When the queues of the other connections stay *)
LEMMA FeedIs ==
    ASSUME NEW c \in Conns, \A b \in Conns \ {c} : SameFeed(b)
    PROVE  Feed' = [Feed EXCEPT ![c] = [m \in Messages |-> FeedOf(c, m)']]
<1>1. \A b \in Conns \ {c} : \A m \in Messages : FeedOf(b, m)' = FeedOf(b, m)
  BY FeedStays
<1>2. \A b \in Conns \ {c} : Feed'[b] = Feed[b]
  BY <1>1 DEF Feed
<1>3. Feed'[c] = [m \in Messages |-> FeedOf(c, m)']
  BY DEF Feed
<1> QED
  BY <1>2, <1>3 DEF Feed

(* What the store holds for all devices *)
LEMMA QueuesHold == UNCHANGED queues => AllHeld' = AllHeld
BY DEF AllHeld, HeldFor

LEMMA HeldForAddressed ==
    ASSUME RelayInv, HeldAreAddressed, NEW x
    PROVE  x \in AllHeld <=> x \in Messages /\ x.recipient \in Devices /\ x \in HeldFor(x.recipient)
BY HeldTyped DEF AllHeld, HeldAreAddressed

(* A step of the store changes the queue of one device at most *)
LEMMA OneQueue ==
    ASSUME RelayInv, [Next]_vars
    PROVE  UNCHANGED queues \/ \E d \in Devices : \A e \in Devices \ {d} : queues'[e] = queues[e]
<1>1. queues \in [Devices -> Seq(StoredMessage)]
  BY DEF RelayInv, TypeOK
<1>2. ASSUME NEW m \in Messages, NEW t \in 0..now, Push(m, t)
      PROVE  UNCHANGED queues \/ \E d \in Devices : \A e \in Devices \ {d} : queues'[e] = queues[e]
  <2>1. m.recipient \in Devices
    BY MessagesTyped DEF Message
  <2>2. \/ UNCHANGED queues
        \/ \E q : queues' = [queues EXCEPT ![m.recipient] = q]
    BY <1>2 DEF Push, PushInvalid, PushDuplicate, PushFull, PushAccepted, RemoveExpired, store
  <2> QED
    BY <1>1, <2>1, <2>2
<1>3. ASSUME NEW d \in Devices, NEW t \in 0..now, Pull(d, t)
      PROVE  \A e \in Devices \ {d} : queues'[e] = queues[e]
  BY <1>1, <1>3 DEF Pull, RemoveExpired
<1>4. ASSUME NEW d \in Devices, NEW id \in MessageIds, Ack(d, id)
      PROVE  \A e \in Devices \ {d} : queues'[e] = queues[e]
  BY <1>1, <1>4 DEF Ack
<1> QED
  BY <1>2, <1>3, <1>4 DEF Next, Tick, vars, store

(* An expiry or an acknowledgement in the queue of d *)
LEMMA HeldKept ==
    ASSUME RelayInv, HeldAreAddressed, Shrinks, NEW d \in Devices,
           \A e \in Devices \ {d} : queues'[e] = queues[e]
    PROVE  AllHeld' \in Box!Kept(d)
<1>1. \A e \in Devices \ {d} : HeldFor(e)' = HeldFor(e)
  BY DEF HeldFor
<1>2. AllHeld' \subseteq AllHeld
  BY DEF AllHeld, Shrinks
<1>3. ASSUME NEW x \in AllHeld, x \notin Box!For(d) PROVE x \in AllHeld'
  <2>1. x \in Messages /\ x.recipient \in Devices /\ x \in HeldFor(x.recipient)
    BY HeldForAddressed
  <2>2. x.recipient # d
    BY <1>3, <2>1 DEF Box!For
  <2>3. x \in HeldFor(x.recipient)'
    BY <1>1, <2>1, <2>2
  <2> QED
    BY <2>1, <2>3 DEF AllHeld
<1> QED
  BY <1>2, <1>3 DEF Box!Kept

(* A step that only takes messages from the store *)
LEMMA ShrinksRefines ==
    ASSUME RelayInv, HeldAreAddressed, [GatewayNext]_gvars, Shrinks,
           UNCHANGED <<accepts, Notices, Uncollected, Feed, sent>>
    PROVE  [Box!MailboxNext]_(Box!mailbox)
<1>1. CASE AllHeld' = AllHeld
  BY <1>1 DEF Box!mailbox
<1>2. CASE AllHeld' # AllHeld
  <2>1. PICK x \in AllHeld : x \notin AllHeld'
    BY <1>2 DEF AllHeld, Shrinks
  <2>2. PICK d \in Devices : \A e \in Devices \ {d} : queues'[e] = queues[e]
    BY <1>2, StoreStep, OneQueue, QueuesHold
  <2>3. x \in Messages /\ x.recipient \in Devices /\ x \in HeldFor(x.recipient)
    BY <2>1, HeldForAddressed
  <2>4. x.recipient = d
    <3>1. x \notin HeldFor(x.recipient)'
      BY <2>1, <2>3 DEF AllHeld
    <3> QED
      BY <2>2, <2>3, <3>1 DEF HeldFor
  <2>5. AllHeld' \in Box!Kept(x.recipient)
    BY <2>2, <2>4, HeldKept
  <2>6. Box!Remove(x.recipient)
    BY <2>5 DEF Box!Remove
  <2> QED
    BY <2>3, <2>6 DEF Box!MailboxNext
<1> QED
  BY <1>1, <1>2

(* An accepted push: what is alive of the queue, and the message, are held *)
LEMMA AcceptedHolds ==
    ASSUME RelayInv, NEW m \in Messages, NEW t \in 0..now, PushAccepted(m, t)
    PROVE  \E kept \in SUBSET HeldFor(m.recipient) :
              /\ m \notin kept
              /\ HeldFor(m.recipient)' = kept \cup {m}
              /\ \A e \in Devices \ {m.recipient} : HeldFor(e)' = HeldFor(e)
<1> DEFINE d == m.recipient
           old == queues[d]
           q == Unexpired(d, t)
           s == Append(q, Stored(m, t))
           kept == {q[i].message : i \in DOMAIN q}
<1>1. d \in Devices /\ queues \in [Devices -> Seq(StoredMessage)]
  BY MessagesTyped DEF Message, RelayInv, TypeOK
<1>2. /\ old \in Seq(StoredMessage)
      /\ Alive(old, t) \in SUBSET DOMAIN old
      /\ q \in Seq(StoredMessage) /\ q = Retain(old, Alive(old, t))
  <2>1. Alive(old, t) \in SUBSET DOMAIN old
    BY DEF Alive
  <2> QED
    BY <1>1, <2>1, RetainIsKept DEF Unexpired
<1>3. \A i \in DOMAIN q : \E j \in Alive(old, t) : q[i] = old[j]
  BY <1>2, RetainFrom
<1>4. queues' = [queues EXCEPT ![d] = s]
  BY DEF PushAccepted
<1>5. \A j \in Alive(old, t) : old[j].message.id # m.id
  BY DEF PushAccepted, IsDuplicate
<1>6. /\ DOMAIN s = DOMAIN q \cup {Len(q) + 1}
      /\ \A i \in DOMAIN q : s[i] = q[i] /\ i # Len(q) + 1
      /\ s[Len(q) + 1] = Stored(m, t)
  BY <1>2
<1>7. Stored(m, t).message = m
  BY DEF Stored
<1> HIDE DEF q, s, old
<1>8. kept \subseteq HeldFor(d) /\ m \notin kept
  <2>1. ASSUME NEW i \in DOMAIN q PROVE q[i].message \in HeldFor(d) /\ q[i].message # m
    <3>1. PICK j \in Alive(old, t) : q[i] = old[j]
      BY <1>3
    <3>2. j \in DOMAIN old /\ old[j].message.id # m.id
      BY <1>5 DEF Alive
    <3>3. old[j].message # m /\ old[j].message \in HeldFor(d)
      BY <3>2 DEF HeldFor, old
    <3> QED
      BY <3>1, <3>3
  <2> QED
    BY <2>1
<1>9. HeldFor(d)' = kept \cup {m}
  <2>1. queues'[d] = s
    BY <1>1, <1>4
  <2>2. HeldFor(d)' = {s[i].message : i \in DOMAIN s}
    BY <2>1 DEF HeldFor
  <2>3. {s[i].message : i \in DOMAIN s} = kept \cup {m}
    BY <1>6, <1>7
  <2> QED
    BY <2>2, <2>3
<1>10. \A e \in Devices \ {d} : HeldFor(e)' = HeldFor(e)
  BY <1>1, <1>4 DEF HeldFor
<1> QED
  BY <1>8, <1>9, <1>10

LEMMA AcceptPosts ==
    ASSUME GatewayInv, BusyFinite, NEW p \in Processes, NEW m \in Messages, Accepts(p, m),
           UNCHANGED <<Uncollected, Feed>>
    PROVE  Box!Post(m)
<1> USE DEF GatewayInv
<1>1. PICK t \in 0..now : Accept(p, m, t)
  BY DEF Accepts
<1>2. m.recipient \in Devices
  BY MessagesTyped DEF Message
<1>3. Notices' = [Notices EXCEPT ![m] = @ + 1]
  BY <1>1, NoticeAdded DEF Accepts, Accept
<1>4. PICK kept \in SUBSET HeldFor(m.recipient) :
              /\ m \notin kept
              /\ HeldFor(m.recipient)' = kept \cup {m}
              /\ \A e \in Devices \ {m.recipient} : HeldFor(e)' = HeldFor(e)
  BY <1>1, AcceptedHolds DEF Accept
<1> DEFINE all == kept \cup UNION {HeldFor(e) : e \in Devices \ {m.recipient}}
<1>5. AllHeld' = all \cup {m}
  <2>1. AllHeld' = HeldFor(m.recipient)' \cup UNION {HeldFor(e)' : e \in Devices \ {m.recipient}}
    BY <1>2 DEF AllHeld
  <2>2. {HeldFor(e)' : e \in Devices \ {m.recipient}} = {HeldFor(e) : e \in Devices \ {m.recipient}}
    BY <1>4
  <2> QED
    BY <1>4, <2>1, <2>2
<1>6. m \notin all
  BY <1>4 DEF HeldAreAddressed
<1>7. all \in Box!Kept(m.recipient)
  <2>1. all \subseteq AllHeld
    BY <1>2 DEF AllHeld
  <2>2. ASSUME NEW x \in AllHeld, x \notin Box!For(m.recipient) PROVE x \in all
    <3>1. x \in Messages /\ x.recipient \in Devices /\ x \in HeldFor(x.recipient)
      BY HeldForAddressed
    <3>2. x.recipient # m.recipient
      BY <2>2, <3>1 DEF Box!For
    <3> QED
      BY <3>1, <3>2
  <2> QED
    BY <2>1, <2>2 DEF Box!Kept
<1> HIDE DEF all
<1>8. accepts' = [accepts EXCEPT ![m] = @ + 1] /\ sent' = sent
  BY <1>1 DEF Accepts, Accept, session
<1> QED
  BY <1>3, <1>5, <1>6, <1>7, <1>8 DEF Box!Post

-----------------------------------------------------------------------------
(* The steps of the connections *)

(* A step in which no queue gains anything *)
LEMMA Loses ==
    ASSUME GatewayTypeOK, GatewayTypeOK', NEW c \in Conns,
           \A b \in Conns \ {c} : SameFeed(b),
           \A m \in Messages : FeedOf(c, m)' <= FeedOf(c, m),
           UNCHANGED <<queues, accepts, inHand, sent, Uncollected>>
    PROVE  Box!Lose(c)
<1>1. AllHeld' = AllHeld
  BY QueuesHold
<1>2. Notices' = Notices
  BY DEF Notices, NoticesOf
<1>3. Feed' = [Feed EXCEPT ![c] = [m \in Messages |-> FeedOf(c, m)']]
  BY FeedIs
<1>4. \A m \in Messages : Feed'[c][m] = FeedOf(c, m)' /\ Feed[c][m] = FeedOf(c, m)
  BY DEF Feed
<1>5. \A m \in Messages : FeedOf(c, m)' \in Nat
  <2>1. \A m : TimesIn(m, outgoing'[c]) \in Nat /\ TimesIn(m, chan'[c]) \in Nat
                 /\ TimesIn(m, PendingOf(c)') \in Nat
    <3>1. outgoing'[c] \in Seq(Messages) /\ chan'[c] \in Seq(Messages)
      BY DEF GatewayTypeOK
    <3>2. PendingOf(c)' \in Seq(Messages)
      <4>1. DeviceOf[c] \in Devices
        BY ConnectionsTyped
      <4>2. registry'[DeviceOf[c]] # NoEntry => registry'[DeviceOf[c]].pending \in Seq(Messages)
        BY <4>1 DEF GatewayTypeOK, ConnectionState
      <4> QED
        BY <4>2 DEF PendingOf, Registered
    <3> QED
      BY <3>1, <3>2, TimesInTyped
  <2> QED
    BY <2>1 DEF FeedOf
<1>6. Feed' = [Feed EXCEPT ![c] = [m \in Messages |-> Feed'[c][m]]]
  BY <1>3, <1>4
<1>7. \A m \in Messages : Feed'[c][m] <= Feed[c][m] /\ Feed'[c][m] \in Nat
  BY <1>4, <1>5
<1> QED
  BY <1>1, <1>2, <1>6, <1>7 DEF Box!Lose

(* The pending queue of a connection follows the entry of its device *)
LEMMA PendingStays ==
    ASSUME NEW c \in Conns, registry'[DeviceOf[c]] = registry[DeviceOf[c]]
    PROVE  PendingOf(c)' = PendingOf(c)
BY DEF PendingOf, Registered

LEMMA RegisterLoses ==
    ASSUME GatewayInv, GatewayTypeOK', NEW c \in Conns, Register(c)
    PROVE  \E b \in Conns : Box!Lose(b)
<1> USE DEF GatewayInv
<1> DEFINE d == DeviceOf[c]
           entry == [id |-> c, ready |-> FALSE, pending |-> <<>>]
<1>1. d \in Devices /\ pc[c] = "register"
  BY ConnectionsTyped DEF Register
<1>2. registry' = [registry EXCEPT ![d] = entry] /\ UNCHANGED <<chan, outgoing>>
  BY DEF Register
<1>3. entry.id = c /\ entry.pending = <<>>
  OBVIOUS
<1> HIDE DEF entry
<1>4. registry'[d] = entry /\ \A e \in Devices \ {d} : registry'[e] = registry[e]
  BY <1>1, <1>2 DEF GatewayTypeOK
<1>5. PICK owner \in Conns : /\ DeviceOf[owner] = d
                             /\ registry[d] # NoEntry => registry[d].id = owner
  <2>1. CASE registry[d] = NoEntry
    BY <2>1
  <2>2. CASE registry[d] # NoEntry
    BY <1>1, <2>2, OwnerFacts
  <2> QED
    BY <2>1, <2>2
<1>7. \A b \in Conns : DeviceOf[b] = d => PendingOf(b)' = <<>>
  BY <1>3, <1>4 DEF PendingOf, Registered
<1>8. \A b \in Conns \ {owner} : SameFeed(b)
  <2> SUFFICES ASSUME NEW b \in Conns \ {owner} PROVE PendingOf(b)' = PendingOf(b)
    BY <1>2 DEF SameFeed
  <2>1. CASE DeviceOf[b] # d
    BY <2>1, <1>4, ConnectionsTyped, PendingStays
  <2>2. CASE DeviceOf[b] = d
    <3>1. PendingOf(b) = <<>>
      BY <2>2, <1>5 DEF PendingOf, Registered
    <3> QED
      BY <2>2, <3>1, <1>7
  <2> QED
    BY <2>1, <2>2
<1>9. ASSUME NEW m \in Messages PROVE FeedOf(owner, m)' <= FeedOf(owner, m)
  <2>1. PendingOf(owner)' = <<>>
    BY <1>5, <1>7
  <2>2. FeedOf(owner, m)' = TimesIn(m, outgoing[owner]) + TimesIn(m, chan[owner]) + 0
    BY <1>2, <2>1, TimesInEmpty DEF FeedOf
  <2>3. /\ TimesIn(m, outgoing[owner]) \in Nat /\ TimesIn(m, chan[owner]) \in Nat
        /\ TimesIn(m, PendingOf(owner)) \in Nat
    BY <1>5, FeedTyped
  <2> QED
    BY <2>2, <2>3 DEF FeedOf
<1>10. Uncollected' = Uncollected
  <2>1. Goto(c, "hello") /\ "hello" \in Stages /\ "hello" \in Early /\ pc[c] \in Early
    BY <1>1 DEF Register, Stages, Early
  <2> QED
    BY <2>1, UncollectedNext
<1>11. UNCHANGED <<queues, accepts, inHand, sent>>
  BY DEF Register, vars
<1>12. Box!Lose(owner)
  BY <1>5, <1>8, <1>9, <1>10, <1>11, Loses
<1> QED
  BY <1>5, <1>12

LEMMA UnregisterLoses ==
    ASSUME GatewayInv, GatewayTypeOK', NEW c \in Conns, Unregister(c)
    PROVE  Box!Lose(c)
<1> USE DEF GatewayInv
<1> DEFINE d == DeviceOf[c]
<1>1. d \in Devices /\ pc[c] = "unregister" /\ UNCHANGED <<chan, outgoing>>
  BY ConnectionsTyped DEF Unregister
<1>2. /\ \A e \in Devices \ {d} : registry'[e] = registry[e]
      /\ registry'[d] = IF Registered(c) THEN NoEntry ELSE registry[d]
  BY <1>1 DEF Unregister, GatewayTypeOK
<1>3. \A b \in Conns \ {c} : SameFeed(b)
  <2> SUFFICES ASSUME NEW b \in Conns \ {c} PROVE PendingOf(b)' = PendingOf(b)
    BY <1>1 DEF SameFeed
  <2>1. CASE registry'[DeviceOf[b]] = registry[DeviceOf[b]]
    BY <2>1, PendingStays
  <2>2. CASE registry'[DeviceOf[b]] # registry[DeviceOf[b]]
    <3>1. DeviceOf[b] = d /\ Registered(c) /\ registry'[d] = NoEntry
      BY <1>2, <2>2, ConnectionsTyped
    <3>2. PendingOf(b) = <<>> /\ PendingOf(b)' = <<>>
      BY <3>1 DEF PendingOf, Registered
    <3> QED
      BY <3>2
  <2> QED
    BY <2>1, <2>2
<1>4. ASSUME NEW m \in Messages PROVE FeedOf(c, m)' <= FeedOf(c, m)
  <2>1. /\ TimesIn(m, outgoing[c]) \in Nat /\ TimesIn(m, chan[c]) \in Nat
        /\ TimesIn(m, PendingOf(c)) \in Nat
    BY FeedTyped
  <2>2. PendingOf(c)' = <<>> \/ PendingOf(c)' = PendingOf(c)
    BY <1>2, PendingStays DEF PendingOf, Registered
  <2>3. FeedOf(c, m)' = TimesIn(m, outgoing[c]) + TimesIn(m, chan[c]) + TimesIn(m, PendingOf(c)')
    BY <1>1 DEF FeedOf
  <2>4. TimesIn(m, PendingOf(c)') = 0 \/ TimesIn(m, PendingOf(c)') = TimesIn(m, PendingOf(c))
    BY <2>2, TimesInEmpty
  <2> QED
    BY <2>1, <2>3, <2>4 DEF FeedOf
<1>5. Uncollected' = Uncollected
  <2>1. Goto(c, "closed") /\ "closed" \in Stages /\ "closed" \notin Early /\ pc[c] \notin Early
    BY <1>1 DEF Unregister, Stages, Early
  <2> QED
    BY <2>1, UncollectedNext
<1>6. UNCHANGED <<queues, accepts, inHand, sent>>
  BY DEF Unregister, vars
<1> QED
  BY <1>3, <1>4, <1>5, <1>6, Loses

LEMMA RecvLoses ==
    ASSUME GatewayInv, GatewayTypeOK', NEW c \in Conns, Recv(c)
    PROVE  Box!Lose(c)
<1> USE DEF GatewayInv
<1> DEFINE q == chan[c]
           h == <<Head(q)>>
           t == Tail(q)
<1>1. q \in Seq(Messages) /\ q # <<>> /\ pc[c] = "loop" /\ outgoing[c] = <<>>
  BY DEF Recv, Selecting, GatewayTypeOK, StagesKept, Staged
<1>2. registry' = registry /\ outgoing'[c] = h /\ chan'[c] = t
  BY DEF Recv, GatewayTypeOK
<1>3. \A b \in Conns \ {c} : SameFeed(b)
  BY <1>2, PendingStays DEF Recv, GatewayTypeOK, SameFeed
<1>4. ASSUME NEW m \in Messages PROVE FeedOf(c, m)' <= FeedOf(c, m)
  <2>1. TimesIn(m, h) = IF Head(q) = m THEN 1 ELSE 0
    BY TimesInOne
  <2>2. TimesIn(m, q) = TimesIn(m, t) + IF Head(q) = m THEN 1 ELSE 0
    BY <1>1, TimesInTail
  <2>3. TimesIn(m, outgoing[c]) = 0
    BY <1>1, TimesInEmpty
  <2>4. PendingOf(c)' = PendingOf(c) /\ TimesIn(m, PendingOf(c)) \in Nat
    BY <1>2, PendingStays, FeedTyped
  <2>5. TimesIn(m, t) \in Nat
    BY <1>1, HeadAndTail, TimesInTyped
  <2> HIDE DEF h, t
  <2>6. FeedOf(c, m)' = TimesIn(m, h) + TimesIn(m, t) + TimesIn(m, PendingOf(c))
    BY <1>2, <2>4 DEF FeedOf
  <2>7. FeedOf(c, m) = 0 + TimesIn(m, q) + TimesIn(m, PendingOf(c))
    BY <2>3 DEF FeedOf
  <2> QED
    BY <2>1, <2>2, <2>4, <2>5, <2>6, <2>7
<1>5. Uncollected' = Uncollected
  <2>1. Goto(c, "sending") /\ "sending" \in Stages /\ "sending" \notin Early /\ pc[c] \notin Early
    BY <1>1 DEF Recv, Stages, Early
  <2> QED
    BY <2>1, UncollectedNext
<1>6. UNCHANGED <<queues, accepts, inHand, sent>>
  BY DEF Recv, vars
<1> QED
  BY <1>3, <1>4, <1>5, <1>6, Loses

LEMMA ActivateLoses ==
    ASSUME GatewayInv, GatewayTypeOK', NEW c \in Conns, Activate(c)
    PROVE  Box!Lose(c)
<1> USE DEF GatewayInv
<1> DEFINE d    == DeviceOf[c]
           old  == chan[c]
           pend == registry[d].pending
           keep == {i \in DOMAIN pend : pend[i].id \notin delivered[c]}
           kept == Retain(pend, keep)
           live == old \o kept
           fits == IF Len(live) <= LiveChannelCapacity THEN Len(live) ELSE LiveChannelCapacity
           fit  == SubSeq(live, 1, fits)
           e    == registry[d]
           f    == [e EXCEPT !.pending = <<>>, !.ready = TRUE]
<1>1. d \in Devices /\ pc[c] = "backlog" /\ Registered(c) /\ e # NoEntry /\ e.id = c
  BY ConnectionsTyped DEF Activate, Registered
<1>2. pend \in Seq(Messages) /\ old \in Seq(Messages) /\ keep \in SUBSET DOMAIN pend
  BY <1>1, EntryTyped DEF GatewayTypeOK
<1>3. f.id = c /\ f.pending = <<>>
  BY <1>1, EntryTyped, EntryActivated
<1>4. registry' = [registry EXCEPT ![d] = f] /\ chan' = [chan EXCEPT ![c] = fit]
  BY <1>1 DEF Activate, NotDelivered
<1>5. kept \in Seq(Messages) /\ \A m : TimesIn(m, kept) <= TimesIn(m, pend)
  <2> HIDE DEF pend, keep
  <2> QED
    BY <1>2, TimesInRetain
<1>6. live \in Seq(Messages) /\ \A m : TimesIn(m, live) = TimesIn(m, old) + TimesIn(m, kept)
  <2> HIDE DEF old, kept
  <2> QED
    BY <1>2, <1>5, TimesInConcat
<1>7. fit \in Seq(Messages) /\ \A m : TimesIn(m, fit) <= TimesIn(m, live)
  <2> HIDE DEF live
  <2>1. fits \in 0..Len(live)
    BY <1>6, ConnectionsTyped
  <2> HIDE DEF fits
  <2> QED
    BY <1>6, <2>1, TimesInPrefix
<1> HIDE DEF f, fit, live, kept, keep, old
<1>8. /\ registry'[d] = f /\ \A x \in Devices \ {d} : registry'[x] = registry[x]
      /\ chan'[c] = fit /\ \A b \in Conns \ {c} : chan'[b] = chan[b]
      /\ outgoing' = outgoing
  BY <1>1, <1>4 DEF GatewayTypeOK, Activate
<1>9. \A b \in Conns \ {c} : SameFeed(b)
  <2> SUFFICES ASSUME NEW b \in Conns \ {c} PROVE PendingOf(b)' = PendingOf(b)
    BY <1>8 DEF SameFeed
  <2>1. CASE DeviceOf[b] # d
    BY <2>1, <1>8, ConnectionsTyped, PendingStays
  <2>2. CASE DeviceOf[b] = d
    BY <2>2, <1>1, <1>3, <1>8 DEF PendingOf, Registered
  <2> QED
    BY <2>1, <2>2
<1>10. ASSUME NEW m \in Messages PROVE FeedOf(c, m)' <= FeedOf(c, m)
  <2>1. PendingOf(c) = pend
    BY <1>1 DEF PendingOf
  <2>2. PendingOf(c)' = <<>>
    BY <1>3, <1>8 DEF PendingOf, Registered
  <2>3. FeedOf(c, m)' = TimesIn(m, outgoing[c]) + TimesIn(m, fit) + 0
    BY <1>8, <2>2, TimesInEmpty DEF FeedOf
  <2>4. FeedOf(c, m) = TimesIn(m, outgoing[c]) + TimesIn(m, old) + TimesIn(m, pend)
    BY <2>1 DEF FeedOf, old
  <2>5. /\ TimesIn(m, outgoing[c]) \in Nat /\ TimesIn(m, old) \in Nat
        /\ TimesIn(m, pend) \in Nat
    BY <2>1, FeedTyped DEF old
  <2>6. TimesIn(m, fit) \in Nat /\ TimesIn(m, live) \in Nat /\ TimesIn(m, kept) \in Nat
    BY <1>5, <1>6, <1>7, TimesInTyped
  <2> HIDE DEF pend
  <2> QED
    BY <1>5, <1>6, <1>7, <2>3, <2>4, <2>5, <2>6
<1>11. Uncollected' = Uncollected
  <2>1. Goto(c, "loop") /\ "loop" \in Stages /\ "loop" \notin Early /\ pc[c] \notin Early
    BY <1>1 DEF Activate, Stages, Early
  <2> QED
    BY <2>1, UncollectedNext
<1>12. UNCHANGED <<queues, accepts, inHand, sent>>
  BY DEF Activate, vars
<1> QED
  BY <1>9, <1>10, <1>11, <1>12, Loses

(* The backlog has every message that is left for the device, once *)
LEMMA PullCollects ==
    ASSUME GatewayInv, GatewayInv', [GatewayNext]_gvars, NEW c \in Conns, Pulls(c)
    PROVE  Box!Collect(c)
<1> USE DEF GatewayInv
<1> DEFINE d == DeviceOf[c]
<1>1. PICK t \in 0..now : PullBacklog(c, t)
  BY DEF Pulls
<1> DEFINE q == Unexpired(d, t)
           p == Pulled(d, t)
<1>2. d \in Devices /\ pc[c] = "pull" /\ outgoing[c] = <<>> /\ Pull(d, t)
  BY <1>1, ConnectionsTyped DEF PullBacklog, StagesKept, Staged
<1>3. p \in Seq(Messages) /\ HeldFor(d)' = Range(p)
  BY <1>2, PulledFacts
<1>4. \A i, j \in DOMAIN p : p[i] = p[j] => i = j
  <2>1. queues'[d] = q /\ queues' = [queues EXCEPT ![d] = q]
    BY <1>2 DEF Pull, RemoveExpired, RelayInv, TypeOK
  <2>2. \A i, j \in DOMAIN q : q[i].message.id = q[j].message.id => i = j
    BY <1>2, <2>1 DEF RelayInv, UniqueIds
  <2> QED
    BY <2>2 DEF Pulled
<1>5. \A m : TimesIn(m, p) = IF m \in HeldFor(d)' THEN 1 ELSE 0
  <2> HIDE DEF p
  <2> QED
    BY <1>3, <1>4, TimesInDistinct
<1>6. \A m \in Messages : m \in HeldFor(d)' <=> m \in AllHeld' \cap Box!For(d)
  <2>1. ASSUME NEW m \in Messages, m \in HeldFor(d)' PROVE m \in AllHeld' /\ m \in Box!For(d)
    BY <1>2, <2>1 DEF HeldAreAddressed, AllHeld, Box!For
  <2>2. ASSUME NEW m \in Messages, m \in AllHeld', m \in Box!For(d) PROVE m \in HeldFor(d)'
    <3>1. PICK e \in Devices : m \in HeldFor(e)'
      BY <2>2 DEF AllHeld
    <3>2. e = d
      BY <2>2, <3>1 DEF HeldAreAddressed, Box!For
    <3> QED
      BY <3>1, <3>2
  <2> QED
    BY <2>1, <2>2
<1>7. AllHeld' \in Box!Kept(d)
  <2>1. Shrinks
    BY <1>2, RemoveExpiredShrinks DEF Pull
  <2>2. \A e \in Devices \ {d} : queues'[e] = queues[e]
    BY <1>2 DEF Pull, RemoveExpired, RelayInv, TypeOK
  <2> QED
    BY <1>2, <2>1, <2>2, HeldKept
<1> HIDE DEF p
<1>8. registry' = registry /\ chan' = chan /\ outgoing' = [outgoing EXCEPT ![c] = p]
  BY <1>1 DEF PullBacklog, p
<1>9. \A b \in Conns \ {c} : SameFeed(b)
  BY <1>8, PendingStays DEF GatewayTypeOK, SameFeed
<1>10. ASSUME NEW m \in Messages
       PROVE  FeedOf(c, m)' = Feed[c][m] + IF m \in AllHeld' \cap Box!For(d) THEN 1 ELSE 0
  <2>1. outgoing'[c] = p /\ PendingOf(c)' = PendingOf(c)
    BY <1>8, PendingStays DEF GatewayTypeOK
  <2>2. FeedOf(c, m)' = TimesIn(m, p) + TimesIn(m, chan[c]) + TimesIn(m, PendingOf(c))
    BY <1>8, <2>1 DEF FeedOf
  <2>3. Feed[c][m] = 0 + TimesIn(m, chan[c]) + TimesIn(m, PendingOf(c))
    BY <1>2, TimesInEmpty DEF Feed, FeedOf
  <2>4. TimesIn(m, chan[c]) \in Nat /\ TimesIn(m, PendingOf(c)) \in Nat
    BY FeedTyped
  <2> QED
    BY <1>5, <1>6, <2>2, <2>3, <2>4
<1>11. Feed' = [Feed EXCEPT ![c] =
                  [m \in Messages |-> @[m] + IF m \in AllHeld' \cap Box!For(d) THEN 1 ELSE 0]]
  <2>1. Feed' = [Feed EXCEPT ![c] = [m \in Messages |-> FeedOf(c, m)']]
    BY <1>9, FeedIs
  <2>2. [m \in Messages |-> FeedOf(c, m)']
           = [m \in Messages |-> Feed[c][m] + IF m \in AllHeld' \cap Box!For(d) THEN 1 ELSE 0]
    BY <1>10
  <2> QED
    BY <2>1, <2>2
<1>12. c \in Uncollected /\ Uncollected' = Uncollected \ {c}
  <2>1. Goto(c, "backlog") /\ "backlog" \in Stages /\ "backlog" \notin Early /\ pc[c] \in Early
    BY <1>1, <1>2 DEF PullBacklog, Stages, Early
  <2> QED
    BY <2>1, UncollectedNext
<1>13. accepts' = accepts /\ sent' = sent /\ Notices' = Notices
  BY <1>1 DEF PullBacklog, Notices, NoticesOf
<1> QED
  BY <1>7, <1>11, <1>12, <1>13 DEF Box!Collect

LEMMA SendWrites ==
    ASSUME GatewayInv, NEW c \in Conns, SendNext(c)
    PROVE  \E m \in Messages : Box!Write(c, m)
<1> USE DEF GatewayInv
<1> DEFINE q == outgoing[c]
           t == Tail(q)
<1>1. /\ q \in Seq(Messages) /\ q # <<>> /\ pc[c] \in {"backlog", "sending"}
      /\ registry' = registry /\ chan' = chan /\ outgoing' = [outgoing EXCEPT ![c] = t]
      /\ sent' = [sent EXCEPT ![c][Head(q)] = @ + 1]
  BY DEF SendNext, GatewayTypeOK
<1>2. t \in Seq(Messages)
  BY <1>1, HeadAndTail
<1> PICK x \in Messages : x = Head(q)
  BY <1>1, HeadAndTail
<1>3. \A m : TimesIn(m, q) = TimesIn(m, t) + IF x = m THEN 1 ELSE 0
  BY <1>1, TimesInTail
<1>4. \A m : TimesIn(m, t) \in Nat
  BY <1>2, TimesInTyped
<1> HIDE DEF t
<1>5. \A b \in Conns \ {c} : SameFeed(b)
  BY <1>1, PendingStays DEF GatewayTypeOK, SameFeed
<1>6. ASSUME NEW m \in Messages
      PROVE  /\ Feed[c][m] = FeedOf(c, m)' + IF x = m THEN 1 ELSE 0
             /\ FeedOf(c, m)' \in Nat /\ Feed[c][m] \in Nat
  <2>1. FeedOf(c, m)' = TimesIn(m, t) + TimesIn(m, chan[c]) + TimesIn(m, PendingOf(c))
    <3>1. outgoing'[c] = t /\ PendingOf(c)' = PendingOf(c)
      BY <1>1, PendingStays DEF GatewayTypeOK
    <3> QED
      BY <1>1, <3>1 DEF FeedOf
  <2>2. Feed[c][m] = TimesIn(m, q) + TimesIn(m, chan[c]) + TimesIn(m, PendingOf(c))
    BY DEF Feed, FeedOf
  <2>3. TimesIn(m, chan[c]) \in Nat /\ TimesIn(m, PendingOf(c)) \in Nat
    BY FeedTyped
  <2> QED
    BY <1>3, <1>4, <2>1, <2>2, <2>3
<1>7. Feed[c][x] > 0 /\ FeedOf(c, x)' = Feed[c][x] - 1
  <2>1. FeedOf(c, x)' \in Nat /\ Feed[c][x] = FeedOf(c, x)' + 1
    BY <1>6
  <2> QED
    BY <2>1
<1>8. Feed' = [Feed EXCEPT ![c][x] = @ - 1]
  <2>1. Feed' = [Feed EXCEPT ![c] = [m \in Messages |-> FeedOf(c, m)']]
    BY <1>5, FeedIs
  <2>2. [m \in Messages |-> FeedOf(c, m)'] = [Feed[c] EXCEPT ![x] = @ - 1]
    BY <1>6, <1>7 DEF Feed
  <2> QED
    BY <2>1, <2>2
<1>9. Uncollected' = Uncollected
  <2>1. PICK stage \in {"loop", "backlog"} : Goto(c, stage)
    BY DEF SendNext
  <2>2. stage \in Stages /\ stage \notin Early /\ pc[c] \notin Early
    BY <1>1, <2>1 DEF Stages, Early
  <2> QED
    BY <2>1, <2>2, UncollectedNext
<1>10. accepts' = accepts /\ Notices' = Notices /\ AllHeld' = AllHeld
  BY QueuesHold DEF SendNext, Notices, NoticesOf, vars
<1> QED
  BY <1>1, <1>2, <1>7, <1>8, <1>9, <1>10 DEF Box!Write

(* A notice that reaches the queue of one connection, or none *)
LEMMA NoticeAnnounces ==
    ASSUME GatewayInv, BusyFinite, NEW p \in Processes, NEW m \in Messages,
           inHand[p] = m, inHand' = [inHand EXCEPT ![p] = NoMessage],
           UNCHANGED <<queues, pc, accepts, sent>>,
           \/ UNCHANGED Feed
           \/ \E c \in Conns : /\ DeviceOf[c] = m.recipient
                               /\ Feed' = [Feed EXCEPT ![c][m] = @ + 1]
    PROVE  Box!Announce(m)
<1>1. Notices[m] > 0 /\ Notices' = [Notices EXCEPT ![m] = @ - 1]
  BY NoticeTaken DEF GatewayInv
<1>2. AllHeld' = AllHeld /\ Uncollected' = Uncollected
  BY QueuesHold DEF Uncollected
<1> QED
  BY <1>1, <1>2 DEF Box!Announce

(* One of the queues of b has a message more *)
LEMMA OneMore ==
    ASSUME GatewayTypeOK, NEW b \in Conns, NEW m \in Messages,
           \A c \in Conns \ {b} : SameFeed(c), outgoing'[b] = outgoing[b],
           \/ chan'[b] = chan[b] /\ PendingOf(b)' = Append(PendingOf(b), m)
           \/ chan'[b] = Append(chan[b], m) /\ PendingOf(b)' = PendingOf(b)
    PROVE  Feed' = [Feed EXCEPT ![b][m] = @ + 1]
<1>1. Feed' = [Feed EXCEPT ![b] = [x \in Messages |-> FeedOf(b, x)']]
  BY FeedIs
<1>2. ASSUME NEW x \in Messages
      PROVE  FeedOf(b, x)' = Feed[b][x] + IF x = m THEN 1 ELSE 0
  <2> DEFINE k == IF m = x THEN 1 ELSE 0
  <2>1. /\ TimesIn(x, outgoing[b]) \in Nat /\ TimesIn(x, chan[b]) \in Nat
        /\ TimesIn(x, PendingOf(b)) \in Nat
    BY FeedTyped
  <2>2. Feed[b][x] = TimesIn(x, outgoing[b]) + TimesIn(x, chan[b]) + TimesIn(x, PendingOf(b))
    BY DEF Feed, FeedOf
  <2>3. FeedOf(b, x)' = TimesIn(x, outgoing[b]) + TimesIn(x, chan'[b]) + TimesIn(x, PendingOf(b)')
    BY DEF FeedOf
  <2>4. CASE chan'[b] = chan[b] /\ PendingOf(b)' = Append(PendingOf(b), m)
    <3>1. TimesIn(x, Append(PendingOf(b), m)) = TimesIn(x, PendingOf(b)) + k
      BY QueuesTyped, TimesInAppend
    <3> QED
      BY <2>1, <2>2, <2>3, <2>4, <3>1
  <2>5. CASE chan'[b] = Append(chan[b], m) /\ PendingOf(b)' = PendingOf(b)
    <3>1. TimesIn(x, Append(chan[b], m)) = TimesIn(x, chan[b]) + k
      BY QueuesTyped, TimesInAppend
    <3> QED
      BY <2>1, <2>2, <2>3, <2>5, <3>1
  <2> QED
    BY <2>4, <2>5
<1>3. [x \in Messages |-> FeedOf(b, x)'] = [Feed[b] EXCEPT ![m] = @ + 1]
  <2>1. \A x \in Messages : FeedOf(b, x)' = Feed[b][x] + IF x = m THEN 1 ELSE 0
    BY <1>2
  <2>2. \A x \in Messages : Feed[b][x] \in Nat
    BY FeedTyped DEF Feed
  <2>3. DOMAIN Feed[b] = Messages
    BY DEF Feed
  <2>4. /\ FeedOf(b, m)' = Feed[b][m] + 1
        /\ \A x \in Messages \ {m} : FeedOf(b, x)' = Feed[b][x]
    BY <2>1, <2>2
  <2> QED
    BY <2>3, <2>4, Zenon
<1> QED
  BY <1>1, <1>3

LEMMA TrySendAnnounces ==
    ASSUME GatewayInv, BusyFinite, NEW p \in Processes, TrySend(p)
    PROVE  \E m \in Messages : Box!Announce(m)
<1> USE DEF GatewayInv
<1>1. PICK m \in Messages : \/ TrySendPending(p, m) \/ TrySendChannel(p, m)
                            \/ TrySendDropped(p, m) \/ TrySendOffline(p, m)
  BY DEF TrySend
<1> DEFINE d == m.recipient
           e == registry[d]
<1>2. d \in Devices
  BY MessagesTyped DEF Message
<1>3. /\ inHand[p] = m /\ inHand' = [inHand EXCEPT ![p] = NoMessage]
      /\ UNCHANGED <<queues, pc, accepts, sent>> /\ outgoing' = outgoing
  BY <1>1 DEF TrySend, TrySendPending, TrySendChannel, TrySendDropped, TrySendOffline, LiveNotice,
              vars
<1>4. CASE TrySendDropped(p, m) \/ TrySendOffline(p, m)
  <2>1. registry' = registry /\ chan' = chan
    BY <1>4 DEF TrySendDropped, TrySendOffline
  <2>2. Feed' = Feed
    BY <1>3, <2>1 DEF Feed, FeedOf, PendingOf, Registered
  <2> QED
    BY <1>3, <2>2, NoticeAnnounces
<1>5. CASE TrySendPending(p, m) \/ TrySendChannel(p, m)
  <2>1. e # NoEntry
    BY <1>5 DEF TrySendPending, TrySendChannel
  <2>2. PICK b \in Conns : b = e.id
    BY <1>2, <2>1, EntryTyped
  <2>3. DeviceOf[b] = d /\ Registered(b) /\ PendingOf(b) = e.pending
    BY <1>2, <2>1, <2>2, OwnerFacts DEF PendingOf
  <2>4. /\ \A x \in Devices \ {d} : registry'[x] = registry[x]
        /\ registry'[d] # NoEntry /\ registry'[d].id = b
    <3>1. \A x \in Devices \ {d} : registry'[x] = registry[x]
      BY <1>5 DEF TrySendPending, TrySendChannel, GatewayTypeOK
    <3> QED
      BY <1>2, <2>1, <2>2, <3>1, TrySendKeepsEntries
  <2>5. \A c \in Conns \ {b} : PendingOf(c)' = PendingOf(c)
    <3> SUFFICES ASSUME NEW c \in Conns \ {b} PROVE PendingOf(c)' = PendingOf(c)
      OBVIOUS
    <3>1. CASE DeviceOf[c] # d
      BY <3>1, <2>4, ConnectionsTyped, PendingStays
    <3>2. CASE DeviceOf[c] = d
      BY <3>2, <2>2, <2>4 DEF PendingOf, Registered
    <3> QED
      BY <3>1, <3>2
  <2>6. CASE TrySendPending(p, m)
    <3>1. registry'[d].pending = Append(e.pending, m)
      <4>1. registry' = [registry EXCEPT ![d] = [e EXCEPT !.pending = Append(@, m)]]
        BY <2>6 DEF TrySendPending
      <4>2. registry'[d] = [e EXCEPT !.pending = Append(@, m)]
        BY <1>2, <4>1 DEF GatewayTypeOK
      <4>3. e \in ConnectionState
        BY <1>2, <2>1, EntryTyped
      <4> QED
        BY <4>2, <4>3 DEF ConnectionState
    <3>2. chan' = chan
      BY <2>6 DEF TrySendPending
    <3>3. PendingOf(b)' = Append(PendingOf(b), m)
      BY <2>3, <2>4, <3>1 DEF PendingOf, Registered
    <3>4. Feed' = [Feed EXCEPT ![b][m] = @ + 1]
      BY <1>3, <2>5, <3>2, <3>3, OneMore DEF SameFeed
    <3> QED
      BY <1>3, <2>3, <3>4, NoticeAnnounces
  <2>7. CASE TrySendChannel(p, m)
    <3>1. /\ chan'[b] = Append(chan[b], m) /\ registry' = registry
          /\ \A c \in Conns \ {b} : chan'[c] = chan[c]
      BY <2>2, <2>7 DEF TrySendChannel, GatewayTypeOK
    <3>2. PendingOf(b)' = PendingOf(b)
      BY <3>1, PendingStays
    <3>3. Feed' = [Feed EXCEPT ![b][m] = @ + 1]
      BY <1>3, <2>5, <3>1, <3>2, OneMore DEF SameFeed
    <3> QED
      BY <1>3, <2>3, <3>3, NoticeAnnounces
  <2> QED
    BY <1>5, <2>6, <2>7
<1> QED
  BY <1>1, <1>4, <1>5

LEMMA CancelAnnounces ==
    ASSUME GatewayInv, BusyFinite, NEW r \in Requests, EnqueueCancelled(r)
    PROVE  \E m \in Messages : Box!Announce(m)
<1>1. PICK m \in Messages : inHand[r] = m
  BY DEF EnqueueCancelled, LiveNotice
<1>2. /\ r \in Processes /\ inHand' = [inHand EXCEPT ![r] = NoMessage]
      /\ UNCHANGED <<queues, pc, accepts, sent>> /\ UNCHANGED <<registry, chan, outgoing>>
  BY DEF EnqueueCancelled, Processes, session, vars
<1>3. Feed' = Feed
  BY <1>2 DEF Feed, FeedOf, PendingOf, Registered
<1> QED
  BY <1>1, <1>2, <1>3, NoticeAnnounces

(* A session that goes on, or gives up before its pull *)
LEMMA MovesRefines ==
    ASSUME GatewayInv, [GatewayNext]_gvars,
           NEW c \in Conns, NEW stage \in Stages, Moves(c, stage)
    PROVE  [Box!MailboxNext]_(Box!mailbox)
<1> USE DEF GatewayInv
<1>1. /\ Goto(c, stage) /\ Shrinks
      /\ UNCHANGED <<registry, chan, outgoing>> /\ UNCHANGED <<accepts, sent, inHand>>
  BY DEF Moves
<1>2. Feed' = Feed /\ Notices' = Notices
  BY <1>1 DEF Feed, FeedOf, PendingOf, Registered, Notices, NoticesOf
<1>3. CASE pc[c] \in Early <=> stage \in Early
  <2>1. Uncollected' = Uncollected
    BY <1>1, <1>3, UncollectedNext
  <2> QED
    BY <1>1, <1>2, <2>1, ShrinksRefines
<1>4. CASE ~(pc[c] \in Early <=> stage \in Early)
  <2>1. pc[c] \in Early /\ stage \notin Early /\ pc[c] # "loop"
    BY <1>4 DEF Moves, Early
  <2>2. c \in Uncollected /\ Uncollected' = Uncollected \ {c}
    BY <1>1, <2>1, UncollectedNext
  <2>3. AllHeld' = AllHeld
    BY <2>1, QueuesHold DEF Moves, store
  <2>4. Box!GiveUp(c)
    BY <1>1, <1>2, <2>2, <2>3 DEF Box!GiveUp
  <2> QED
    BY <2>4 DEF Box!MailboxNext
<1> QED
  BY <1>3, <1>4

-----------------------------------------------------------------------------
(* Every step is a step of the mailbox, or none *)

LEMMA GatewayStepRefines ==
    ASSUME GatewayInv, GatewayInv', BusyFinite, [GatewayNext]_gvars
    PROVE  [Box!MailboxNext]_(Box!mailbox)
<1>1. RelayInv /\ HeldAreAddressed /\ GatewayTypeOK'
  BY DEF GatewayInv
<1>2. CASE StoreOnly
  <2>1. Shrinks /\ UNCHANGED <<accepts, sent, inHand, pc>> /\ UNCHANGED <<registry, chan, outgoing>>
    BY <1>2 DEF StoreOnly, gateway, session
  <2>2. UNCHANGED <<Notices, Uncollected, Feed>>
    BY <2>1 DEF Feed, FeedOf, PendingOf, Registered, Notices, NoticesOf, Uncollected
  <2> QED
    BY <1>1, <2>1, <2>2, ShrinksRefines
<1>3. ASSUME NEW p \in Processes, NEW m \in Messages, Accepts(p, m)
      PROVE  [Box!MailboxNext]_(Box!mailbox)
  <2>1. UNCHANGED <<registry, chan, outgoing, pc>>
    BY <1>3 DEF Accepts, session
  <2>2. UNCHANGED <<Uncollected, Feed>>
    BY <2>1 DEF Feed, FeedOf, PendingOf, Registered, Uncollected
  <2>3. Box!Post(m)
    BY <1>3, <2>2, AcceptPosts
  <2> QED
    BY <2>3 DEF Box!MailboxNext
<1>4. ASSUME NEW p \in Processes, TrySend(p) PROVE [Box!MailboxNext]_(Box!mailbox)
  BY <1>4, TrySendAnnounces DEF Box!MailboxNext
<1>5. ASSUME NEW r \in Requests, EnqueueCancelled(r) PROVE [Box!MailboxNext]_(Box!mailbox)
  BY <1>5, CancelAnnounces DEF Box!MailboxNext
<1>6. ASSUME NEW c \in Conns, Register(c) \/ Unregister(c) \/ Activate(c) \/ Recv(c)
      PROVE  \E b \in Conns : Box!Lose(b)
  BY <1>1, <1>6, RegisterLoses, UnregisterLoses, ActivateLoses, RecvLoses
<1>7. ASSUME NEW c \in Conns, Pulls(c) \/ SendNext(c)
      PROVE  Box!Collect(c) \/ \E m \in Messages : Box!Write(c, m)
  BY <1>7, PullCollects, SendWrites
<1>8. ASSUME NEW c \in Conns, \/ Register(c) \/ Pulls(c) \/ SendNext(c)
                              \/ Activate(c) \/ Recv(c) \/ Unregister(c)
      PROVE  [Box!MailboxNext]_(Box!mailbox)
  BY <1>6, <1>7, <1>8 DEF Box!MailboxNext
<1> QED
  BY <1>1, <1>2, <1>3, <1>4, <1>5, <1>8, StepKinds, MovesRefines

LEMMA GatewayInitRefines == GatewayInit => Box!MailboxInit
<1> SUFFICES ASSUME GatewayInit PROVE Box!MailboxInit
  OBVIOUS
<1>1. AllHeld = {}
  BY DEF GatewayInit, Init, AllHeld, HeldFor
<1>2. Notices = [m \in Messages |-> 0]
  <2>1. \A m \in Messages : NoticesOf(m) = {}
    BY AbsentValues DEF GatewayInit, NoticesOf
  <2> QED
    BY <2>1, FS_EmptySet DEF Notices
<1>3. Uncollected = Conns
  BY DEF GatewayInit, Uncollected
<1>4. Feed = [c \in Conns |-> [m \in Messages |-> 0]]
  <2>1. \A c \in Conns : outgoing[c] = <<>> /\ chan[c] = <<>> /\ PendingOf(c) = <<>>
    BY ConnectionsTyped DEF GatewayInit, PendingOf, Registered
  <2>2. \A c \in Conns : \A m \in Messages : FeedOf(c, m) = 0
    BY <2>1, TimesInEmpty DEF FeedOf
  <2> QED
    BY <2>2 DEF Feed
<1> QED
  BY <1>1, <1>2, <1>3, <1>4 DEF Box!MailboxInit, GatewayInit

(***************************************************************************)
(* The locks, the queues and the order of register, pull, activate and     *)
(* try_send implement a mailbox, whatever the connections, requests,       *)
(* messages and capacities, and even if messages share identifiers.        *)
(***************************************************************************)
THEOREM GatewayImplementsMailbox == GatewaySpec => ImplementsMailbox
<1>1. GatewaySpec => []BusyFinite
  <2>1. GatewayInv => RelayInv /\ GatewayTypeOK
    BY DEF GatewayInv
  <2>2. RelayInv /\ GatewayTypeOK /\ BusyFinite /\ [GatewayNext]_gvars => BusyFinite'
    BY BusyNext
  <2> QED
    BY <2>1, <2>2, BusyInit, GatewayInvariant, PTL DEF GatewaySpec
<1>2. GatewayInv /\ GatewayInv' /\ BusyFinite /\ [GatewayNext]_gvars
         => [Box!MailboxNext]_(Box!mailbox)
  BY GatewayStepRefines
<1> QED
  BY <1>1, <1>2, GatewayInitRefines, GatewayInvariant, PTL
  DEF GatewaySpec, ImplementsMailbox, Box!MailboxSpec

(* What is proved of every mailbox is so of the gateway *)
Promise == INSTANCE MailboxProofs WITH
    held    <- AllHeld,
    posts   <- accepts,
    notices <- Notices,
    fresh   <- Uncollected,
    feed    <- Feed,
    written <- sent

LEMMA GatewayKeepsPromise == GatewaySpec => Promise!MailboxSpec
<1>1. Box!MailboxInit => Promise!MailboxInit
  BY DEF Box!MailboxInit, Promise!MailboxInit
<1>2. [Box!MailboxNext]_(Box!mailbox) => [Promise!MailboxNext]_(Promise!mailbox)
  BY DEF Box!MailboxNext, Promise!MailboxNext, Box!mailbox, Promise!mailbox, Box!Post, Promise!Post,
         Box!Announce, Promise!Announce, Box!Remove, Promise!Remove, Box!Write, Promise!Write,
         Box!Collect, Promise!Collect, Box!GiveUp, Promise!GiveUp, Box!Lose, Promise!Lose,
         Box!Kept, Promise!Kept, Box!For, Promise!For
<1> QED
  BY <1>1, <1>2, GatewayImplementsMailbox, PTL
  DEF ImplementsMailbox, Box!MailboxSpec, Promise!MailboxSpec

(***************************************************************************)
(* A websocket writes a message at most once more than the relay accepted  *)
(* it: the backlog, pending and the channel never add a second extra copy. *)
(***************************************************************************)
THEOREM GatewayAtMostOneExtraCopy == GatewaySpec => []Promise!AtMostOneExtraCopy
BY GatewayKeepsPromise, Promise!MailboxAtMostOneExtraCopy, PTL

(***************************************************************************)
(* A message is written to websockets of its recipient's device only,      *)
(* whichever sessions replaced each other while it was on its way.         *)
(***************************************************************************)
THEOREM GatewayOnlyToRecipient == GatewaySpec => []Promise!OnlyToRecipient
BY GatewayKeepsPromise, Promise!MailboxOnlyToRecipient, PTL

=============================================================================
