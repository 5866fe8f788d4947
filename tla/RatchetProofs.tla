---------------------------- MODULE RatchetProofs ----------------------------
(***************************************************************************)
(* Ratchet, for every value of its limits: the properties its run checks,  *)
(* and that it implements SecureChannel.                                   *)
(*                                                                         *)
(* The invariants are not inductive: they follow from where the keys come  *)
(* from.  Every chain key the receiver holds has been derived as often as  *)
(* its counter says, so the key it keeps or derives for a counter is the   *)
(* one the sender sealed that counter's packet under; and the same is true *)
(* of the receiver that a saved snapshot holds.                            *)
(***************************************************************************)
EXTENDS Ratchet, TLAPS

Sealed(c) == [chain |-> c, counter |-> c]

\* The receiver r with history o: chain and counter in step, every key kept is
\* the sender's, and o is what the packets sent and the kept keys say.
Consistent(r, o) ==
    /\ IsReceiver(r)
    /\ o \in Histories
    /\ r.state.chain = r.state.counter
    /\ \A c \in DOMAIN r.skipped : r.skipped[c] = Sealed(c)
    /\ \A c \in Counters :
        \/ o[c] = <<>> /\ (c < r.state.counter => c \in DOMAIN r.skipped)
        \/ /\ o[c] = <<Sealed(c)>>
           /\ c < r.state.counter
           /\ c \notin DOMAIN r.skipped

\* The sender is in step until its last counter, and what it has sent carries
\* a counter it has left behind, sealed under that counter's key.
SenderInv ==
    /\ sender \in States
    /\ sender.counter < MaxCounter => sender.chain = sender.counter
    /\ \A p \in sent : /\ p.counter \in Counters
                       /\ p.counter < sender.counter
                       /\ p = [counter |-> p.counter, body |-> Sealed(p.counter)]

SavedInv ==
    saved = NoSnapshot \/ \E r : saved = Snapshot(r) /\ Consistent(r, savedOpened)

Inv ==
    /\ SenderInv
    /\ Consistent(receiver, opened)
    /\ savedOpened \in Histories
    /\ SavedInv

\* The key of a counter is a key of the session.
LEMMA SealedType == ASSUME NEW c \in Counters PROVE Sealed(c) \in MessageKeys
  BY RatchetBounds DEF Sealed, MessageKeys, Counters

\* Reading a snapshot back gives the receiver it was taken of.
LEMMA SnapshotRoundTrip ==
    ASSUME NEW r, IsReceiver(r)
    PROVE  FromSnapshot(Snapshot(r)) = r
<1> DEFINE es == Snapshot(r).entries
<1>1. es = {[counter |-> c, key |-> r.skipped[c]] : c \in DOMAIN r.skipped}
  BY DEF Snapshot
<1>2. {e.counter : e \in es} = DOMAIN r.skipped
  <2>1. \A c \in DOMAIN r.skipped : [counter |-> c, key |-> r.skipped[c]] \in es
    BY <1>1
  <2>2. \A e \in es : e.counter \in DOMAIN r.skipped
    BY <1>1
  <2> HIDE DEF es
  <2>3. \A c \in DOMAIN r.skipped : \E e \in es : e.counter = c
    BY <2>1
  <2>4. \A x : x \in {e.counter : e \in es} <=> \E e \in es : x = e.counter
    OBVIOUS
  <2>5. \A x : x \in {e.counter : e \in es} <=> x \in DOMAIN r.skipped
    BY <2>2, <2>3, <2>4
  <2> DEFINE cs == {e.counter : e \in es}
  <2>6. \A x : x \in cs <=> x \in DOMAIN r.skipped
    BY <2>5
  <2> HIDE DEF cs
  <2>7. cs = DOMAIN r.skipped
    BY <2>6
  <2> QED
    BY <2>7 DEF cs
<1>3. ASSUME NEW c \in DOMAIN r.skipped
      PROVE  (CHOOSE e \in es : e.counter = c).key = r.skipped[c]
  <2>1. [counter |-> c, key |-> r.skipped[c]] \in es
    BY <1>1
  <2>2. \A e \in es : e.counter = c => e.key = r.skipped[c]
    BY <1>1
  <2> HIDE DEF es
  <2>3. \E e \in es : e.counter = c
    BY <2>1
  <2> QED
    BY <2>2, <2>3
<1>4. Snapshot(r).state = r.state
  BY DEF Snapshot
<1>5. r.skipped = [c \in DOMAIN r.skipped |-> r.skipped[c]]
  BY DEF IsReceiver
<1>6. FromSnapshot(Snapshot(r)).skipped = [c \in DOMAIN r.skipped |-> r.skipped[c]]
  <2> HIDE DEF es
  <2>1. FromSnapshot(Snapshot(r)).skipped
            = [c \in {e.counter : e \in es} |-> (CHOOSE e \in es : e.counter = c).key]
    BY DEF FromSnapshot, es
  <2> DEFINE keyOf(c) == (CHOOSE e \in es : e.counter = c).key
  <2>2. FromSnapshot(Snapshot(r)).skipped = [c \in DOMAIN r.skipped |-> keyOf(c)]
    BY <2>1, <1>2
  <2>3. \A c \in DOMAIN r.skipped : keyOf(c) = r.skipped[c]
    BY <1>3
  <2> HIDE DEF keyOf
  <2> QED
    BY <2>2, <2>3
<1>7. FromSnapshot(Snapshot(r)) = [state |-> r.state, skipped |-> r.skipped]
  BY <1>4, <1>5, <1>6 DEF FromSnapshot
<1> QED
  BY <1>7 DEF IsReceiver

\* A snapshot is never the mark for no snapshot.
LEMMA SnapshotType ==
    ASSUME NEW r, IsReceiver(r)
    PROVE  Snapshot(r) \in Snapshots /\ Snapshot(r) # NoSnapshot
<1>1. \A c \in DOMAIN r.skipped : c \in Counters /\ r.skipped[c] \in MessageKeys
  BY RatchetBounds DEF IsReceiver, States, Counters
<1>2. Snapshot(r) \in Snapshots
  BY <1>1 DEF Snapshot, Snapshots, IsReceiver
<1> QED
  BY <1>2, ValuesDistinct

\* A packet opens only under the counter its key was derived for, and only
\* when nothing was opened under it.
LEMMA OpenedIsNew ==
    ASSUME NEW r, NEW o, Consistent(r, o), NEW c \in Counters, NEW body,
           Result(r, c, body) = "Opened"
    PROVE  /\ body = Sealed(c)
           /\ o[c] = <<>>
           /\ c < MaxCounter
<1>1. Error(r, c) = "none" /\ body = KeyFor(r, c)
  BY DEF Result, Error
<1>2. r.state \in States /\ r.state.chain = r.state.counter
  BY DEF Consistent, IsReceiver
<1>3. CASE c < r.state.counter
  <2>1. c \in DOMAIN r.skipped
    BY <1>1, <1>3 DEF Error
  <2> QED
    BY <2>1, <1>1, <1>2, <1>3, RatchetBounds DEF KeyFor, Consistent, States, Counters
<1>4. CASE ~(c < r.state.counter)
  <2>1. c # MaxCounter
    BY <1>1, <1>4 DEF Error
  <2>2. KeyFor(r, c) = Sealed(c)
    BY <1>2, <1>4, RatchetBounds DEF KeyFor, KeyAt, Sealed, States, Counters
  <2>3. o[c] = <<>>
    BY <1>4 DEF Consistent
  <2> QED
    BY <2>1, <2>2, <2>3, <1>1, RatchetBounds DEF Counters
<1> QED
  BY <1>3, <1>4

\* Opening a packet keeps a receiver consistent with its history: the keys of
\* the counters it jumps over are the sender's, and the one it used is gone.
LEMMA OpeningConsistent ==
    ASSUME NEW r, NEW o, Consistent(r, o), NEW c \in Counters, NEW body,
           Result(r, c, body) = "Opened"
    PROVE  Consistent(Candidate(r, c), [o EXCEPT ![c] = Append(@, body)])
<1> DEFINE q == Candidate(r, c)
           h == [o EXCEPT ![c] = Append(@, body)]
<1>1. body = Sealed(c) /\ o[c] = <<>> /\ c < MaxCounter
  BY OpenedIsNew
<1>2. body \in MessageKeys
  BY <1>1, SealedType
<1>3. h \in Histories /\ h[c] = <<body>> /\ \A d \in Counters \ {c} : h[d] = o[d]
  BY <1>1, <1>2 DEF Histories, Consistent
<1>4. /\ r.state.chain = r.state.counter /\ r.state.counter \in Counters
      /\ \A d \in DOMAIN r.skipped :
           d \in 0 .. (r.state.counter - 1) /\ r.skipped[d] = Sealed(d)
  BY DEF Consistent, IsReceiver, States
<1> HIDE DEF h
<1>5. CASE c < r.state.counter
  <2>1. q.state = r.state /\ q.skipped = [k \in DOMAIN r.skipped \ {c} |-> r.skipped[k]]
    BY <1>5 DEF Candidate, Consistent, IsReceiver
  <2>2. q = [state |-> q.state, skipped |-> q.skipped]
    BY <1>5, <2>1 DEF Candidate, Consistent, IsReceiver
  <2> HIDE DEF q
  <2>3. DOMAIN q.skipped = DOMAIN r.skipped \ {c}
    BY <2>1
  <2>4. \A d \in DOMAIN q.skipped : q.skipped[d] = Sealed(d) /\ q.skipped[d] \in MessageKeys
    <3> SUFFICES ASSUME NEW d \in DOMAIN q.skipped
                 PROVE  q.skipped[d] = Sealed(d) /\ q.skipped[d] \in MessageKeys
      OBVIOUS
    <3>1. d \in DOMAIN r.skipped /\ q.skipped[d] = r.skipped[d]
      BY <2>1, <2>3
    <3>2. r.skipped[d] = Sealed(d) /\ r.skipped[d] \in MessageKeys
      BY <3>1, <1>4 DEF Consistent, IsReceiver
    <3> QED
      BY <3>1, <3>2
  <2>5. IsReceiver(q)
    BY <2>1, <2>2, <2>3, <2>4, <1>4 DEF Consistent, IsReceiver
  <2>6. ASSUME NEW d \in Counters
        PROVE  \/ h[d] = <<>> /\ (d < q.state.counter => d \in DOMAIN q.skipped)
               \/ h[d] = <<Sealed(d)>> /\ d < q.state.counter /\ d \notin DOMAIN q.skipped
    BY <2>1, <2>3, <1>1, <1>3, <1>5 DEF Consistent
  <2>7. Consistent(q, h)
    BY <2>1, <2>4, <2>5, <2>6, <1>3, <1>4 DEF Consistent
  <2> QED
    BY <2>7 DEF q, h
<1>6. CASE ~(c < r.state.counter)
  <2>1. /\ q.state = [chain   |-> r.state.chain + (c - r.state.counter) + 1,
                      counter |-> c + 1]
        /\ q.skipped = [k \in DOMAIN r.skipped \cup PassedOver(r, c) |->
                          IF k \in PassedOver(r, c) THEN KeyAt(r.state, k) ELSE r.skipped[k]]
        /\ q = [state |-> q.state, skipped |-> q.skipped]
    BY <1>6 DEF Candidate
  <2>2. q.state = Sealed(c + 1) /\ q.state \in States
    BY <2>1, <1>1, <1>4, RatchetBounds DEF Sealed, States, Counters
  <2> HIDE DEF q
  <2>3. \A d \in PassedOver(r, c) : d \in Counters /\ KeyAt(r.state, d) = Sealed(d)
    <3> SUFFICES ASSUME NEW d \in PassedOver(r, c)
                 PROVE  d \in Counters /\ KeyAt(r.state, d) = Sealed(d)
      OBVIOUS
    <3>1. d \in Nat /\ d < c /\ r.state.counter \in Nat /\ c \in Nat /\ c <= MaxCounter
      BY <1>4, RatchetBounds DEF PassedOver, Counters
    <3>2. r.state.chain + (d - r.state.counter) = d
      BY <3>1, <1>4
    <3> QED
      BY <3>1, <3>2, RatchetBounds DEF KeyAt, Sealed, Counters
  <2>4. DOMAIN q.skipped = DOMAIN r.skipped \cup PassedOver(r, c)
    BY <2>1
  <2>5. \A d \in DOMAIN q.skipped : q.skipped[d] = Sealed(d) /\ d \in 0 .. c
    BY <2>1, <2>3, <2>4, <1>4, <1>6 DEF PassedOver, Counters
  <2>6. \A d \in DOMAIN q.skipped : q.skipped[d] \in MessageKeys
    BY <2>5, <1>1, RatchetBounds, SealedType DEF Counters
  <2>7. c \notin DOMAIN q.skipped
    BY <2>4, <1>4, <1>6 DEF PassedOver, Counters
  <2>8. q.state.counter = c + 1 /\ q.state.chain = c + 1
    BY <2>2 DEF Sealed
  <2>9. IsReceiver(q)
    <3>1. q.skipped \in [DOMAIN q.skipped -> MessageKeys]
      BY <2>1, <2>4, <2>6
    <3>2. DOMAIN q.skipped \subseteq 0 .. (q.state.counter - 1)
      BY <2>5, <2>8 DEF Counters
    <3> QED
      BY <2>1, <2>2, <3>1, <3>2 DEF IsReceiver
  <2>10. ASSUME NEW d \in Counters
         PROVE  \/ h[d] = <<>> /\ (d < q.state.counter => d \in DOMAIN q.skipped)
                \/ h[d] = <<Sealed(d)>> /\ d < q.state.counter /\ d \notin DOMAIN q.skipped
    <3>1. CASE d = c
      BY <3>1, <2>7, <2>8, <1>1, <1>3 DEF Counters
    <3>2. CASE d # c /\ d < r.state.counter
      BY <3>2, <2>4, <2>8, <1>3, <1>4, <1>6 DEF Consistent, PassedOver, Counters
    <3>3. CASE d # c /\ ~(d < r.state.counter)
      <4>1. h[d] = <<>>
        BY <3>3, <1>3 DEF Consistent
      <4>2. d < c + 1 => d \in PassedOver(r, c)
        BY <3>3, <1>4 DEF PassedOver, Counters
      <4> QED
        BY <4>1, <4>2, <2>4, <2>8
    <3> QED
      BY <3>1, <3>2, <3>3
  <2>11. Consistent(q, h)
    BY <2>5, <2>8, <2>9, <2>10, <1>3 DEF Consistent
  <2> QED
    BY <2>11 DEF q, h
<1> QED
  BY <1>5, <1>6

-----------------------------------------------------------------------------
LEMMA InitInv == Init => Inv
<1> SUFFICES ASSUME Init PROVE Inv
  OBVIOUS
<1>1. SenderInv
  BY RatchetBounds DEF Init, SenderInv, FromRoot, States, Counters
<1>2. opened \in Histories /\ \A c \in Counters : opened[c] = <<>>
  BY DEF Init, Histories
<1>3. /\ receiver.state = FromRoot /\ DOMAIN receiver.skipped = {}
      /\ receiver = [state |-> receiver.state, skipped |-> receiver.skipped]
      /\ receiver.skipped \in [DOMAIN receiver.skipped -> MessageKeys]
  BY DEF Init
<1>4. Consistent(receiver, opened)
  BY <1>2, <1>3, RatchetBounds DEF Consistent, IsReceiver, FromRoot, States, Counters
<1> QED
  BY <1>1, <1>2, <1>4 DEF Init, Inv, SavedInv

\* Encrypting seals the packet of the sender's counter under that counter's
\* key and leaves the counter behind.
LEMMA EncryptInv == ASSUME Inv, Encrypt PROVE SenderInv'
<1>1. /\ sender \in States /\ sender.counter < MaxCounter /\ sender.chain = sender.counter
      /\ sender.chain < MaxChain
  BY RatchetBounds DEF Inv, SenderInv, Encrypt, Exhausted, States, Counters
<1>2. sender' = Sealed(sender.counter + 1)
  BY <1>1 DEF Encrypt, Advance, Exhausted, Sealed
<1>3. sender'.counter = sender.counter + 1 /\ sender'.chain = sender.counter + 1
  BY <1>2 DEF Sealed
<1>4. KeyAt(sender, sender.counter) = Sealed(sender.counter)
  <2>1. sender.chain + (sender.counter - sender.counter) = sender.counter
    BY <1>1, RatchetBounds DEF States, Counters
  <2> QED
    BY <2>1 DEF KeyAt, Sealed
<1>5. sent' = sent \cup {[counter |-> sender.counter, body |-> Sealed(sender.counter)]}
  BY <1>4 DEF Encrypt
<1>6. sender' \in States
  BY <1>1, <1>2, RatchetBounds DEF Sealed, States, Counters
<1>7. ASSUME NEW p \in sent'
      PROVE  /\ p.counter \in Counters
             /\ p.counter < sender'.counter
             /\ p = [counter |-> p.counter, body |-> Sealed(p.counter)]
  <2>1. CASE p \in sent
    BY <2>1, <1>1, <1>3, RatchetBounds DEF Inv, SenderInv, States, Counters
  <2>2. CASE p = [counter |-> sender.counter, body |-> Sealed(sender.counter)]
    BY <2>2, <1>1, <1>3, RatchetBounds DEF States, Counters
  <2> QED
    BY <2>1, <2>2, <1>5
<1> QED
  BY <1>3, <1>6, <1>7 DEF SenderInv

\* A failed encryption advances the chain, in step except at the last counter.
LEMMA EncryptFailsInv == ASSUME Inv, EncryptFails PROVE SenderInv'
<1>1. sender \in States /\ sender.chain < MaxChain /\ sent' = sent
  BY DEF Inv, SenderInv, EncryptFails
<1>2. sender' = [chain |-> sender.chain + 1,
                 counter |-> IF Exhausted(sender) THEN sender.counter ELSE sender.counter + 1]
  BY DEF EncryptFails, Advance
<1>3. sender'.chain = sender.chain + 1 /\ sender' \in States
  BY <1>1, <1>2, RatchetBounds DEF Exhausted, States, Counters
<1>4. CASE Exhausted(sender)
  <2>1. sender'.counter = sender.counter /\ sender.counter = MaxCounter
    BY <1>2, <1>4 DEF Exhausted
  <2> QED
    BY <2>1, <1>1, <1>3, RatchetBounds DEF Inv, SenderInv
<1>5. CASE ~Exhausted(sender)
  <2>1. sender'.counter = sender.counter + 1 /\ sender.counter < MaxCounter
    BY <1>1, <1>2, <1>5, RatchetBounds DEF Exhausted, States, Counters
  <2>2. \A p \in sent : p.counter \in Counters /\ p.counter < sender'.counter
    BY <2>1, <1>1, RatchetBounds DEF Inv, SenderInv, States, Counters
  <2> QED
    BY <2>1, <2>2, <1>1, <1>3 DEF Inv, SenderInv
<1> QED
  BY <1>4, <1>5

\* Every step keeps the inductive invariant.
LEMMA StepInv == ASSUME Inv, [Next]_vars PROVE Inv'
<1>1. CASE Encrypt
  BY <1>1, EncryptInv DEF Inv, SavedInv, Encrypt
<1>2. CASE EncryptFails
  BY <1>2, EncryptFailsInv DEF Inv, SavedInv, EncryptFails
<1>3. ASSUME NEW header \in Headers, NEW body \in OnTheNet, Decrypt(header, body)
      PROVE  Inv'
  <2>1. header \in Counters /\ Result(receiver, header, body) = "Opened"
    BY <1>3 DEF Decrypt, Opens, Headers
  <2>2. Consistent(receiver', opened')
    BY <1>3, <2>1, OpeningConsistent DEF Decrypt, Inv
  <2> QED
    BY <1>3, <2>2 DEF Inv, SenderInv, SavedInv, Decrypt
<1>4. ASSUME NEW header \in Headers, NEW body \in OnTheNet, Reject(header, body)
      PROVE  Inv'
  BY <1>4 DEF Inv, SenderInv, SavedInv, Reject, vars
<1>5. CASE Save
  BY <1>5 DEF Inv, SenderInv, SavedInv, Save, Consistent
<1>6. CASE SaveRefused
  BY <1>6 DEF Inv, SenderInv, SavedInv, SaveRefused, vars
<1>7. CASE Restart
  <2>1. PICK r : saved = Snapshot(r) /\ Consistent(r, savedOpened)
    BY <1>7 DEF Restart, Inv, SavedInv
  <2>2. receiver' = r
    BY <1>7, <2>1, SnapshotRoundTrip DEF Restart, Consistent
  <2> QED
    BY <1>7, <2>1, <2>2 DEF Inv, SenderInv, SavedInv, Restart
<1>8. CASE UNCHANGED vars
  BY <1>8 DEF Inv, SenderInv, SavedInv, vars
<1> QED
  BY <1>1, <1>2, <1>3, <1>4, <1>5, <1>6, <1>7, <1>8 DEF Next

\* The keys of the receiver and of the saved snapshot are the sender's, in
\* every reachable state.
THEOREM RatchetInvariant == Spec => []Inv
  BY InitInv, StepInv, PTL DEF Spec

-----------------------------------------------------------------------------
\* The state, the network and the histories stay well typed.
THEOREM RatchetTypeCorrect == Spec => []TypeOK
<1>1. Inv => TypeOK
  <2> SUFFICES ASSUME Inv PROVE TypeOK
    OBVIOUS
  <2>1. sent \subseteq [counter : Counters, body : MessageKeys]
    BY SealedType DEF Inv, SenderInv
  <2>2. saved \in Snapshots \cup {NoSnapshot}
    BY SnapshotType DEF Inv, SavedInv, Consistent
  <2> QED
    BY <2>1, <2>2 DEF Inv, SenderInv, Consistent, TypeOK
<1> QED
  BY <1>1, RatchetInvariant, PTL

\* Every counter the receiver has passed was opened once or its key is kept.
THEOREM RatchetAccounts == Spec => []EveryCounterAccountedFor
<1>1. Inv => EveryCounterAccountedFor
  <2> SUFFICES ASSUME Inv, NEW c \in Counters
               PROVE  IF c < receiver.state.counter
                      THEN Len(opened[c]) = (IF c \in DOMAIN receiver.skipped THEN 0 ELSE 1)
                      ELSE opened[c] = <<>>
    BY DEF EveryCounterAccountedFor
  <2>1. Consistent(receiver, opened)
    BY DEF Inv
  <2>2. \/ opened[c] = <<>> /\ (c < receiver.state.counter => c \in DOMAIN receiver.skipped)
        \/ /\ opened[c] = <<Sealed(c)>>
           /\ c < receiver.state.counter
           /\ c \notin DOMAIN receiver.skipped
    BY <2>1 DEF Consistent
  <2>3. Len(<<>>) = 0 /\ Len(<<Sealed(c)>>) = 1
    OBVIOUS
  <2>4. CASE c < receiver.state.counter /\ c \in DOMAIN receiver.skipped
    BY <2>2, <2>3, <2>4
  <2>5. CASE c < receiver.state.counter /\ c \notin DOMAIN receiver.skipped
    <3>1. opened[c] = <<Sealed(c)>>
      BY <2>2, <2>5
    <3>2. Len(opened[c]) = 1
      BY <3>1, <2>3
    <3> QED
      BY <3>2, <2>5
  <2>6. CASE ~(c < receiver.state.counter)
    BY <2>2, <2>6
  <2> QED
    BY <2>4, <2>5, <2>6
<1> QED
  BY <1>1, RatchetInvariant, PTL

\* A packet the sender sent opens unless it did before or is too far ahead.
THEOREM RatchetAnswers == Spec => []GenuineAnswered
<1>1. Inv => GenuineAnswered
  <2> SUFFICES ASSUME Inv, NEW p \in sent
               PROVE  Result(receiver, p.counter, p.body) =
                        IF opened[p.counter] # <<>> THEN "Replay"
                        ELSE IF p.counter > receiver.state.counter + MaxSkip THEN "TooFarAhead"
                        ELSE "Opened"
    BY DEF GenuineAnswered
  <2> DEFINE c == p.counter
             n == receiver.state.counter
  <2>1. c \in Counters /\ p.body = Sealed(c) /\ c < MaxCounter
    BY RatchetBounds DEF Inv, SenderInv, States, Counters
  <2>2. Consistent(receiver, opened) /\ n \in Counters
    BY DEF Inv, Consistent, IsReceiver, States
  <2>3. c \in Nat /\ n \in Nat /\ MaxSkip \in Nat
    BY <2>1, <2>2, RatchetBounds DEF Counters
  <2>4. \/ opened[c] = <<>> /\ (c < n => c \in DOMAIN receiver.skipped)
        \/ opened[c] = <<Sealed(c)>> /\ c < n /\ c \notin DOMAIN receiver.skipped
    BY <2>1, <2>2 DEF Consistent
  <2>5. CASE c < n /\ c \in DOMAIN receiver.skipped
    <3>1. KeyFor(receiver, c) = Sealed(c) /\ opened[c] = <<>>
      BY <2>2, <2>4, <2>5 DEF KeyFor, Consistent
    <3>2. ~(c > n + MaxSkip)
      BY <2>3, <2>5
    <3> QED
      BY <3>1, <3>2, <2>1, <2>5 DEF Result, Error
  <2>6. CASE c < n /\ c \notin DOMAIN receiver.skipped
    <3>1. opened[c] # <<>>
      <4>1. opened[c] = <<Sealed(c)>> /\ Len(<<Sealed(c)>>) = 1 /\ Len(<<>>) = 0
        BY <2>4, <2>6
      <4> QED
        BY <4>1
    <3> QED
      BY <3>1, <2>6 DEF Result, Error
  <2>7. CASE ~(c < n)
    <3>1. KeyAt(receiver.state, c) = Sealed(c)
      <4>1. receiver.state.chain + (c - n) = c
        BY <2>2, <2>3 DEF Consistent
      <4> QED
        BY <4>1 DEF KeyAt, Sealed
    <3>2. opened[c] = <<>> /\ KeyFor(receiver, c) = p.body
      BY <2>1, <2>4, <2>7, <3>1 DEF KeyFor
    <3>3. c - n > MaxSkip <=> c > n + MaxSkip
      BY <2>3
    <3>4. c # MaxCounter
      BY <2>1, <2>3, RatchetBounds
    <3> QED
      BY <3>2, <3>3, <3>4, <2>7 DEF Result, Error
  <2> QED
    BY <2>5, <2>6, <2>7
<1> QED
  BY <1>1, RatchetInvariant, PTL

-----------------------------------------------------------------------------
\* Every step of the ratchet is a step of the channel, or none.
LEMMA StepRefines == ASSUME Inv, [Next]_vars PROVE [Channel!Next]_(Channel!vars)
<1> USE DEF Channel!Next, Channel!vars
<1>1. CASE Encrypt
  <2> DEFINE c == sender.counter
  <2>1. c \in Counters /\ KeyAt(sender, c) = Sealed(c)
    <3>1. sender \in States /\ sender.chain = c /\ c \in Nat
      BY <1>1, RatchetBounds DEF Inv, SenderInv, Encrypt, Exhausted, States, Counters
    <3>2. sender.chain + (c - c) = c
      BY <3>1
    <3> QED
      BY <3>1, <3>2 DEF KeyAt, Sealed, States
  <2>2. \A p \in sent : p.counter # c
    BY <2>1, RatchetBounds DEF Inv, SenderInv, Counters
  <2>3. Sealed(c) \in MessageKeys
    BY <2>1, SealedType
  <2>4. Channel!Send(c, Sealed(c))
    BY <1>1, <2>1, <2>2 DEF Encrypt, Channel!Send
  <2> QED
    BY <2>1, <2>3, <2>4
<1>2. CASE EncryptFails
  BY <1>2 DEF EncryptFails
<1>3. ASSUME NEW header \in Headers, NEW body \in OnTheNet, Decrypt(header, body)
      PROVE  Channel!Next
  <2>1. header \in Counters /\ Result(receiver, header, body) = "Opened"
    BY <1>3 DEF Decrypt, Opens, Headers
  <2>2. body = Sealed(header) /\ opened[header] = <<>>
    BY <2>1, OpenedIsNew DEF Inv
  <2>3. body # Junk
    BY <2>1, <2>2, SealedType, ValuesDistinct
  <2>4. PICK p \in sent : p.body = body
    BY <2>3 DEF OnTheNet
  <2>5. p.counter = header
    <3>1. p.body = Sealed(p.counter)
      BY DEF Inv, SenderInv
    <3> QED
      BY <3>1, <2>2, <2>4 DEF Sealed
  <2>6. Append(<<>>, body) = <<body>>
    OBVIOUS
  <2>7. opened' = [opened EXCEPT ![p.counter] = <<p.body>>]
    BY <1>3, <2>2, <2>4, <2>5, <2>6 DEF Decrypt
  <2>8. Channel!Deliver(p)
    BY <1>3, <2>2, <2>5, <2>7 DEF Decrypt, Channel!Deliver
  <2> QED
    BY <2>8
<1>4. ASSUME NEW header \in Headers, NEW body \in OnTheNet, Reject(header, body)
      PROVE  UNCHANGED Channel!vars
  BY <1>4 DEF Reject, vars
<1>5. CASE Save
  <2>1. saved' # NoSnapshot
    BY <1>5, SnapshotType DEF Save, Inv, Consistent
  <2>2. Channel!Save
    BY <1>5, <2>1 DEF Save, Channel!Save
  <2> QED
    BY <2>2
<1>6. CASE SaveRefused
  BY <1>6 DEF SaveRefused, vars
<1>7. CASE Restart
  <2>1. saved # NoSnapshot /\ savedOpened # NoSnapshot
    BY <1>7, ValuesDistinct DEF Restart, Inv
  <2>2. Channel!Restore
    BY <1>7, <2>1 DEF Restart, Channel!Restore
  <2> QED
    BY <2>2
<1>8. CASE UNCHANGED vars
  BY <1>8 DEF vars
<1> QED
  BY <1>1, <1>2, <1>3, <1>4, <1>5, <1>6, <1>7, <1>8 DEF Next

\* The ratchet implements the channel: a body is opened only as it was sent,
\* at most once in a history of the receiver, and a counter carries one body.
THEOREM RatchetImplementsChannel == Spec => ImplementsChannel
<1>1. Init => Channel!Init
  BY DEF Init, Channel!Init
<1>2. Inv /\ [Next]_vars => [Channel!Next]_(Channel!vars)
  BY StepRefines
<1> QED
  BY <1>1, <1>2, RatchetInvariant, PTL DEF Spec, ImplementsChannel, Channel!Spec
=============================================================================
