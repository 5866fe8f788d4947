------------------------ MODULE DurableReceiverProofs ------------------------
(***************************************************************************)
(* The journal and the client that keeps its receiving ratchet in it, for  *)
(* any writers, payloads, limits and packets.                              *)
(*                                                                         *)
(* The journal: a writer between create_new and rename owns its temporary  *)
(* file, so what is renamed is the whole record of that save; a confirmed  *)
(* generation is on disk whatever a crash undoes; and every file that does *)
(* not authenticate is one of the corruptions that were counted.           *)
(*                                                                         *)
(* The client: every payload that can be loaded is the snapshot of a       *)
(* receiver that refuses only packets that were opened, and while no save  *)
(* overlaps another and no file is corrupted, a later generation refuses   *)
(* all that a confirmed earlier one refuses.                               *)
(***************************************************************************)
EXTENDS DurableReceiver, FiniteSetTheorems, WellFoundedInduction, TLAPS

-----------------------------------------------------------------------------
(* The journal *)

Holding == {"write", "sync", "rename"}

SavedBy(w) == [generation |-> gen[w], payload |-> saving[w]]

(* Between create_new and rename the temporary file belongs to its writer *)
OwnedBy(w) ==
    /\ pc[w] # "idle" => saving[w] \in Payloads
    /\ pc[w] \in Holding => gen[w] \in DOMAIN tmp
    /\ pc[w] \in {"sync", "rename"} => tmp[gen[w]].content = SavedBy(w)
    /\ pc[w] = "rename" => tmp[gen[w]].synced
    /\ pc[w] = "syncdir" => gen[w] \in DOMAIN bin

Owned ==
    /\ \A w \in Writers : OwnedBy(w)
    /\ \A w, v \in Writers :
        w # v /\ pc[w] \in Holding /\ pc[v] \in Holding => gen[w] # gen[v]

(* A committed file is synced, and names its generation or was corrupted *)
Filed(f) ==
    \A g \in DOMAIN f :
        f[g].synced /\ (f[g].content = Damaged \/ f[g].content.generation = g)

Committed ==
    /\ Filed(bin) /\ Filed(durable)
    /\ DOMAIN durable \subseteq DOMAIN bin
    /\ \A r \in promised : r.generation \in DOMAIN durable

(* The generations a corruption has reached, on disk or as they may be *)
(* again after a crash                                                 *)
SpoiltIn(f) == {g \in DOMAIN f : f[g].content = Damaged}
Spoilt == SpoiltIn(bin) \cup SpoiltIn(durable)

DamageCounted == Cardinality(Spoilt) <= corruptions

JournalInv == TypeOK /\ Owned /\ Committed /\ DamageCounted

-----------------------------------------------------------------------------
(* The client *)

(* The packets the receiver r refuses as replays *)
Refused(r) == 0 .. (r.state.counter - 1) \ DOMAIN r.skipped

InStep(r, done) ==
    /\ R!IsReceiver(r)
    /\ r.state.chain = r.state.counter
    /\ Refused(r) \subseteq done

(* p is the snapshot of such a receiver *)
Genuine(p, done) == InStep(R!FromSnapshot(p), done) /\ R!Snapshot(R!FromSnapshot(p)) = p

GenuineIn(f, done) ==
    \A g \in DOMAIN f : f[g].content # Damaged => Genuine(f[g].content.payload, done)

ClientKept ==
    /\ receiver = Lost \/ InStep(receiver, opened)
    /\ Running # {} => receiver # Lost
    /\ \A w \in Running : Genuine(saving[w], opened)
    /\ GenuineIn(bin, opened) /\ GenuineIn(durable, opened)
    /\ opened \subseteq Packets
    /\ overlapped \in BOOLEAN

(* The payloads of later generations refuse what an earlier payload refuses *)
LaterKnow(f, r) ==
    \A g \in DOMAIN f :
        g >= r.generation => OpenedIn(r.payload) \subseteq OpenedIn(f[g].content.payload)

Linear ==
    (~overlapped /\ corruptions = 0) =>
        /\ \A w, v \in Running : w = v
        /\ \A w \in Running :
            /\ OpenedIn(saving[w]) \subseteq Refused(receiver)
            /\ pc[w] # "syncdir" => \A g \in DOMAIN bin : g < gen[w]
            /\ pc[w] = "syncdir" => /\ \A g \in DOMAIN bin : g <= gen[w]
                                    /\ bin[gen[w]].content = SavedBy(w)
        /\ \A r \in promised :
            /\ receiver # Lost => OpenedIn(r.payload) \subseteq Refused(receiver)
            /\ \A w \in Running : OpenedIn(r.payload) \subseteq OpenedIn(saving[w])
            /\ LaterKnow(bin, r) /\ LaterKnow(durable, r)

DurableInv == JournalInv /\ ClientKept /\ Linear

-----------------------------------------------------------------------------
(* Generations and files *)

Less == {p \in Nat \X Nat : p[1] < p[2]}

LEMMA LessWellFounded == IsWellFoundedOn(Less, Nat)
<1>1. OpToRel(<, Nat) = Less
  BY DEF OpToRel, Less
<1> QED
  BY <1>1, NatLessThanWellFounded

(* The newest of some generations *)
LEMMA NewestOf ==
    ASSUME NEW S \in SUBSET Generations, S # {}
    PROVE  Max(S) \in S /\ \A g \in S : Max(S) >= g
<1> DEFINE n == MaxGeneration
           T == {n - g : g \in S}
<1>1. n \in Nat /\ \A g \in S : g \in Nat /\ g <= n /\ n - g \in Nat
  BY JournalConstants DEF Generations
<1>2. T \subseteq Nat /\ T # {}
  BY <1>1
<1> HIDE DEF T, n
<1>3. PICK t \in T : \A u \in T : ~(<<u, t>> \in Less)
  BY <1>2, LessWellFounded, WFMin
<1>4. PICK x \in S : t = n - x
  BY DEF T
<1>5. ASSUME NEW g \in S PROVE x >= g
  <2>1. n - g \in T /\ n - g \in Nat /\ t \in Nat
    BY <1>1, <1>2 DEF T
  <2>2. ~(n - g < t)
    BY <1>3, <2>1 DEF Less
  <2> QED
    BY <1>1, <1>4, <2>1, <2>2
<1> QED
  BY <1>5 DEF Max

LEMMA NextIsNewer ==
    ASSUME TypeOK
    PROVE  NextGeneration \in Nat /\ \A g \in DOMAIN bin : g < NextGeneration
<1>1. DOMAIN bin \in SUBSET Generations /\ Generations \subseteq Nat
  BY JournalConstants DEF TypeOK, Files, Generations
<1>2. CASE DOMAIN bin = {}
  BY <1>2 DEF NextGeneration
<1>3. CASE DOMAIN bin # {}
  BY <1>1, <1>3, NewestOf DEF NextGeneration
<1> QED
  BY <1>2, <1>3

(* A file whose content, or whose synced flag, is set *)
LEMMA FileRewritten ==
    ASSUME NEW f \in File, NEW x \in Content
    PROVE  LET h == [f EXCEPT !.content = x] IN h \in File /\ h.content = x /\ h.synced = f.synced
<1>1. ASSUME NEW B, NEW h \in [content : Content, synced : B]
      PROVE  LET k == [h EXCEPT !.content = x]
             IN  k \in [content : Content, synced : B] /\ k.content = x /\ k.synced = h.synced
  OBVIOUS
<1> QED
  BY <1>1 DEF File

LEMMA FileSynced ==
    ASSUME NEW f \in File
    PROVE  LET h == [f EXCEPT !.synced = TRUE] IN h \in File /\ h.content = f.content /\ h.synced
<1>1. ASSUME NEW B, NEW b \in B, NEW h \in [content : Content, synced : B]
      PROVE  LET k == [h EXCEPT !.synced = b]
             IN  k \in [content : Content, synced : B] /\ k.content = h.content /\ k.synced = b
  OBVIOUS
<1> QED
  BY <1>1 DEF File

LEMMA AfterCrashFacts ==
    ASSUME NEW f \in File
    PROVE  /\ AfterCrash(f) \in File /\ AfterCrash(f).synced
           /\ f.synced => AfterCrash(f).content = f.content
BY DEF AfterCrash, File, Content

(* One file is put among others *)
LEMMA PutFacts ==
    ASSUME NEW f, NEW k, NEW v
    PROVE  /\ DOMAIN Put(f, k, v) = DOMAIN f \cup {k}
           /\ Put(f, k, v)[k] = v
           /\ \A x \in DOMAIN f \ {k} : Put(f, k, v)[x] = f[x]
BY DEF Put

(* The record of a save *)
LEMMA SavedIsRecord ==
    ASSUME TypeOK, Owned, NEW w \in Writers, pc[w] # "idle"
    PROVE  /\ SavedBy(w) \in Record /\ SavedBy(w) \in Content /\ SavedBy(w) # Damaged
           /\ SavedBy(w).generation = gen[w] /\ SavedBy(w).payload = saving[w]
<1>1. gen[w] \in Generations /\ saving[w] \in Payloads
  BY DEF TypeOK, Owned, OwnedBy
<1>2. SavedBy(w) \in Record
  BY <1>1 DEF SavedBy, Record
<1> QED
  BY <1>2, DamagedIsNoRecord DEF Content, SavedBy

LEMMA SpoiltFinite ==
    ASSUME TypeOK
    PROVE  IsFiniteSet(Spoilt) /\ Cardinality(Spoilt) \in Nat /\ corruptions \in Nat
<1>1. Spoilt \subseteq Generations /\ IsFiniteSet(Generations)
  BY JournalConstants, FS_Interval DEF Spoilt, SpoiltIn, TypeOK, Files, Generations
<1>2. IsFiniteSet(Spoilt)
  BY <1>1, FS_Subset
<1> QED
  BY <1>2, FS_CardinalityType, JournalConstants DEF TypeOK

LEMMA DamageKept ==
    ASSUME TypeOK, DamageCounted, Spoilt' \subseteq Spoilt, corruptions' = corruptions
    PROVE  DamageCounted'
<1>1. Cardinality(Spoilt') <= Cardinality(Spoilt) /\ IsFiniteSet(Spoilt')
  BY SpoiltFinite, FS_Subset
<1>2. Cardinality(Spoilt') \in Nat
  BY <1>1, FS_CardinalityType
<1> QED
  BY <1>1, <1>2, SpoiltFinite DEF DamageCounted

-----------------------------------------------------------------------------
(* The journal: every step keeps its invariant *)

LEMMA JournalInit == Init => JournalInv
<1> SUFFICES ASSUME Init PROVE JournalInv
  OBVIOUS
<1>1. DOMAIN bin = {} /\ DOMAIN tmp = {} /\ DOMAIN durable = {}
  BY DEF Init
<1>2. TypeOK
  BY <1>1, JournalConstants DEF Init, TypeOK, Files, Stages, Generations
<1>3. Owned
  BY DEF Init, Owned, OwnedBy, Holding
<1>4. Committed
  BY <1>1 DEF Init, Committed, Filed
<1>5. DamageCounted
  <2>1. Spoilt = {}
    BY <1>1 DEF Spoilt, SpoiltIn
  <2> QED
    BY <2>1, FS_EmptySet DEF Init, DamageCounted
<1> QED
  BY <1>2, <1>3, <1>4, <1>5 DEF JournalInv

(* save begins *)
LEMMA ChooseJournal ==
    ASSUME JournalInv, NEW w \in Writers, NEW payload \in Payloads, Choose(w, payload)
    PROVE  JournalInv'
<1> USE DEF JournalInv
<1>1. /\ pc[w] = "idle" /\ NextGeneration \in Generations
      /\ gen' = [gen EXCEPT ![w] = NextGeneration]
      /\ saving' = [saving EXCEPT ![w] = payload]
      /\ pc' = [pc EXCEPT ![w] = "create"]
      /\ UNCHANGED <<bin, tmp, durable>> /\ UNCHANGED <<promised, crashes, corruptions>>
  BY NextIsNewer, JournalConstants DEF Choose, Begin, files, Generations
<1>2. TypeOK'
  BY <1>1 DEF TypeOK, Stages
<1>3. \A v \in Writers \ {w} : pc'[v] = pc[v] /\ gen'[v] = gen[v] /\ saving'[v] = saving[v]
  BY <1>1 DEF TypeOK
<1>4. pc'[w] = "create" /\ saving'[w] = payload
  BY <1>1 DEF TypeOK
<1>5. Owned'
  <2>1. \A v \in Writers : OwnedBy(v)'
    BY <1>1, <1>3, <1>4 DEF Owned, OwnedBy, Holding, SavedBy
  <2> QED
    BY <1>3, <1>4, <2>1 DEF Owned, Holding
<1>6. Committed' /\ Spoilt' = Spoilt
  BY <1>1 DEF Committed, Filed, Spoilt, SpoiltIn
<1> QED
  BY <1>1, <1>2, <1>5, <1>6, DamageKept

(* save returns, and leaves what it has written *)
LEMMA ReturnKeepsTypes ==
    ASSUME TypeOK, NEW w \in Writers, Return(w)
    PROVE  /\ pc' \in [Writers -> Stages] /\ gen' \in [Writers -> Generations]
           /\ saving' \in [Writers -> Payloads \cup {NoPayload}]
           /\ pc'[w] = "idle"
           /\ \A v \in Writers \ {w} : pc'[v] = pc[v] /\ gen'[v] = gen[v] /\ saving'[v] = saving[v]
BY JournalConstants DEF TypeOK, Return, Stages, Generations

LEMMA ReturnKeepsOwned ==
    ASSUME TypeOK, Owned, NEW w \in Writers, Return(w), UNCHANGED <<bin, tmp>>
    PROVE  Owned'
<1>1. \A v \in Writers : OwnedBy(v)'
  BY ReturnKeepsTypes DEF Owned, OwnedBy, Holding, SavedBy
<1> QED
  BY <1>1, ReturnKeepsTypes DEF Owned, Holding

LEMMA FailsJournal ==
    ASSUME JournalInv, NEW w \in Writers, Return(w),
           UNCHANGED <<files, promised, crashes, corruptions>>
    PROVE  JournalInv'
<1> USE DEF JournalInv
<1>1. UNCHANGED <<bin, tmp, durable>>
  BY DEF files
<1>2. TypeOK'
  BY <1>1, ReturnKeepsTypes DEF TypeOK
<1>3. Owned'
  BY <1>1, ReturnKeepsOwned
<1>4. Committed' /\ Spoilt' = Spoilt
  BY <1>1 DEF Committed, Filed, Spoilt, SpoiltIn
<1> QED
  BY <1>2, <1>3, <1>4, DamageKept

(* A step of w that only changes its temporary file *)
OwnFile(w) ==
    /\ UNCHANGED <<bin, durable, gen, saving, promised, crashes, corruptions>>
    /\ pc' \in [Writers -> Stages]
    /\ \A v \in Writers \ {w} : pc'[v] = pc[v]
    /\ Files(tmp)'
    /\ \A v \in Writers \ {w} :
          pc[v] \in Holding => gen[v] \in DOMAIN tmp' /\ tmp'[gen[v]] = tmp[gen[v]]

LEMMA OwnFileJournal ==
    ASSUME JournalInv, NEW w \in Writers, OwnFile(w), OwnedBy(w)',
           \A v \in Writers \ {w} : pc'[w] \in Holding /\ pc[v] \in Holding => gen[w] # gen[v]
    PROVE  JournalInv'
<1> USE DEF JournalInv, OwnFile
<1>1. TypeOK'
  BY DEF TypeOK, Files
<1>2. Owned'
  <2>1. \A v \in Writers \ {w} : OwnedBy(v)'
    BY DEF Owned, OwnedBy, Holding, SavedBy
  <2> QED
    BY <2>1 DEF Owned
<1>3. Committed' /\ Spoilt' = Spoilt
  BY DEF Committed, Filed, Spoilt, SpoiltIn
<1> QED
  BY <1>1, <1>2, <1>3, DamageKept

LEMMA CreateJournal ==
    ASSUME JournalInv, NEW w \in Writers, Create(w)
    PROVE  JournalInv'
<1> USE DEF JournalInv
<1> DEFINE torn == [content |-> Damaged, synced |-> FALSE]
<1>1. /\ pc[w] = "create" /\ gen[w] \notin DOMAIN tmp
      /\ tmp' = Put(tmp, gen[w], torn) /\ pc' = [pc EXCEPT ![w] = "write"]
      /\ UNCHANGED <<bin, durable, gen, saving, promised, crashes, corruptions>>
  BY DEF Create
<1>2. torn \in File
  BY DEF File, Content
<1> HIDE DEF torn
<1>3. /\ DOMAIN tmp' = DOMAIN tmp \cup {gen[w]} /\ tmp'[gen[w]] = torn
      /\ \A g \in DOMAIN tmp : tmp'[g] = tmp[g]
  BY <1>1 DEF Put
<1>4. gen[w] \in Generations /\ pc'[w] = "write" /\ saving[w] \in Payloads
  BY <1>1 DEF TypeOK, Owned, OwnedBy
<1>5. Files(tmp)'
  BY <1>2, <1>3, <1>4 DEF TypeOK, Files
<1>6. OwnFile(w)
  <2>1. pc' \in [Writers -> Stages] /\ \A v \in Writers \ {w} : pc'[v] = pc[v]
    BY <1>1 DEF TypeOK, Stages
  <2>2. \A v \in Writers \ {w} :
          pc[v] \in Holding => gen[v] \in DOMAIN tmp' /\ tmp'[gen[v]] = tmp[gen[v]]
    BY <1>3 DEF Owned, OwnedBy
  <2> QED
    BY <1>1, <1>5, <2>1, <2>2 DEF OwnFile
<1>7. OwnedBy(w)'
  BY <1>1, <1>3, <1>4 DEF OwnedBy
<1>8. \A v \in Writers \ {w} : pc[v] \in Holding => gen[w] # gen[v]
  BY <1>1 DEF Owned, OwnedBy
<1> QED
  BY <1>6, <1>7, <1>8, OwnFileJournal

(* The file of a writer is rewritten in place *)
LEMMA RewriteJournal ==
    ASSUME JournalInv, NEW w \in Writers, NEW f \in File, NEW stage \in {"sync", "rename"},
           pc[w] \in Holding, f.content = SavedBy(w), stage = "rename" => f.synced,
           tmp' = [tmp EXCEPT ![gen[w]] = f], pc' = [pc EXCEPT ![w] = stage],
           UNCHANGED <<bin, durable, gen, saving, promised, crashes, corruptions>>
    PROVE  JournalInv'
<1> USE DEF JournalInv
<1>1. gen[w] \in DOMAIN tmp /\ pc[w] # "idle" /\ stage \in Holding /\ stage \in Stages
  BY DEF Owned, OwnedBy, Holding, Stages
<1>2. /\ DOMAIN tmp' = DOMAIN tmp /\ tmp'[gen[w]] = f
      /\ \A g \in DOMAIN tmp \ {gen[w]} : tmp'[g] = tmp[g]
  BY <1>1
<1>3. pc' \in [Writers -> Stages] /\ pc'[w] = stage /\ \A v \in Writers \ {w} : pc'[v] = pc[v]
  BY <1>1 DEF TypeOK
<1>4. \A v \in Writers \ {w} : pc[v] \in Holding => gen[w] # gen[v]
  BY DEF Owned
<1>5. OwnFile(w)
  <2>1. Files(tmp)'
    BY <1>2 DEF TypeOK, Files
  <2>2. \A v \in Writers \ {w} :
          pc[v] \in Holding => gen[v] \in DOMAIN tmp' /\ tmp'[gen[v]] = tmp[gen[v]]
    BY <1>2, <1>4 DEF Owned, OwnedBy
  <2> QED
    BY <1>3, <2>1, <2>2 DEF OwnFile
<1>6. OwnedBy(w)'
  <2>1. saving[w] \in Payloads
    BY <1>1 DEF Owned, OwnedBy
  <2> QED
    BY <1>1, <1>2, <1>3, <2>1 DEF OwnedBy, SavedBy, Holding
<1> QED
  BY <1>4, <1>5, <1>6, OwnFileJournal

LEMMA WriteJournal ==
    ASSUME JournalInv, NEW w \in Writers, Write(w)
    PROVE  JournalInv'
<1> USE DEF JournalInv
<1> DEFINE f == tmp[gen[w]]
           h == [f EXCEPT !.content = SavedBy(w)]
<1>1. pc[w] = "write" /\ gen[w] \in DOMAIN tmp /\ f \in File
  BY DEF Write, Owned, OwnedBy, Holding, TypeOK, Files
<1>2. SavedBy(w) \in Content
  BY <1>1, SavedIsRecord
<1>3. h \in File /\ h.content = SavedBy(w)
  <2> HIDE DEF f
  <2> QED
    BY <1>1, <1>2, FileRewritten
<1>4. tmp' = [tmp EXCEPT ![gen[w]] = h] /\ pc' = [pc EXCEPT ![w] = "sync"]
  BY DEF Write, SavedBy
<1>5. UNCHANGED <<bin, durable, gen, saving, promised, crashes, corruptions>>
  BY DEF Write
<1> HIDE DEF h
<1> QED
  BY <1>1, <1>3, <1>4, <1>5, RewriteJournal DEF Holding

LEMMA SyncJournal ==
    ASSUME JournalInv, NEW w \in Writers, Sync(w)
    PROVE  JournalInv'
<1> USE DEF JournalInv
<1> DEFINE f == tmp[gen[w]]
           h == [f EXCEPT !.synced = TRUE]
<1>1. pc[w] = "sync" /\ gen[w] \in DOMAIN tmp /\ f \in File /\ f.content = SavedBy(w)
  BY DEF Sync, Owned, OwnedBy, Holding, TypeOK, Files
<1>2. h \in File /\ h.content = SavedBy(w) /\ h.synced
  <2> HIDE DEF f
  <2> QED
    BY <1>1, FileSynced
<1>3. tmp' = [tmp EXCEPT ![gen[w]] = h] /\ pc' = [pc EXCEPT ![w] = "rename"]
  BY DEF Sync
<1>4. UNCHANGED <<bin, durable, gen, saving, promised, crashes, corruptions>>
  BY DEF Sync
<1> HIDE DEF h
<1> QED
  BY <1>1, <1>2, <1>3, <1>4, RewriteJournal DEF Holding

(* What the rename does to the two directories *)
LEMMA RenameFacts ==
    ASSUME TypeOK, Owned, NEW w \in Writers, Rename(w)
    PROVE  /\ DOMAIN bin' = DOMAIN bin \cup {gen[w]}
           /\ bin'[gen[w]] \in File /\ bin'[gen[w]].content = SavedBy(w) /\ bin'[gen[w]].synced
           /\ \A g \in DOMAIN bin \ {gen[w]} : bin'[g] = bin[g]
           /\ DOMAIN tmp' = DOMAIN tmp \ {gen[w]} /\ \A g \in DOMAIN tmp' : tmp'[g] = tmp[g]
<1>1. pc[w] = "rename" /\ gen[w] \in DOMAIN tmp
  BY DEF Rename, Owned, OwnedBy, Holding
<1>2. tmp[gen[w]] \in File /\ tmp[gen[w]].content = SavedBy(w) /\ tmp[gen[w]].synced
  BY <1>1 DEF Owned, OwnedBy, TypeOK, Files
<1>3. bin' = Put(bin, gen[w], tmp[gen[w]])
  BY DEF Rename
<1>4. tmp' = [g \in DOMAIN tmp \ {gen[w]} |-> tmp[g]]
  BY DEF Rename, Restrict
<1>5. DOMAIN tmp' = DOMAIN tmp \ {gen[w]} /\ \A g \in DOMAIN tmp' : tmp'[g] = tmp[g]
  BY <1>4
<1>6. /\ DOMAIN bin' = DOMAIN bin \cup {gen[w]} /\ bin'[gen[w]] = tmp[gen[w]]
      /\ \A g \in DOMAIN bin \ {gen[w]} : bin'[g] = bin[g]
  BY <1>3 DEF Put
<1> QED
  BY <1>2, <1>5, <1>6

LEMMA RenameJournal ==
    ASSUME JournalInv, NEW w \in Writers, Rename(w)
    PROVE  JournalInv'
<1> USE DEF JournalInv
<1>1. /\ pc[w] = "rename" /\ pc' = [pc EXCEPT ![w] = "syncdir"]
      /\ UNCHANGED <<durable, gen, saving, promised, crashes, corruptions>>
  BY DEF Rename
<1>2. gen[w] \in Generations /\ pc'[w] = "syncdir" /\ \A v \in Writers \ {w} : pc'[v] = pc[v]
  BY <1>1 DEF TypeOK
<1>3. SavedBy(w) # Damaged /\ SavedBy(w).generation = gen[w]
  BY <1>1, SavedIsRecord
<1>renamed. /\ DOMAIN bin' = DOMAIN bin \cup {gen[w]}
            /\ bin'[gen[w]] \in File /\ bin'[gen[w]].content = SavedBy(w) /\ bin'[gen[w]].synced
            /\ \A g \in DOMAIN bin \ {gen[w]} : bin'[g] = bin[g]
            /\ DOMAIN tmp' = DOMAIN tmp \ {gen[w]} /\ \A g \in DOMAIN tmp' : tmp'[g] = tmp[g]
  BY RenameFacts
<1>4. TypeOK'
  <2>1. Files(bin)' /\ Files(tmp)'
    BY <1>2, <1>renamed DEF TypeOK, Files
  <2> QED
    BY <1>1, <2>1 DEF TypeOK, Stages, Files
<1>5. Owned'
  <2>1. ASSUME NEW v \in Writers \ {w} PROVE OwnedBy(v)'
    <3>1. pc[v] \in Holding => gen[v] # gen[w]
      BY <1>1 DEF Owned, Holding
    <3> QED
      BY <1>1, <1>2, <3>1, <1>renamed DEF Owned, OwnedBy, Holding, SavedBy
  <2>2. OwnedBy(w)'
    BY <1>1, <1>2, <1>renamed DEF Owned, OwnedBy, Holding
  <2> QED
    BY <1>1, <1>2, <2>1, <2>2 DEF Owned, Holding
<1>6. Committed'
  BY <1>1, <1>3, <1>renamed DEF Committed, Filed
<1>7. Spoilt' \subseteq Spoilt
  BY <1>1, <1>3, <1>renamed DEF Spoilt, SpoiltIn
<1> QED
  BY <1>1, <1>4, <1>5, <1>6, <1>7, DamageKept

LEMMA SyncDirectoryJournal ==
    ASSUME JournalInv, NEW w \in Writers, SyncDirectory(w)
    PROVE  JournalInv'
<1> USE DEF JournalInv
<1>1. /\ pc[w] = "syncdir" /\ Return(w) /\ promised' = promised \cup {SavedBy(w)}
      /\ durable' = bin /\ UNCHANGED <<bin, tmp, crashes, corruptions>>
  BY DEF SyncDirectory, Confirm, SavedBy
<1>2. SavedBy(w) \in Record /\ SavedBy(w).generation = gen[w] /\ gen[w] \in DOMAIN bin
  BY <1>1, SavedIsRecord DEF Owned, OwnedBy
<1>3. TypeOK'
  BY <1>1, <1>2, ReturnKeepsTypes DEF TypeOK, Files
<1>4. Owned'
  BY <1>1, ReturnKeepsOwned
<1>5. Committed'
  BY <1>1, <1>2 DEF Committed, Filed
<1>6. Spoilt' \subseteq Spoilt
  BY <1>1 DEF Spoilt, SpoiltIn
<1> QED
  BY <1>1, <1>3, <1>4, <1>5, <1>6, DamageKept

(* After a crash a committed file is the one before, or the one last synced *)
LEMMA CrashFacts ==
    ASSUME TypeOK, Committed, Crash
    PROVE  /\ durable' = bin' /\ DOMAIN durable \subseteq DOMAIN bin' /\ DOMAIN bin' \subseteq DOMAIN bin
           /\ \A g \in DOMAIN bin' :
                /\ bin'[g] \in File /\ bin'[g].synced
                /\ \/ bin'[g].content = bin[g].content
                   \/ g \in DOMAIN durable /\ bin'[g].content = durable[g].content
           /\ Files(tmp)'
           /\ promised' = promised /\ corruptions' = corruptions /\ crashes' \in 0 .. MaxCrashes
           /\ pc' = [w \in Writers |-> "idle"] /\ gen' = [w \in Writers |-> 0]
           /\ saving' = [w \in Writers |-> NoPayload]
<1>1. PICK undone \in SUBSET Loose : \E vanished \in SUBSET (undone \cup DOMAIN tmp) :
        /\ bin' = [g \in (DOMAIN bin \ undone) \cup DOMAIN durable |->
                      AfterCrash(IF g \in undone THEN durable[g] ELSE bin[g])]
        /\ tmp' = [g \in (DOMAIN tmp \cup undone) \ vanished |->
                      AfterCrash(IF g \in DOMAIN tmp THEN tmp[g] ELSE bin[g])]
  BY DEF Crash
<1>2. PICK vanished \in SUBSET (undone \cup DOMAIN tmp) :
        /\ bin' = [g \in (DOMAIN bin \ undone) \cup DOMAIN durable |->
                      AfterCrash(IF g \in undone THEN durable[g] ELSE bin[g])]
        /\ tmp' = [g \in (DOMAIN tmp \cup undone) \ vanished |->
                      AfterCrash(IF g \in DOMAIN tmp THEN tmp[g] ELSE bin[g])]
  BY <1>1
<1>3. /\ DOMAIN durable \subseteq DOMAIN bin /\ undone \subseteq DOMAIN bin
      /\ DOMAIN bin \subseteq Generations /\ DOMAIN tmp \subseteq Generations
      /\ \A g \in DOMAIN bin : bin[g] \in File /\ bin[g].synced
      /\ \A g \in DOMAIN durable : durable[g] \in File /\ durable[g].synced
      /\ \A g \in DOMAIN tmp : tmp[g] \in File
  BY DEF TypeOK, Files, Committed, Filed, Loose
<1>4. DOMAIN bin' = (DOMAIN bin \ undone) \cup DOMAIN durable
  BY <1>2
<1>5. ASSUME NEW g \in DOMAIN bin'
      PROVE  /\ bin'[g] \in File /\ bin'[g].synced
             /\ \/ bin'[g].content = bin[g].content
                \/ g \in DOMAIN durable /\ bin'[g].content = durable[g].content
  <2>1. CASE g \in undone
    <3>1. g \in DOMAIN durable /\ bin'[g] = AfterCrash(durable[g])
      BY <1>2, <1>4, <1>5, <2>1
    <3> QED
      BY <1>3, <3>1, AfterCrashFacts
  <2>2. CASE g \notin undone
    <3>1. g \in DOMAIN bin /\ bin'[g] = AfterCrash(bin[g])
      BY <1>2, <1>3, <1>4, <1>5, <2>2
    <3> QED
      BY <1>3, <3>1, AfterCrashFacts
  <2> QED
    BY <2>1, <2>2
<1>6. DOMAIN tmp' \subseteq Generations /\ \A g \in DOMAIN tmp' : tmp'[g] \in File
  <2>1. DOMAIN tmp' = (DOMAIN tmp \cup undone) \ vanished
    BY <1>2
  <2>2. ASSUME NEW g \in DOMAIN tmp' PROVE tmp'[g] \in File
    <3>1. CASE g \in DOMAIN tmp
      <4>1. tmp'[g] = AfterCrash(tmp[g])
        BY <1>2, <2>1, <3>1
      <4> QED
        BY <1>3, <3>1, <4>1, AfterCrashFacts
    <3>2. CASE g \notin DOMAIN tmp
      <4>1. g \in DOMAIN bin /\ tmp'[g] = AfterCrash(bin[g])
        BY <1>2, <1>3, <2>1, <3>2
      <4> QED
        BY <1>3, <4>1, AfterCrashFacts
    <3> QED
      BY <3>1, <3>2
  <2> QED
    BY <1>3, <2>1, <2>2
<1>7. crashes' \in 0 .. MaxCrashes
  BY JournalConstants DEF Crash, TypeOK
<1>8. durable' = bin' /\ DOMAIN durable \subseteq DOMAIN bin' /\ DOMAIN bin' \subseteq DOMAIN bin
  BY <1>3, <1>4 DEF Crash
<1> QED
  BY <1>5, <1>6, <1>7, <1>8 DEF Crash, Files

LEMMA CrashJournal ==
    ASSUME JournalInv, Crash
    PROVE  JournalInv'
<1> USE DEF JournalInv
<1>1. /\ durable' = bin' /\ DOMAIN durable \subseteq DOMAIN bin' /\ DOMAIN bin' \subseteq DOMAIN bin
      /\ \A g \in DOMAIN bin' :
            /\ bin'[g] \in File /\ bin'[g].synced
            /\ \/ bin'[g].content = bin[g].content
               \/ g \in DOMAIN durable /\ bin'[g].content = durable[g].content
      /\ Files(tmp)'
      /\ promised' = promised /\ corruptions' = corruptions /\ crashes' \in 0 .. MaxCrashes
      /\ pc' = [w \in Writers |-> "idle"] /\ gen' = [w \in Writers |-> 0]
      /\ saving' = [w \in Writers |-> NoPayload]
  BY CrashFacts
<1>2. TypeOK'
  <2>1. DOMAIN bin \subseteq Generations /\ promised \in SUBSET Record
        /\ corruptions \in 0 .. MaxCorruptions
    BY DEF TypeOK, Files
  <2>2. Files(bin)' /\ Files(durable)'
    BY <1>1, <2>1 DEF Files
  <2>3. 0 \in Generations /\ "idle" \in Stages
    BY JournalConstants DEF Generations, Stages
  <2> QED
    BY <1>1, <2>1, <2>2, <2>3 DEF TypeOK
<1>3. Owned'
  BY <1>1 DEF Owned, OwnedBy, Holding
<1>4. Committed'
  BY <1>1 DEF Committed, Filed
<1>5. Spoilt' \subseteq Spoilt
  BY <1>1 DEF Spoilt, SpoiltIn
<1> QED
  BY <1>1, <1>2, <1>3, <1>4, <1>5, DamageKept

(* A corruption spoils one generation *)
LEMMA CorruptFacts ==
    ASSUME TypeOK, Corrupt
    PROVE  /\ DOMAIN bin' = DOMAIN bin /\ DOMAIN durable' = DOMAIN durable
           /\ \E g \in DOMAIN bin :
                /\ bin'[g] \in File /\ bin'[g].content = Damaged /\ bin'[g].synced = bin[g].synced
                /\ \A x \in DOMAIN bin \ {g} : bin'[x] = bin[x]
                /\ \A x \in DOMAIN durable \ {g} : durable'[x] = durable[x]
                /\ g \in DOMAIN durable =>
                     /\ durable'[g] \in File /\ durable'[g].content = Damaged
                     /\ durable'[g].synced = durable[g].synced
<1>1. PICK g \in DOMAIN bin :
        /\ bin' = [bin EXCEPT ![g].content = Damaged]
        /\ durable' = IF g \in DOMAIN durable
                      THEN [durable EXCEPT ![g].content = Damaged]
                      ELSE durable
  BY DEF Corrupt
<1>2. Damaged \in Content /\ bin[g] \in File
  BY DEF Content, TypeOK, Files
<1> DEFINE f == [bin[g] EXCEPT !.content = Damaged]
           h == [durable[g] EXCEPT !.content = Damaged]
<1>3. f \in File /\ f.content = Damaged /\ f.synced = bin[g].synced
  BY <1>2, FileRewritten
<1>4. g \in DOMAIN durable => h \in File /\ h.content = Damaged /\ h.synced = durable[g].synced
  <2>1. g \in DOMAIN durable => durable[g] \in File
    BY DEF TypeOK, Files
  <2> QED
    BY <1>2, <2>1, FileRewritten
<1>5. bin' = [bin EXCEPT ![g] = f] /\ (g \in DOMAIN durable => durable' = [durable EXCEPT ![g] = h])
  BY <1>1
<1> HIDE DEF f, h
<1>6. DOMAIN durable' = DOMAIN durable /\ \A x \in DOMAIN durable \ {g} : durable'[x] = durable[x]
  BY <1>1, <1>5
<1>7. g \in DOMAIN durable => durable'[g] = h
  BY <1>5
<1>8. DOMAIN bin' = DOMAIN bin /\ bin'[g] = f /\ \A x \in DOMAIN bin \ {g} : bin'[x] = bin[x]
  BY <1>5
<1> QED
  BY <1>3, <1>4, <1>6, <1>7, <1>8

LEMMA CorruptJournal ==
    ASSUME JournalInv, Corrupt
    PROVE  JournalInv'
<1> USE DEF JournalInv
<1>1. DOMAIN bin' = DOMAIN bin /\ DOMAIN durable' = DOMAIN durable
  BY CorruptFacts
<1>2. PICK g \in DOMAIN bin :
        /\ bin'[g] \in File /\ bin'[g].content = Damaged /\ bin'[g].synced = bin[g].synced
        /\ \A x \in DOMAIN bin \ {g} : bin'[x] = bin[x]
        /\ \A x \in DOMAIN durable \ {g} : durable'[x] = durable[x]
        /\ g \in DOMAIN durable =>
             /\ durable'[g] \in File /\ durable'[g].content = Damaged
             /\ durable'[g].synced = durable[g].synced
  BY CorruptFacts
<1>3. /\ UNCHANGED <<tmp, pc, gen, saving, promised, crashes>>
      /\ corruptions \in Nat /\ corruptions' = corruptions + 1 /\ corruptions' \in 0 .. MaxCorruptions
  BY JournalConstants DEF Corrupt, local, TypeOK
<1>4. TypeOK'
  <2>1. Files(bin)'
    <3>1. \A x \in DOMAIN bin' : bin'[x] \in File
      BY <1>1, <1>2 DEF TypeOK, Files
    <3> QED
      BY <1>1, <3>1 DEF TypeOK, Files
  <2>2. Files(durable)'
    <3>1. \A x \in DOMAIN durable' : durable'[x] \in File
      BY <1>1, <1>2 DEF TypeOK, Files
    <3> QED
      BY <1>1, <3>1 DEF TypeOK, Files
  <2>3. Files(tmp)'
    BY <1>3 DEF TypeOK, Files
  <2> QED
    BY <1>3, <2>1, <2>2, <2>3 DEF TypeOK
<1>5. Owned'
  <2>1. \A w \in Writers : OwnedBy(w)'
    BY <1>1, <1>3 DEF Owned, OwnedBy, SavedBy
  <2> QED
    BY <1>3, <2>1 DEF Owned
<1>6. Committed'
  <2>1. Filed(bin)' /\ Filed(durable)'
    BY <1>1, <1>2 DEF Committed, Filed
  <2> QED
    BY <1>1, <1>3, <2>1 DEF Committed
<1>7. DamageCounted'
  <2>1. Spoilt' \subseteq Spoilt \cup {g}
    BY <1>1, <1>2 DEF Spoilt, SpoiltIn
  <2>2. /\ IsFiniteSet(Spoilt \cup {g})
        /\ Cardinality(Spoilt \cup {g}) <= Cardinality(Spoilt) + 1
        /\ Cardinality(Spoilt) \in Nat /\ Cardinality(Spoilt \cup {g}) \in Nat
    <3>1. IsFiniteSet(Spoilt) /\ Cardinality(Spoilt) \in Nat
      BY SpoiltFinite
    <3>2. IsFiniteSet(Spoilt \cup {g})
      BY <3>1, FS_AddElement
    <3>3. Cardinality(Spoilt \cup {g}) \in Nat
      BY <3>2, FS_CardinalityType
    <3>4. Cardinality(Spoilt \cup {g}) =
              IF g \in Spoilt THEN Cardinality(Spoilt) ELSE Cardinality(Spoilt) + 1
      BY <3>1, FS_AddElement
    <3> QED
      BY <3>1, <3>2, <3>3, <3>4
  <2>3. /\ IsFiniteSet(Spoilt') /\ Cardinality(Spoilt') <= Cardinality(Spoilt \cup {g})
        /\ Cardinality(Spoilt') \in Nat
    BY <2>1, <2>2, FS_Subset, FS_CardinalityType
  <2>4. Cardinality(Spoilt) <= corruptions
    BY DEF DamageCounted
  <2>5. Cardinality(Spoilt') <= corruptions'
    BY <1>3, <2>2, <2>3, <2>4
  <2> QED
    BY <2>5 DEF DamageCounted
<1> QED
  BY <1>4, <1>5, <1>6, <1>7

LEMMA StutterJournal == JournalInv /\ UNCHANGED vars => JournalInv'
BY DEF JournalInv, vars, files, local, TypeOK, Files, Owned, OwnedBy, SavedBy, Committed, Filed,
       DamageCounted, Spoilt, SpoiltIn

LEMMA JournalNext == JournalInv /\ [Next]_vars => JournalInv'
<1> SUFFICES ASSUME JournalInv, [Next]_vars PROVE JournalInv'
  OBVIOUS
<1>1. ASSUME NEW w \in Writers, SaveStep(w) PROVE JournalInv'
  <2>1. CASE GenerationOverflow(w)
    BY <2>1, StutterJournal DEF GenerationOverflow
  <2>2. CASE CreateExists(w) \/ OperationFails(w) \/ SyncDirectoryFails(w)
    BY <2>2, FailsJournal DEF CreateExists, OperationFails, SyncDirectoryFails
  <2> QED
    BY <1>1, <2>1, <2>2, CreateJournal, WriteJournal, SyncJournal, RenameJournal,
       SyncDirectoryJournal DEF SaveStep
<1> QED
  BY <1>1, ChooseJournal, CrashJournal, CorruptJournal, StutterJournal DEF Next

(***************************************************************************)
(* The inductive invariant of the journal: exclusive temporary files,      *)
(* confirmed generations on disk, and no damage that was not counted.      *)
(***************************************************************************)
THEOREM JournalInvariant == Spec => []JournalInv
BY JournalInit, JournalNext, PTL DEF Spec

(* The journal's files, the steps of its saves and its history keep their types. *)
THEOREM JournalTypeCorrect == Spec => []TypeOK
<1>1. JournalInv => TypeOK
  BY DEF JournalInv
<1> QED
  BY <1>1, JournalInvariant, PTL

(* More confirmed generations than corruptions leave one that can be loaded *)
LEMMA InvRecovers == JournalInv => RecoveryNeverGoesBack
<1> SUFFICES ASSUME JournalInv, NEW r \in promised,
                    Cardinality({s.generation : s \in {s \in promised : s.generation >= r.generation}})
                        > corruptions
             PROVE  Loadable # {} /\ Max(Loadable) >= r.generation
  BY DEF RecoveryNeverGoesBack
<1> DEFINE since == {s.generation : s \in {s \in promised : s.generation >= r.generation}}
<1>1. TypeOK /\ Committed /\ DamageCounted
  BY DEF JournalInv
<1>2. \E g \in since : g \notin Spoilt
  <2> SUFFICES ASSUME since \subseteq Spoilt PROVE FALSE
    OBVIOUS
  <2> HIDE DEF since
  <2>1. /\ IsFiniteSet(since) /\ Cardinality(since) <= Cardinality(Spoilt)
        /\ Cardinality(since) \in Nat
    BY <1>1, SpoiltFinite, FS_Subset, FS_CardinalityType
  <2>2. Cardinality(Spoilt) <= corruptions /\ Cardinality(Spoilt) \in Nat /\ corruptions \in Nat
    BY <1>1, SpoiltFinite DEF DamageCounted
  <2> QED
    BY <2>1, <2>2 DEF since
<1>3. PICK g \in since : g \notin Spoilt
  BY <1>2
<1>4. g \in DOMAIN bin /\ g >= r.generation
  BY <1>1, <1>3 DEF Committed
<1>5. g \in Loadable
  BY <1>1, <1>3, <1>4 DEF Loadable, Authentic, Committed, Filed, Spoilt, SpoiltIn
<1>6. Loadable \in SUBSET Generations
  BY <1>1 DEF Loadable, TypeOK, Files
<1>7. Max(Loadable) \in Loadable /\ Max(Loadable) >= g
  BY <1>5, <1>6, NewestOf
<1>8. r.generation \in Nat /\ g \in Nat /\ Max(Loadable) \in Nat
  <2>1. r \in Record
    BY <1>1 DEF TypeOK
  <2>2. Generations \subseteq Nat
    BY JournalConstants DEF Generations
  <2>3. r.generation \in Generations
    BY <2>1 DEF Record
  <2>4. g \in Generations /\ Max(Loadable) \in Generations
    BY <1>5, <1>6, <1>7
  <2> QED
    BY <2>2, <2>3, <2>4
<1> QED
  BY <1>4, <1>5, <1>7, <1>8

(***************************************************************************)
(* What save confirmed is never lost to a crash, to a save that failed or  *)
(* overlapped, or to fewer corruptions than there are later confirmations. *)
(***************************************************************************)
THEOREM JournalRecovers == Spec => []RecoveryNeverGoesBack
BY JournalInvariant, InvRecovers, PTL

-----------------------------------------------------------------------------
(* Receivers and their snapshots *)

\* The facts about snapshots of the ratchet alone
Alone == INSTANCE RatchetProofs WITH
    MaxChain <- MaxCounter + 1, Junk <- Damaged, Malformed <- Damaged, NoSnapshot <- NoPayload,
    sender <- 0, sent <- {}, saved <- NoPayload, savedOpened <- opened

LEMMA CountersAreNat ==
    /\ MaxCounter \in Nat /\ MaxSkip \in Nat
    /\ R!Counters = 0 .. MaxCounter /\ Packets \subseteq R!Counters
BY ReceiverConstants DEF R!RatchetBounds, R!Counters

LEMMA SnapshotReadBack ==
    ASSUME NEW r, R!IsReceiver(r)
    PROVE  R!FromSnapshot(R!Snapshot(r)) = r /\ R!Snapshot(r) \in Payloads
<1>1. Alone!IsReceiver(r)
  BY DEF R!IsReceiver, Alone!IsReceiver, R!States, Alone!States, R!MessageKeys, Alone!MessageKeys,
         R!Counters, Alone!Counters
<1>2. Alone!RatchetBounds /\ Alone!ValuesDistinct
  BY ReceiverConstants DEF R!RatchetBounds, Alone!RatchetBounds, R!ValuesDistinct,
     Alone!ValuesDistinct, R!Snapshots, R!Histories, R!MessageKeys, R!States, R!Counters,
     Alone!Snapshots, Alone!Histories, Alone!MessageKeys, Alone!States, Alone!Counters
<1>3. Alone!FromSnapshot(Alone!Snapshot(r)) = r /\ Alone!Snapshot(r) \in Alone!Snapshots
  BY <1>1, <1>2, Alone!SnapshotRoundTrip, Alone!SnapshotType
<1>4. R!FromSnapshot(R!Snapshot(r)) = r /\ R!Snapshot(r) \in R!Snapshots
  BY <1>3 DEF R!FromSnapshot, R!Snapshot, R!Snapshots, R!MessageKeys, R!States, R!Counters,
              Alone!FromSnapshot, Alone!Snapshot, Alone!Snapshots, Alone!MessageKeys,
              Alone!States, Alone!Counters
<1> QED
  BY <1>4, ReceiverConstants

LEMMA ReceiverIsNotLost == ASSUME NEW r, R!IsReceiver(r) PROVE r # Lost
<1>1. /\ r = [state |-> r.state, skipped |-> r.skipped] /\ r.state \in R!States
      /\ r.skipped \in [DOMAIN r.skipped -> R!MessageKeys]
      /\ DOMAIN r.skipped \subseteq 0 .. (r.state.counter - 1)
  BY DEF R!IsReceiver
<1>2. DOMAIN r.skipped \in SUBSET R!Counters
  BY <1>1, CountersAreNat DEF R!States
<1>3. r.skipped \in UNION {[D -> R!MessageKeys] : D \in SUBSET R!Counters}
  BY <1>1, <1>2
<1> QED
  BY <1>1, <1>3, ReceiverConstants DEF Receivers

\* What the snapshot p shows as opened is what its receiver refuses.
LEMMA OpenedInSnapshot == ASSUME NEW p PROVE OpenedIn(p) = Refused(R!FromSnapshot(p))
BY DEF OpenedIn, Refused, R!FromSnapshot

\* The receiver refuses as replays exactly the packets in Refused.
LEMMA ReplayIsRefused ==
    ASSUME NEW c \in Packets, R!IsReceiver(receiver)
    PROVE  ResultOf(c) = "Replay" <=> c \in Refused(receiver)
<1>1. c \in Nat /\ receiver.state.counter \in Nat
  BY CountersAreNat DEF R!IsReceiver, R!States
<1>2. ResultOf(c) = "Replay" <=> R!Error(receiver, c) = "Replay"
  BY DEF ResultOf, R!Result
<1>3. R!Error(receiver, c) = "Replay" <=>
          c < receiver.state.counter /\ c \notin DOMAIN receiver.skipped
  BY DEF R!Error
<1> QED
  BY <1>1, <1>2, <1>3 DEF Refused

\* A packet is opened when it is not refused, and from then on it is.
LEMMA Opening ==
    ASSUME NEW r, R!IsReceiver(r), r.state.chain = r.state.counter,
           NEW c \in Packets, R!Result(r, c, Packet(c)) = "Opened"
    PROVE  LET q == R!Candidate(r, c) IN
           /\ R!IsReceiver(q) /\ q.state.chain = q.state.counter
           /\ Refused(q) = Refused(r) \cup {c}
<1> DEFINE q == R!Candidate(r, c)
           n == r.state.counter
           D == DOMAIN r.skipped
<1>1. R!Error(r, c) = "none"
  BY DEF R!Result, R!Error
<1>2. c \in 0 .. MaxCounter /\ n \in 0 .. MaxCounter /\ MaxCounter \in Nat
  BY CountersAreNat DEF R!IsReceiver, R!States
<1>3. /\ r = [state |-> r.state, skipped |-> r.skipped] /\ r.state \in R!States
      /\ r.skipped \in [D -> R!MessageKeys] /\ D \subseteq 0 .. (n - 1)
  BY DEF R!IsReceiver
<1>4. CASE c < n
  <2>1. c \in D
    BY <1>1, <1>4 DEF R!Error
  <2>2. /\ q.state = r.state /\ q.skipped = [k \in D \ {c} |-> r.skipped[k]]
        /\ q = [state |-> q.state, skipped |-> q.skipped]
    BY <1>3, <1>4 DEF R!Candidate
  <2>3. DOMAIN q.skipped = D \ {c} /\ q.skipped \in [D \ {c} -> R!MessageKeys]
    BY <1>3, <2>2
  <2>4. R!IsReceiver(q)
    BY <1>3, <2>2, <2>3 DEF R!IsReceiver
  <2>5. Refused(q) = Refused(r) \cup {c}
    BY <1>2, <1>4, <2>1, <2>2, <2>3 DEF Refused
  <2> QED
    BY <2>2, <2>4, <2>5
<1>5. CASE ~(c < n)
  <2> DEFINE P == n .. (c - 1)
             h == [k \in D \cup P |-> IF k \in P THEN R!KeyAt(r.state, k) ELSE r.skipped[k]]
             s == [chain |-> r.state.chain + (c - n) + 1, counter |-> c + 1]
  <2>1. c # MaxCounter
    BY <1>1, <1>5 DEF R!Error
  <2>2. q = [state |-> s, skipped |-> h]
    BY <1>5 DEF R!Candidate, R!PassedOver
  <2>3. s \in R!States /\ s.chain = s.counter /\ s.counter = c + 1
    BY <1>2, <1>5, <2>1, CountersAreNat DEF R!States
  <2>4. \A k \in P : R!KeyAt(r.state, k) \in R!MessageKeys
    BY <1>2, <1>5, CountersAreNat DEF R!KeyAt, R!MessageKeys
  <2>5. h \in [D \cup P -> R!MessageKeys] /\ DOMAIN h = D \cup P
    BY <1>3, <2>4
  <2> HIDE DEF h, s
  <2>6. D \cup P \subseteq 0 .. (s.counter - 1)
    BY <1>2, <1>3, <1>5, <2>3
  <2>7. q.state = s /\ q.skipped = h
    BY <2>2
  <2>8. R!IsReceiver(q)
    BY <2>2, <2>3, <2>5, <2>6, <2>7 DEF R!IsReceiver
  <2>9. Refused(q) = Refused(r) \cup {c}
    <3>1. Refused(q) = 0 .. c \ (D \cup P)
      BY <1>2, <2>3, <2>5, <2>7 DEF Refused
    <3>2. Refused(r) = 0 .. (n - 1) \ D
      BY DEF Refused
    <3> QED
      BY <1>2, <1>3, <1>5, <3>1, <3>2
  <2> QED
    BY <2>3, <2>7, <2>8, <2>9
<1> QED
  BY <1>4, <1>5

LEMMA InStepGrows ==
    ASSUME NEW done, NEW more, done \subseteq more
    PROVE  /\ \A r : InStep(r, done) => InStep(r, more)
           /\ \A p : Genuine(p, done) => Genuine(p, more)
           /\ \A f : GenuineIn(f, done) => GenuineIn(f, more)
<1>1. \A r : InStep(r, done) => InStep(r, more)
  BY DEF InStep
<1>2. \A p : Genuine(p, done) => Genuine(p, more)
  BY <1>1 DEF Genuine
<1> QED
  BY <1>1, <1>2 DEF GenuineIn

LEMMA OwnSnapshot ==
    ASSUME NEW r, NEW done, InStep(r, done)
    PROVE  /\ Genuine(R!Snapshot(r), done) /\ R!Snapshot(r) \in Payloads
           /\ OpenedIn(R!Snapshot(r)) = Refused(r)
<1>1. R!IsReceiver(r)
  BY DEF InStep
<1> QED
  BY <1>1, SnapshotReadBack, OpenedInSnapshot DEF Genuine

-----------------------------------------------------------------------------
(* The client: every step keeps its invariant *)

LEMMA DurableStart == DurableInit => DurableInv
<1> SUFFICES ASSUME DurableInit PROVE DurableInv
  OBVIOUS
<1>1. JournalInv
  BY JournalInit DEF DurableInit
<1>2. /\ receiver = [state |-> [chain |-> 0, counter |-> 0], skipped |-> [c \in {} |-> Packet(c)]]
      /\ opened = {} /\ overlapped = FALSE /\ promised = {} /\ Running = {}
      /\ DOMAIN bin = {} /\ DOMAIN durable = {}
  BY DEF DurableInit, Init, R!FromRoot, Running
<1>3. InStep(receiver, opened)
  <2>1. R!IsReceiver(receiver)
    BY <1>2, CountersAreNat DEF R!IsReceiver, R!States
  <2>2. Refused(receiver) = {}
    BY <1>2 DEF Refused
  <2> QED
    BY <1>2, <2>1, <2>2 DEF InStep
<1>4. ClientKept
  BY <1>2, <1>3 DEF ClientKept, GenuineIn
<1>5. Linear
  BY <1>2 DEF Linear
<1> QED
  BY <1>1, <1>4, <1>5 DEF DurableInv

\* Steps that leave the files and the client alone, and of a save at most end it.
Quiet(w) ==
    \/ pc'[w] = "idle"
    \/ /\ pc[w] # "idle" /\ gen'[w] = gen[w] /\ saving'[w] = saving[w]
       /\ pc'[w] = "syncdir" <=> pc[w] = "syncdir"

LEMMA QuietStep ==
    ASSUME DurableInv, \A w \in Writers : Quiet(w),
           UNCHANGED <<bin, durable, promised, corruptions, receiver, opened, overlapped>>
    PROVE  ClientKept' /\ Linear'
<1>1. \A w \in Running' : /\ w \in Running /\ gen'[w] = gen[w] /\ saving'[w] = saving[w]
                          /\ pc'[w] = "syncdir" <=> pc[w] = "syncdir"
  BY DEF Running, Quiet
<1>2. ClientKept'
  BY <1>1 DEF DurableInv, ClientKept
<1>3. Linear'
  BY <1>1 DEF DurableInv, Linear, LaterKnow, SavedBy
<1> QED
  BY <1>2, <1>3

LEMMA OpenKeeps ==
    ASSUME DurableInv, NEW c \in Packets, Open(c)
    PROVE  ClientKept' /\ Linear'
<1>1. /\ receiver # Lost /\ R!Result(receiver, c, Packet(c)) = "Opened"
      /\ receiver' = R!Candidate(receiver, c) /\ opened' = opened \cup {c}
      /\ UNCHANGED <<bin, tmp, durable, pc, gen, saving, promised, corruptions, overlapped>>
  BY DEF Open, ResultOf, vars, files, local
<1>2. InStep(receiver, opened)
  BY <1>1 DEF DurableInv, ClientKept
<1>3. /\ R!IsReceiver(receiver') /\ receiver'.state.chain = receiver'.state.counter
      /\ Refused(receiver') = Refused(receiver) \cup {c}
  BY <1>1, <1>2, Opening DEF InStep
<1>4. InStep(receiver', opened')
  BY <1>1, <1>2, <1>3 DEF InStep
<1>5. receiver' # Lost
  BY <1>3, ReceiverIsNotLost
<1>6. Running' = Running
  BY <1>1 DEF Running
<1>7. ClientKept'
  <2>1. opened \subseteq opened' /\ opened' \subseteq Packets
    BY <1>1 DEF DurableInv, ClientKept
  <2>2. \A w \in Running : Genuine(saving[w], opened')
    BY <2>1, InStepGrows DEF DurableInv, ClientKept
  <2>3. GenuineIn(bin, opened') /\ GenuineIn(durable, opened')
    BY <2>1, InStepGrows DEF DurableInv, ClientKept
  <2> QED
    BY <1>1, <1>4, <1>5, <1>6, <2>1, <2>2, <2>3 DEF DurableInv, ClientKept
<1>8. Linear'
  <2> SUFFICES ASSUME ~overlapped, corruptions = 0 PROVE Linear'
    BY <1>1 DEF Linear
  <2>1. Refused(receiver) \subseteq Refused(receiver')
    BY <1>3
  <2> QED
    BY <1>1, <1>5, <1>6, <2>1 DEF DurableInv, Linear, LaterKnow, SavedBy
<1> QED
  BY <1>7, <1>8

LEMMA StartSaveKeeps ==
    ASSUME DurableInv, NEW w \in Writers, StartSave(w)
    PROVE  ClientKept' /\ Linear'
<1> DEFINE p == R!Snapshot(receiver)
<1>1. /\ receiver # Lost /\ pc[w] = "idle"
      /\ gen' = [gen EXCEPT ![w] = NextGeneration] /\ saving' = [saving EXCEPT ![w] = p]
      /\ pc' = [pc EXCEPT ![w] = "create"]
      /\ overlapped' = (overlapped \/ Running # {})
      /\ UNCHANGED <<bin, durable, promised, corruptions, receiver, opened>>
  BY DEF StartSave, Choose, Begin, files
<1>2. TypeOK /\ overlapped \in BOOLEAN
  BY DEF DurableInv, JournalInv, ClientKept
<1>3. /\ pc'[w] = "create" /\ gen'[w] = NextGeneration /\ saving'[w] = p
      /\ \A v \in Writers \ {w} : pc'[v] = pc[v] /\ gen'[v] = gen[v] /\ saving'[v] = saving[v]
  BY <1>1, <1>2 DEF TypeOK
<1>4. Genuine(p, opened) /\ OpenedIn(p) = Refused(receiver)
  BY <1>1, OwnSnapshot DEF DurableInv, ClientKept
<1> HIDE DEF p
<1>5. ClientKept'
  <2>1. \A v \in Running' : Genuine(saving'[v], opened)
    BY <1>3, <1>4 DEF DurableInv, ClientKept, Running
  <2>2. overlapped' \in BOOLEAN
    BY <1>1, <1>2
  <2> QED
    BY <1>1, <2>1, <2>2 DEF DurableInv, ClientKept
<1>6. Linear'
  <2> SUFFICES ASSUME ~overlapped', corruptions = 0 PROVE Linear'
    BY <1>1 DEF Linear
  <2>1. ~overlapped /\ Running = {}
    BY <1>1, <1>2
  <2>2. Running' = {w}
    BY <1>3, <2>1 DEF Running
  <2>3. \A g \in DOMAIN bin : g < gen'[w]
    BY <1>2, <1>3, NextIsNewer
  <2>4. \A r \in promised : /\ OpenedIn(r.payload) \subseteq Refused(receiver)
                            /\ LaterKnow(bin, r) /\ LaterKnow(durable, r)
    BY <1>1, <2>1 DEF DurableInv, Linear
  <2> QED
    BY <1>1, <1>3, <1>4, <2>2, <2>3, <2>4 DEF Linear
<1> QED
  BY <1>5, <1>6

LEMMA RenameKeeps ==
    ASSUME DurableInv, NEW w \in Writers, Rename(w), UNCHANGED clientVars
    PROVE  ClientKept' /\ Linear'
<1>1. /\ pc[w] = "rename" /\ pc' = [pc EXCEPT ![w] = "syncdir"]
      /\ UNCHANGED <<durable, gen, saving, promised, corruptions, receiver, opened, overlapped>>
  BY DEF Rename, clientVars
<1>2. JournalInv /\ TypeOK /\ Owned /\ w \in Running
  BY <1>1 DEF DurableInv, JournalInv, Running
<1>3. /\ DOMAIN bin' = DOMAIN bin \cup {gen[w]} /\ bin'[gen[w]].content = SavedBy(w)
      /\ \A g \in DOMAIN bin \ {gen[w]} : bin'[g] = bin[g]
  BY <1>2, RenameFacts
<1>4. SavedBy(w).payload = saving[w]
  BY DEF SavedBy
<1>5. Running' = Running /\ pc'[w] = "syncdir" /\ \A v \in Writers \ {w} : pc'[v] = pc[v]
  BY <1>1, <1>2 DEF Running, TypeOK
<1>6. ClientKept'
  <2>1. GenuineIn(bin', opened)
    BY <1>2, <1>3, <1>4 DEF DurableInv, ClientKept, GenuineIn
  <2> QED
    BY <1>1, <1>5, <2>1 DEF DurableInv, ClientKept
<1>7. Linear'
  <2> SUFFICES ASSUME ~overlapped, corruptions = 0 PROVE Linear'
    BY <1>1 DEF Linear
  <2>1. \A v \in Running : v = w
    BY <1>2 DEF DurableInv, Linear
  <2>2. /\ OpenedIn(saving[w]) \subseteq Refused(receiver)
        /\ \A g \in DOMAIN bin : g < gen[w]
    BY <1>1, <1>2 DEF DurableInv, Linear
  <2>3. gen[w] \in Nat
    BY <1>2, JournalConstants DEF TypeOK, Generations
  <2>4. \A g \in DOMAIN bin' : g <= gen[w]
    BY <1>2, <1>3, <2>2, <2>3, JournalConstants DEF TypeOK, Files, Generations
  <2>5. ASSUME NEW r \in promised
        PROVE  /\ receiver # Lost => OpenedIn(r.payload) \subseteq Refused(receiver)
               /\ OpenedIn(r.payload) \subseteq OpenedIn(saving[w])
               /\ LaterKnow(bin', r) /\ LaterKnow(durable, r)
    <3>1. /\ receiver # Lost => OpenedIn(r.payload) \subseteq Refused(receiver)
          /\ OpenedIn(r.payload) \subseteq OpenedIn(saving[w])
          /\ LaterKnow(bin, r) /\ LaterKnow(durable, r)
      BY <1>2 DEF DurableInv, Linear
    <3>2. LaterKnow(bin', r)
      BY <1>3, <1>4, <3>1 DEF LaterKnow
    <3> QED
      BY <3>1, <3>2
  <2>6. (SavedBy(w))' = SavedBy(w)
    BY <1>1 DEF SavedBy
  <2> QED
    BY <1>1, <1>3, <1>5, <2>1, <2>2, <2>4, <2>5, <2>6 DEF Linear
<1> QED
  BY <1>6, <1>7

LEMMA SyncDirectoryKeeps ==
    ASSUME DurableInv, NEW w \in Writers, SyncDirectory(w), UNCHANGED clientVars
    PROVE  ClientKept' /\ Linear'
<1>1. /\ pc[w] = "syncdir" /\ Return(w) /\ promised' = promised \cup {SavedBy(w)}
      /\ durable' = bin /\ UNCHANGED <<bin, corruptions, receiver, opened, overlapped>>
  BY DEF SyncDirectory, Confirm, SavedBy, clientVars
<1>2. JournalInv /\ TypeOK /\ w \in Running
  BY <1>1 DEF DurableInv, JournalInv, Running
<1>3. /\ pc'[w] = "idle"
      /\ \A v \in Writers \ {w} : pc'[v] = pc[v] /\ gen'[v] = gen[v] /\ saving'[v] = saving[v]
  BY <1>1, <1>2, ReturnKeepsTypes
<1>4. \A v \in Running' : v \in Running /\ v # w /\ saving'[v] = saving[v]
  BY <1>3 DEF Running
<1>5. ClientKept'
  BY <1>1, <1>4 DEF DurableInv, ClientKept
<1>6. Linear'
  <2> SUFFICES ASSUME ~overlapped, corruptions = 0 PROVE Linear'
    BY <1>1 DEF Linear
  <2>1. Running' = {}
    BY <1>2, <1>4 DEF DurableInv, Linear
  <2>2. /\ OpenedIn(saving[w]) \subseteq Refused(receiver)
        /\ \A g \in DOMAIN bin : g <= gen[w]
        /\ bin[gen[w]].content = SavedBy(w)
    BY <1>1, <1>2 DEF DurableInv, Linear
  <2>3. gen[w] \in Nat /\ \A g \in DOMAIN bin : g \in Nat
    BY <1>2, JournalConstants DEF TypeOK, Files, Generations
  <2>4. SavedBy(w).generation = gen[w] /\ SavedBy(w).payload = saving[w]
    BY DEF SavedBy
  <2>5. LaterKnow(bin, SavedBy(w))
    <3>1. \A g \in DOMAIN bin : g >= gen[w] => g = gen[w]
      BY <2>2, <2>3
    <3> QED
      BY <2>2, <2>4, <3>1 DEF LaterKnow
  <2>6. ASSUME NEW r \in promised
        PROVE  (receiver # Lost => OpenedIn(r.payload) \subseteq Refused(receiver)) /\ LaterKnow(bin, r)
    BY DEF DurableInv, Linear
  <2>7. ASSUME NEW r \in promised'
        PROVE  (receiver # Lost => OpenedIn(r.payload) \subseteq Refused(receiver)) /\ LaterKnow(bin, r)
    BY <1>1, <2>2, <2>4, <2>5, <2>6
  <2> QED
    BY <1>1, <2>1, <2>7 DEF Linear
<1> QED
  BY <1>5, <1>6

LEMMA CrashClientKeeps ==
    ASSUME DurableInv, CrashClient
    PROVE  ClientKept' /\ Linear'
<1>1. /\ receiver' = Lost /\ UNCHANGED <<opened, overlapped>>
      /\ TypeOK /\ Committed /\ Crash
  BY DEF CrashClient, DurableInv, JournalInv
<1>2. /\ durable' = bin' /\ DOMAIN bin' \subseteq DOMAIN bin
      /\ \A g \in DOMAIN bin' :
            \/ bin'[g].content = bin[g].content
            \/ g \in DOMAIN durable /\ bin'[g].content = durable[g].content
      /\ promised' = promised /\ corruptions' = corruptions
      /\ pc' = [w \in Writers |-> "idle"]
  BY <1>1, CrashFacts
<1>3. Running' = {}
  BY <1>2 DEF Running
<1>4. GenuineIn(bin', opened)
  BY <1>2 DEF DurableInv, ClientKept, GenuineIn
<1>5. ClientKept'
  BY <1>1, <1>2, <1>3, <1>4 DEF DurableInv, ClientKept
<1>6. Linear'
  <2> SUFFICES ASSUME ~overlapped, corruptions = 0 PROVE Linear'
    BY <1>1, <1>2 DEF Linear
  <2>1. \A r \in promised : LaterKnow(bin', r)
    BY <1>2 DEF DurableInv, Linear, LaterKnow
  <2> QED
    BY <1>1, <1>2, <1>3, <2>1 DEF Linear
<1> QED
  BY <1>5, <1>6

\* What is restored is the snapshot of a receiver, and no older than a
\* confirmed one.
LEMMA RecoverKeeps ==
    ASSUME DurableInv, Recover
    PROVE  ClientKept' /\ Linear'
<1> DEFINE m == Max(Loadable)
<1>1. /\ receiver = Lost /\ Loadable # {} /\ receiver' = R!FromSnapshot(Newest)
      /\ UNCHANGED <<bin, durable, pc, gen, saving, promised, corruptions, opened, overlapped>>
  BY DEF Recover, Restorable, vars, files, local
<1>2. TypeOK /\ Committed /\ DamageCounted
  BY DEF DurableInv, JournalInv
<1>3. m \in Loadable /\ \A g \in Loadable : m >= g
  BY <1>1, <1>2, NewestOf DEF Loadable, TypeOK, Files
<1>4. Genuine(Newest, opened)
  BY <1>3 DEF DurableInv, ClientKept, GenuineIn, Loadable, Authentic, Newest
<1>5. InStep(receiver', opened) /\ receiver' # Lost
  BY <1>1, <1>4, ReceiverIsNotLost DEF Genuine, InStep
<1>6. Running' = {} /\ Running = {}
  BY <1>1 DEF DurableInv, ClientKept, Running
<1>7. ClientKept'
  BY <1>1, <1>5, <1>6 DEF DurableInv, ClientKept
<1>8. Linear'
  <2> SUFFICES ASSUME ~overlapped, corruptions = 0 PROVE Linear'
    BY <1>1 DEF Linear
  <2>1. Spoilt = {}
    <3>1. IsFiniteSet(Spoilt) /\ Cardinality(Spoilt) = 0
      BY <1>2, SpoiltFinite DEF DamageCounted
    <3> QED
      BY <3>1, FS_EmptySet
  <2>2. ASSUME NEW r \in promised PROVE OpenedIn(r.payload) \subseteq Refused(receiver')
    <3>1. r.generation \in DOMAIN bin
      BY <1>2 DEF Committed
    <3>2. r.generation \in Loadable
      BY <1>2, <2>1, <3>1 DEF Loadable, Authentic, Committed, Filed, Spoilt, SpoiltIn
    <3>3. m >= r.generation /\ m \in DOMAIN bin
      BY <1>3, <3>2 DEF Loadable
    <3>4. LaterKnow(bin, r)
      BY DEF DurableInv, Linear
    <3>5. OpenedIn(r.payload) \subseteq OpenedIn(Newest)
      BY <3>3, <3>4 DEF LaterKnow, Newest
    <3> QED
      BY <1>1, <3>5, OpenedInSnapshot
  <2>3. \A r \in promised : LaterKnow(bin, r) /\ LaterKnow(durable, r)
    BY DEF DurableInv, Linear
  <2> QED
    BY <1>1, <1>6, <2>2, <2>3 DEF Linear
<1> QED
  BY <1>7, <1>8

LEMMA CorruptKeeps ==
    ASSUME DurableInv, Corrupt, UNCHANGED clientVars
    PROVE  ClientKept' /\ Linear'
<1>1. /\ TypeOK /\ UNCHANGED <<pc, gen, saving, promised, receiver, opened, overlapped>>
      /\ corruptions' = corruptions + 1 /\ corruptions \in Nat
  BY JournalConstants DEF DurableInv, JournalInv, TypeOK, Corrupt, clientVars, local
<1>2. DOMAIN bin' = DOMAIN bin /\ DOMAIN durable' = DOMAIN durable
  BY <1>1, CorruptFacts
<1>3. PICK g \in DOMAIN bin :
        /\ bin'[g].content = Damaged /\ \A x \in DOMAIN bin \ {g} : bin'[x] = bin[x]
        /\ \A x \in DOMAIN durable \ {g} : durable'[x] = durable[x]
        /\ g \in DOMAIN durable => durable'[g].content = Damaged
  BY <1>1, CorruptFacts
<1>4. GenuineIn(bin', opened) /\ GenuineIn(durable', opened)
  BY <1>2, <1>3 DEF DurableInv, ClientKept, GenuineIn
<1>5. ClientKept'
  BY <1>1, <1>4 DEF DurableInv, ClientKept, Running
<1>6. Linear'
  BY <1>1 DEF Linear
<1> QED
  BY <1>5, <1>6

\* A step of a save, or a stuttering one
LEMMA SaveStepKeeps ==
    ASSUME DurableInv, NEW w \in Writers, SaveStep(w), UNCHANGED clientVars
    PROVE  ClientKept' /\ Linear'
<1>1. TypeOK /\ UNCHANGED <<receiver, opened, overlapped>>
  BY DEF DurableInv, JournalInv, clientVars
<1>2. CASE GenerationOverflow(w)
  BY <1>1, <1>2, QuietStep DEF GenerationOverflow, vars, files, local, Quiet
<1>3. CASE CreateExists(w) \/ OperationFails(w) \/ SyncDirectoryFails(w)
  <2>1. Return(w) /\ UNCHANGED <<bin, durable, promised, corruptions>>
    BY <1>3 DEF CreateExists, OperationFails, SyncDirectoryFails, files
  <2>2. \A v \in Writers : Quiet(v)
    BY <1>1, <2>1, ReturnKeepsTypes DEF Quiet
  <2> QED
    BY <1>1, <2>1, <2>2, QuietStep
<1>4. CASE Create(w) \/ Write(w) \/ Sync(w)
  <2>1. /\ pc[w] \in {"create", "write", "sync"}
        /\ \E stage \in {"write", "sync", "rename"} : pc' = [pc EXCEPT ![w] = stage]
        /\ UNCHANGED <<bin, durable, gen, saving, promised, corruptions>>
    BY <1>4 DEF Create, Write, Sync
  <2>2. \A v \in Writers : Quiet(v)
    BY <1>1, <2>1 DEF Quiet, TypeOK
  <2> QED
    BY <1>1, <2>1, <2>2, QuietStep
<1> QED
  BY <1>2, <1>3, <1>4, RenameKeeps, SyncDirectoryKeeps DEF SaveStep

\* Every step of the client is a step of the journal, or leaves it alone.
LEMMA DurableStepIsJournalStep == DurableInv /\ [DurableNext]_durableVars => [Next]_vars
<1> SUFFICES ASSUME DurableInv, DurableNext PROVE [Next]_vars
  BY DEF durableVars
<1>1. ASSUME NEW w \in Writers, StartSave(w) PROVE Next
  <2>1. receiver # Lost /\ Choose(w, R!Snapshot(receiver))
    BY <1>1 DEF StartSave
  <2>2. R!Snapshot(receiver) \in Payloads
    BY <2>1, OwnSnapshot DEF DurableInv, ClientKept
  <2> QED
    BY <2>1, <2>2 DEF Next
<1> QED
  BY <1>1 DEF DurableNext, Open, Refuse, Recover, RecoverFails, Quit, CrashClient, Next, durableVars

LEMMA DurableStep == DurableInv /\ [DurableNext]_durableVars => DurableInv'
<1> SUFFICES ASSUME DurableInv, [DurableNext]_durableVars PROVE DurableInv'
  OBVIOUS
<1>1. JournalInv'
  BY DurableStepIsJournalStep, JournalNext DEF DurableInv
<1>2. CASE UNCHANGED durableVars
  <2>1. UNCHANGED <<bin, durable, pc, gen, saving, promised, corruptions, receiver, opened, overlapped>>
    BY <1>2 DEF durableVars, vars, files, local, clientVars
  <2>2. ClientKept' /\ Linear'
    BY <2>1, QuietStep DEF Quiet
  <2> QED
    BY <1>1, <2>2 DEF DurableInv
<1>3. CASE Quit
  <2>1. /\ receiver' = Lost /\ Running = {} /\ UNCHANGED <<opened, overlapped>>
        /\ UNCHANGED <<bin, durable, pc, gen, saving, promised, corruptions>>
    BY <1>3 DEF Quit, vars, files, local
  <2>2. Running' = {}
    BY <2>1 DEF Running
  <2>3. ClientKept'
    BY <2>1, <2>2 DEF DurableInv, ClientKept
  <2>4. Linear'
    BY <2>1, <2>2 DEF DurableInv, Linear, LaterKnow
  <2> QED
    BY <1>1, <2>3, <2>4 DEF DurableInv
<1>4. CASE \E c \in Packets : Open(c)
  BY <1>1, <1>4, OpenKeeps DEF DurableInv
<1>5. CASE \E w \in Writers : StartSave(w)
  BY <1>1, <1>5, StartSaveKeeps DEF DurableInv
<1>6. CASE (\E w \in Writers : SaveStep(w)) /\ UNCHANGED clientVars
  BY <1>1, <1>6, SaveStepKeeps DEF DurableInv
<1>7. CASE CrashClient
  BY <1>1, <1>7, CrashClientKeeps DEF DurableInv
<1>8. CASE Recover
  BY <1>1, <1>8, RecoverKeeps DEF DurableInv
<1>9. CASE Corrupt /\ UNCHANGED clientVars
  BY <1>1, <1>9, CorruptKeeps DEF DurableInv
<1> QED
  BY <1>2, <1>3, <1>4, <1>5, <1>6, <1>7, <1>8, <1>9 DEF DurableNext, Refuse, RecoverFails

-----------------------------------------------------------------------------
(***************************************************************************)
(* The inductive invariant of the client and its journal: every loadable   *)
(* payload is a snapshot of a receiver that refuses only opened packets,   *)
(* and later generations know what confirmed ones knew.                    *)
(***************************************************************************)
THEOREM DurableInvariant == DurableSpec => []DurableInv
BY DurableStart, DurableStep, PTL DEF DurableSpec

(* The client saves nothing but snapshots of its receiver, and leaves the  *)
(* journal alone otherwise: it is one of the journal's users.              *)
THEOREM DurableRunsJournal == DurableSpec => Spec
<1>1. DurableInit => Init
  BY DEF DurableInit
<1> QED
  BY <1>1, DurableStepIsJournalStep, DurableInvariant, PTL DEF Spec, DurableSpec

(* So load never falls behind what save confirmed to the client, either. *)
THEOREM DurableRecovers == DurableSpec => []RecoveryNeverGoesBack
BY DurableRunsJournal, JournalRecovers, PTL

(* The journal, the receiver and the histories keep their types. *)
THEOREM DurableTypeCorrect == DurableSpec => []DurableTypeOK
<1>1. DurableInv => DurableTypeOK
  BY CountersAreNat DEF DurableInv, JournalInv, ClientKept, InStep, DurableTypeOK
<1> QED
  BY <1>1, DurableInvariant, PTL

(***************************************************************************)
(* Replay protection survives crashes, failed saves and restarts: what a   *)
(* confirmed save knew to be opened is refused, and only what was opened.  *)
(***************************************************************************)
THEOREM DurableReplayAcrossRestarts == DurableSpec => []ReplayAcrossRestarts
<1>1. DurableInv => ReplayAcrossRestarts
  <2> SUFFICES ASSUME DurableInv, receiver # Lost
               PROVE  LET replays == {c \in Packets : ResultOf(c) = "Replay"} IN
                      KnownOpened \subseteq replays /\ replays \subseteq opened
    BY DEF ReplayAcrossRestarts
  <2>1. InStep(receiver, opened) /\ R!IsReceiver(receiver)
    BY DEF DurableInv, ClientKept, InStep
  <2>2. {c \in Packets : ResultOf(c) = "Replay"} = Packets \cap Refused(receiver)
    BY <2>1, ReplayIsRefused
  <2>3. Refused(receiver) \subseteq opened /\ opened \subseteq Packets
    BY <2>1 DEF DurableInv, ClientKept, InStep
  <2>4. KnownOpened \subseteq Refused(receiver)
    <3>1. CASE overlapped \/ corruptions > 0
      BY <3>1 DEF KnownOpened
    <3>2. CASE ~(overlapped \/ corruptions > 0)
      <4>1. corruptions = 0
        BY <3>2, JournalConstants DEF DurableInv, JournalInv, TypeOK
      <4>2. \A r \in promised : OpenedIn(r.payload) \subseteq Refused(receiver)
        BY <3>2, <4>1 DEF DurableInv, Linear
      <4>3. KnownOpened = UNION {OpenedIn(r.payload) : r \in promised}
        BY <3>2 DEF KnownOpened
      <4> QED
        BY <4>2, <4>3
    <3> QED
      BY <3>1, <3>2
  <2> QED
    BY <2>2, <2>3, <2>4
<1> QED
  BY <1>1, DurableInvariant, PTL

=============================================================================
