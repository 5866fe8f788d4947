-------------------------- MODULE EncryptedJournal --------------------------
(***************************************************************************)
(* The journal of a client (core/storage/src/lib.rs): save writes a record *)
(* to a temporary file, syncs it and renames it to its generation; load    *)
(* returns the newest record that authenticates.  save borrows the journal *)
(* shared and keeps no state between calls, so several saves may run at    *)
(* once; each file operation is a step, and the process may crash, or an   *)
(* operation fail, between any two.                                        *)
(*                                                                         *)
(* The file system is the environment: create_new, rename and the listing  *)
(* are atomic; data written and not synced is lost in a crash, and a       *)
(* rename whose directory was not synced may be.                           *)
(***************************************************************************)
EXTENDS Integers, FiniteSetsExt

CONSTANTS
    Writers,        \* callers of save
    Payloads,       \* plaintexts that are saved
    MaxGeneration,  \* the last generation before checked_add overflows
    Damaged,        \* file contents that do not authenticate: torn, corrupt
    NoPayload,      \* nothing is being saved
    MaxCrashes,     \* bound of the model
    MaxCorruptions  \* bound of the model

ASSUME JournalConstants ==
    /\ MaxGeneration \in Nat
    /\ MaxCrashes \in Nat
    /\ MaxCorruptions \in Nat
    /\ NoPayload \notin Payloads

Generations == 0..MaxGeneration

(* encode_journal and seal_record: what the file of a save holds *)
Record == [generation : Generations, payload : Payloads]
Content == Record \cup {Damaged}

ASSUME DamagedIsNoRecord == Damaged \notin Record

VARIABLES
    bin,            \* generation -> committed file
    tmp,            \* generation -> temporary file
    durable,        \* bin as of the last sync of the directory
    pc,             \* pc[w]: the step save is at
    gen,            \* gen[w]: the generation save has chosen
    saving,         \* saving[w]: the plaintext being saved
    promised,       \* history: records save confirmed with a synced directory
    crashes, corruptions

files == <<bin, tmp, durable>>
local == <<pc, gen, saving>>
vars  == <<files, local, promised, crashes, corruptions>>

File == [content : Content, synced : BOOLEAN]

Put(f, k, v) == [x \in DOMAIN f \cup {k} |-> IF x = k THEN v ELSE f[x]]

(* What load accepts: it opens and names its own generation.  load returns *)
(* the newest of these.                                                    *)
Authentic(g) == bin[g].content # Damaged /\ bin[g].content.generation = g
Loadable == {g \in DOMAIN bin : Authentic(g)}

-----------------------------------------------------------------------------
(* save *)

NextGeneration == IF DOMAIN bin = {} THEN 0 ELSE Max(DOMAIN bin) + 1

Begin(w, payload) ==
    /\ pc[w] = "idle"
    /\ gen' = [gen EXCEPT ![w] = NextGeneration]
    /\ saving' = [saving EXCEPT ![w] = payload]
    /\ pc' = [pc EXCEPT ![w] = "create"]
    /\ UNCHANGED <<files, promised, crashes, corruptions>>

(* Fault: current + 1 without checked_add *)
ChooseUnchecked(w, payload) == Begin(w, payload)

(* generations() and the record to write *)
Choose(w, payload) == NextGeneration <= MaxGeneration /\ Begin(w, payload)

(* checked_add overflows: save returns GenerationOverflow *)
GenerationOverflow(w) ==
    /\ pc[w] = "idle"
    /\ NextGeneration > MaxGeneration
    /\ UNCHANGED vars

(* save returns: nothing an error leaves behind is cleaned up *)
Return(w) ==
    /\ pc' = [pc EXCEPT ![w] = "idle"]
    /\ gen' = [gen EXCEPT ![w] = 0]
    /\ saving' = [saving EXCEPT ![w] = NoPayload]

Create(w) ==
    /\ pc[w] = "create"
    /\ gen[w] \notin DOMAIN tmp
    /\ tmp' = Put(tmp, gen[w], [content |-> Damaged, synced |-> FALSE])
    /\ pc' = [pc EXCEPT ![w] = "write"]
    /\ UNCHANGED <<bin, durable, gen, saving, promised, crashes, corruptions>>

(* create_new finds the file of another save, or one left behind *)
CreateExists(w) ==
    /\ pc[w] = "create"
    /\ gen[w] \in DOMAIN tmp
    /\ Return(w)
    /\ UNCHANGED <<files, promised, crashes, corruptions>>

Write(w) ==
    /\ pc[w] = "write"
    /\ tmp' = [tmp EXCEPT ![gen[w]].content =
                   [generation |-> gen[w], payload |-> saving[w]]]
    /\ pc' = [pc EXCEPT ![w] = "sync"]
    /\ UNCHANGED <<bin, durable, gen, saving, promised, crashes, corruptions>>

Sync(w) ==
    /\ pc[w] = "sync"
    /\ tmp' = [tmp EXCEPT ![gen[w]].synced = TRUE]
    /\ pc' = [pc EXCEPT ![w] = "rename"]
    /\ UNCHANGED <<bin, durable, gen, saving, promised, crashes, corruptions>>

Rename(w) ==
    /\ pc[w] = "rename"
    /\ bin' = Put(bin, gen[w], tmp[gen[w]])
    /\ tmp' = Restrict(tmp, DOMAIN tmp \ {gen[w]})
    /\ pc' = [pc EXCEPT ![w] = "syncdir"]
    /\ UNCHANGED <<durable, gen, saving, promised, crashes, corruptions>>

(* An operation before the rename fails; a torn write stays in the file *)
OperationFails(w) ==
    /\ pc[w] \in {"create", "write", "sync", "rename"}
    /\ Return(w)
    /\ UNCHANGED <<files, promised, crashes, corruptions>>

Confirm(w) ==
    /\ pc[w] = "syncdir"
    /\ promised' = promised \cup {[generation |-> gen[w], payload |-> saving[w]]}
    /\ Return(w)
    /\ UNCHANGED <<bin, tmp, crashes, corruptions>>

(* Fault: the directory is not synced *)
SyncDirectoryForgotten(w) == Confirm(w) /\ UNCHANGED durable

(* sync_directory, and Ok(generation) *)
SyncDirectory(w) == Confirm(w) /\ durable' = bin

(* Its errors are ignored: Ok(generation) all the same *)
SyncDirectoryFails(w) ==
    /\ pc[w] = "syncdir"
    /\ Return(w)
    /\ UNCHANGED <<files, promised, crashes, corruptions>>

-----------------------------------------------------------------------------
(* The environment *)

(* Renames that are not on disk yet *)
Loose == {g \in DOMAIN bin : g \notin DOMAIN durable \/ durable[g] # bin[g]}

AfterCrash(file) ==
    [content |-> IF file.synced THEN file.content ELSE Damaged, synced |-> TRUE]

(***************************************************************************)
(* A crash ends every save.  A rename whose directory was not synced is on *)
(* disk or undone; when it is undone, or for a temporary file, the entry   *)
(* of the temporary file is on disk or not.                                *)
(***************************************************************************)
Crash ==
    /\ crashes < MaxCrashes
    /\ crashes' = crashes + 1
    /\ \E undone \in SUBSET Loose : \E vanished \in SUBSET (undone \cup DOMAIN tmp) :
        /\ bin' = [g \in (DOMAIN bin \ undone) \cup DOMAIN durable |->
                      AfterCrash(IF g \in undone THEN durable[g] ELSE bin[g])]
        /\ tmp' = [g \in (DOMAIN tmp \cup undone) \ vanished |->
                      AfterCrash(IF g \in DOMAIN tmp THEN tmp[g] ELSE bin[g])]
    /\ durable' = bin'
    /\ pc' = [w \in Writers |-> "idle"]
    /\ gen' = [w \in Writers |-> 0]
    /\ saving' = [w \in Writers |-> NoPayload]
    /\ UNCHANGED <<promised, corruptions>>

(* A committed file is corrupted on disk *)
Corrupt ==
    /\ corruptions < MaxCorruptions
    /\ corruptions' = corruptions + 1
    /\ \E g \in DOMAIN bin :
        /\ bin' = [bin EXCEPT ![g].content = Damaged]
        /\ durable' = IF g \in DOMAIN durable
                      THEN [durable EXCEPT ![g].content = Damaged]
                      ELSE durable
    /\ UNCHANGED <<tmp, local, promised, crashes>>

Init ==
    /\ bin = [g \in {} |-> Damaged]
    /\ tmp = [g \in {} |-> Damaged]
    /\ durable = [g \in {} |-> Damaged]
    /\ pc = [w \in Writers |-> "idle"]
    /\ gen = [w \in Writers |-> 0]
    /\ saving = [w \in Writers |-> NoPayload]
    /\ promised = {}
    /\ crashes = 0
    /\ corruptions = 0

(* The steps of a save that has begun, or that cannot begin *)
SaveStep(w) ==
    \/ GenerationOverflow(w)
    \/ Create(w) \/ CreateExists(w) \/ Write(w) \/ Sync(w) \/ Rename(w)
    \/ OperationFails(w) \/ SyncDirectory(w) \/ SyncDirectoryFails(w)

Next ==
    \/ \E w \in Writers : SaveStep(w) \/ \E payload \in Payloads : Choose(w, payload)
    \/ Crash
    \/ Corrupt

Spec == Init /\ [][Next]_vars

-----------------------------------------------------------------------------
(* Properties *)

Stages == {"idle", "create", "write", "sync", "rename", "syncdir"}

Files(f) == DOMAIN f \subseteq Generations /\ \A g \in DOMAIN f : f[g] \in File

TypeOK ==
    /\ Files(bin) /\ Files(tmp) /\ Files(durable)
    /\ pc \in [Writers -> Stages]
    /\ gen \in [Writers -> Generations]
    /\ saving \in [Writers -> Payloads \cup {NoPayload}]
    /\ promised \in SUBSET Record
    /\ crashes \in 0..MaxCrashes
    /\ corruptions \in 0..MaxCorruptions

(***************************************************************************)
(* load never falls behind a save that was confirmed with its directory    *)
(* synced: after any crash or failed save, and as long as no more          *)
(* generations are corrupted than were confirmed at or after it, load      *)
(* returns that generation or a later one.                                 *)
(***************************************************************************)
RecoveryNeverGoesBack ==
    \A r \in promised :
        LET since == {s.generation : s \in {s \in promised : s.generation >= r.generation}} IN
        Cardinality(since) > corruptions =>
            Loadable # {} /\ Max(Loadable) >= r.generation

(***************************************************************************)
(* While no save is running, the temporary file the next save creates does *)
(* not exist yet.                                                          *)
(***************************************************************************)
TempNameIsUnused ==
    (\A w \in Writers : pc[w] = "idle") =>
        NextGeneration \notin DOMAIN tmp

=============================================================================
