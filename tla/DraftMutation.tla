---------------------------- MODULE DraftMutation ----------------------------
(***************************************************************************)
(* internal/draftmutation: one draft spec and its provenance sidecar,      *)
(* changed together by Mutate through a journalled transaction, and        *)
(* repaired by Recover after an interruption at any point.                 *)
(*                                                                         *)
(* A spec's text stands for its digest: it is the sequence of edits that   *)
(* produced it, each a client's typed request or a human's direct edit,    *)
(* which takes no lock and always makes a text not seen before.  The       *)
(* sidecar is the sequence of provenance entries, absent when empty.       *)
(* Writers hold the checkout's writer lock, whose exclusion is what        *)
(* FileLock establishes (WriterExclusion).                                 *)
(*                                                                         *)
(* A kill leaves the files as they are.  A power loss takes each directory *)
(* (the spec's, and the transaction root) back to some state since it was  *)
(* last fsynced.  On a file system that orders all metadata operations in  *)
(* one log (ordered) any fsync covers both directories, and a power loss   *)
(* undoes the latest operations of both together.  The code cannot know    *)
(* which kind it runs on.                                                  *)
(***************************************************************************)
EXTENDS Naturals, Sequences, SequencesExt, FiniteSets

CONSTANTS
    Clients,        \* callers of Mutate; each has one request, named by it
    Human,          \* a direct Markdown edit
    MaxEdits,       \* bound on direct edits
    MaxFaults,      \* bound on interruptions and power losses
    Absent, Torn, NoClient

Texts == Seq(Clients \cup {Human})
Entries == [prev : Texts, result : Texts, gap : BOOLEAN]
Txns == [oldSpec : Texts, newSpec : Texts, oldProv : Seq(Entries), newProv : Seq(Entries)]

ASSUME DraftAssumption ==
    /\ Human \notin Clients
    /\ NoClient \notin Clients
    /\ MaxEdits \in Nat /\ MaxFaults \in Nat
    /\ Absent # Torn
    /\ \A content \in {Absent, Torn} : content \notin Txns \cup Texts \cup Seq(Entries)

VARIABLES
    disk,       \* [dir, journal, specNew, provNew, spec, prov]
    recent,     \* the states a power loss may take disk back to
    holder,     \* the client in WithWriterLock's callback
    pc,         \* per client: its next step
    base,       \* per client: request.BaseDigest
    txn,        \* the holder's Transaction, or the journal it recovers
    committing, \* the holder is in Commit, no longer in Recover
    outcome,    \* per client: what Mutate answered last
    edits,      \* direct edits so far
    late,       \* a direct edit came after the holder had compared the spec
    ordered,    \* the file system orders metadata operations
    faults      \* interruptions so far

vars == <<disk, recent, holder, pc, base, txn, committing, outcome, edits, late,
          ordered, faults>>

NoTxn == [oldSpec |-> <<>>, newSpec |-> <<>>, oldProv |-> <<>>, newProv |-> <<>>]

Init ==
    /\ disk = [dir |-> FALSE, journal |-> Absent, specNew |-> Absent,
               provNew |-> Absent, spec |-> <<>>, prov |-> <<>>]
    /\ recent = {disk}
    /\ holder = NoClient
    /\ pc = [c \in Clients |-> "idle"]
    /\ base = [c \in Clients |-> <<>>]
    /\ txn = NoTxn
    /\ committing = FALSE
    /\ outcome = [c \in Clients |-> "none"]
    /\ edits = 0
    /\ late = FALSE
    /\ ordered \in BOOLEAN
    /\ faults = 0

Goto(c, l) == pc' = [pc EXCEPT ![c] = l]

\* The spec's directory as in f, the transaction root as in x.
Merge(f, x) == [x EXCEPT !.spec = f.spec, !.prov = f.prov]

\* A call that changes the files.
Put(d) ==
    /\ disk' = d
    /\ recent' = IF ordered THEN recent \cup {d}
                 ELSE {Merge(f, x) : f \in recent \cup {d}, x \in recent \cup {d}}

\* A completed fsync of the spec's directory, or of the transaction root.
FsyncSpecDir ==
    /\ recent' = IF ordered THEN {disk} ELSE {Merge(disk, x) : x \in recent}
    /\ UNCHANGED disk
FsyncTxDir ==
    /\ recent' = IF ordered THEN {disk} ELSE {Merge(f, disk) : f \in recent}
    /\ UNCHANGED disk

\* Mutate answers and WithWriterLock releases the lock.
Answer(c, l, o) == /\ Goto(c, l)
                   /\ outcome' = [outcome EXCEPT ![c] = o]
                   /\ holder' = NoClient
                   /\ txn' = NoTxn
                   /\ committing' = FALSE

-----------------------------------------------------------------------------
(***************************************************************************)
(* The request is built on the text its author saw; the lock comes later.  *)
(***************************************************************************)
Request(c) ==
    /\ pc[c] = "idle"
    /\ base' = [base EXCEPT ![c] = disk.spec]
    /\ Goto(c, "ready")
    /\ UNCHANGED <<disk, recent, holder, txn, committing, outcome, edits, late, faults>>

WithWriterLock(c) ==
    /\ pc[c] = "ready"
    /\ holder = NoClient
    /\ holder' = c
    /\ Goto(c, "recover")
    /\ UNCHANGED <<disk, recent, base, txn, committing, outcome, edits, late, faults>>

-----------------------------------------------------------------------------
(***************************************************************************)
(* Recover: compare destinations and stages with the journal's digests,    *)
(* and finish, undo, or retain.                                            *)
(***************************************************************************)
Journalled == disk.journal \notin {Absent, Torn}
SpecOld == disk.spec = disk.journal.oldSpec
SpecNew == disk.spec = disk.journal.newSpec
ProvOld == disk.prov = disk.journal.oldProv
ProvNew == disk.prov = disk.journal.newProv
StagesValid == /\ disk.specNew \in {Absent, disk.journal.newSpec}
               /\ disk.provNew \in {Absent, disk.journal.newProv}
StagesComplete == disk.specNew # Absent /\ disk.provNew # Absent

Recognized == /\ Journalled
              /\ SpecOld \/ SpecNew
              /\ ProvOld \/ ProvNew
              /\ SpecNew => ProvNew
              /\ StagesValid

\* Mutant: Mutate does not recover first.
RecoverySkipped(c) ==
    /\ pc[c] = "recover"
    /\ Goto(c, "read")
    /\ UNCHANGED <<disk, recent, holder, base, txn, committing, outcome, edits, late, faults>>

NothingToRecover(c) ==
    /\ pc[c] = "recover"
    /\ ~disk.dir
    /\ Goto(c, "read")
    /\ UNCHANGED <<disk, recent, holder, base, txn, committing, outcome, edits, late, faults>>

RecoverEmptyRoot(c) ==
    /\ pc[c] = "recover"
    /\ disk.dir
    /\ disk.journal = Absent /\ disk.specNew = Absent /\ disk.provNew = Absent
    /\ Goto(c, "rmRoot")
    /\ UNCHANGED <<disk, recent, holder, base, txn, committing, outcome, edits, late, faults>>

\* Mutant: an installed provenance without its spec is not finished.
RecoverJournalUnfinished(c) ==
    /\ pc[c] = "recover"
    /\ disk.dir
    /\ Recognized
    /\ txn' = disk.journal
    /\ late' = FALSE
    /\ \/ /\ ~ProvNew /\ StagesComplete
          /\ Goto(c, "installProv")
       \/ /\ ProvNew \/ ~StagesComplete
          /\ Goto(c, "rmSpecNew")
    /\ UNCHANGED <<disk, recent, holder, base, committing, outcome, edits, faults>>

\* Mutant: a missing stage goes unnoticed.
RecoverJournalUnstaged(c) ==
    /\ pc[c] = "recover"
    /\ disk.dir
    /\ Recognized
    /\ txn' = disk.journal
    /\ late' = FALSE
    /\ \/ /\ ProvNew /\ SpecNew
          /\ Goto(c, "rmSpecNew")
       \/ /\ ProvNew /\ ~SpecNew
          /\ Goto(c, "installSpec")
       \/ /\ ~ProvNew
          /\ Goto(c, "installProv")
    /\ UNCHANGED <<disk, recent, holder, base, committing, outcome, edits, faults>>

\* Adopting the journal, the writer goes on where the transaction stopped.
RecoverJournal(c) ==
    /\ pc[c] = "recover"
    /\ disk.dir
    /\ Recognized
    /\ txn' = disk.journal
    /\ late' = FALSE
    /\ \/ /\ ProvNew /\ SpecNew
          /\ Goto(c, "rmSpecNew")
       \/ /\ ProvNew /\ ~SpecNew /\ disk.specNew # Absent
          /\ Goto(c, "installSpec")
       \/ /\ ~ProvNew /\ StagesComplete
          /\ Goto(c, "installProv")
       \/ /\ ~ProvNew /\ ~StagesComplete
          /\ Goto(c, "rmSpecNew")
    /\ UNCHANGED <<disk, recent, holder, base, committing, outcome, edits, faults>>

\* Malformed, tampered or unrecognized state stays for a human.
RecoverRetains(c) ==
    /\ pc[c] = "recover"
    /\ disk.dir
    /\ \/ disk.journal = Absent /\ (disk.specNew # Absent \/ disk.provNew # Absent)
       \/ disk.journal = Torn
       \/ Journalled /\ ~Recognized
       \/ Journalled /\ Recognized /\ ProvNew /\ ~SpecNew /\ disk.specNew = Absent
    /\ Answer(c, "retained", "retained")
    /\ UNCHANGED <<disk, recent, base, edits, late, faults>>

-----------------------------------------------------------------------------
(***************************************************************************)
(* Mutate under the lock: refuse a stale base, apply the request, record   *)
(* it, with the gap a direct edit left, and commit both.                   *)
(***************************************************************************)
Tip(log) == IF log = <<>> THEN <<>> ELSE Last(log).result

Apply(c) == Append(disk.spec, c)

\* Mutant: the entry continues the log's tip, whatever was read.
NewEntryGapless(c) == [prev |-> Tip(disk.prov), result |-> Apply(c), gap |-> FALSE]

NewEntry(c) == [prev |-> disk.spec, result |-> Apply(c),
                gap |-> disk.prov # <<>> /\ Tip(disk.prov) # disk.spec]

\* designprovenance.DecodeLog: no entry twice, and a break in the chain needs a
\* gap that explains it.
DecodeLog(log) ==
    \A k \in DOMAIN log :
        /\ \A j \in 1..(k - 1) : log[j] # log[k]
        /\ log[k].gap <=> k > 1 /\ log[k].prev # log[k - 1].result

RefuseStale(c) ==
    /\ pc[c] = "read"
    /\ disk.spec # base[c]
    /\ Answer(c, "done", "stale")
    /\ UNCHANGED <<disk, recent, base, edits, late, faults>>

\* AuthorizeState, the policy or the operations refuse.
RefuseRequest(c) ==
    /\ pc[c] = "read"
    /\ disk.spec = base[c]
    /\ Answer(c, "done", "refused")
    /\ UNCHANGED <<disk, recent, base, edits, late, faults>>

\* Mutant: the base digest is not compared.
PrepareUnchecked(c) ==
    /\ pc[c] = "read"
    /\ txn' = [oldSpec |-> disk.spec, newSpec |-> Apply(c),
                oldProv |-> disk.prov, newProv |-> Append(disk.prov, NewEntry(c))]
    /\ DecodeLog(txn'.newProv)
    /\ committing' = TRUE
    /\ Goto(c, "compare")
    /\ UNCHANGED <<disk, recent, holder, base, outcome, edits, late, faults>>

Prepare(c) ==
    /\ pc[c] = "read"
    /\ disk.spec = base[c]
    /\ txn' = [oldSpec |-> disk.spec, newSpec |-> Apply(c),
                oldProv |-> disk.prov, newProv |-> Append(disk.prov, NewEntry(c))]
    /\ DecodeLog(txn'.newProv)
    /\ committing' = TRUE
    /\ Goto(c, "compare")
    /\ UNCHANGED <<disk, recent, holder, base, outcome, edits, late, faults>>

-----------------------------------------------------------------------------
(***************************************************************************)
(* Commit.  Its own Recover finds nothing: Mutate's has just removed the   *)
(* transaction root, under the same lock.                                  *)
(***************************************************************************)
\* Mutant: only the provenance is compared again.
CompareProvenance(c) ==
    /\ pc[c] = "compare"
    /\ disk.prov = txn.oldProv
    /\ Goto(c, "mkRoot")
    /\ UNCHANGED <<disk, recent, holder, base, txn, committing, outcome, edits, late, faults>>

Compare(c) ==
    /\ pc[c] = "compare"
    /\ \/ /\ disk.spec = txn.oldSpec /\ disk.prov = txn.oldProv
          /\ late' = FALSE
          /\ Goto(c, "mkRoot")
          /\ UNCHANGED <<holder, txn, committing, outcome>>
       \/ /\ disk.spec # txn.oldSpec \/ disk.prov # txn.oldProv
          /\ Answer(c, "ready", "failed")
          /\ UNCHANGED late
    /\ UNCHANGED <<disk, recent, base, edits, faults>>

\* One step of the transaction: c makes the files d and goes on to l.
Advance(c, from, d, to) ==
    /\ pc[c] = from
    /\ Put(d)
    /\ Goto(c, to)
    /\ UNCHANGED <<holder, base, txn, committing, outcome, edits, late, faults>>

AdvanceFsync(c, from, fsync, to) ==
    /\ pc[c] = from
    /\ fsync
    /\ Goto(c, to)
    /\ UNCHANGED <<holder, base, txn, committing, outcome, edits, late, faults>>

\* Mutants: the spec is installed before its provenance; an fsync is left out.
SyncStagesSpecFirst(c) == AdvanceFsync(c, "syncStages", FsyncTxDir, "installSpec")
SyncSpecLeftOut(c) == AdvanceFsync(c, "syncSpec", UNCHANGED <<disk, recent>>, "rmSpecNew")

MakeRoot(c)     == Advance(c, "mkRoot", [disk EXCEPT !.dir = TRUE], "syncParents")
SyncParents(c)  == AdvanceFsync(c, "syncParents", FsyncTxDir, "openJournal")
OpenJournal(c)  == Advance(c, "openJournal", [disk EXCEPT !.journal = Torn], "writeJournal")
WriteJournal(c) == Advance(c, "writeJournal", [disk EXCEPT !.journal = txn], "syncJournal")
SyncJournal(c)  == AdvanceFsync(c, "syncJournal", FsyncTxDir, "openSpecNew")
OpenSpecNew(c)  == Advance(c, "openSpecNew", [disk EXCEPT !.specNew = Torn], "writeSpecNew")
WriteSpecNew(c) ==
    Advance(c, "writeSpecNew", [disk EXCEPT !.specNew = txn.newSpec], "openProvNew")
OpenProvNew(c)  == Advance(c, "openProvNew", [disk EXCEPT !.provNew = Torn], "writeProvNew")
WriteProvNew(c) ==
    Advance(c, "writeProvNew", [disk EXCEPT !.provNew = txn.newProv], "syncStages")
SyncStages(c)   == AdvanceFsync(c, "syncStages", FsyncTxDir, "installProv")
InstallProv(c) ==
    Advance(c, "installProv",
            [disk EXCEPT !.prov = disk.provNew, !.provNew = Absent], "syncProv")
SyncProv(c)     == AdvanceFsync(c, "syncProv", FsyncSpecDir, "installSpec")
InstallSpec(c) ==
    Advance(c, "installSpec",
            [disk EXCEPT !.spec = disk.specNew, !.specNew = Absent], "syncSpec")
SyncSpec(c)     == AdvanceFsync(c, "syncSpec", FsyncSpecDir, "rmSpecNew")

\* cleanup: the stages, then the journal, then the empty root.
RemoveSpecNew(c) == Advance(c, "rmSpecNew", [disk EXCEPT !.specNew = Absent], "rmProvNew")
RemoveProvNew(c) == Advance(c, "rmProvNew", [disk EXCEPT !.provNew = Absent], "rmJournal")
RemoveJournal(c) == Advance(c, "rmJournal", [disk EXCEPT !.journal = Absent], "syncCleanup")
SyncCleanup(c)   == AdvanceFsync(c, "syncCleanup", FsyncTxDir, "rmRoot")
RemoveRoot(c)    == Advance(c, "rmRoot", [disk EXCEPT !.dir = FALSE], "syncRoot")

\* A finished recovery goes on to the request, a finished commit answers.
SyncRoot(c) ==
    /\ pc[c] = "syncRoot"
    /\ FsyncTxDir
    /\ \/ /\ committing
          /\ Answer(c, "done", "ok")
       \/ /\ ~committing
          /\ Goto(c, "read")
          /\ txn' = NoTxn
          /\ UNCHANGED <<holder, committing, outcome>>
    /\ UNCHANGED <<base, edits, late, faults>>

Transaction(c) ==
    \/ MakeRoot(c) \/ SyncParents(c)
    \/ OpenJournal(c) \/ WriteJournal(c) \/ SyncJournal(c)
    \/ OpenSpecNew(c) \/ WriteSpecNew(c) \/ OpenProvNew(c) \/ WriteProvNew(c)
    \/ SyncStages(c) \/ InstallProv(c) \/ SyncProv(c) \/ InstallSpec(c) \/ SyncSpec(c)
    \/ RemoveSpecNew(c) \/ RemoveProvNew(c) \/ RemoveJournal(c) \/ SyncCleanup(c)
    \/ RemoveRoot(c) \/ SyncRoot(c)

-----------------------------------------------------------------------------
\* Where the holder has yet to compare the spec with what it will replace.
Comparing == {"recover", "read", "compare"}

(***************************************************************************)
(* The environment.  An Interrupt is any early end of the callback: a kill *)
(* of the process, an I/O error, or a context cancelled before the next    *)
(* call; the lock is released or taken over, and the client may retry.     *)
(***************************************************************************)
Interrupt(c) ==
    /\ holder = c
    /\ faults < MaxFaults
    /\ faults' = faults + 1
    /\ Answer(c, "ready", "failed")
    /\ UNCHANGED <<disk, recent, base, edits, late>>

PowerLoss ==
    /\ faults < MaxFaults
    /\ faults' = faults + 1
    /\ disk' \in recent
    /\ recent' = {disk'}
    /\ pc' = [c \in Clients |-> IF c = holder THEN "ready" ELSE pc[c]]
    /\ outcome' = [c \in Clients |-> IF c = holder THEN "failed" ELSE outcome[c]]
    /\ holder' = NoClient
    /\ txn' = NoTxn
    /\ committing' = FALSE
    /\ UNCHANGED <<base, edits, late>>

\* An editor saves the Markdown, without any lock.
DirectEdit ==
    /\ edits < MaxEdits
    /\ edits' = edits + 1
    /\ Put([disk EXCEPT !.spec = Append(@, Human)])
    /\ late' = (late \/ \E c \in Clients : holder = c /\ pc[c] \notin Comparing)
    /\ UNCHANGED <<holder, pc, base, txn, committing, outcome, faults>>

Mutate(c) == \/ Request(c) \/ WithWriterLock(c)
             \/ NothingToRecover(c) \/ RecoverEmptyRoot(c) \/ RecoverJournal(c)
             \/ RecoverRetains(c)
             \/ RefuseStale(c) \/ RefuseRequest(c) \/ Prepare(c) \/ Compare(c)
             \/ Transaction(c)

Next == /\ \/ \E c \in Clients : Mutate(c) \/ Interrupt(c)
           \/ PowerLoss
           \/ DirectEdit
        /\ UNCHANGED ordered

Spec == Init /\ [][Next]_vars

-----------------------------------------------------------------------------
Disks == [dir : BOOLEAN, journal : Txns \cup {Absent, Torn},
          specNew : Texts \cup {Absent, Torn},
          provNew : Seq(Entries) \cup {Absent, Torn},
          spec : Texts, prov : Seq(Entries)]

Installing == {"installProv", "syncProv", "installSpec", "syncSpec"}
Locations == {"idle", "ready", "recover", "read", "compare", "mkRoot", "syncParents",
              "openJournal", "writeJournal", "syncJournal", "openSpecNew", "writeSpecNew",
              "openProvNew", "writeProvNew", "syncStages", "rmSpecNew", "rmProvNew",
              "rmJournal", "syncCleanup", "rmRoot", "syncRoot", "retained", "done"}
                \cup Installing

\* Every file holds what a writer put there: a stage is installed whole or not
\* at all, never while Absent or Torn, and a power loss may always keep the
\* present.
TypeOK ==
    /\ disk \in Disks
    /\ disk \in recent
    /\ \A d \in recent : d \in Disks
    /\ holder \in Clients \cup {NoClient}
    /\ pc \in [Clients -> Locations]
    /\ base \in [Clients -> Texts]
    /\ txn \in Txns
    /\ committing \in BOOLEAN
    /\ outcome \in [Clients -> {"none", "failed", "retained", "stale", "refused", "ok"}]
    /\ edits \in 0..MaxEdits
    /\ late \in BOOLEAN
    /\ ordered \in BOOLEAN
    /\ faults \in 0..MaxFaults

Recorded(text, log) == \E k \in DOMAIN log : log[k].result = text

\* Never spec-ahead: every typed edit in the text has its provenance entry, on
\* disk and in every state a power loss may bring back.
NeverSpecAhead ==
    \A d \in recent : \A k \in DOMAIN d.spec :
        d.spec[k] \in Clients => Recorded(SubSeq(d.spec, 1, k), d.prov)

\* Old or new: once no journal is left, no entry describes an edit the text
\* does not contain.  Where directories are persisted independently of each
\* other a power loss may break it: the journal's removal may outlive the
\* spec's installation.
NeverProvenanceAhead ==
    ordered => \A d \in recent : d.journal = Absent => IsPrefix(Tip(d.prov), d.spec)

\* The log accounts for the text: an entry is one typed edit, and between two
\* entries only direct edits happened, disclosed as a gap exactly then (and, as
\* in AppliedOnce, no entry is ahead of the text).
GapsDisclosed ==
    ordered => \A k \in DOMAIN disk.prov :
        LET entry  == disk.prov[k]
            before == IF k = 1 THEN <<>> ELSE disk.prov[k - 1].result
        IN  /\ Last(entry.result) \in Clients /\ Front(entry.result) = entry.prev
            /\ IsPrefix(before, entry.prev)
            /\ \A j \in Len(before) + 1 .. Len(entry.prev) : entry.prev[j] = Human
            /\ k > 1 => (entry.gap <=> entry.prev # before)

\* A request that Mutate answered with success survives: its entry and its
\* text are in every state a power loss may bring back, ever after.
SuccessDurable ==
    \A c \in Clients : outcome[c] = "ok" =>
        \A d \in recent :
            /\ \E k \in DOMAIN d.prov : Last(d.prov[k].result) = c
            /\ \E k \in DOMAIN d.spec : d.spec[k] = c

\* A request retried after an interruption is applied once: either the
\* interrupted attempt was rolled forward, and the retry is stale, or it was
\* undone.  It rests on NeverProvenanceAhead, and needs the same order.
AppliedOnce ==
    ordered => \A c \in Clients :
        Cardinality({k \in DOMAIN disk.prov : Last(disk.prov[k].result) = c}) <= 1

\* A refused request has left nothing behind that recovery could still apply, nor
\* has anything a power loss may bring back.  A journal of it may be left, even
\* after its removal, if a stage it needs is missing: it can only be undone.
RefusalFinal ==
    \A c \in Clients : outcome[c] = "refused" =>
        \A d \in recent :
            /\ \A k \in DOMAIN d.spec : d.spec[k] # c
            /\ d.journal \in Txns /\ Last(d.journal.newSpec) = c =>
                 /\ d.specNew = Absent \/ d.provNew = Absent
                 /\ d.prov # d.journal.newProv

\* The log tells what was asked and answered: direct edits show as gaps, a request
\* takes effect once at most however often it is retried, and never if refused.
LogFaithful == GapsDisclosed /\ AppliedOnce /\ RefusalFinal

\* Installing a spec overwrites only the text it was computed from, unless a
\* direct edit raced with the installation itself.
OnlyRacingEditsLost ==
    [][\A c \in Clients :
         pc[c] = "installSpec" /\ pc'[c] = "syncSpec" => disk.spec = txn.oldSpec \/ late]_vars

\* "next board draft write completes or rolls back this journal"
\* (internal/recovery/derive.go): without a direct edit, Recover does not
\* retain a journal that decodes.
PreparedJournalResolves ==
    \A c \in Clients : pc[c] = "retained" /\ edits = 0 => ~Journalled
=============================================================================
