--------------------------- MODULE ExecWorkspace ---------------------------
(***************************************************************************)
(* One execution workspace (internal/execworkspace): the unit directory,   *)
(* its siblings .request, .request.staging and .released, its unit lock,   *)
(* and git's registrations of it, under concurrent Materialize, Release    *)
(* and gc, crashes between any two steps, failing system calls, git        *)
(* children that are killed or outlive their parent, people who lock,      *)
(* unlock or prune registrations, and a consumer that edits the tree.      *)
(*                                                                         *)
(* Abstractions.  The unit lock is an exclusive holder whose death frees   *)
(* it: FileLock shows that filelock is one (WriterExclusion).  ErrHeld     *)
(* returns without an effect and is no step.  A file is its presence and,  *)
(* for .request, the identity it records; lstat's answers are "absent",    *)
(* the kind the code expects and "other".  A tree is the identity it was   *)
(* cut for, whether all of it is there, whether its .git link is, and the  *)
(* consumer's uncommitted work.                                            *)
(***************************************************************************)
EXTENDS Naturals, FiniteSets

CONSTANTS
  Procs,           \* processes that call into the package
  Ids,             \* request identities that share the workspace id
  Patched,         \* the identities of base-plus-patch shape
  Entries,         \* names of administrative entries (.git/worktrees/<id>)
  NoProc, NoId, NoEntry,
  Orphans,         \* whether a git child may outlive its parent
  MaxFaults        \* bound: crashes, failed calls, kills and acts of people

ASSUME ExecConstants ==
  /\ NoProc \notin Procs /\ NoId \notin Ids \cup {"bad"} /\ "bad" \notin Ids
  /\ NoEntry \notin Entries
  /\ Patched \subseteq Ids /\ MaxFaults \in Nat
  /\ Orphans \in BOOLEAN

VARIABLES
  tree,     \* what is at the unit path (of = NoId: a tree some of whose files are gone)
  request,  \* .request: NoId, the identity it records, or "bad"
  staging,  \* whether .request.staging is there
  marker,   \* .released: "absent", "regular" or "other"
  reg,      \* git's administrative entries that name the unit path
  holder,   \* the process that holds the unit lock
  pc,       \* pc[p]: the step process p is at
  job,      \* job[p]: what p does: its kind, its request, its claimed entry
  git,      \* git[p]: the `git worktree add` that p started
  handed,   \* whether a consumer was given the tree that is there now
  faults    \* faults so far

files == <<tree, request, staging, marker>>
vars == <<files, reg, holder, pc, job, git, handed, faults>>

NoTree == [at |-> "absent", of |-> NoId, whole |-> FALSE, link |-> FALSE, work |-> "none"]
Trees == [at: {"absent", "dir", "other"}, of: Ids \cup {NoId}, whole: BOOLEAN,
          link: BOOLEAN, work: {"none", "early", "late"}]
NoReg == [rec |-> "none", locked |-> "no"]
Regs == [rec: {"none", "gitdir", "aside"}, locked: {"no", "init", "human"}]
NoJob == [kind |-> "none", of |-> NoId, ent |-> NoEntry, own |-> FALSE, todo |-> {}]
Jobs == [kind: {"none", "materialize", "release", "gc"}, of: Ids \cup {NoId},
         ent: Entries \cup {NoEntry}, own: BOOLEAN, todo: SUBSET Entries]
NoGit == [st |-> "none", ent |-> NoEntry, of |-> NoId]

FreePcs == {"idle", "decide", "rank0", "rank5", "orphan"}
LockedPcs == {"look", "unlinkRequest", "unlinkStaging", "unlinkReleased", "removeResidue",
  "unlinkResidueStaging", "reconcile", "pass", "claim", "verify", "deleteEntry",
  "add", "adding", "patch", "stage", "rename", "handover", "mark", "redecide0", "redecide5",
  "delStaging", "delRequest", "delTree", "delReleased"}

(* Mutant: the aside record of a crashed claim is not looked at.            *)
RegisteredByGitdir == {e \in Entries : reg[e].rec = "gitdir"}

(* The entries of git's registry that resolve to the unit path, through     *)
(* gitdir or, for a crashed claim, through its aside record.                *)
Registered == {e \in Entries : reg[e].rec # "none"}

(* gitx.StatusDirty on the unit: uncommitted work, a patch that was applied *)
(* and not committed, or tracked files that are missing.                    *)
StatusDirty == tree.work # "none" \/ tree.of \in Patched \/ ~tree.whole

Init ==
  /\ tree = NoTree /\ request = NoId /\ staging = FALSE /\ marker = "absent"
  /\ reg = [e \in Entries |-> NoReg]
  /\ holder = NoProc
  /\ pc = [p \in Procs |-> "idle"] /\ job = [p \in Procs |-> NoJob]
  /\ git = [p \in Procs |-> NoGit]
  /\ handed = FALSE /\ faults = 0

At(p, l) == pc[p] = l
Goto(p, l) == pc' = [pc EXCEPT ![p] = l]
Stay == UNCHANGED <<holder, job>>

(* Mutant: an exit that keeps the lock.                                     *)
ReturnLocked(p) ==
  /\ Goto(p, "idle") /\ job' = [job EXCEPT ![p] = NoJob] /\ UNCHANGED holder

(* Every exit past the acquisition releases the unit lock.                  *)
Return(p) ==
  /\ Goto(p, "idle")
  /\ job' = [job EXCEPT ![p] = NoJob]
  /\ holder' = NoProc

Acquire(p, from, to) ==
  /\ At(p, from) /\ holder = NoProc
  /\ holder' = p /\ Goto(p, to)

Fault == faults < MaxFaults /\ faults' = faults + 1
-----------------------------------------------------------------------------
(* Materialize, step 1: a non-blocking acquire.                             *)
MaterializeAcquire(p, i) ==
  /\ Acquire(p, "idle", "look")
  /\ job' = [job EXCEPT ![p] = [NoJob EXCEPT !.kind = "materialize", !.of = i]]
  /\ UNCHANGED <<files, reg, git, handed, faults>>

(* Mutant: .request is trusted without a look at the marker.                *)
LookPastMarker(p) ==
  LET i == job[p].of IN
  /\ At(p, "look")
  /\ \/ tree.at = "absent" /\ Goto(p, "unlinkRequest") /\ Stay
     \/ tree.at = "dir" /\ request = NoId /\ marker = "absent" /\ Goto(p, "removeResidue") /\ Stay
     \/ tree.at = "dir" /\ request = i /\ Goto(p, "handover") /\ Stay
     \/ tree.at = "dir" /\ request # i /\ (request # NoId \/ marker # "absent") /\ Return(p)
     \/ tree.at = "other" /\ Return(p)
  /\ UNCHANGED <<files, reg, git, handed, faults>>

(* Steps 2 to 4: what is at the unit path, then the marker, then .request.  *)
Look(p) ==
  LET i == job[p].of IN
  /\ At(p, "look")
  /\ \/ /\ tree.at = "absent" /\ Goto(p, "unlinkRequest") /\ Stay
     \/ /\ tree.at = "dir" /\ marker = "absent" /\ request = NoId
        /\ Goto(p, "removeResidue") /\ Stay
     \/ /\ tree.at = "dir" /\ marker = "absent" /\ request = i
        /\ Goto(p, "handover") /\ Stay
     \/ /\ \/ tree.at = "other"
           \/ tree.at = "dir" /\ marker # "absent"         \* ErrReleasedTerminal, or malformed
           \/ tree.at = "dir" /\ request \notin {NoId, i}  \* mismatch, or undecodable
        /\ Return(p)
  /\ UNCHANGED <<files, reg, git, handed, faults>>

(* Mutant: only the staging file and the marker count as orphans.           *)
UnlinkOrphansButRequest(p) ==
  /\ \/ At(p, "unlinkRequest") /\ Goto(p, "unlinkStaging") /\ UNCHANGED <<staging, marker>> /\ Stay
     \/ At(p, "unlinkStaging") /\ Goto(p, "unlinkReleased") /\ staging' = FALSE /\ UNCHANGED marker /\ Stay
     \/ At(p, "unlinkReleased") /\ Goto(p, "reconcile") /\ marker' = "absent" /\ UNCHANGED staging /\ Stay
  /\ UNCHANGED <<tree, request, reg, git, handed, faults>>

(* The orphaned siblings, in the order of orphanSiblings (step 2, rank 0).  *)
UnlinkOrphans(p) ==
  /\ \/ /\ At(p, "unlinkRequest") /\ Goto(p, "unlinkStaging")
        /\ request' = NoId /\ UNCHANGED <<staging, marker>> /\ Stay
     \/ /\ At(p, "unlinkStaging") /\ Goto(p, "unlinkReleased")
        /\ staging' = FALSE /\ UNCHANGED <<request, marker>> /\ Stay
     \/ /\ At(p, "unlinkReleased") /\ marker # "other" /\ Goto(p, "reconcile")
        /\ marker' = "absent" /\ UNCHANGED <<request, staging>> /\ Stay
     \/ /\ At(p, "unlinkReleased") /\ marker = "other" /\ Return(p)
        /\ UNCHANGED <<request, staging, marker>>
  /\ UNCHANGED <<tree, reg, git, handed, faults>>

(* os.RemoveAll on the unit path, which may have deleted some of it when    *)
(* the process dies or a call fails.                                        *)
RemoveSome(p) ==
  /\ pc[p] \in {"removeResidue", "delTree"} /\ tree.at = "dir"
  /\ \E link \in {FALSE, tree.link} :
       tree' = [tree EXCEPT !.of = NoId, !.whole = FALSE, !.link = link]
  /\ tree' # tree
  /\ UNCHANGED <<request, staging, marker, reg, holder, pc, job, git, handed, faults>>

(* Step 4c: the residue of an attempt that never returned is removed.       *)
RemoveResidue(p) ==
  /\ At(p, "removeResidue") /\ Goto(p, "unlinkResidueStaging") /\ Stay
  /\ tree' = NoTree /\ handed' = FALSE
  /\ UNCHANGED <<request, staging, marker, reg, git, faults>>

UnlinkResidueStaging(p) ==
  /\ At(p, "unlinkResidueStaging") /\ Goto(p, "reconcile") /\ Stay
  /\ staging' = FALSE
  /\ UNCHANGED <<tree, request, marker, reg, git, handed, faults>>
-----------------------------------------------------------------------------
(* ReconcileUnit: enumerate the entries, then claim and delete each one     *)
(* that resolves to the unit, then enumerate again.                         *)
Enumerate(p) ==
  /\ At(p, "reconcile") /\ Goto(p, "pass")
  /\ job' = [job EXCEPT ![p].todo = Registered]
  /\ UNCHANGED <<files, reg, holder, git, handed, faults>>

(* Mutant: git's lock marker is not looked at before the claim.             *)
VisitEntryUnchecked(p) ==
  /\ At(p, "pass")
  /\ \E e \in job[p].todo :
       /\ Goto(p, IF reg[e].rec = "gitdir" THEN "deleteEntry" ELSE "pass")
       /\ job' = [job EXCEPT ![p].todo = @ \ {e}, ![p].ent = e]
  /\ UNCHANGED <<files, reg, holder, git, handed, faults>>

(* Mutant: a crashed claim is claimed by a rename whose source is gone.     *)
VisitEntryReclaims(p) ==
  /\ At(p, "pass")
  /\ \E e \in job[p].todo :
       \/ reg[e].rec # "none" /\ reg[e].locked # "no" /\ Return(p)
       \/ /\ reg[e].rec = "none" \/ reg[e].locked = "no"
          /\ Goto(p, IF reg[e].rec = "none" THEN "pass" ELSE "claim")
          /\ job' = [job EXCEPT ![p].todo = @ \ {e}, ![p].ent = e, ![p].own = TRUE]
          /\ UNCHANGED holder
  /\ UNCHANGED <<files, reg, git, handed, faults>>

(* reconcileEntry up to the claim: an entry that carries git's lock marker  *)
(* is refused untouched; one claimed by a crashed run is claimed already.   *)
VisitEntry(p) ==
  /\ At(p, "pass")
  /\ \E e \in job[p].todo :
       \/ /\ reg[e].rec # "none" /\ reg[e].locked # "no"
          /\ Return(p)
       \/ /\ \/ reg[e].rec = "none" /\ Goto(p, "pass")
             \/ reg[e].rec = "gitdir" /\ reg[e].locked = "no" /\ Goto(p, "claim")
             \/ reg[e].rec = "aside" /\ reg[e].locked = "no" /\ Goto(p, "verify")
          /\ job' = [job EXCEPT ![p].todo = @ \ {e}, ![p].ent = e,
                                ![p].own = reg[e].rec = "gitdir"]
          /\ UNCHANGED holder
  /\ UNCHANGED <<files, reg, git, handed, faults>>

(* The claim: one atomic rename of gitdir to gitdir.reconciling.            *)
Claim(p) ==
  LET e == job[p].ent IN
  /\ At(p, "claim")
  /\ \/ /\ reg[e].rec = "gitdir" /\ Goto(p, "verify") /\ Stay
        /\ reg' = [reg EXCEPT ![e].rec = "aside"]
     \/ /\ reg[e].rec # "gitdir" /\ Return(p) /\ UNCHANGED reg
  /\ UNCHANGED <<files, git, handed, faults>>

(* Re-verify under the claim; a lock marker that arrived late is honoured,  *)
(* and only this run's own claim is undone.                                 *)
Verify(p) ==
  LET e == job[p].ent IN
  /\ At(p, "verify")
  /\ \/ /\ reg[e] = [rec |-> "aside", locked |-> "no"]
        /\ Goto(p, "deleteEntry") /\ Stay /\ UNCHANGED reg
     \/ /\ reg[e].rec = "aside" /\ reg[e].locked # "no" /\ Return(p)
        /\ reg' = IF job[p].own THEN [reg EXCEPT ![e].rec = "gitdir"] ELSE reg
     \/ /\ reg[e].rec # "aside" /\ Return(p) /\ UNCHANGED reg
  /\ UNCHANGED <<files, git, handed, faults>>

DeleteEntry(p) ==
  /\ At(p, "deleteEntry") /\ Goto(p, "pass") /\ Stay
  /\ reg' = [reg EXCEPT ![job[p].ent] = NoReg]
  /\ UNCHANGED <<files, git, handed, faults>>

(* The postcondition decides: no entry resolves to the unit path any more.  *)
Postcondition(p) ==
  /\ At(p, "pass") /\ job[p].todo = {}
  /\ \/ Registered # {} /\ Return(p)
     \/ Registered = {} /\ job[p].kind = "materialize" /\ Goto(p, "add") /\ Stay
     \/ Registered = {} /\ job[p].kind = "gc" /\ Return(p)  \* ReclaimOrphaned
  /\ UNCHANGED <<files, reg, git, handed, faults>>
-----------------------------------------------------------------------------
(* Step 5.  WorktreeAddDetached starts a git child; p waits for its end.    *)
StartAdd(p) ==
  /\ At(p, "add") /\ Goto(p, "adding") /\ Stay
  /\ git' = [git EXCEPT ![p] = [st |-> "started", ent |-> NoEntry, of |-> job[p].of]]
  /\ UNCHANGED <<files, reg, handed, faults>>

(* How p goes on when its child ends; an orphan's end is seen by nobody.    *)
Reap(p, ok) ==
  /\ git' = [git EXCEPT ![p] = NoGit]
  /\ \/ At(p, "orphan") /\ Goto(p, "idle") /\ Stay
     \/ At(p, "adding") /\ ok /\ Stay
        /\ Goto(p, IF git[p].of \in Patched THEN "patch" ELSE "stage")
     \/ At(p, "adding") /\ ~ok /\ Return(p)

(* git refuses a path that exists or is registered; else it creates the     *)
(* entry, locked as initializing, and the directory, and fills it.          *)
GitBegins(p) ==
  /\ git[p].st = "started"
  /\ IF tree.at = "absent" /\ \A e \in Entries : reg[e].rec # "gitdir"
       THEN \E e \in Entries :
              /\ reg[e].rec = "none"
              /\ reg' = [reg EXCEPT ![e] = [rec |-> "gitdir", locked |-> "init"]]
              /\ git' = [git EXCEPT ![p].st = "running", ![p].ent = e]
              /\ \E link \in BOOLEAN : tree' =
                   [NoTree EXCEPT !.at = "dir", !.of = git[p].of, !.link = link]
              /\ UNCHANGED <<pc, holder, job>>
       ELSE Reap(p, FALSE) /\ UNCHANGED <<tree, reg>>
  /\ UNCHANGED <<request, staging, marker, handed, faults>>

(* git ends: the tree is cut and the entry unlocked; or the directory was   *)
(* removed under it, or a call failed, and git clears what it created.      *)
GitEnds(p) ==
  LET e == git[p].ent IN
  /\ git[p].st = "running"
  /\ \/ /\ tree.at = "dir" /\ UNCHANGED faults
        /\ tree' = [tree EXCEPT !.whole = tree.of = git[p].of /\ git[p].of \notin Patched, !.link = TRUE]
        /\ reg' = [reg EXCEPT ![e].locked = "no"]
        /\ Reap(p, TRUE)
     \/ /\ IF tree.at = "dir" THEN Fault ELSE UNCHANGED faults
        /\ tree' = NoTree /\ reg' = [reg EXCEPT ![e] = NoReg]
        /\ Reap(p, FALSE)
  /\ UNCHANGED <<request, staging, marker, handed>>

(* The context ends: exec.CommandContext kills git, whose entry stays       *)
(* locked as initializing.                                                  *)
KillGit(p) ==
  /\ At(p, "adding") /\ Fault /\ Reap(p, FALSE)
  /\ UNCHANGED <<files, reg, handed>>

(* ApplyPatch completes a base-plus-patch tree.                             *)
ApplyPatch(p) ==
  /\ At(p, "patch") /\ Goto(p, "stage") /\ Stay
  /\ tree' = [tree EXCEPT !.whole = tree.of = job[p].of]
  /\ UNCHANGED <<request, staging, marker, reg, git, handed, faults>>

(* Step 6: the witness is staged, then renamed into place.                  *)
StageWitness(p) ==
  /\ At(p, "stage") /\ Goto(p, "rename") /\ Stay
  /\ staging' = TRUE
  /\ UNCHANGED <<tree, request, marker, reg, git, handed, faults>>

RenameWitness(p) ==
  /\ At(p, "rename") /\ Goto(p, "handover") /\ Stay
  /\ request' = job[p].of /\ staging' = FALSE
  /\ UNCHANGED <<tree, marker, reg, git, handed, faults>>

(* Materialized or Reused: the lock is released, the caller has the path.   *)
Handover(p) ==
  /\ At(p, "handover") /\ Return(p)
  /\ handed' = TRUE
  /\ UNCHANGED <<files, reg, git, faults>>
-----------------------------------------------------------------------------
(* Release: the marker is created exclusively, whatever else is there.      *)
ReleaseAcquire(p) ==
  /\ Acquire(p, "idle", "mark")
  /\ job' = [job EXCEPT ![p] = [NoJob EXCEPT !.kind = "release"]]
  /\ UNCHANGED <<files, reg, git, handed, faults>>

ReleaseMarker(p) ==
  /\ At(p, "mark") /\ Return(p)
  /\ marker' = IF marker = "absent" THEN "regular" ELSE marker
  /\ UNCHANGED <<tree, request, staging, reg, git, handed, faults>>
-----------------------------------------------------------------------------
(* gc's scan set: anything on disk under the unit's names, or a             *)
(* registration of it.                                                      *)
Scanned ==
  \/ tree.at # "absent" \/ request # NoId \/ staging \/ marker # "absent"
  \/ holder # NoProc \/ Registered # {}

(* Mutant: only a unit that still has its witness is reclaimed.             *)
ReclaimableWitnessed ==
  request # NoId /\ tree.at = "dir" /\ marker = "regular" /\ tree.link /\ ~StatusDirty

(* Ranks 1 to 3 let the unit through: a real directory, released, whose     *)
(* clean check can be made and finds nothing.                               *)
Reclaimable == tree.at = "dir" /\ marker = "regular" /\ tree.link /\ ~StatusDirty

StartGC(p) ==
  /\ At(p, "idle") /\ Scanned
  /\ Goto(p, "decide")
  /\ job' = [job EXCEPT ![p] = [NoJob EXCEPT !.kind = "gc"]]
  /\ UNCHANGED <<files, reg, holder, git, handed, faults>>

(* decideUnit classifies without the lock: ranks 0 and 5 would mutate, the  *)
(* others keep the unit.                                                    *)
DecideUnit(p) ==
  /\ At(p, "decide")
  /\ \/ tree.at = "absent" /\ Goto(p, "rank0") /\ UNCHANGED job
     \/ Reclaimable /\ Goto(p, "rank5") /\ UNCHANGED job
     \/ /\ tree.at # "absent" /\ ~Reclaimable /\ Goto(p, "idle")
        /\ job' = [job EXCEPT ![p] = NoJob]
  /\ UNCHANGED <<files, reg, holder, git, handed, faults>>

RankAcquire(p) ==
  /\ \/ Acquire(p, "rank0", "redecide0") \/ Acquire(p, "rank5", "redecide5")
  /\ UNCHANGED <<files, reg, job, git, handed, faults>>

(* KeepLocked: the acquisition failed.                                      *)
RankHeld(p) ==
  /\ pc[p] \in {"rank0", "rank5"} /\ holder # NoProc
  /\ Goto(p, "idle") /\ job' = [job EXCEPT ![p] = NoJob]
  /\ UNCHANGED <<files, reg, holder, git, handed, faults>>

(* Mutant: the classification is applied as it was read before the lock.    *)
RederiveNever(p) ==
  /\ \/ At(p, "redecide0") /\ Goto(p, "unlinkRequest")
     \/ At(p, "redecide5") /\ Goto(p, "delStaging")
  /\ UNCHANGED <<files, reg, holder, job, git, handed, faults>>

(* Mutant: the tree is not looked at again under the lock.                  *)
RederiveMarkerOnly(p) ==
  /\ \/ At(p, "redecide0") /\ tree.at = "absent" /\ Goto(p, "unlinkRequest") /\ UNCHANGED holder
     \/ At(p, "redecide5") /\ tree.at = "dir" /\ marker = "regular"
        /\ Goto(p, "delStaging") /\ UNCHANGED holder
     \/ At(p, "redecide0") /\ tree.at # "absent" /\ Goto(p, "decide") /\ holder' = NoProc
     \/ At(p, "redecide5") /\ ~(tree.at = "dir" /\ marker = "regular")
        /\ Goto(p, "decide") /\ holder' = NoProc
  /\ UNCHANGED <<files, reg, job, git, handed, faults>>

(* A decision that no longer holds under the lock is taken again.           *)
Rederive(p) ==
  /\ \/ At(p, "redecide0") /\ tree.at = "absent" /\ Goto(p, "unlinkRequest") /\ UNCHANGED holder
     \/ At(p, "redecide5") /\ Reclaimable /\ Goto(p, "delStaging") /\ UNCHANGED holder
     \/ /\ \/ At(p, "redecide0") /\ tree.at # "absent"
           \/ At(p, "redecide5") /\ ~Reclaimable
        /\ Goto(p, "decide") /\ holder' = NoProc
  /\ UNCHANGED <<files, reg, job, git, handed, faults>>

(* Rank 5 deletes in a fixed order, the completion witness first.           *)
DeleteWitness(p) ==
  /\ Stay
  /\ \/ At(p, "delStaging") /\ Goto(p, "delRequest") /\ staging' = FALSE /\ UNCHANGED request
     \/ At(p, "delRequest") /\ Goto(p, "delTree") /\ request' = NoId /\ UNCHANGED staging
  /\ UNCHANGED <<tree, marker, reg, git, handed, faults>>

DeleteTree(p) ==
  /\ At(p, "delTree") /\ Goto(p, "delReleased") /\ Stay
  /\ tree' = NoTree /\ handed' = FALSE
  /\ UNCHANGED <<request, staging, marker, reg, git, faults>>

DeleteReleased(p) ==
  /\ At(p, "delReleased") /\ Return(p)
  /\ marker' = IF marker = "regular" THEN "absent" ELSE marker
  /\ UNCHANGED <<tree, request, staging, reg, git, handed, faults>>
-----------------------------------------------------------------------------
(* A system call fails: the operation returns an error at this step.        *)
IOError(p) ==
  /\ holder = p /\ ~At(p, "adding") /\ ~At(p, "handover") /\ Fault
  /\ Return(p)
  /\ UNCHANGED <<files, reg, git, handed>>

(* The process dies.  The lock of a dead holder is free to take.  A git     *)
(* child dies with it, or goes on alone.                                    *)
Crash(p) ==
  /\ pc[p] \notin {"idle", "orphan"} /\ Fault
  /\ holder' = IF holder = p THEN NoProc ELSE holder
  /\ job' = [job EXCEPT ![p] = NoJob]
  /\ \/ Goto(p, "idle") /\ git' = [git EXCEPT ![p] = NoGit]
     \/ Orphans /\ At(p, "adding") /\ Goto(p, "orphan") /\ UNCHANGED git
  /\ UNCHANGED <<files, reg, handed>>

(* The consumer works in the tree it was given; the work is late when the   *)
(* unit has been released before.                                           *)
Edit ==
  /\ handed /\ tree.at = "dir" /\ tree.work = "none"
  /\ tree' = [tree EXCEPT !.work = IF marker = "regular" THEN "late" ELSE "early"]
  /\ UNCHANGED <<request, staging, marker, reg, holder, pc, job, git, handed, faults>>

Commit ==
  /\ tree.work # "none"
  /\ tree' = [tree EXCEPT !.work = "none"]
  /\ UNCHANGED <<request, staging, marker, reg, holder, pc, job, git, handed, faults>>

GitIdle == \A p \in Procs : git[p].st = "none"

(* git worktree lock, unlock and prune, typed by a person: git sees only    *)
(* entries with a gitdir record.  Nobody prunes while git adds the unit: a  *)
(* prune between Verify and DeleteEntry frees the name for an orphaned add. *)
LockWorktree(e) ==
  /\ Fault /\ reg[e] = [rec |-> "gitdir", locked |-> "no"]
  /\ reg' = [reg EXCEPT ![e].locked = "human"]
  /\ UNCHANGED <<files, holder, pc, job, git, handed>>

UnlockWorktree(e) ==
  /\ reg[e].rec = "gitdir" /\ reg[e].locked # "no"
  /\ \A p \in Procs : git[p].ent # e
  /\ reg' = [reg EXCEPT ![e].locked = "no"]
  /\ UNCHANGED <<files, holder, pc, job, git, handed, faults>>

PruneWorktree(e) ==
  /\ GitIdle /\ reg[e].locked = "no" /\ reg[e].rec # "none"
  /\ tree.at = "absent" \/ reg[e].rec = "aside"
  /\ reg' = [reg EXCEPT ![e] = NoReg]
  /\ UNCHANGED <<files, holder, pc, job, git, handed, faults>>

(* Someone deletes the unit, puts an object of another kind at one of its   *)
(* paths, or damages the sidecar, while no operation runs.                  *)
Tamper ==
  /\ Fault /\ holder = NoProc /\ GitIdle
  /\ \/ tree.at = "dir" /\ tree' = NoTree /\ handed' = FALSE /\ UNCHANGED <<marker, request>>
     \/ tree.at = "absent" /\ tree' = [NoTree EXCEPT !.at = "other"]
        /\ UNCHANGED <<marker, request, handed>>
     \/ marker = "absent" /\ marker' = "other" /\ UNCHANGED <<tree, request, handed>>
     \/ request \in Ids /\ request' = "bad" /\ UNCHANGED <<tree, marker, handed>>
  /\ UNCHANGED <<staging, reg, holder, pc, job, git>>
-----------------------------------------------------------------------------
ReconcileStep(p) ==
  \/ Enumerate(p) \/ VisitEntry(p) \/ Claim(p) \/ Verify(p) \/ DeleteEntry(p) \/ Postcondition(p)

MaterializeStep(p) ==
  \/ Look(p) \/ UnlinkOrphans(p) \/ RemoveResidue(p) \/ UnlinkResidueStaging(p)
  \/ StartAdd(p) \/ ApplyPatch(p) \/ StageWitness(p) \/ RenameWitness(p) \/ Handover(p)

GCStep(p) ==
  \/ DecideUnit(p) \/ RankAcquire(p) \/ RankHeld(p) \/ Rederive(p)
  \/ DeleteWitness(p) \/ DeleteTree(p) \/ DeleteReleased(p)

GitStep(p) == GitBegins(p) \/ GitEnds(p)

(* What a process that runs goes on to do.                                  *)
Step(p) == ReconcileStep(p) \/ MaterializeStep(p) \/ GCStep(p) \/ GitStep(p) \/ ReleaseMarker(p)

Next ==
  \/ \E p \in Procs :
       \/ \E i \in Ids : MaterializeAcquire(p, i)
       \/ ReleaseAcquire(p)
       \/ StartGC(p)
       \/ Step(p) \/ RemoveSome(p) \/ KillGit(p) \/ IOError(p) \/ Crash(p)
  \/ Edit \/ Commit \/ Tamper
  \/ \E e \in Entries : LockWorktree(e) \/ UnlockWorktree(e) \/ PruneWorktree(e)

Spec == Init /\ [][Next]_vars

(* A process that runs goes on; callers keep asking and sweeping, and are   *)
(* not beaten to the lock for ever; people follow the remedy that the       *)
(* refusal names and unlock.  Faults, edits, releases and tampering owe     *)
(* nothing.                                                                 *)
Fairness ==
  /\ \A p \in Procs :
       /\ WF_vars(Step(p))
       /\ \A i \in Ids : SF_vars(MaterializeAcquire(p, i))
       /\ SF_vars(StartGC(p)) /\ SF_vars(RankAcquire(p))
  /\ \A e \in Entries : WF_vars(UnlockWorktree(e))

FairSpec == Spec /\ Fairness
-----------------------------------------------------------------------------
(* The types; and a process inside an operation is the one that holds the   *)
(* lock: no exit of Materialize, Release or gc keeps it, none runs without. *)
TypeOK ==
  /\ tree \in Trees /\ request \in Ids \cup {NoId, "bad"} /\ staging \in BOOLEAN
  /\ marker \in {"absent", "regular", "other"}
  /\ reg \in [Entries -> Regs]
  /\ holder \in Procs \cup {NoProc}
  /\ pc \in [Procs -> FreePcs \cup LockedPcs] /\ job \in [Procs -> Jobs]
  /\ git \in [Procs -> [st: {"none", "started", "running"}, ent: Entries \cup {NoEntry},
                        of: Ids \cup {NoId}]]
  /\ handed \in BOOLEAN /\ faults \in 0..MaxFaults
  /\ \A p \in Procs : pc[p] \in LockedPcs <=> holder = p

(* .request is a completion witness: beside a directory it is only ever     *)
(* found when the tree of exactly that identity is all there, whatever      *)
(* crashed, failed or was swept before (materialize.go steps 2, 4 and 6,    *)
(* and the witness-first order of rank 5).                                  *)
WitnessTrue ==
  request \in Ids /\ tree.at = "dir" => tree.of = request /\ tree.whole /\ tree.link

(* What Materialize hands out, fresh or reused, is the whole tree of the    *)
(* identity asked for, witnessed, and not released (steps 3a, 4a, 6).       *)
HandoverSound ==
  \A p \in Procs : At(p, "handover") =>
    /\ tree.at = "dir" /\ tree.whole /\ tree.of = job[p].of
    /\ request = job[p].of /\ marker = "absent"

(* When git worktree add starts, no claim of an earlier run is left: an     *)
(* entry renamed aside by a run that crashed is finished by the next one,   *)
(* though git itself no longer sees it (reconcile.go, the postcondition).   *)
ClaimsResolved ==
  \A p \in Procs : At(p, "add") => \A e \in Entries : reg[e].rec # "aside"

(* What one run of the reconciler leaves, the next may rely on.             *)
UnitSound == TypeOK /\ WitnessTrue /\ ClaimsResolved

(* A tree that a consumer was given and has not released is not removed or  *)
(* thinned out by Materialize or gc: a stale classification is never        *)
(* applied, and residue is only what nobody received (gc.go rank 0 and 5,   *)
(* materialize.go step 4c).                                                 *)
LiveUnitKept ==
  [][handed /\ marker # "regular" =>
       (tree'.whole = tree.whole /\ tree'.of = tree.of) \/ Tamper]_vars

(* Uncommitted work that was in the tree when it was released survives gc   *)
(* until it is committed: the clean check is taken again under the lock.    *)
EarlyWorkKept ==
  [][tree.work = "early" =>
       (tree'.work = "early" /\ tree'.of = tree.of) \/ Commit \/ Tamper]_vars

(* Nobody's tree and nobody's work is removed on the word of a look that is *)
(* out of date.                                                             *)
WantedKept == LiveUnitKept /\ EarlyWorkKept

(* A registration is not removed while git still fills its tree, even when  *)
(* the process that started git is dead and another holds the unit lock:    *)
(* git's initializing marker, looked at before the claim and again under    *)
(* it, is the second guard (reconcile.go step 3).                           *)
InFlightAddKept ==
  [][\A p \in Procs : git[p].st = "running" /\ git'[p] = git[p] =>
       reg'[git[p].ent].locked = reg[git[p].ent].locked]_vars

(* Refuted: while a process holds the unit lock, no other process's git     *)
(* worktree add works on the unit.                                          *)
NoAddRacesHolder ==
  \A p \in Procs : git[p].st = "running" => holder \in {p, NoProc}

(* Whatever crashed or failed before, a unit that is asked for again and    *)
(* again is handed over again and again, unless it is released or a person  *)
(* put something there that the code refuses to touch, among them a lock    *)
(* that fell between a look and a claim whose run then died: git worktree   *)
(* unlock no longer sees the entry.  No residue, no claim and no            *)
(* initializing entry wedges the workspace id.                              *)
Refused ==
  \/ marker # "absent" \/ request = "bad" \/ tree.at = "other"
  \/ \E e \in Entries : reg[e] = [rec |-> "aside", locked |-> "human"]
NeverWedged == []<>(handed \/ Refused)

(* A reclaim that has deleted the witness is finished, by this gc or, after *)
(* a crash or a failed deletion, by a later one (gc.go rank 5), unless the  *)
(* consumer writes into the released tree meanwhile, or RemoveAll stopped   *)
(* half-way: what is left of the tree is not clean, and is kept.            *)
ReclaimReentrant ==
  \A p \in Procs : At(p, "delTree") ~>
    tree.at = "absent" \/ tree.work # "none" \/ tree.of = NoId

(* Refuted: "RECLAIM IS RE-ENTRANT", without that exception.                *)
ReclaimAlwaysReentrant ==
  \A p \in Procs : At(p, "delTree") ~> tree.at = "absent" \/ tree.work # "none"
=============================================================================
