----------------------------- MODULE WtManager -----------------------------
(***************************************************************************)
(* The managed worktree of one design branch (internal/wtmanager):         *)
(* EnsureWorktree by several callers against gc, over the worktree's lock, *)
(* with crashes, failing git commands, and a person who edits the tree,    *)
(* merges, advances, deletes and recreates the branch.                     *)
(*                                                                         *)
(* The lock is an exclusive holder whose death frees it (FileLock).  git   *)
(* is an ordinary child process, which may outlive the caller that started *)
(* it (dead).  git worktree add makes the directory first and fills it     *)
(* later; git worktree remove checks first and deletes later.              *)
(***************************************************************************)
EXTENDS Naturals

CONSTANTS
  Callers,    \* callers of EnsureWorktree
  Sweepers,   \* callers of GC
  NoProc,
  MaxFaults   \* bound: crashes, failed and cancelled git commands

Procs == Callers \cup Sweepers

ASSUME WtConstants == NoProc \notin Procs /\ MaxFaults \in Nat

VARIABLES
  tree,     \* the worktree's directory: "none", "partial" or "whole"
  reg,      \* its registration with git: "none", "live", or "init" (locked)
  work,     \* uncommitted work in it: "none", "early", or "late" (git remove had checked)
  branch,   \* "ahead" of or "merged" into the default branch, "here", "absent"
  holder,   \* who holds the worktree's lock
  pc,       \* what each process, or the git it waits for, is about to do
  dead,     \* dead[p]: p died while its git goes on
  stray,    \* history: the directory was made by the git of a dead process
  gave,     \* gave[c]: the tree when EnsureWorktree last returned its path to c
  faults

world == <<tree, reg, work, branch, stray>>
vars == <<world, holder, pc, dead, gave, faults>>

GitPcs == {"add", "adding", "broken", "remove", "removing"}
InSection(p) == pc[p] = "won" \/ pc[p] \in GitPcs

Init ==
  /\ tree = "none" /\ reg = "none" /\ work = "none"
  /\ branch \in {"ahead", "merged", "here", "absent"}
  /\ holder = NoProc
  /\ pc = [p \in Procs |-> "idle"]
  /\ dead = [p \in Procs |-> FALSE] /\ stray = FALSE
  /\ gave = [c \in Callers |-> "none"]
  /\ faults = 0

At(p, l) == pc[p] = l
Goto(p, l) == pc' = [pc EXCEPT ![p] = l]
Fault == faults < MaxFaults /\ faults' = faults + 1
Exists == tree # "none"
ReturnPath(c, t) == Goto(c, "idle") /\ gave' = [gave EXCEPT ![c] = t]

(* An operation under the lock ends: the lock is released, whatever the     *)
(* outcome.                                                                 *)
Unlock == holder' = NoProc

(* Mutant: an error leaves the lock held by a process that lives on.        *)
FailHolding(c) == Goto(c, "idle") /\ UNCHANGED <<gave, holder>>

Fail(c) == Goto(c, "idle") /\ Unlock /\ UNCHANGED gave

(* A git ends: whoever waits for it returns, releasing the lock.            *)
Ended(p) ==
  /\ dead' = [dead EXCEPT ![p] = FALSE]
  /\ holder' = IF holder = p THEN NoProc ELSE holder
(* What git deletes is whatever is at the path: an add that is filling it   *)
(* is broken.                                                               *)
DeletesUnder(p) ==
  /\ pc' = [q \in Procs |-> IF q = p THEN "idle" ELSE IF At(q, "adding") THEN "broken" ELSE pc[q]]
  /\ Ended(p)
-----------------------------------------------------------------------------
(* The fast path: a directory at the worktree's path is reused as it is.    *)
Ensure(c) ==
  /\ At(c, "idle")
  /\ \/ Exists /\ ReturnPath(c, tree)
     \/ ~Exists /\ Goto(c, "acquire") /\ UNCHANGED gave
  /\ UNCHANGED <<world, holder, dead, faults>>

(* One round of the loop: take the lock, or, when it is held, reuse a path  *)
(* that has appeared; else poll again.                                      *)
Poll(c) ==
  /\ At(c, "acquire")
  /\ \/ holder = NoProc /\ holder' = c /\ Goto(c, "won") /\ UNCHANGED gave
     \/ holder # NoProc /\ Exists /\ ReturnPath(c, tree) /\ UNCHANGED holder
  /\ UNCHANGED <<world, dead, faults>>

(* The context ends in the loop.                                            *)
Cancel(c) ==
  /\ At(c, "acquire") /\ Fault /\ Goto(c, "idle")
  /\ UNCHANGED <<world, holder, dead, gave>>

(* Mutant: the winner cuts without looking again.                           *)
RecheckNever(c) ==
  /\ At(c, "won") /\ Goto(c, "add")
  /\ UNCHANGED <<world, holder, dead, gave, faults>>

(* Under the lock: reuse what a winner before us cut, refuse a branch that  *)
(* is not local or is checked out at the root, else start git worktree add. *)
Recheck(c) ==
  /\ At(c, "won")
  /\ \/ Exists /\ ReturnPath(c, tree) /\ Unlock
     \/ ~Exists /\ branch \in {"absent", "here"} /\ Fail(c)
     \/ ~Exists /\ branch \in {"ahead", "merged"} /\ Goto(c, "add") /\ UNCHANGED <<holder, gave>>
  /\ UNCHANGED <<world, dead, faults>>

(* git looks, then registers and makes the directory.                       *)
AddBegins(c) ==
  /\ At(c, "add") /\ tree = "none" /\ reg = "none" /\ branch \in {"ahead", "merged"}
  /\ tree' = "partial" /\ reg' = "init" /\ stray' = dead[c] /\ Goto(c, "adding")
  /\ UNCHANGED <<work, branch, holder, dead, gave, faults>>

(* git refuses a path that exists or is registered, and a branch that is    *)
(* gone or in use by now.                                                   *)
AddRefused(c) ==
  /\ At(c, "add") /\ ~(tree = "none" /\ reg = "none" /\ branch \in {"ahead", "merged"})
  /\ Goto(c, "idle") /\ Ended(c)
  /\ UNCHANGED <<world, gave, faults>>

AddEnds(c) ==
  /\ At(c, "adding") /\ Goto(c, "idle") /\ Ended(c)
  /\ tree' = "whole" /\ reg' = "live"
  /\ gave' = IF dead[c] THEN gave ELSE [gave EXCEPT ![c] = "whole"]
  /\ UNCHANGED <<work, branch, stray, faults>>

(* git fails and clears what it made, or is killed and leaves it.           *)
AddFails(c) ==
  /\ pc[c] \in {"add", "adding"} /\ Fault /\ Goto(c, "idle") /\ Ended(c)
  /\ \/ At(c, "adding") /\ tree' = "none" /\ reg' = "none"
     \/ UNCHANGED <<tree, reg>>
  /\ UNCHANGED <<work, branch, stray, gave>>

(* An add whose directory and registration another git deleted under it     *)
(* fails too: it may have written some of the tree again, and may clear the *)
(* path, whatever is there by now.                                          *)
AddBroken(c) ==
  /\ At(c, "broken")
  /\ \/ tree' = "none" /\ reg' = "none" /\ work' = "none" /\ DeletesUnder(c)
     \/ tree' = "partial" /\ UNCHANGED <<reg, work>> /\ DeletesUnder(c)
     \/ UNCHANGED <<tree, reg, work>> /\ Goto(c, "idle") /\ Ended(c)
  /\ stray' = IF tree = "none" THEN dead[c] ELSE stray
  /\ UNCHANGED <<branch, gave, faults>>
-----------------------------------------------------------------------------
(* reclaimEligible: the branch is merged or gone.                           *)
Eligible == branch \in {"merged", "absent"}
StatusDirty == work # "none" \/ tree = "partial"

(* gcOne reads, one after the other and without the lock: whether the       *)
(* branch is eligible, whether the tree is clean, whether the lock is held. *)
ReadEligible(g) ==
  /\ At(g, "idle") /\ Exists /\ Eligible /\ Goto(g, "status")
  /\ UNCHANGED <<world, holder, dead, gave, faults>>

ReadStatus(g) ==
  /\ At(g, "status") /\ Goto(g, IF StatusDirty \/ ~Exists THEN "idle" ELSE "peek")
  /\ UNCHANGED <<world, holder, dead, gave, faults>>

Peek(g) ==
  /\ At(g, "peek") /\ Goto(g, IF holder # NoProc THEN "idle" ELSE "lock")
  /\ UNCHANGED <<world, holder, dead, gave, faults>>

(* Mutant: the removal trusts the Peek.                                     *)
LockToRemovePeeked(g) ==
  /\ At(g, "lock") /\ Goto(g, "remove")
  /\ UNCHANGED <<world, holder, dead, gave, faults>>

(* The lock is taken for the removal alone; held means keep.                *)
LockToRemove(g) ==
  /\ At(g, "lock")
  /\ IF holder = NoProc THEN holder' = g /\ Goto(g, "remove")
                        ELSE Goto(g, "idle") /\ UNCHANGED holder
  /\ UNCHANGED <<world, dead, gave, faults>>

(* Mutant: git worktree remove --force.                                     *)
RemoveForced(g) ==
  /\ At(g, "remove") /\ Goto(g, "removing")
  /\ UNCHANGED <<world, holder, dead, gave, faults>>

(* git worktree remove, without --force, passes a clean, registered tree    *)
(* that is not locked.                                                      *)
Remove(g) ==
  /\ At(g, "remove") /\ ~StatusDirty /\ Exists /\ reg = "live"
  /\ Goto(g, "removing")
  /\ UNCHANGED <<world, holder, dead, gave, faults>>

RemoveRefused(g) ==
  /\ At(g, "remove") /\ ~(~StatusDirty /\ Exists /\ reg = "live")
  /\ Goto(g, "idle") /\ Ended(g)
  /\ UNCHANGED <<world, gave, faults>>

Removed(g) ==
  /\ At(g, "removing") /\ DeletesUnder(g)
  /\ tree' = "none" /\ reg' = "none" /\ work' = "none"
  /\ UNCHANGED <<branch, stray, gave, faults>>

(* git fails, or is killed, part of the way.                                *)
RemoveFails(g) ==
  /\ At(g, "removing") /\ Fault /\ Exists /\ DeletesUnder(g)
  /\ tree' = "partial"
  /\ UNCHANGED <<reg, work, branch, stray, gave>>
-----------------------------------------------------------------------------
(* A process dies: its lock is free to take.  A git it waits for goes on,   *)
(* or dies with it and leaves what is there.                                *)
Crash(p) ==
  /\ ~At(p, "idle") /\ ~dead[p] /\ Fault
  /\ holder' = IF holder = p THEN NoProc ELSE holder
  /\ \/ pc[p] \in GitPcs /\ dead' = [dead EXCEPT ![p] = TRUE] /\ UNCHANGED pc
     \/ Goto(p, "idle") /\ UNCHANGED dead
  /\ UNCHANGED <<world, gave>>

(* A person, or the board, edits the tree, and commits.  No program can     *)
(* keep work done while a git that has finished looking deletes ("late").   *)
Edit ==
  /\ tree = "whole" /\ work = "none"
  /\ work' = IF \E p \in Procs : pc[p] \in {"removing", "broken"} THEN "late" ELSE "early"
  /\ UNCHANGED <<tree, reg, branch, stray, holder, pc, dead, gave, faults>>

Commit ==
  /\ work # "none" /\ tree = "whole" /\ branch \in {"ahead", "merged"}
  /\ work' = "none" /\ branch' = "ahead"
  /\ UNCHANGED <<tree, reg, stray, holder, pc, dead, gave, faults>>

(* The branch is merged, deleted, advanced, recreated, or left by the root  *)
(* checkout.                                                                *)
MoveBranch ==
  /\ \/ branch = "ahead" /\ branch' \in {"merged", "absent"}
     \/ branch \in {"merged", "absent", "here"} /\ branch' = "ahead"
  /\ UNCHANGED <<tree, reg, work, stray, holder, pc, dead, gave, faults>>

CallerStep(c) ==
  Poll(c) \/ Recheck(c) \/ AddBegins(c) \/ AddRefused(c) \/ AddEnds(c) \/ AddBroken(c)
SweeperStep(g) ==
  ReadStatus(g) \/ Peek(g) \/ LockToRemove(g) \/ Remove(g) \/ RemoveRefused(g) \/ Removed(g)

Next ==
  \/ \E c \in Callers : Ensure(c) \/ CallerStep(c) \/ Cancel(c) \/ AddFails(c)
  \/ \E g \in Sweepers : ReadEligible(g) \/ SweeperStep(g) \/ RemoveFails(g)
  \/ \E p \in Procs : Crash(p)
  \/ Edit \/ Commit \/ MoveBranch

Spec == Init /\ [][Next]_vars

(* A process inside EnsureWorktree or gc goes on, and a caller that polls   *)
(* every 10 ms is not beaten to the lock for ever, nor does it miss a free  *)
(* lock for ever.  Nobody has to call, edit, or fail.                       *)
Fairness ==
  /\ \A c \in Callers : WF_vars(CallerStep(c)) /\ SF_vars(Poll(c))
  /\ \A g \in Sweepers : WF_vars(SweeperStep(g))

FairSpec == Spec /\ Fairness
-----------------------------------------------------------------------------
(* The types; and the holder of the lock lives and is in the part of        *)
(* EnsureWorktree or gc that the lock is for: it is never held while idle.  *)
TypeOK ==
  /\ tree \in {"none", "partial", "whole"} /\ reg \in {"none", "live", "init"}
  /\ work \in {"none", "early", "late"}
  /\ branch \in {"ahead", "merged", "here", "absent"}
  /\ holder \in Procs \cup {NoProc}
  /\ pc \in [Procs -> {"idle", "acquire", "won", "status", "peek", "lock"} \cup GitPcs]
  /\ dead \in [Procs -> BOOLEAN] /\ stray \in BOOLEAN
  /\ gave \in [Callers -> {"none", "partial", "whole"}]
  /\ faults \in 0..MaxFaults
  /\ \A p \in Procs : holder = p <=> InSection(p) /\ ~dead[p]

(* Two gits change the worktree at the same time only if one has outlived   *)
(* the process that started it: the lock that EnsureWorktree and gc take    *)
(* covers the directory from before git is started until it has ended       *)
(* (ensure.go, gc.go, ac-3).                                                *)
OneMutator ==
  \A p, q \in Procs :
    pc[p] \in GitPcs /\ pc[q] \in GitPcs /\ p # q => dead[p] \/ dead[q]

(* Uncommitted work that is in the tree when git worktree remove looks is   *)
(* never removed, although gc judged the tree clean before it had the lock. *)
WorkKept ==
  [][work = "early" => work' = "early" \/ Commit]_vars

(* A caller that started git worktree add finds its path taken only by the  *)
(* git of a process that died: the second look under the lock sees all that *)
(* living processes do.                                                     *)
AddIntoNothing ==
  \A c \in Callers : At(c, "add") /\ ~dead[c] /\ Exists => stray

(* A caller inside EnsureWorktree returns, whoever cuts, fails or dies      *)
(* meanwhile.                                                               *)
EnsureReturns ==
  \A c \in Callers : At(c, "acquire") ~> At(c, "idle")

(* Refuted: git worktree add is started for a path that does not exist, and *)
(* stays alone with it until it ends (exactly one git worktree add).        *)
AddAlone ==
  \A c \in Callers : At(c, "add") /\ ~dead[c] => ~Exists

(* Refuted: no git deletes a tree that the holder of the lock is making.    *)
OwnerKeepsTree ==
  \A c \in Callers : ~At(c, "broken")

(* Refuted: a caller that lost the race is given the path of the winner's   *)
(* completed cut, never that of a tree that is still being filled or was    *)
(* left behind.                                                             *)
PathOfCompletedCut ==
  \A c \in Callers : gave[c] # "partial"
=============================================================================
