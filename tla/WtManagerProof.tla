--------------------------- MODULE WtManagerProof ---------------------------
(***************************************************************************)
(* Safety of WtManager for any number of callers and sweepers and any      *)
(* number of faults, with gits that outlive their parents.  The lock alone *)
(* is not inductive for AddIntoNothing and WorkKept: what a process found  *)
(* under the lock has to be carried through the steps it takes before it   *)
(* acts on it, and what a git does that nobody waits for any more has to   *)
(* be told from what a living process does.                                *)
(***************************************************************************)
EXTENDS WtManager, TLAPS

(* No work that git worktree remove would have seen is in a tree that a git *)
(* is already deleting.                                                     *)
DeletingSeenClean ==
  \A p \in Procs : pc[p] \in {"removing", "broken"} => work # "early"

(* A tree that is being filled is there, and one git fills it.              *)
FillingAlone ==
  \A p \in Procs : pc[p] = "adding" =>
    tree = "partial" /\ \A q \in Procs : pc[q] = "adding" => q = p

(* What a dead process left behind is a git.                                *)
DeadLeftGit ==
  \A p \in Procs : dead[p] => pc[p] \in GitPcs

IInv == TypeOK /\ DeadLeftGit /\ AddIntoNothing /\ DeletingSeenClean /\ FillingAlone

LEMMA InitIInv == Init => IInv
<1> SUFFICES ASSUME Init PROVE IInv
  OBVIOUS
<1> USE WtConstants DEF Init, IInv, TypeOK, GitPcs, InSection, DeadLeftGit, AddIntoNothing,
                        DeletingSeenClean, FillingAlone, Procs, At
<1>1. \A p \in Procs : holder = p <=> InSection(p) /\ ~dead[p]
  OBVIOUS
<1>2. faults \in 0..MaxFaults
  OBVIOUS
<1>3. TypeOK
  BY <1>1, <1>2
<1>4. QED
  BY <1>3

(* Ensure, Poll and Cancel do not touch the tree.                           *)
LEMMA WaitingSteps ==
  ASSUME IInv, NEW c \in Callers, Ensure(c) \/ Poll(c) \/ Cancel(c)
  PROVE  IInv'
<1> USE WtConstants DEF IInv, TypeOK, GitPcs, InSection, DeadLeftGit, AddIntoNothing,
                        DeletingSeenClean, FillingAlone, Procs, At, Goto, Exists, world, ReturnPath, Fault
<1>1. CASE Ensure(c)
  BY <1>1 DEF Ensure
<1>2. CASE Poll(c)
  <2> USE <1>2 DEF Poll
  <2>1. TypeOK' /\ DeadLeftGit'
    OBVIOUS
  <2>2. AddIntoNothing'
    OBVIOUS
  <2>3. DeletingSeenClean' /\ FillingAlone'
    OBVIOUS
  <2>4. QED
    BY <2>1, <2>2, <2>3
<1>3. CASE Cancel(c)
  BY <1>3 DEF Cancel
<1>4. QED
  BY <1>1, <1>2, <1>3

(* The winner looks, and git cuts or fails, whether or not it is waited for. *)
LEMMA CuttingSteps ==
  ASSUME IInv, NEW c \in Callers, Recheck(c) \/ AddBegins(c) \/ AddRefused(c) \/
                             AddEnds(c) \/ AddFails(c) \/ AddBroken(c)
  PROVE  IInv'
<1> USE WtConstants DEF IInv, TypeOK, GitPcs, InSection, DeadLeftGit, AddIntoNothing,
                        DeletingSeenClean, FillingAlone, Procs, At, Goto, Exists, world,
                        ReturnPath, Fault, Fail, Unlock, Ended, DeletesUnder
<1>1. CASE Recheck(c)
  <2> USE <1>1 DEF Recheck
  <2>1. TypeOK' /\ DeadLeftGit'
    OBVIOUS
  <2>2. AddIntoNothing'
    OBVIOUS
  <2>3. DeletingSeenClean' /\ FillingAlone'
    OBVIOUS
  <2>4. QED
    BY <2>1, <2>2, <2>3
<1>2. CASE AddBegins(c)
  BY <1>2 DEF AddBegins
<1>3. CASE AddRefused(c)
  BY <1>3 DEF AddRefused
<1>4. CASE AddEnds(c)
  BY <1>4 DEF AddEnds
<1>5. CASE AddFails(c)
  BY <1>5 DEF AddFails
<1>6. CASE AddBroken(c)
  <2> USE <1>6 DEF AddBroken
  <2>a. (\A p \in Procs : holder = p <=> InSection(p) /\ ~dead[p])'
    OBVIOUS
  <2>b. DeadLeftGit'
    OBVIOUS
  <2>c. pc' \in [Procs -> {"idle", "acquire", "won", "status", "peek", "lock"} \cup GitPcs]
    OBVIOUS
  <2>d. holder' \in Procs \cup {NoProc}
    OBVIOUS
  <2>e. dead' \in [Procs -> BOOLEAN]
    OBVIOUS
  <2>f. faults' \in 0..MaxFaults
    OBVIOUS
  <2>1. TypeOK' /\ DeadLeftGit'
    BY <2>a, <2>b, <2>c, <2>d, <2>e, <2>f
  <2>2. AddIntoNothing'
    OBVIOUS
  <2>3. DeletingSeenClean' /\ FillingAlone'
    OBVIOUS
  <2>4. QED
    BY <2>1, <2>2, <2>3
<1>7. QED
  BY <1>1, <1>2, <1>3, <1>4, <1>5, <1>6

(* gc looks without the lock and removes under it.                          *)
LEMMA SweepingSteps ==
  ASSUME IInv, NEW g \in Sweepers, ReadEligible(g) \/ ReadStatus(g) \/ Peek(g) \/
                              LockToRemove(g) \/ Remove(g) \/ RemoveRefused(g) \/
                              Removed(g) \/ RemoveFails(g)
  PROVE  IInv'
<1> USE WtConstants DEF IInv, TypeOK, GitPcs, InSection, DeadLeftGit, AddIntoNothing,
                        DeletingSeenClean, FillingAlone, Procs, At, Goto, Exists, world,
                        StatusDirty, Fault, Ended, DeletesUnder
<1>1. CASE ReadEligible(g)
  BY <1>1 DEF ReadEligible, Eligible
<1>2. CASE ReadStatus(g)
  BY <1>2 DEF ReadStatus
<1>3. CASE Peek(g)
  BY <1>3 DEF Peek
<1>4. CASE LockToRemove(g)
  <2> USE <1>4 DEF LockToRemove
  <2>1. TypeOK' /\ DeadLeftGit'
    OBVIOUS
  <2>2. AddIntoNothing'
    OBVIOUS
  <2>3. DeletingSeenClean' /\ FillingAlone'
    OBVIOUS
  <2>4. QED
    BY <2>1, <2>2, <2>3
<1>5. CASE Remove(g)
  BY <1>5 DEF Remove
<1>6. CASE RemoveRefused(g)
  BY <1>6 DEF RemoveRefused
<1>7. CASE Removed(g)
  BY <1>7 DEF Removed
<1>8. CASE RemoveFails(g)
  BY <1>8 DEF RemoveFails
<1>9. QED
  BY <1>1, <1>2, <1>3, <1>4, <1>5, <1>6, <1>7, <1>8

(* A crash, an edit, a commit, a moving branch.                             *)
LEMMA EnvironmentSteps ==
  ASSUME IInv, (\E p \in Procs : Crash(p)) \/ Edit \/ Commit \/ MoveBranch
  PROVE  IInv'
<1> USE WtConstants DEF IInv, TypeOK, GitPcs, InSection, DeadLeftGit, AddIntoNothing,
                        DeletingSeenClean, FillingAlone, Procs, At, Goto, Exists, world, Fault
<1>1. ASSUME NEW d \in Procs, Crash(d) PROVE IInv'
  <2> USE <1>1 DEF Crash
  <2>a. (\A p \in Procs : holder = p <=> InSection(p) /\ ~dead[p])'
    OBVIOUS
  <2>b. DeadLeftGit'
    OBVIOUS
  <2>c. pc' \in [Procs -> {"idle", "acquire", "won", "status", "peek", "lock"} \cup GitPcs]
    OBVIOUS
  <2>d. holder' \in Procs \cup {NoProc}
    OBVIOUS
  <2>e. dead' \in [Procs -> BOOLEAN]
    OBVIOUS
  <2>f. faults' \in 0..MaxFaults
    OBVIOUS
  <2>1. TypeOK' /\ DeadLeftGit'
    BY <2>a, <2>b, <2>c, <2>d, <2>e, <2>f
  <2>2. AddIntoNothing'
    OBVIOUS
  <2>3. DeletingSeenClean' /\ FillingAlone'
    OBVIOUS
  <2>4. QED
    BY <2>1, <2>2, <2>3
<1>2. CASE Edit
  BY <1>2 DEF Edit
<1>3. CASE Commit
  BY <1>3 DEF Commit
<1>4. CASE MoveBranch
  BY <1>4 DEF MoveBranch
<1>5. QED
  BY <1>1, <1>2, <1>3, <1>4

LEMMA NextIInv == IInv /\ [Next]_vars => IInv'
<1> SUFFICES ASSUME IInv, [Next]_vars PROVE IInv'
  OBVIOUS
<1>1. CASE Next
  BY <1>1, WaitingSteps, CuttingSteps, SweepingSteps, EnvironmentSteps
     DEF Next, CallerStep, SweeperStep
<1>2. CASE UNCHANGED vars
  BY <1>2 DEF vars, world, IInv, TypeOK, InSection, DeadLeftGit, AddIntoNothing,
              DeletingSeenClean, FillingAlone, At, Exists
<1>3. QED
  BY <1>1, <1>2

(* The strengthened invariant holds throughout.                             *)
THEOREM Invariance == Spec => []IInv
BY InitIInv, NextIInv, PTL DEF Spec

(* Type correctness, and the lock is held exactly by living processes in    *)
(* the critical sections of EnsureWorktree and gc: no outcome of either     *)
(* leaves it held.                                                          *)
THEOREM TypeCorrect == Spec => []TypeOK
<1>1. IInv => TypeOK
  BY DEF IInv
<1>2. QED
  BY <1>1, Invariance, PTL

(* Two gits change the worktree at once only if the parent of one is dead   *)
(* (ensure.go's lock around worktreeAdd, gc.go's around worktreeRemove).    *)
THEOREM Exclusive == Spec => []OneMutator
<1>1. IInv => OneMutator
  BY WtConstants DEF IInv, TypeOK, GitPcs, InSection, OneMutator, Procs
<1>2. QED
  BY <1>1, Invariance, PTL

(* The path of a git worktree add that somebody waits for is taken only by  *)
(* the git of a process that died (ensure.go's second look under the lock). *)
THEOREM CutsIntoNothing == Spec => []AddIntoNothing
<1>1. IInv => AddIntoNothing
  BY DEF IInv
<1>2. QED
  BY <1>1, Invariance, PTL

(* No step but a commit takes away work that git worktree remove could see, *)
(* although gc judged the tree without the lock (gc.go).                    *)
THEOREM KeepsWork == Spec => WorkKept
<1>1. IInv /\ [Next]_vars => [work = "early" => work' = "early" \/ Commit]_vars
  <2> SUFFICES ASSUME IInv, Next, work = "early", work' # "early" PROVE Commit
    BY DEF vars
  <2> USE DEF IInv, DeletingSeenClean, world, Procs
  <2>1. ASSUME NEW c \in Callers, Ensure(c) \/ CallerStep(c) \/ Cancel(c) \/ AddFails(c)
        PROVE  FALSE
    BY <2>1 DEF Ensure, CallerStep, Cancel, AddFails, Poll, Recheck, AddBegins, AddRefused, AddEnds,
                AddBroken, At
  <2>2. ASSUME NEW g \in Sweepers, ReadEligible(g) \/ SweeperStep(g) \/ RemoveFails(g)
        PROVE  FALSE
    BY <2>2 DEF ReadEligible, SweeperStep, RemoveFails, ReadStatus, Peek, LockToRemove, Remove,
                RemoveRefused, Removed, At
  <2>3. ASSUME NEW p \in Procs, Crash(p) PROVE FALSE
    BY <2>3 DEF Crash
  <2>4. CASE Edit
    BY <2>4 DEF Edit
  <2>5. CASE MoveBranch
    BY <2>5 DEF MoveBranch
  <2>6. QED
    BY <2>1, <2>2, <2>3, <2>4, <2>5 DEF Next
<1>2. QED
  BY <1>1, Invariance, PTL DEF Spec, WorkKept
=============================================================================
