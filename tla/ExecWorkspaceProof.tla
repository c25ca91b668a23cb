-------------------------- MODULE ExecWorkspaceProof --------------------------
(***************************************************************************)
(* Safety of ExecWorkspace for any number of processes, identities,        *)
(* administrative entries and faults, with and without git children that   *)
(* outlive their parent.  The unit lock excludes the operations from one   *)
(* another; git children, consumers and people are outside it, and each    *)
(* part of the invariant says what none of them can bring about.           *)
(***************************************************************************)
EXTENDS ExecWorkspace, TLAPS

(* Where a process has made sure that no .request is left.                  *)
Unwitnessed == {"unlinkStaging", "unlinkReleased", "removeResidue", "unlinkResidueStaging",
                "reconcile", "pass", "claim", "verify", "deleteEntry", "add", "adding", "patch",
                "stage", "rename", "delTree", "delReleased"}

(* Where a process has made sure that no marker is left.                    *)
Unmarked == {"removeResidue", "unlinkResidueStaging", "reconcile", "pass", "claim", "verify",
             "deleteEntry", "add", "adding", "patch", "stage", "rename", "handover"}

(* Where a process has made sure that nobody was given the tree.            *)
Unhanded == (Unwitnessed \ {"delTree"}) \cup {"unlinkRequest"}

Materializing == {"look", "removeResidue", "unlinkResidueStaging", "add", "adding", "patch",
                  "stage", "rename", "handover"}
Reclaiming == {"delStaging", "delRequest", "delTree", "delReleased"}
Claiming == {"claim", "verify", "deleteEntry"}

(* What the holder of the lock established stays so until it acts on it.    *)
Place(p) ==
  /\ pc[p] \in Materializing => job[p].kind = "materialize"
  /\ job[p].kind = "materialize" => job[p].of \in Ids
  /\ pc[p] \in Unwitnessed => request = NoId
  /\ pc[p] \in Unmarked => marker = "absent"
  /\ pc[p] \in Unhanded => ~handed
  /\ pc[p] \in Reclaiming => marker = "regular" /\ tree.work # "early"
  /\ pc[p] = "add" => \A e \in Entries : reg[e].rec # "aside"
  /\ pc[p] \in {"patch", "stage", "rename", "handover"} =>
       tree.at = "dir" /\ tree.of = job[p].of /\ tree.link
  /\ pc[p] \in {"stage", "rename", "handover"} => tree.whole
  /\ pc[p] = "handover" => request = job[p].of

(* A claim is never made of the entry of a git that is still at work: the   *)
(* entry visited stays registered as long as a child could take its name.   *)
Claims(p) ==
  pc[p] \in Claiming =>
    /\ job[p].ent \in Entries
    /\ \A q \in Procs : git[q].st = "running" => git[q].ent # job[p].ent
    /\ reg[job[p].ent].rec = "none" => GitIdle

(* A git child and the process that waits for it.                           *)
Child(p) ==
  /\ pc[p] \in {"adding", "orphan"} <=> git[p].st # "none"
  /\ git[p].st # "none" => git[p].of \in Ids
  /\ pc[p] = "adding" => git[p].of = job[p].of
  /\ git[p].st = "none" => git[p].ent = NoEntry
  /\ git[p].st = "running" =>
       /\ git[p].ent \in Entries /\ reg[git[p].ent] = [rec |-> "gitdir", locked |-> "init"]
       /\ request = NoId /\ ~handed
       /\ \A q \in Procs : pc[q] \notin {"patch", "stage", "rename", "handover"}
       /\ \A q \in Procs : git[q].st = "running" => q = p
       /\ pc[p] = "adding" => tree.at = "dir" /\ tree.of = git[p].of
  /\ git[p].st # "none" /\ tree.at # "dir" => request = NoId

(* A tree that was given to a consumer is witnessed, or released; work in   *)
(* it is the consumer's.                                                    *)
Handed ==
  /\ handed => tree.at = "dir" /\ (request # NoId \/ marker = "regular")
  /\ tree.work # "none" => handed

IInv ==
  /\ TypeOK /\ WitnessTrue /\ Handed
  /\ \A p \in Procs : Place(p) /\ Claims(p) /\ Child(p)

USE ExecConstants
-----------------------------------------------------------------------------
LEMMA InitIInv == Init => IInv
<1> SUFFICES ASSUME Init PROVE IInv
  OBVIOUS
<1> USE DEF Init, NoTree, NoReg, NoJob, NoGit
<1>1. TypeOK
  <2>1. tree \in Trees /\ reg \in [Entries -> Regs] /\ job \in [Procs -> Jobs]
    BY DEF Trees, Regs, Jobs
  <2>2. \A p \in Procs : pc[p] \in FreePcs /\ pc[p] \notin LockedPcs /\ holder # p
    BY DEF FreePcs, LockedPcs
  <2>3. /\ git \in [Procs -> [st: {"none", "started", "running"}, ent: Entries \cup {NoEntry},
                             of: Ids \cup {NoId}]]
        /\ pc \in [Procs -> FreePcs \cup LockedPcs]
    BY DEF FreePcs
  <2>4. faults \in 0 .. MaxFaults /\ holder \in Procs \cup {NoProc}
    OBVIOUS
  <2>6. handed \in BOOLEAN
    OBVIOUS
  <2>5. /\ request \in Ids \cup {NoId, "bad"} /\ staging \in BOOLEAN
        /\ marker \in {"absent", "regular", "other"}
    OBVIOUS
  <2> QED
    BY <2>1, <2>2, <2>3, <2>4, <2>5 DEF TypeOK
<1>2. WitnessTrue /\ Handed
  BY DEF WitnessTrue, Handed
<1>3. ASSUME NEW p \in Procs PROVE Place(p) /\ Claims(p) /\ Child(p)
  BY DEF Place, Claims, Child, Unwitnessed, Unmarked, Unhanded, Materializing, Reclaiming, Claiming
<1>4. QED
  BY <1>1, <1>2, <1>3 DEF IInv

(* The holder p goes on to a place of its operation, or leaves; it starts   *)
(* no git child and waits for none.                                         *)
Going == LockedPcs \ {"adding"}
Act(p, to, jb) ==
  /\ pc[p] \in Going /\ to \in Going \cup {"idle", "decide"}
  /\ jb \in Jobs /\ (jb.kind = "materialize" => jb.of \in Ids)
  /\ pc' = [pc EXCEPT ![p] = to]
  /\ job' = [job EXCEPT ![p] = jb]
  /\ holder' = IF to \in Going THEN p ELSE NoProc
  /\ git' = git

ActPlaces == {"patch", "stage", "rename", "handover"}

LEMMA Alone ==
  ASSUME TypeOK, NEW p \in Procs, pc[p] \in LockedPcs
  PROVE  holder = p /\ \A q \in Procs : q # p => pc[q] \in FreePcs
BY DEF TypeOK

LEMMA Apart == FreePcs \cap LockedPcs = {}
BY DEF FreePcs, LockedPcs

(* A process outside the lock has nothing to rely on.                       *)
LEMMA FreePlace ==
  ASSUME NEW p \in Procs, pc'[p] \in FreePcs,
         job'[p].kind = "materialize" => job'[p].of \in Ids
  PROVE  Place(p)' /\ Claims(p)'
BY DEF Place, Claims, FreePcs, Unwitnessed, Unmarked, Unhanded, Materializing, Reclaiming, Claiming

LEMMA ActFrame ==
  ASSUME IInv, NEW p \in Procs, NEW to, NEW jb, Act(p, to, jb)
  PROVE  /\ pc' \in [Procs -> FreePcs \cup LockedPcs] /\ job' \in [Procs -> Jobs]
         /\ holder' \in Procs \cup {NoProc}
         /\ \A q \in Procs : pc'[q] \in LockedPcs <=> holder' = q
         /\ pc'[p] = to /\ job'[p] = jb
         /\ \A q \in Procs : q # p => /\ pc'[q] = pc[q] /\ job'[q] = job[q] /\ pc[q] \in FreePcs
                                      /\ Place(q)' /\ Claims(q)'
<1>1. TypeOK /\ pc[p] \in LockedPcs
  BY DEF IInv, Act, Going
<1>2. pc'[p] = to /\ job'[p] = jb /\ to \in LockedPcs \cup {"idle", "decide"}
  BY <1>1 DEF TypeOK, Act, Going
<1>3. ASSUME NEW q \in Procs, q # p
      PROVE  pc'[q] = pc[q] /\ job'[q] = job[q] /\ pc[q] \in FreePcs
  BY <1>1, <1>3, Alone DEF TypeOK, Act
<1>4. ASSUME NEW q \in Procs, q # p PROVE Place(q)' /\ Claims(q)'
  BY <1>3, <1>4, FreePlace DEF IInv, Place
<1>5. pc' \in [Procs -> FreePcs \cup LockedPcs] /\ job' \in [Procs -> Jobs]
      /\ holder' \in Procs \cup {NoProc}
  BY <1>1, <1>2 DEF TypeOK, Act, FreePcs
<1>6. ASSUME NEW q \in Procs PROVE pc'[q] \in LockedPcs <=> holder' = q
  <2>1. to \in Going <=> to \in LockedPcs
    BY DEF Act, Going, LockedPcs
  <2>2. CASE q = p
    BY <1>2, <2>1, <2>2 DEF Act
  <2>3. CASE q # p
    BY <1>3, <2>3, Apart DEF Act
  <2>4. QED
    BY <2>2, <2>3
<1>7. QED
  BY <1>2, <1>3, <1>4, <1>5, <1>6

(* The children at work are not disturbed by the holder.                    *)
LEMMA ActChildren ==
  ASSUME IInv, NEW p \in Procs, NEW to, NEW jb, Act(p, to, jb),
         \A q \in Procs : git[q].st = "running" =>
            /\ reg'[git[q].ent] = reg[git[q].ent]
            /\ request' = NoId /\ ~handed' /\ to \notin ActPlaces,
         GitIdle \/ tree'.at = "dir" \/ request' = NoId
  PROVE  \A q \in Procs : Child(q)'
<1>1. SUFFICES ASSUME NEW q \in Procs PROVE Child(q)'
  OBVIOUS
<1>2. \A o \in Procs : /\ pc'[o] \in {"adding", "orphan"} <=> pc[o] \in {"adding", "orphan"}
                       /\ pc'[o] # "adding" /\ pc[o] # "adding"
                       /\ pc'[o] \in ActPlaces => (o = p /\ to \in ActPlaces) \/ pc[o] \in ActPlaces
  <2>1. /\ pc[p] \notin {"adding", "orphan"} /\ to \notin {"adding", "orphan"} /\ pc'[p] = to
    BY ActFrame DEF Act, Going, LockedPcs
  <2>2. ASSUME NEW o \in Procs, o # p PROVE pc'[o] = pc[o] /\ pc[o] # "adding"
    BY <2>2, ActFrame DEF FreePcs
  <2>3. QED
    BY <2>1, <2>2
<1>3. Child(q) /\ git' = git
  BY DEF IInv, Act
<1>4. git[q].st = "running" => \A o \in Procs : pc'[o] \notin ActPlaces
  BY <1>2, <1>3 DEF Child, ActPlaces
<1>5. QED
  BY <1>2, <1>3, <1>4 DEF Child, GitIdle, ActPlaces

(* A step of the holder keeps the invariant if it keeps what is shared and  *)
(* establishes what its new place supposes.                                 *)
LEMMA ActInv ==
  ASSUME IInv, NEW p \in Procs, NEW to, NEW jb, Act(p, to, jb),
         tree' \in Trees, request' \in Ids \cup {NoId, "bad"}, staging' \in BOOLEAN,
         marker' \in {"absent", "regular", "other"}, reg' \in [Entries -> Regs],
         handed' \in BOOLEAN, faults' \in 0 .. MaxFaults,
         WitnessTrue', Handed', Place(p)', Claims(p)',
         \A q \in Procs : Child(q)'
  PROVE  IInv'
<1>1. \A q \in Procs : Place(q)' /\ Claims(q)'
  BY ActFrame
<1>2. TypeOK'
  BY ActFrame DEF TypeOK, IInv, Act
<1>3. QED
  BY <1>1, <1>2 DEF IInv

(* The same for a step that leaves reg alone and changes no file but its    *)
(* own, and for a step that ends the operation.                             *)
LEMMA LeavePlace ==
  ASSUME IInv, NEW p \in Procs, NEW to \in {"idle", "decide"}, NEW jb, Act(p, to, jb)
  PROVE  Place(p)' /\ Claims(p)'
<1>1. pc'[p] = to /\ job'[p] = jb /\ (jb.kind = "materialize" => jb.of \in Ids)
  BY ActFrame DEF Act
<1>2. to \in FreePcs
  BY DEF FreePcs
<1>3. QED
  BY <1>1, <1>2, FreePlace

LEMMA ReturnAct ==
  ASSUME IInv, NEW p \in Procs, pc[p] \in Going, Return(p), git' = git
  PROVE  Act(p, "idle", NoJob)
<1>1. NoJob \in Jobs /\ NoJob.kind # "materialize"
  BY DEF NoJob, Jobs
<1>2. QED
  BY <1>1 DEF Return, Goto, Act, Going, LockedPcs

LEMMA GoAct ==
  ASSUME IInv, NEW p \in Procs, pc[p] \in Going, NEW to \in Going, Goto(p, to), Stay, git' = git
  PROVE  Act(p, to, job[p])
<1>1. TypeOK /\ holder = p
  BY Alone DEF IInv, Going
<1>2. job[p] \in Jobs /\ (job[p].kind = "materialize" => job[p].of \in Ids)
  BY <1>1 DEF IInv, TypeOK, Place
<1>3. job' = [job EXCEPT ![p] = job[p]]
  BY <1>1 DEF Stay, TypeOK
<1>4. QED
  BY <1>1, <1>2, <1>3 DEF Goto, Act, Stay

(* What the invariant says of a holder that waits for no git child.         *)
LEMMA Here ==
  ASSUME IInv, NEW p \in Procs, pc[p] \in Going
  PROVE  /\ TypeOK /\ WitnessTrue /\ Handed /\ Place(p) /\ Claims(p)
         /\ \A q \in Procs : Child(q)
         /\ tree \in Trees /\ request \in Ids \cup {NoId, "bad"} /\ staging \in BOOLEAN
         /\ marker \in {"absent", "regular", "other"} /\ reg \in [Entries -> Regs]
         /\ handed \in BOOLEAN /\ faults \in 0 .. MaxFaults
         /\ job[p] \in Jobs
BY DEF IInv, TypeOK

(* A step that changes no file, no registration and no child.               *)
LEMMA MoveInv ==
  ASSUME IInv, NEW p \in Procs, NEW to, NEW jb, Act(p, to, jb),
         UNCHANGED <<files, reg, handed>>, faults' \in 0 .. MaxFaults,
         Place(p)', Claims(p)',
         to \in ActPlaces => pc[p] \in ActPlaces \/ request # NoId
  PROVE  IInv'
<1>1. pc[p] \in Going
  BY DEF Act
<1>2. WitnessTrue' /\ Handed'
  BY <1>1, Here DEF WitnessTrue, Handed, files
<1>3. \A q \in Procs : Child(q)'
  <2>1. GitIdle \/ tree.at = "dir" \/ request = NoId
    BY <1>1, Here DEF Child, GitIdle
  <2>2. ASSUME NEW q \in Procs, git[q].st = "running"
        PROVE  request = NoId /\ ~handed /\ pc[p] \notin ActPlaces
    BY <1>1, <2>2, Here DEF Child, ActPlaces
  <2>3. QED
    BY <2>1, <2>2, ActChildren DEF files
<1>4. QED
  BY <1>1, <1>2, <1>3, Here, ActInv DEF files

LEMMA ReturnInv ==
  ASSUME IInv, NEW p \in Procs, pc[p] \in Going, Return(p),
         UNCHANGED <<files, reg, handed, git>>, faults' \in 0 .. MaxFaults
  PROVE  IInv'
<1>1. Act(p, "idle", NoJob)
  BY ReturnAct
<1>2. Place(p)' /\ Claims(p)'
  BY <1>1, LeavePlace
<1>3. QED
  BY <1>1, <1>2, MoveInv DEF ActPlaces
-----------------------------------------------------------------------------
(* Materialize.                                                             *)
LEMMA LookInv ==
  ASSUME IInv, NEW p \in Procs, Look(p)
  PROVE  IInv'
<1>1. pc[p] = "look" /\ pc[p] \in Going
  BY DEF Look, At, Going, LockedPcs
<1>2. SUFFICES ASSUME ~Return(p) PROVE IInv'
  BY <1>1, Here, ReturnInv DEF Look
<1>3. PICK to \in {"unlinkRequest", "removeResidue", "handover"} :
        /\ Goto(p, to) /\ Stay
        /\ to = "unlinkRequest" => tree.at = "absent"
        /\ to = "removeResidue" => tree.at = "dir" /\ marker = "absent" /\ request = NoId
        /\ to = "handover" => tree.at = "dir" /\ marker = "absent" /\ request = job[p].of
  <2>1. CASE tree.at = "absent" /\ Goto(p, "unlinkRequest") /\ Stay
    BY <2>1
  <2>2. CASE /\ tree.at = "dir" /\ marker = "absent" /\ request = NoId
             /\ Goto(p, "removeResidue") /\ Stay
    BY <2>2
  <2>3. CASE /\ tree.at = "dir" /\ marker = "absent" /\ request = job[p].of
             /\ Goto(p, "handover") /\ Stay
    BY <2>3
  <2>4. QED
    BY <1>2, <2>1, <2>2, <2>3 DEF Look
<1>4. Act(p, to, job[p])
  BY <1>1, <1>3, GoAct DEF Look, Going, LockedPcs
<1>5. Place(p)' /\ Claims(p)'
  <2>1. pc'[p] = to /\ job'[p] = job[p] /\ UNCHANGED <<files, handed>>
    BY <1>4, ActFrame DEF Look
  <2>2. Claims(p)'
    BY <1>3, <2>1 DEF Claims, Claiming
  <2>3. job[p].kind = "materialize" /\ job[p].of \in Ids
    BY <1>1, Here DEF Place, Materializing
  <2>4. ~handed \/ to = "handover"
    BY <1>1, <1>3, Here DEF Handed
  <2>5. to = "handover" => tree.of = job[p].of /\ tree.link /\ tree.whole
    BY <1>1, <1>3, <2>3, Here DEF WitnessTrue
  <2>6. Place(p)'
    BY <1>3, <2>1, <2>3, <2>4, <2>5 DEF Place, Unwitnessed, Unmarked, Unhanded, Reclaiming, files
  <2>7. QED
    BY <2>2, <2>6
<1>6. to \in ActPlaces => request # NoId
  <2>1. job[p].of \in Ids
    BY <1>1, Here DEF Place, Materializing
  <2>2. QED
    BY <1>3, <2>1 DEF ActPlaces
<1>7. QED
  BY <1>4, <1>5, <1>6, <1>1, Here, MoveInv DEF Look

LEMMA UnlinkOrphansInv ==
  ASSUME IInv, NEW p \in Procs, UnlinkOrphans(p)
  PROVE  IInv'
<1>1. /\ pc[p] \in {"unlinkRequest", "unlinkStaging", "unlinkReleased"} /\ pc[p] \in Going
      /\ git' = git
  BY DEF UnlinkOrphans, At, Going, LockedPcs
<1>2. SUFFICES ASSUME ~(Return(p) /\ UNCHANGED <<request, staging, marker>>) PROVE IInv'
  BY <1>1, Here, ReturnInv DEF UnlinkOrphans, files
<1>3. PICK to \in {"unlinkStaging", "unlinkReleased", "reconcile"} :
        /\ Goto(p, to) /\ Stay
        /\ request' \in {NoId, request} /\ (to = "unlinkStaging" => request' = NoId)
        /\ staging' \in BOOLEAN
        /\ marker' \in {"absent", marker} /\ (to = "reconcile" => marker' = "absent")
        /\ pc[p] = "unlinkRequest" => to = "unlinkStaging"
  <2>1. CASE pc[p] = "unlinkRequest"
    BY <1>1, <2>1, Here DEF UnlinkOrphans, At
  <2>2. CASE pc[p] = "unlinkStaging"
    BY <1>1, <2>2, Here DEF UnlinkOrphans, At
  <2>3. CASE pc[p] = "unlinkReleased"
    BY <1>1, <1>2, <2>3, Here DEF UnlinkOrphans, At
  <2>4. QED
    BY <1>1, <2>1, <2>2, <2>3
<1>4. Act(p, to, job[p])
  BY <1>1, <1>3, GoAct DEF Going, LockedPcs
<1>5. pc'[p] = to /\ job'[p] = job[p] /\ UNCHANGED <<tree, handed, reg, faults>>
  BY <1>4, ActFrame DEF UnlinkOrphans
<1>6. request' = NoId /\ ~handed
  BY <1>1, <1>3, Here DEF Place, Unwitnessed, Unhanded
<1>7. Place(p)' /\ Claims(p)'
  BY <1>1, <1>3, <1>5, <1>6, Here
     DEF Place, Claims, Claiming, Unwitnessed, Unmarked, Unhanded, Reclaiming, Materializing
<1>8. WitnessTrue' /\ Handed'
  BY <1>1, <1>5, <1>6, Here DEF WitnessTrue, Handed
<1>9. \A q \in Procs : Child(q)'
  BY <1>3, <1>4, <1>5, <1>6, ActChildren DEF ActPlaces
<1>10. QED
  BY <1>1, <1>3, <1>4, <1>5, <1>6, <1>7, <1>8, <1>9, Here, ActInv

(* os.RemoveAll, in part or to its end, on residue or on a released tree.   *)
LEMMA RemoveTreeInv ==
  ASSUME IInv, NEW p \in Procs, RemoveSome(p) \/ RemoveResidue(p) \/ DeleteTree(p)
  PROVE  IInv'
<1>1. pc[p] \in {"removeResidue", "delTree"} /\ pc[p] \in Going /\ git' = git /\ request = NoId
  BY Here DEF RemoveSome, RemoveResidue, DeleteTree, At, Going, LockedPcs, Place, Unwitnessed
<1>2. UNCHANGED <<request, staging, marker, reg, git, faults>>
  BY DEF RemoveSome, RemoveResidue, DeleteTree
<1>3. PICK to \in {pc[p], "unlinkResidueStaging", "delReleased"} :
        /\ Goto(p, to) /\ Stay
        /\ to = pc[p] => handed' = handed /\ tree'.at = tree.at /\ tree'.work = tree.work
        /\ to # pc[p] => tree'.work = "none" /\ ~handed'
        /\ to = "unlinkResidueStaging" => pc[p] = "removeResidue"
        /\ to = "delReleased" => pc[p] = "delTree"
        /\ tree' \in Trees /\ handed' \in BOOLEAN
  <2>1. CASE RemoveSome(p)
    <3>1. pc' = [pc EXCEPT ![p] = pc[p]]
      BY <1>1, <2>1, Here DEF RemoveSome, TypeOK
    <3>2. tree' \in Trees /\ tree'.at = tree.at /\ tree'.work = tree.work
      <4>1. PICK link \in {FALSE, tree.link} :
              tree' = [tree EXCEPT !.of = NoId, !.whole = FALSE, !.link = link]
        BY <2>1 DEF RemoveSome
      <4>2. link \in BOOLEAN /\ tree \in Trees
        BY <1>1, Here DEF Trees
      <4>3. QED
        BY <4>1, <4>2 DEF Trees
    <3>3. QED
      BY <1>1, <2>1, <3>1, <3>2, Here DEF RemoveSome, Goto, Stay
  <2>2. CASE RemoveResidue(p)
    BY <2>2 DEF RemoveResidue, At, NoTree, Trees
  <2>3. CASE DeleteTree(p)
    BY <2>3 DEF DeleteTree, At, NoTree, Trees
  <2>4. QED
    BY <2>1, <2>2, <2>3
<1>4. Act(p, to, job[p])
  BY <1>1, <1>3, GoAct DEF Going, LockedPcs
<1>5. pc'[p] = to /\ job'[p] = job[p]
  BY <1>4, ActFrame
<1>6. Place(p)' /\ Claims(p)'
  BY <1>1, <1>2, <1>3, <1>5, Here
     DEF Place, Claims, Claiming, Unwitnessed, Unmarked, Unhanded, Reclaiming, Materializing
<1>7. WitnessTrue' /\ Handed'
  BY <1>1, <1>2, <1>3, Here DEF WitnessTrue, Handed
<1>8. \A q \in Procs : Child(q)'
  <2>1. ASSUME NEW q \in Procs, git[q].st = "running"
        PROVE  request' = NoId /\ ~handed' /\ to \notin ActPlaces
    BY <1>1, <1>2, <1>3, <2>1, Here DEF Child, ActPlaces
  <2>2. QED
    BY <1>1, <1>2, <1>4, <2>1, ActChildren
<1>9. QED
  BY <1>1, <1>2, <1>3, <1>4, <1>6, <1>7, <1>8, Here, ActInv

LEMMA UnlinkResidueStagingInv ==
  ASSUME IInv, NEW p \in Procs, UnlinkResidueStaging(p)
  PROVE  IInv'
<1>1. /\ pc[p] = "unlinkResidueStaging" /\ pc[p] \in Going /\ Goto(p, "reconcile") /\ Stay
      /\ staging' \in BOOLEAN /\ UNCHANGED <<tree, request, marker, reg, git, handed, faults>>
  BY DEF UnlinkResidueStaging, At, Going, LockedPcs
<1>2. Act(p, "reconcile", job[p])
  BY <1>1, GoAct DEF Going, LockedPcs
<1>3. pc'[p] = "reconcile" /\ job'[p] = job[p]
  BY <1>2, ActFrame
<1>4. Place(p)' /\ Claims(p)'
  BY <1>1, <1>3, Here
     DEF Place, Claims, Claiming, Unwitnessed, Unmarked, Unhanded, Reclaiming, Materializing
<1>5. WitnessTrue' /\ Handed'
  BY <1>1, Here DEF WitnessTrue, Handed
<1>6. request = NoId /\ ~handed
  BY <1>1, Here DEF Place, Unwitnessed, Unhanded
<1>7. \A q \in Procs : Child(q)'
  BY <1>1, <1>2, <1>6, ActChildren DEF ActPlaces
<1>8. QED
  BY <1>1, <1>2, <1>4, <1>5, <1>7, Here, ActInv
-----------------------------------------------------------------------------
(* ReconcileUnit.                                                           *)
LEMMA EnumerateInv ==
  ASSUME IInv, NEW p \in Procs, Enumerate(p)
  PROVE  IInv'
<1>1. pc[p] = "reconcile" /\ pc[p] \in Going
  BY DEF Enumerate, At, Going, LockedPcs
<1> DEFINE jb == [job[p] EXCEPT !.todo = Registered]
<1>2. /\ jb \in Jobs /\ jb.kind = job[p].kind /\ jb.of = job[p].of
      /\ (jb.kind = "materialize" => jb.of \in Ids)
  BY <1>1, Here DEF Jobs, Registered, Place
<1>3. job' = [job EXCEPT ![p] = jb] /\ holder = p /\ holder' = holder
  BY <1>1, Here, Alone DEF Enumerate, TypeOK, Going
<1> HIDE DEF jb
<1>4. Act(p, "pass", jb)
  BY <1>1, <1>2, <1>3 DEF Act, Enumerate, Goto, Going, LockedPcs
<1>5. pc'[p] = "pass" /\ job'[p] = jb /\ UNCHANGED <<files, handed>>
  BY <1>4, ActFrame DEF Enumerate
<1>6. Place(p)' /\ Claims(p)'
  BY <1>1, <1>2, <1>5, Here
     DEF Place, Claims, Claiming, Unwitnessed, Unmarked, Unhanded, Reclaiming, Materializing, files
<1>7. QED
  BY <1>1, <1>4, <1>6, Here, MoveInv DEF Enumerate, ActPlaces

LEMMA VisitEntryInv ==
  ASSUME IInv, NEW p \in Procs, VisitEntry(p)
  PROVE  IInv'
<1>1. pc[p] = "pass" /\ pc[p] \in Going
  BY DEF VisitEntry, At, Going, LockedPcs
<1>2. SUFFICES ASSUME ~Return(p) PROVE IInv'
  BY <1>1, Here, ReturnInv DEF VisitEntry
<1>3. PICK e \in job[p].todo, to \in {"pass", "claim", "verify"} :
        /\ Goto(p, to) /\ holder' = holder
        /\ to # "pass" => reg[e].rec # "none" /\ reg[e].locked = "no"
        /\ job' = [job EXCEPT ![p].todo = @ \ {e}, ![p].ent = e,
                              ![p].own = reg[e].rec = "gitdir"]
  BY <1>2 DEF VisitEntry
<1> DEFINE jb == [job[p] EXCEPT !.todo = @ \ {e}, !.ent = e, !.own = (reg[e].rec = "gitdir")]
<1>4. e \in Entries
  BY <1>1, Here DEF Jobs
<1>5. /\ jb \in Jobs /\ jb.kind = job[p].kind /\ jb.of = job[p].of /\ jb.ent = e
      /\ (jb.kind = "materialize" => jb.of \in Ids)
  BY <1>1, <1>4, Here DEF Jobs, Place
<1>6. job' = [job EXCEPT ![p] = jb] /\ holder = p
  BY <1>1, <1>3, Here, Alone DEF TypeOK, Going, Jobs
<1> HIDE DEF jb
<1>7. Act(p, to, jb)
  BY <1>1, <1>3, <1>5, <1>6 DEF Act, VisitEntry, Goto, Going, LockedPcs
<1>8. pc'[p] = to /\ job'[p] = jb /\ UNCHANGED <<files, handed, reg, git>>
  BY <1>7, ActFrame DEF VisitEntry
<1>9. Place(p)'
  BY <1>1, <1>3, <1>5, <1>8, Here
     DEF Place, Unwitnessed, Unmarked, Unhanded, Reclaiming, Materializing, files
<1>10. Claims(p)'
  <2>1. CASE to = "pass"
    BY <1>8, <2>1 DEF Claims, Claiming
  <2>2. CASE to # "pass"
    <3>1. ASSUME NEW q \in Procs, git[q].st = "running" PROVE git[q].ent # e
      BY <1>1, <1>3, <2>2, <3>1, Here DEF Child
    <3>2. QED
      BY <1>3, <1>4, <1>5, <1>8, <2>2, <3>1 DEF Claims
  <2>3. QED
    BY <2>1, <2>2
<1>11. QED
  BY <1>1, <1>3, <1>7, <1>9, <1>10, Here, MoveInv DEF VisitEntry, ActPlaces

(* The claim, its undoing and the deletion of the entry change the registry *)
(* at an entry that no git child is at work on.                             *)
LEMMA RegistryInv ==
  ASSUME IInv, NEW p \in Procs, Claim(p) \/ Verify(p) \/ DeleteEntry(p)
  PROVE  IInv'
<1>1. pc[p] \in Claiming /\ pc[p] \in Going
  BY DEF Claim, Verify, DeleteEntry, At, Claiming, Going, LockedPcs
<1> DEFINE e == job[p].ent
<1>2. /\ e \in Entries /\ (reg[e].rec = "none" => GitIdle)
      /\ \A q \in Procs : git[q].st = "running" => git[q].ent # e
  BY <1>1, Here DEF Claims
<1>3. UNCHANGED <<files, git, handed, faults>>
  BY DEF Claim, Verify, DeleteEntry
<1>4. /\ reg' \in [Entries -> Regs]
      /\ \A f \in Entries : f # e => reg'[f] = reg[f]
      /\ reg[e].rec = "none" => reg'[e].rec = "none"
      /\ pc[p] # "deleteEntry" => (reg'[e].rec = "none" => reg[e].rec = "none")
  <2>1. reg \in [Entries -> Regs]
    BY <1>1, Here
  <2>2. CASE Claim(p)
    BY <1>2, <2>1, <2>2 DEF Claim, Regs
  <2>3. CASE Verify(p)
    BY <1>2, <2>1, <2>3 DEF Verify, Regs
  <2>4. CASE DeleteEntry(p)
    BY <1>2, <2>1, <2>4 DEF DeleteEntry, Regs, NoReg, At
  <2>5. QED
    BY <2>2, <2>3, <2>4
<1>5. PICK to \in {"verify", "deleteEntry", "pass", "idle"}, jb \in Jobs :
        /\ Act(p, to, jb) /\ (to # "idle" => jb = job[p])
        /\ to \in Claiming => pc[p] # "deleteEntry"
  <2>1. CASE Return(p)
    <3>1. Act(p, "idle", NoJob) /\ NoJob \in Jobs
      BY <1>1, <1>3, <2>1, ReturnAct DEF Act
    <3>2. QED
      BY <3>1 DEF Claiming
  <2>2. CASE ~Return(p)
    <3>1. \E to \in {"verify", "deleteEntry", "pass"} :
             Goto(p, to) /\ Stay /\ (to \in Claiming => pc[p] # "deleteEntry")
      BY <2>2 DEF Claim, Verify, DeleteEntry, At, Claiming
    <3>2. PICK to \in {"verify", "deleteEntry", "pass"} :
             Goto(p, to) /\ Stay /\ (to \in Claiming => pc[p] # "deleteEntry")
      BY <3>1
    <3>3. Act(p, to, job[p]) /\ job[p] \in Jobs
      BY <1>1, <1>3, <3>2, GoAct, Here DEF Going, LockedPcs
    <3>4. QED
      BY <3>2, <3>3
  <2>3. QED
    BY <2>1, <2>2
<1>6. pc'[p] = to /\ job'[p] = jb
  BY <1>5, ActFrame
<1>7. Place(p)' /\ Claims(p)'
  <2>1. CASE to = "idle"
    BY <1>5, <2>1, LeavePlace
  <2>2. CASE to # "idle"
    <3>1. Place(p)'
      BY <1>1, <1>3, <1>5, <1>6, <2>2, Here
         DEF Place, Claiming, Unwitnessed, Unmarked, Unhanded, Reclaiming, Materializing, files
    <3>2. Claims(p)'
      BY <1>2, <1>3, <1>4, <1>5, <1>6, <2>2 DEF Claims, GitIdle
    <3>3. QED
      BY <3>1, <3>2
  <2>3. QED
    BY <2>1, <2>2
<1>8. WitnessTrue' /\ Handed'
  BY <1>1, <1>3, Here DEF WitnessTrue, Handed, files
<1>9. \A q \in Procs : Child(q)'
  <2>1. request = NoId /\ ~handed
    BY <1>1, Here DEF Place, Unwitnessed, Unhanded, Claiming
  <2>2. \A q \in Procs : git[q].st = "running" => reg'[git[q].ent] = reg[git[q].ent]
    BY <1>1, <1>2, <1>4, Here DEF Child
  <2>3. QED
    BY <1>3, <1>5, <2>1, <2>2, ActChildren DEF files, ActPlaces
<1>10. QED
  BY <1>1, <1>3, <1>4, <1>5, <1>7, <1>8, <1>9, Here, ActInv DEF files

LEMMA PostconditionInv ==
  ASSUME IInv, NEW p \in Procs, Postcondition(p)
  PROVE  IInv'
<1>1. pc[p] = "pass" /\ pc[p] \in Going
  BY DEF Postcondition, At, Going, LockedPcs
<1>2. SUFFICES ASSUME ~Return(p) PROVE IInv'
  BY <1>1, Here, ReturnInv DEF Postcondition
<1>3. Registered = {} /\ job[p].kind = "materialize" /\ Goto(p, "add") /\ Stay
  BY <1>2 DEF Postcondition
<1>4. Act(p, "add", job[p])
  BY <1>1, <1>3, GoAct DEF Postcondition, Going, LockedPcs
<1>5. pc'[p] = "add" /\ job'[p] = job[p] /\ UNCHANGED <<files, handed, reg>>
  BY <1>4, ActFrame DEF Postcondition
<1>6. \A e \in Entries : reg[e].rec # "aside"
  BY <1>3 DEF Registered
<1>7. Place(p)' /\ Claims(p)'
  BY <1>1, <1>3, <1>5, <1>6, Here
     DEF Place, Claims, Claiming, Unwitnessed, Unmarked, Unhanded, Reclaiming, Materializing, files
<1>8. QED
  BY <1>1, <1>4, <1>7, Here, MoveInv DEF Postcondition, ActPlaces
-----------------------------------------------------------------------------
(* The completion of a tree that was just cut, and its handover.            *)
LEMMA ApplyPatchInv ==
  ASSUME IInv, NEW p \in Procs, ApplyPatch(p)
  PROVE  IInv'
<1>1. /\ pc[p] = "patch" /\ pc[p] \in Going /\ Goto(p, "stage") /\ Stay
      /\ UNCHANGED <<request, staging, marker, reg, git, handed, faults>>
  BY DEF ApplyPatch, At, Going, LockedPcs
<1>2. tree.at = "dir" /\ tree.of = job[p].of /\ tree.link /\ request = NoId /\ ~handed
  BY <1>1, Here DEF Place, Unwitnessed, Unhanded
<1>3. /\ tree' \in Trees /\ tree'.at = "dir" /\ tree'.of = job[p].of /\ tree'.link /\ tree'.whole
      /\ tree'.work = tree.work
  BY <1>1, <1>2, Here DEF ApplyPatch, Trees
<1>4. Act(p, "stage", job[p])
  BY <1>1, GoAct DEF Going, LockedPcs
<1>5. pc'[p] = "stage" /\ job'[p] = job[p]
  BY <1>4, ActFrame
<1>6. Place(p)' /\ Claims(p)'
  BY <1>1, <1>2, <1>3, <1>5, Here
     DEF Place, Claims, Claiming, Unwitnessed, Unmarked, Unhanded, Reclaiming, Materializing
<1>7. WitnessTrue' /\ Handed'
  BY <1>1, <1>2, <1>3, Here DEF WitnessTrue, Handed
<1>8. \A q \in Procs : git[q].st # "running"
  BY <1>1, Here DEF Child
<1>9. \A q \in Procs : Child(q)'
  BY <1>3, <1>4, <1>8, ActChildren
<1>10. QED
  BY <1>1, <1>3, <1>4, <1>6, <1>7, <1>9, Here, ActInv

LEMMA WitnessInv ==
  ASSUME IInv, NEW p \in Procs, StageWitness(p) \/ RenameWitness(p)
  PROVE  IInv'
<1>1. /\ pc[p] \in {"stage", "rename"} /\ pc[p] \in Going
      /\ UNCHANGED <<tree, marker, reg, git, handed, faults>> /\ staging' \in BOOLEAN
  BY DEF StageWitness, RenameWitness, At, Going, LockedPcs
<1>2. PICK to \in {"rename", "handover"} :
        /\ Goto(p, to) /\ Stay
        /\ to = "rename" => request' = request
        /\ to = "handover" => request' = job[p].of
  BY DEF StageWitness, RenameWitness
<1>3. /\ tree.at = "dir" /\ tree.of = job[p].of /\ tree.link /\ tree.whole
      /\ request = NoId /\ ~handed /\ job[p].of \in Ids
  BY <1>1, Here DEF Place, Unwitnessed, Unhanded, Materializing
<1>4. Act(p, to, job[p])
  BY <1>1, <1>2, GoAct DEF Going, LockedPcs
<1>5. pc'[p] = to /\ job'[p] = job[p]
  BY <1>4, ActFrame
<1>6. Place(p)' /\ Claims(p)'
  BY <1>1, <1>2, <1>3, <1>5, Here
     DEF Place, Claims, Claiming, Unwitnessed, Unmarked, Unhanded, Reclaiming, Materializing
<1>7. WitnessTrue' /\ Handed' /\ request' \in Ids \cup {NoId, "bad"}
  BY <1>1, <1>2, <1>3, Here DEF WitnessTrue, Handed
<1>8. \A q \in Procs : git[q].st # "running"
  BY <1>1, Here DEF Child
<1>9. \A q \in Procs : Child(q)'
  BY <1>1, <1>3, <1>4, <1>8, ActChildren
<1>10. QED
  BY <1>1, <1>4, <1>6, <1>7, <1>9, Here, ActInv

LEMMA HandoverInv ==
  ASSUME IInv, NEW p \in Procs, Handover(p)
  PROVE  IInv'
<1>1. /\ pc[p] = "handover" /\ pc[p] \in Going /\ Return(p) /\ handed' = TRUE
      /\ UNCHANGED <<tree, request, staging, marker, reg, git, faults>>
  BY DEF Handover, At, Going, LockedPcs, files
<1>2. tree.at = "dir" /\ request = job[p].of /\ job[p].of \in Ids
  BY <1>1, Here DEF Place, Materializing
<1>3. Act(p, "idle", NoJob)
  BY <1>1, ReturnAct
<1>4. Place(p)' /\ Claims(p)'
  BY <1>3, LeavePlace
<1>5. WitnessTrue' /\ Handed'
  BY <1>1, <1>2, Here DEF WitnessTrue, Handed
<1>6. \A q \in Procs : git[q].st # "running"
  BY <1>1, Here DEF Child
<1>7. \A q \in Procs : Child(q)'
  BY <1>1, <1>2, <1>3, <1>6, ActChildren
<1>8. QED
  BY <1>1, <1>3, <1>4, <1>5, <1>7, Here, ActInv
-----------------------------------------------------------------------------
(* A process without the lock looks around, or takes the lock.              *)
Outside == FreePcs \ {"orphan"}
Entrances == {"look", "mark", "redecide0", "redecide5"}

LEMMA OutsideInv ==
  ASSUME IInv, NEW p \in Procs, pc[p] \in Outside, NEW to \in Outside \cup Entrances,
         NEW jb \in Jobs, jb.kind = "materialize" => jb.of \in Ids,
         to = "look" => jb.kind = "materialize",
         pc' = [pc EXCEPT ![p] = to], job' = [job EXCEPT ![p] = jb],
         \/ to \in Outside /\ holder' = holder
         \/ to \in Entrances /\ holder = NoProc /\ holder' = p,
         UNCHANGED <<files, reg, git, handed, faults>>
  PROVE  IInv'
<1>1. TypeOK /\ WitnessTrue /\ Handed
  BY DEF IInv
<1>2. /\ pc'[p] = to /\ job'[p] = jb
      /\ \A q \in Procs : q # p => pc'[q] = pc[q] /\ job'[q] = job[q]
  BY <1>1 DEF TypeOK
<1>3. TypeOK'
  <2>1. /\ pc' \in [Procs -> FreePcs \cup LockedPcs] /\ job' \in [Procs -> Jobs]
        /\ holder' \in Procs \cup {NoProc}
    BY <1>1 DEF TypeOK, Outside, Entrances, LockedPcs
  <2>2. CASE to \in Outside /\ holder' = holder
    <3>1. pc[p] \notin LockedPcs /\ pc'[p] \notin LockedPcs
      BY <1>2, <2>2, Apart DEF Outside
    <3>2. \A q \in Procs : pc'[q] \in LockedPcs <=> holder' = q
      BY <1>1, <1>2, <2>2, <3>1 DEF TypeOK
    <3>3. QED
      BY <1>1, <2>1, <3>2 DEF TypeOK, files
  <2>3. CASE to \in Entrances /\ holder = NoProc /\ holder' = p
    <3>1. \A q \in Procs : pc[q] \notin LockedPcs
      BY <1>1, <2>3 DEF TypeOK
    <3>2. \A q \in Procs : pc'[q] \in LockedPcs <=> holder' = q
      BY <1>2, <2>3, <3>1 DEF Entrances, LockedPcs
    <3>3. QED
      BY <1>1, <2>1, <3>2 DEF TypeOK, files
  <2>4. QED
    BY <2>2, <2>3
<1>4. ASSUME NEW q \in Procs PROVE Place(q)' /\ Claims(q)'
  <2>1. CASE q = p
    BY <1>2, <2>1 DEF Place, Claims, Unwitnessed, Unmarked, Unhanded, Materializing, Reclaiming,
                      Claiming, Outside, Entrances, FreePcs
  <2>2. CASE q # p
    BY <1>2, <2>2 DEF IInv, Place, Claims, GitIdle, files
  <2>3. QED
    BY <2>1, <2>2
<1>5. ASSUME NEW q \in Procs PROVE Child(q)'
  <2>1. /\ pc[p] \notin {"adding", "orphan", "patch", "stage", "rename", "handover"}
        /\ to \notin {"adding", "orphan", "patch", "stage", "rename", "handover"}
    BY DEF Outside, Entrances, FreePcs
  <2>2. Child(q)
    BY DEF IInv
  <2>3. QED
    BY <1>2, <2>1, <2>2 DEF Child, files
<1>6. WitnessTrue' /\ Handed'
  BY <1>1 DEF WitnessTrue, Handed, files
<1>7. QED
  BY <1>3, <1>4, <1>5, <1>6 DEF IInv

LEMMA EnterInv ==
  ASSUME IInv, NEW p \in Procs,
         \/ \E i \in Ids : MaterializeAcquire(p, i)
         \/ ReleaseAcquire(p) \/ StartGC(p) \/ DecideUnit(p) \/ RankAcquire(p) \/ RankHeld(p)
  PROVE  IInv'
<1>1. TypeOK /\ job[p] \in Jobs /\ (job[p].kind = "materialize" => job[p].of \in Ids)
  BY DEF IInv, TypeOK, Place
<1>2. job = [job EXCEPT ![p] = job[p]]
  BY <1>1 DEF TypeOK
<1>3. NoJob \in Jobs /\ NoJob.kind = "none"
  BY DEF NoJob, Jobs
<1>4. ASSUME NEW i \in Ids, MaterializeAcquire(p, i) PROVE IInv'
  <2> DEFINE jb == [NoJob EXCEPT !.kind = "materialize", !.of = i]
  <2>1. jb \in Jobs /\ jb.kind = "materialize" /\ jb.of = i
    BY <1>3 DEF Jobs
  <2> HIDE DEF jb
  <2>2. pc[p] = "idle" /\ holder = NoProc /\ holder' = p /\ pc' = [pc EXCEPT ![p] = "look"]
        /\ UNCHANGED <<files, reg, git, handed, faults>>
    BY <1>4 DEF MaterializeAcquire, Acquire, At, Goto
  <2>3. job' = [job EXCEPT ![p] = jb]
    BY <1>4 DEF MaterializeAcquire, jb
  <2>4. QED
    BY <2>1, <2>2, <2>3, OutsideInv DEF Outside, Entrances, FreePcs
<1>5. CASE ReleaseAcquire(p)
  <2> DEFINE jb == [NoJob EXCEPT !.kind = "release"]
  <2>1. jb \in Jobs /\ jb.kind = "release"
    BY <1>3 DEF Jobs
  <2> HIDE DEF jb
  <2>2. pc[p] = "idle" /\ holder = NoProc /\ holder' = p /\ pc' = [pc EXCEPT ![p] = "mark"]
        /\ UNCHANGED <<files, reg, git, handed, faults>>
    BY <1>5 DEF ReleaseAcquire, Acquire, At, Goto
  <2>3. job' = [job EXCEPT ![p] = jb]
    BY <1>5 DEF ReleaseAcquire, jb
  <2>4. QED
    BY <2>1, <2>2, <2>3, OutsideInv DEF Outside, Entrances, FreePcs
<1>6. CASE StartGC(p)
  <2> DEFINE jb == [NoJob EXCEPT !.kind = "gc"]
  <2>1. jb \in Jobs /\ jb.kind = "gc"
    BY <1>3 DEF Jobs
  <2> HIDE DEF jb
  <2>2. pc[p] = "idle" /\ holder' = holder /\ pc' = [pc EXCEPT ![p] = "decide"]
        /\ UNCHANGED <<files, reg, git, handed, faults>>
    BY <1>6 DEF StartGC, At, Goto
  <2>3. job' = [job EXCEPT ![p] = jb]
    BY <1>6 DEF StartGC, jb
  <2>4. QED
    BY <2>1, <2>2, <2>3, OutsideInv DEF Outside, FreePcs
<1>7. CASE DecideUnit(p) \/ RankHeld(p)
  <2>1. PICK to \in {"rank0", "rank5", "idle"}, jb \in {job[p], NoJob} :
          pc' = [pc EXCEPT ![p] = to] /\ job' = [job EXCEPT ![p] = jb]
    BY <1>2, <1>7 DEF DecideUnit, RankHeld, Goto
  <2>2. pc[p] \in {"decide", "rank0", "rank5"} /\ UNCHANGED <<files, reg, git, handed, faults, holder>>
    BY <1>7 DEF DecideUnit, RankHeld, At
  <2>3. QED
    BY <1>1, <1>3, <2>1, <2>2, OutsideInv DEF Outside, FreePcs
<1>8. CASE RankAcquire(p)
  <2>1. PICK to \in {"redecide0", "redecide5"} :
          /\ pc' = [pc EXCEPT ![p] = to] /\ holder = NoProc /\ holder' = p
    BY <1>8 DEF RankAcquire, Acquire, Goto
  <2>2. pc[p] \in {"rank0", "rank5"} /\ UNCHANGED <<files, reg, git, handed, faults, job>>
    BY <1>8 DEF RankAcquire, Acquire, At
  <2>3. QED
    BY <1>1, <1>2, <2>1, <2>2, OutsideInv DEF Outside, Entrances, FreePcs
<1>9. QED
  BY <1>4, <1>5, <1>6, <1>7, <1>8
-----------------------------------------------------------------------------
(* Release and gc under the lock, and a failing system call.                *)
LEMMA ReleaseMarkerInv ==
  ASSUME IInv, NEW p \in Procs, ReleaseMarker(p) \/ DeleteReleased(p)
  PROVE  IInv'
<1>1. /\ pc[p] \in {"mark", "delReleased"} /\ pc[p] \in Going /\ Return(p)
      /\ UNCHANGED <<tree, request, staging, reg, git, handed, faults>>
  BY DEF ReleaseMarker, DeleteReleased, At, Going, LockedPcs
<1>2. /\ marker' \in {"absent", "regular", "other"}
      /\ pc[p] = "mark" => (marker = "regular" => marker' = "regular")
  BY <1>1, Here DEF ReleaseMarker, DeleteReleased, At
<1>3. Act(p, "idle", NoJob)
  BY <1>1, ReturnAct
<1>4. Place(p)' /\ Claims(p)'
  BY <1>3, LeavePlace
<1>5. WitnessTrue' /\ Handed'
  BY <1>1, <1>2, Here DEF WitnessTrue, Handed, Place, Unhanded, Unwitnessed
<1>6. \A q \in Procs : Child(q)'
  <2>1. GitIdle \/ tree.at = "dir" \/ request = NoId
    BY <1>1, Here DEF Child, GitIdle
  <2>2. ASSUME NEW q \in Procs, git[q].st = "running" PROVE request = NoId /\ ~handed
    BY <1>1, <2>2, Here DEF Child
  <2>3. QED
    BY <1>1, <1>3, <2>1, <2>2, ActChildren DEF ActPlaces
<1>7. QED
  BY <1>1, <1>2, <1>3, <1>4, <1>5, <1>6, Here, ActInv

LEMMA RederiveInv ==
  ASSUME IInv, NEW p \in Procs, Rederive(p)
  PROVE  IInv'
<1>1. /\ pc[p] \in {"redecide0", "redecide5"} /\ pc[p] \in Going
      /\ UNCHANGED <<files, reg, job, git, handed, faults>>
  BY DEF Rederive, At, Going, LockedPcs
<1>2. TypeOK /\ holder = p /\ job[p] \in Jobs /\ (job[p].kind = "materialize" => job[p].of \in Ids)
  BY <1>1, Here, Alone DEF Going, Place
<1>3. PICK to \in {"unlinkRequest", "delStaging", "decide"} :
        /\ pc' = [pc EXCEPT ![p] = to]
        /\ holder' = IF to = "decide" THEN NoProc ELSE holder
        /\ to = "unlinkRequest" => tree.at = "absent"
        /\ to = "delStaging" => Reclaimable
  BY DEF Rederive, Goto
<1>4. Act(p, to, job[p])
  BY <1>1, <1>2, <1>3 DEF Act, Going, LockedPcs, TypeOK
<1>5. pc'[p] = to /\ job'[p] = job[p]
  BY <1>4, ActFrame
<1>6. Place(p)' /\ Claims(p)'
  <2>1. to = "unlinkRequest" => ~handed
    BY <1>1, <1>3, Here DEF Handed
  <2>2. to = "delStaging" => marker = "regular" /\ tree.work # "early"
    BY <1>3 DEF Reclaimable, StatusDirty
  <2>3. QED
    BY <1>1, <1>2, <1>5, <2>1, <2>2
       DEF Place, Claims, Claiming, Unwitnessed, Unmarked, Unhanded, Reclaiming, Materializing, files
<1>7. QED
  BY <1>1, <1>2, <1>3, <1>4, <1>6, Here, MoveInv DEF ActPlaces

LEMMA DeleteWitnessInv ==
  ASSUME IInv, NEW p \in Procs, DeleteWitness(p)
  PROVE  IInv'
<1>1. /\ pc[p] \in {"delStaging", "delRequest"} /\ pc[p] \in Going
      /\ UNCHANGED <<tree, marker, reg, git, handed, faults>>
  BY DEF DeleteWitness, At, Going, LockedPcs
<1>2. PICK to \in {"delRequest", "delTree"} :
        /\ Goto(p, to) /\ Stay /\ staging' \in BOOLEAN
        /\ request' \in {request, NoId} /\ (to = "delTree" => request' = NoId)
  BY <1>1, Here DEF DeleteWitness
<1>3. Act(p, to, job[p])
  BY <1>1, <1>2, GoAct DEF Going, LockedPcs
<1>4. pc'[p] = to /\ job'[p] = job[p] /\ marker = "regular"
  BY <1>1, <1>3, ActFrame, Here DEF Place, Reclaiming
<1>5. Place(p)' /\ Claims(p)'
  BY <1>1, <1>2, <1>4, Here
     DEF Place, Claims, Claiming, Unwitnessed, Unmarked, Unhanded, Reclaiming, Materializing
<1>6. WitnessTrue' /\ Handed' /\ request' \in Ids \cup {NoId, "bad"}
  BY <1>1, <1>2, <1>4, Here DEF WitnessTrue, Handed
<1>7. \A q \in Procs : Child(q)'
  <2>1. GitIdle \/ tree.at = "dir" \/ request = NoId
    BY <1>1, Here DEF Child, GitIdle
  <2>2. ASSUME NEW q \in Procs, git[q].st = "running" PROVE request = NoId /\ ~handed
    BY <1>1, <2>2, Here DEF Child
  <2>3. QED
    BY <1>1, <1>2, <1>3, <2>1, <2>2, ActChildren DEF ActPlaces
<1>8. QED
  BY <1>1, <1>2, <1>3, <1>5, <1>6, <1>7, Here, ActInv

LEMMA IOErrorInv ==
  ASSUME IInv, NEW p \in Procs, IOError(p)
  PROVE  IInv'
<1>1. pc[p] \in Going
  BY DEF IInv, TypeOK, IOError, At, Going
<1>2. faults' \in 0 .. MaxFaults
  BY <1>1, Here DEF IOError, Fault
<1>3. QED
  BY <1>1, <1>2, ReturnInv DEF IOError
-----------------------------------------------------------------------------
(* git worktree add.                                                        *)
LEMMA All ==
  ASSUME IInv
  PROVE  /\ TypeOK /\ WitnessTrue /\ Handed
         /\ \A q \in Procs : Place(q) /\ Claims(q) /\ Child(q)
BY DEF IInv

LEMMA StartAddInv ==
  ASSUME IInv, NEW p \in Procs, StartAdd(p)
  PROVE  IInv'
<1> DEFINE g == [st |-> "started", ent |-> NoEntry, of |-> job[p].of]
<1>1. /\ pc[p] = "add" /\ pc' = [pc EXCEPT ![p] = "adding"] /\ git' = [git EXCEPT ![p] = g]
      /\ UNCHANGED <<files, reg, holder, job, handed, faults>>
  BY DEF StartAdd, At, Goto, Stay
<1>2. TypeOK /\ WitnessTrue /\ Handed
  BY All
<1>3. /\ job[p].of \in Ids /\ job[p].kind = "materialize"
      /\ request = NoId /\ marker = "absent" /\ ~handed /\ git[p].st = "none"
  BY <1>1, All DEF Place, Child, Unwitnessed, Unmarked, Unhanded, Materializing
<1>4. holder = p /\ \A q \in Procs : q # p => pc[q] \in FreePcs /\ pc'[q] = pc[q] /\ git'[q] = git[q]
  BY <1>1, <1>2, Alone DEF TypeOK, LockedPcs
<1>5. pc'[p] = "adding" /\ git'[p] = g
  BY <1>1, <1>2 DEF TypeOK
<1>6. TypeOK'
  <2>1. git' \in [Procs -> [st: {"none", "started", "running"}, ent: Entries \cup {NoEntry},
                            of: Ids \cup {NoId}]]
    BY <1>1, <1>2, <1>3 DEF TypeOK
  <2>2. pc' \in [Procs -> FreePcs \cup LockedPcs]
    BY <1>1, <1>2 DEF TypeOK, LockedPcs
  <2>3. \A q \in Procs : pc'[q] \in LockedPcs <=> holder' = q
    BY <1>1, <1>4, <1>5, Apart DEF LockedPcs
  <2>4. QED
    BY <1>1, <1>2, <2>1, <2>2, <2>3 DEF TypeOK, files
<1>7. ASSUME NEW q \in Procs PROVE Place(q)' /\ Claims(q)'
  <2>1. CASE q = p
    BY <1>1, <1>3, <1>5, <2>1
       DEF Place, Claims, Claiming, Unwitnessed, Unmarked, Unhanded, Reclaiming, files
  <2>2. CASE q # p
    <3>1. pc'[q] \in FreePcs /\ job'[q] = job[q]
      BY <1>1, <1>4, <2>2
    <3>2. QED
      BY <3>1, All, FreePlace DEF Place
  <2>3. QED
    BY <2>1, <2>2
<1>8. ASSUME NEW q \in Procs PROVE Child(q)'
  <2>1. CASE q = p
    BY <1>1, <1>3, <1>5, <2>1 DEF Child, files
  <2>2. CASE q # p
    <3>1. Child(q) /\ pc'[q] = pc[q] /\ git'[q] = git[q] /\ pc[q] # "adding"
      BY <1>4, <2>2, All DEF FreePcs
    <3>2. /\ \A o \in Procs : git'[o].st = "running" => git[o].st = "running"
          /\ \A o \in Procs : pc'[o] \in ActPlaces => pc[o] \in ActPlaces
      BY <1>4, <1>5 DEF ActPlaces
    <3>3. QED
      BY <1>1, <3>1, <3>2 DEF Child, files, ActPlaces
  <2>3. QED
    BY <2>1, <2>2
<1>9. WitnessTrue' /\ Handed'
  BY <1>1, <1>2 DEF WitnessTrue, Handed, files
<1>10. QED
  BY <1>6, <1>7, <1>8, <1>9 DEF IInv

(* A child that is reaped leaves its waiter with a tree that is cut, or at  *)
(* the end of its operation, or was nobody's.                               *)
LEMMA ReapStep ==
  ASSUME IInv, NEW p \in Procs, NEW ok \in BOOLEAN, Reap(p, ok)
  PROVE  \E to \in {"idle", "patch", "stage"} :
           /\ git' = [git EXCEPT ![p] = NoGit] /\ pc' = [pc EXCEPT ![p] = to]
           /\ \/ to = "idle" /\ pc[p] = "orphan" /\ holder' = holder /\ job' = job
              \/ to = "idle" /\ pc[p] = "adding" /\ ~ok
                   /\ holder' = NoProc /\ job' = [job EXCEPT ![p] = NoJob]
              \/ to # "idle" /\ pc[p] = "adding" /\ ok /\ holder' = holder /\ job' = job
                   /\ (to = "patch" <=> git[p].of \in Patched)
<1>1. CASE pc[p] = "orphan"
  BY <1>1 DEF Reap, At, Goto, Stay
<1>2. CASE pc[p] = "adding" /\ ok
  BY <1>2 DEF Reap, At, Goto, Stay
<1>3. CASE pc[p] = "adding" /\ ~ok
  BY <1>3 DEF Reap, At, Goto, Return
<1>4. QED
  BY <1>1, <1>2, <1>3 DEF Reap, At

(* What is shared after a child's end, by who waited for it.                *)
LEMMA ReapInv ==
  ASSUME IInv, NEW p \in Procs, NEW ok \in BOOLEAN, Reap(p, ok), git[p].st # "none",
         tree' \in Trees, reg' \in [Entries -> Regs], faults' \in 0 .. MaxFaults,
         UNCHANGED <<request, staging, marker, handed>>,
         \/ tree' = tree
         \/ git[p].st = "running" /\ tree.at = "dir" /\ tree'.at = "dir" /\ tree'.of = tree.of
              /\ tree'.work = tree.work
         \/ git[p].st = "running" /\ tree' = NoTree,
         \A e \in Entries : reg'[e] = reg[e] \/ (git[p].st = "running" /\ e = git[p].ent),
         \A e \in Entries : reg'[e].rec = "aside" => reg[e].rec = "aside",
         ok => /\ git[p].st = "running" /\ tree'.at = "dir" /\ tree'.of = tree.of /\ tree'.link
               /\ (git[p].of \notin Patched /\ tree.of = git[p].of => tree'.whole)
  PROVE  IInv'
<1>1. PICK to \in {"idle", "patch", "stage"} :
           /\ git' = [git EXCEPT ![p] = NoGit] /\ pc' = [pc EXCEPT ![p] = to]
           /\ \/ to = "idle" /\ pc[p] = "orphan" /\ holder' = holder /\ job' = job
              \/ to = "idle" /\ pc[p] = "adding" /\ ~ok
                   /\ holder' = NoProc /\ job' = [job EXCEPT ![p] = NoJob]
              \/ to # "idle" /\ pc[p] = "adding" /\ ok /\ holder' = holder /\ job' = job
                   /\ (to = "patch" <=> git[p].of \in Patched)
  BY ReapStep
<1>2. TypeOK /\ WitnessTrue /\ Handed /\ Place(p) /\ Child(p)
  BY All
<1>3. /\ pc'[p] = to /\ git'[p] = NoGit
      /\ \A q \in Procs : q # p => pc'[q] = pc[q] /\ git'[q] = git[q] /\ job'[q] = job[q]
  BY <1>1, <1>2 DEF TypeOK
<1>4. git[p].st = "running" =>
        /\ request = NoId /\ ~handed /\ tree.work = "none"
        /\ \A q \in Procs : pc[q] \notin ActPlaces /\ (git[q].st = "running" => q = p)
  BY <1>2 DEF Child, ActPlaces, Handed, TypeOK, Trees
<1>5. TypeOK'
  <2>1. NoGit.st = "none" /\ NoGit.ent = NoEntry /\ NoGit.of = NoId /\ NoJob \in Jobs
    BY DEF NoGit, NoJob, Jobs
  <2>2. git' \in [Procs -> [st: {"none", "started", "running"}, ent: Entries \cup {NoEntry},
                            of: Ids \cup {NoId}]]
    BY <1>1, <1>2 DEF TypeOK, NoGit
  <2>3. pc' \in [Procs -> FreePcs \cup LockedPcs] /\ job' \in [Procs -> Jobs]
        /\ holder' \in Procs \cup {NoProc}
    BY <1>1, <1>2, <2>1 DEF TypeOK, LockedPcs, FreePcs
  <2>4. \A q \in Procs : pc'[q] \in LockedPcs <=> holder' = q
    BY <1>1, <1>2, <1>3 DEF TypeOK, LockedPcs
  <2>5. QED
    BY <1>2, <2>2, <2>3, <2>4 DEF TypeOK
<1>6. WitnessTrue' /\ Handed'
  BY <1>2, <1>4 DEF WitnessTrue, Handed, NoTree
<1>7. Place(p)' /\ Claims(p)'
  <2>1. CASE to = "idle"
    <3>1. job'[p].kind = "materialize" => job'[p].of \in Ids
      BY <1>1, <1>2 DEF Place, TypeOK, NoJob
    <3>2. QED
      BY <1>3, <2>1, <3>1, FreePlace DEF FreePcs
  <2>2. CASE to # "idle"
    <3>1. /\ pc[p] = "adding" /\ ok /\ job'[p] = job[p] /\ job[p].kind = "materialize"
          /\ git[p].of = job[p].of /\ tree.of = git[p].of /\ marker = "absent" /\ request = NoId
          /\ ~handed
      BY <1>1, <1>2, <2>2 DEF Place, Child, Materializing, Unwitnessed, Unmarked, Unhanded
    <3>2. QED
      BY <1>1, <1>2, <1>3, <2>2, <3>1
         DEF Place, Claims, Claiming, Unwitnessed, Unmarked, Unhanded, Reclaiming, Materializing
  <2>3. QED
    BY <2>1, <2>2
<1>8. ASSUME NEW q \in Procs, q # p PROVE Place(q)' /\ Claims(q)'
  <2>1. Place(q) /\ Claims(q) /\ pc'[q] = pc[q] /\ job'[q] = job[q]
    BY <1>3, <1>8, All
  <2>2. Place(q)'
    <3>1. CASE tree' = tree
      BY <2>1, <3>1 DEF Place
    <3>2. CASE git[p].st = "running" /\ (tree' = NoTree \/ tree'.work = tree.work)
      BY <1>4, <2>1, <3>2 DEF Place, ActPlaces, NoTree
    <3>3. QED
      BY <3>1, <3>2
  <2>3. Claims(q)'
    <3>1. SUFFICES ASSUME pc[q] \in Claiming PROVE Claims(q)'
      BY <2>1 DEF Claims
    <3>2. reg'[job[q].ent] = reg[job[q].ent] /\ ~GitIdle
      BY <2>1, <3>1 DEF Claims, GitIdle
    <3>3. QED
      BY <1>3, <2>1, <3>2 DEF Claims, NoGit
  <2>4. QED
    BY <2>2, <2>3
<1>9. ASSUME NEW q \in Procs PROVE Child(q)'
  <2>1. CASE q = p
    BY <1>1, <1>3, <2>1 DEF Child, NoGit
  <2>2. CASE q # p
    <3>1. Child(q) /\ pc'[q] = pc[q] /\ git'[q] = git[q] /\ job'[q] = job[q]
      BY <1>3, <2>2, All
    <3>2. git[q].st # "none" /\ tree'.at # "dir" => request' = NoId
      BY <1>4, <3>1 DEF Child
    <3>3. CASE git[q].st # "running"
      BY <3>1, <3>2, <3>3 DEF Child
    <3>4. CASE git[q].st = "running"
      <4>1. git[p].st # "running" /\ ~ok /\ to = "idle" /\ tree' = tree
        BY <1>1, <1>4, <2>2, <3>4
      <4>2. reg'[git[q].ent] = reg[git[q].ent]
        BY <3>1, <3>4, <4>1 DEF Child
      <4>3. \A o \in Procs : /\ pc'[o] \in ActPlaces => pc[o] \in ActPlaces
                             /\ git'[o].st = "running" => git[o].st = "running"
        BY <1>3, <4>1 DEF ActPlaces, NoGit
      <4>4. QED
        BY <3>1, <3>2, <3>4, <4>1, <4>2, <4>3 DEF Child, ActPlaces
    <3>5. QED
      BY <3>3, <3>4
  <2>3. QED
    BY <2>1, <2>2
<1>10. QED
  BY <1>5, <1>6, <1>7, <1>8, <1>9 DEF IInv

LEMMA GitBeginsInv ==
  ASSUME IInv, NEW p \in Procs, GitBegins(p)
  PROVE  IInv'
<1>1. TypeOK /\ WitnessTrue /\ Handed /\ Child(p) /\ git[p].st = "started"
  BY All DEF GitBegins
<1>2. CASE ~(tree.at = "absent" /\ \A e \in Entries : reg[e].rec # "gitdir")
  BY <1>1, <1>2, ReapInv DEF GitBegins, TypeOK
<1>3. CASE tree.at = "absent" /\ \A e \in Entries : reg[e].rec # "gitdir"
  <2>1. PICK e \in Entries, link \in BOOLEAN :
          /\ reg[e].rec = "none"
          /\ reg' = [reg EXCEPT ![e] = [rec |-> "gitdir", locked |-> "init"]]
          /\ git' = [git EXCEPT ![p].st = "running", ![p].ent = e]
          /\ tree' = [NoTree EXCEPT !.at = "dir", !.of = git[p].of, !.link = link]
    BY <1>3 DEF GitBegins
  <2>2. UNCHANGED <<request, staging, marker, pc, holder, job, handed, faults>>
    BY <1>3 DEF GitBegins
  <2>3. /\ git'[p] = [st |-> "running", ent |-> e, of |-> git[p].of]
        /\ \A q \in Procs : q # p => git'[q] = git[q]
        /\ git' \in [Procs -> [st: {"none", "started", "running"}, ent: Entries \cup {NoEntry},
                               of: Ids \cup {NoId}]]
    <3>1. git \in [Procs -> [st: {"none", "started", "running"}, ent: Entries \cup {NoEntry},
                            of: Ids \cup {NoId}]]
      BY <1>1 DEF TypeOK
    <3>2. git'[p] = [st |-> "running", ent |-> e, of |-> git[p].of]
      BY <1>1, <2>1, <3>1
    <3>3. \A q \in Procs : q # p => git'[q] = git[q]
      BY <2>1, <3>1
    <3>4. DOMAIN git' = Procs /\ git' = [q \in Procs |-> git'[q]]
      BY <2>1, <3>1
    <3>5. git[p].of \in Ids \cup {NoId}
      BY <1>1, <3>1
    <3>6. QED
      BY <3>1, <3>2, <3>3, <3>4, <3>5
  <2>4. /\ reg'[e] = [rec |-> "gitdir", locked |-> "init"]
        /\ \A f \in Entries : f # e => reg'[f] = reg[f]
        /\ reg' \in [Entries -> Regs]
    BY <1>1, <2>1 DEF TypeOK, Regs
  <2>5. /\ tree' \in Trees /\ tree'.at = "dir" /\ tree'.of = git[p].of /\ tree'.work = "none"
    BY <1>1, <2>1 DEF TypeOK, Trees, NoTree
  <2>6. /\ request = NoId /\ ~handed /\ tree.work = "none"
        /\ git[p].of \in Ids /\ pc[p] \in {"adding", "orphan"}
        /\ \A q \in Procs : git[q].st # "running" /\ pc[q] \notin ActPlaces
    <3>1. request = NoId /\ ~handed /\ git[p].of \in Ids /\ pc[p] \in {"adding", "orphan"}
      BY <1>1, <1>3 DEF Child, Handed
    <3>2. tree.work = "none"
      BY <1>1, <3>1 DEF Handed, TypeOK, Trees
    <3>3. \A q \in Procs : git[q].st # "running"
      BY <1>3, All DEF Child
    <3>4. \A q \in Procs : pc[q] \notin ActPlaces
      BY <1>3, All DEF Place, ActPlaces
    <3>5. QED
      BY <3>1, <3>2, <3>3, <3>4
  <2>7. TypeOK'
    BY <1>1, <2>2, <2>3, <2>4, <2>5 DEF TypeOK
  <2>8. WitnessTrue' /\ Handed'
    BY <2>2, <2>5, <2>6 DEF WitnessTrue, Handed
  <2>9. ASSUME NEW q \in Procs PROVE Place(q)' /\ Claims(q)'
    <3>1. Place(q) /\ Claims(q)
      BY All
    <3>2. Place(q)'
      BY <2>2, <2>4, <2>5, <2>6, <3>1 DEF Place, ActPlaces
    <3>3. Claims(q)'
      <4>1. SUFFICES ASSUME pc[q] \in Claiming PROVE Claims(q)'
        BY <2>2 DEF Claims
      <4>2. ~GitIdle /\ reg[job[q].ent].rec # "none" /\ job[q].ent \in Entries
        BY <1>1, <3>1, <4>1 DEF Claims, GitIdle
      <4>3. job[q].ent # e /\ reg'[job[q].ent] = reg[job[q].ent]
        BY <2>1, <2>4, <4>2
      <4>4. QED
        BY <2>2, <2>3, <2>6, <4>2, <4>3 DEF Claims
    <3>4. QED
      BY <3>2, <3>3
  <2>10. ASSUME NEW q \in Procs PROVE Child(q)'
    <3>1. Child(q)
      BY All
    <3>2. CASE q = p
      <4>1. pc[p] = "adding" => git[p].of = job[p].of
        BY <1>1 DEF Child
      <4>2. \A o \in Procs : git'[o].st = "running" => o = p
        BY <2>3, <2>6
      <4>3. QED
        BY <2>2, <2>3, <2>4, <2>5, <2>6, <3>2, <4>1, <4>2 DEF Child, ActPlaces
    <3>3. CASE q # p
      BY <2>2, <2>3, <2>5, <2>6, <3>1, <3>3 DEF Child
    <3>4. QED
      BY <3>2, <3>3
  <2>11. QED
    BY <2>7, <2>8, <2>9, <2>10 DEF IInv
<1>4. QED
  BY <1>2, <1>3

LEMMA GitEndsInv ==
  ASSUME IInv, NEW p \in Procs, GitEnds(p)
  PROVE  IInv'
<1> DEFINE e == git[p].ent
<1>1. TypeOK /\ Child(p) /\ git[p].st = "running" /\ UNCHANGED <<request, staging, marker, handed>>
  BY All DEF GitEnds
<1>2. e \in Entries /\ reg[e] = [rec |-> "gitdir", locked |-> "init"]
  BY <1>1 DEF Child
<1>3. CASE /\ tree.at = "dir" /\ faults' = faults
           /\ tree' = [tree EXCEPT !.whole = tree.of = git[p].of /\ git[p].of \notin Patched,
                                   !.link = TRUE]
           /\ reg' = [reg EXCEPT ![e].locked = "no"]
           /\ Reap(p, TRUE)
  <2>1. /\ tree' \in Trees /\ tree'.at = "dir" /\ tree'.of = tree.of /\ tree'.link
        /\ tree'.work = tree.work
        /\ (git[p].of \notin Patched /\ tree.of = git[p].of => tree'.whole)
    BY <1>1, <1>3 DEF TypeOK, Trees
  <2>2. reg' \in [Entries -> Regs] /\ (\A f \in Entries : f # e => reg'[f] = reg[f])
        /\ \A f \in Entries : reg'[f].rec = reg[f].rec
    BY <1>1, <1>2, <1>3 DEF TypeOK, Regs
  <2>3. \A f \in Entries : reg'[f] = reg[f] \/ (git[p].st = "running" /\ f = git[p].ent)
    BY <1>1, <2>2
  <2>4. faults' \in 0 .. MaxFaults /\ Reap(p, TRUE) /\ TRUE \in BOOLEAN
    BY <1>1, <1>3 DEF TypeOK
  <2> HIDE DEF e
  <2>5. QED
    BY <1>1, <1>3, <2>1, <2>2, <2>3, <2>4, ReapInv
<1>4. CASE /\ IF tree.at = "dir" THEN Fault ELSE UNCHANGED faults
           /\ tree' = NoTree /\ reg' = [reg EXCEPT ![e] = NoReg]
           /\ Reap(p, FALSE)
  <2>1. tree' \in Trees /\ faults' \in 0 .. MaxFaults
    BY <1>1, <1>4 DEF TypeOK, Trees, NoTree, Fault
  <2>2. reg' \in [Entries -> Regs] /\ (\A f \in Entries : f # e => reg'[f] = reg[f])
        /\ \A f \in Entries : reg'[f].rec = "aside" => reg[f].rec = "aside"
    BY <1>1, <1>2, <1>4 DEF TypeOK, Regs, NoReg
  <2>3. QED
    BY <1>1, <1>4, <2>1, <2>2, ReapInv
<1>5. QED
  BY <1>3, <1>4 DEF GitEnds

LEMMA KillGitInv ==
  ASSUME IInv, NEW p \in Procs, KillGit(p)
  PROVE  IInv'
<1>1. TypeOK /\ Child(p) /\ pc[p] = "adding" /\ Reap(p, FALSE) /\ faults' \in 0 .. MaxFaults
      /\ UNCHANGED <<files, reg, handed>>
  <2>1. TypeOK /\ Child(p)
    BY All
  <2>2. faults' \in 0 .. MaxFaults
    BY <2>1 DEF KillGit, Fault, TypeOK
  <2>3. QED
    BY <2>1, <2>2 DEF KillGit, At
<1>2. git[p].st # "none"
  BY <1>1 DEF Child
<1>3. QED
  BY <1>1, <1>2, ReapInv DEF TypeOK, files

LEMMA CrashInv ==
  ASSUME IInv, NEW p \in Procs, Crash(p)
  PROVE  IInv'
<1>1. TypeOK /\ WitnessTrue /\ Handed /\ Child(p)
  BY All
<1>2. /\ pc[p] \notin {"idle", "orphan"} /\ faults' \in 0 .. MaxFaults
      /\ holder' = IF holder = p THEN NoProc ELSE holder
      /\ job' = [job EXCEPT ![p] = NoJob] /\ UNCHANGED <<files, reg, handed>>
  BY <1>1 DEF Crash, Fault, TypeOK
<1>3. PICK to \in {"idle", "orphan"}, g \in {NoGit, git[p]} :
        /\ pc' = [pc EXCEPT ![p] = to] /\ git' = [git EXCEPT ![p] = g]
        /\ to = "idle" => g = NoGit
        /\ to = "orphan" => g = git[p] /\ pc[p] = "adding"
  <2>1. git = [git EXCEPT ![p] = git[p]]
    BY <1>1 DEF TypeOK
  <2>2. QED
    BY <2>1 DEF Crash, Goto, At
<1>4. /\ pc'[p] = to /\ git'[p] = g /\ job'[p] = NoJob
      /\ \A q \in Procs : q # p => pc'[q] = pc[q] /\ git'[q] = git[q] /\ job'[q] = job[q]
  BY <1>1, <1>2, <1>3 DEF TypeOK
<1>5. g \in [st: {"none", "started", "running"}, ent: Entries \cup {NoEntry}, of: Ids \cup {NoId}]
      /\ NoGit.st = "none" /\ NoJob \in Jobs /\ NoJob.kind = "none"
  BY <1>1 DEF TypeOK, NoGit, NoJob, Jobs
<1>6. TypeOK'
  <2>1. /\ git' \in [Procs -> [st: {"none", "started", "running"}, ent: Entries \cup {NoEntry},
                               of: Ids \cup {NoId}]]
        /\ pc' \in [Procs -> FreePcs \cup LockedPcs] /\ job' \in [Procs -> Jobs]
        /\ holder' \in Procs \cup {NoProc}
    BY <1>1, <1>2, <1>3, <1>5 DEF TypeOK, FreePcs
  <2>2. \A q \in Procs : pc'[q] \in LockedPcs <=> holder' = q
    BY <1>1, <1>2, <1>4 DEF TypeOK, LockedPcs
  <2>3. QED
    BY <1>1, <1>2, <2>1, <2>2 DEF TypeOK, files
<1>7. WitnessTrue' /\ Handed'
  BY <1>1, <1>2 DEF WitnessTrue, Handed, files
<1>8. ASSUME NEW q \in Procs PROVE Place(q)' /\ Claims(q)'
  <2>1. CASE q = p
    BY <1>4, <1>5, <2>1, FreePlace DEF FreePcs
  <2>2. CASE q # p
    <3>1. Place(q) /\ Claims(q) /\ pc'[q] = pc[q] /\ job'[q] = job[q]
      BY <1>4, <2>2, All
    <3>2. /\ \A o \in Procs : git'[o].st = "running" => git'[o] = git[o]
          /\ GitIdle => GitIdle'
      BY <1>4, <1>5 DEF GitIdle
    <3>3. QED
      BY <1>2, <3>1, <3>2 DEF Place, Claims, files
  <2>3. QED
    BY <2>1, <2>2
<1>9. ASSUME NEW q \in Procs PROVE Child(q)'
  <2>1. /\ \A o \in Procs : git'[o].st = "running" => git'[o] = git[o]
        /\ \A o \in Procs : pc'[o] \in ActPlaces => pc[o] \in ActPlaces
    BY <1>4, <1>5 DEF ActPlaces
  <2>2. CASE q = p /\ to = "idle"
    BY <1>3, <1>4, <1>5, <2>2 DEF Child, NoGit
  <2>3. CASE q = p /\ to = "orphan"
    BY <1>1, <1>2, <1>3, <1>4, <2>1, <2>3 DEF Child, ActPlaces, files
  <2>4. CASE q # p
    <3>1. Child(q) /\ pc'[q] = pc[q] /\ git'[q] = git[q] /\ job'[q] = job[q]
      BY <1>4, <2>4, All
    <3>2. QED
      BY <1>2, <2>1, <3>1 DEF Child, ActPlaces, files
  <2>5. QED
    BY <2>2, <2>3, <2>4
<1>10. QED
  BY <1>6, <1>7, <1>8, <1>9 DEF IInv
-----------------------------------------------------------------------------
(* Consumers and people.                                                    *)
LEMMA PeopleFrame ==
  ASSUME IInv, UNCHANGED <<holder, pc, job, git>>, tree' \in Trees,
         request' \in Ids \cup {NoId, "bad"}, staging' \in BOOLEAN,
         marker' \in {"absent", "regular", "other"}, reg' \in [Entries -> Regs],
         handed' \in BOOLEAN, faults' \in 0 .. MaxFaults
  PROVE  TypeOK'
BY DEF IInv, TypeOK

LEMMA EditInv ==
  ASSUME IInv, Edit \/ Commit
  PROVE  IInv'
<1>1. TypeOK /\ WitnessTrue /\ Handed
  BY All
<1>2. /\ tree' \in Trees /\ tree'.at = tree.at /\ tree'.of = tree.of /\ tree'.whole = tree.whole
      /\ tree'.link = tree.link
      /\ tree'.work # "none" => handed
      /\ tree'.work = "early" => tree.work = "early" \/ marker # "regular"
      /\ UNCHANGED <<request, staging, marker, reg, holder, pc, job, git, handed, faults>>
  BY <1>1 DEF Edit, Commit, TypeOK, Trees
<1>3. TypeOK'
  BY <1>1, <1>2, PeopleFrame DEF TypeOK
<1>4. WitnessTrue' /\ Handed'
  BY <1>1, <1>2 DEF WitnessTrue, Handed
<1>5. ASSUME NEW q \in Procs PROVE Place(q)' /\ Claims(q)' /\ Child(q)'
  <2>1. Place(q) /\ Claims(q) /\ Child(q)
    BY All
  <2>2. Place(q)'
    BY <1>2, <2>1 DEF Place
  <2>3. Claims(q)' /\ Child(q)'
    BY <1>2, <2>1 DEF Claims, Child, GitIdle
  <2>4. QED
    BY <2>2, <2>3
<1>6. QED
  BY <1>3, <1>4, <1>5 DEF IInv

LEMMA TamperInv ==
  ASSUME IInv, Tamper
  PROVE  IInv'
<1>1. TypeOK /\ WitnessTrue /\ Handed
  BY All
<1>2. /\ holder = NoProc /\ GitIdle /\ faults' \in 0 .. MaxFaults
      /\ UNCHANGED <<staging, reg, holder, pc, job, git>>
  BY <1>1 DEF Tamper, Fault, TypeOK
<1>3. NoTree \in Trees /\ [NoTree EXCEPT !.at = "other"] \in Trees
      /\ NoTree.at = "absent" /\ NoTree.work = "none"
      /\ [NoTree EXCEPT !.at = "other"].at = "other" /\ [NoTree EXCEPT !.at = "other"].work = "none"
  BY DEF NoTree, Trees
<1>4. TypeOK' /\ WitnessTrue' /\ Handed'
  <2>1. CASE tree.at = "dir" /\ tree' = NoTree /\ handed' = FALSE /\ UNCHANGED <<marker, request>>
    BY <1>1, <1>2, <1>3, <2>1, PeopleFrame DEF TypeOK, WitnessTrue, Handed
  <2>2. CASE tree.at = "absent" /\ tree' = [NoTree EXCEPT !.at = "other"]
             /\ UNCHANGED <<marker, request, handed>>
    BY <1>1, <1>2, <1>3, <2>2, PeopleFrame DEF TypeOK, WitnessTrue, Handed
  <2>3. CASE marker = "absent" /\ marker' = "other" /\ UNCHANGED <<tree, request, handed>>
    BY <1>1, <1>2, <2>3, PeopleFrame DEF TypeOK, WitnessTrue, Handed
  <2>4. CASE request \in Ids /\ request' = "bad" /\ UNCHANGED <<tree, marker, handed>>
    BY <1>1, <1>2, <2>4, PeopleFrame DEF TypeOK, WitnessTrue, Handed
  <2>5. QED
    BY <2>1, <2>2, <2>3, <2>4 DEF Tamper
<1>5. ASSUME NEW q \in Procs PROVE Place(q)' /\ Claims(q)' /\ Child(q)'
  <2>1. Place(q) /\ Claims(q) /\ Child(q) /\ git[q].st = "none"
    BY <1>2, All DEF GitIdle
  <2>2. pc'[q] \in FreePcs
    BY <1>1, <1>2 DEF TypeOK
  <2>3. QED
    BY <1>2, <2>1, <2>2, FreePlace DEF Child, Place
<1>6. QED
  BY <1>4, <1>5 DEF IInv

LEMMA PersonInv ==
  ASSUME IInv, NEW e \in Entries, LockWorktree(e) \/ UnlockWorktree(e) \/ PruneWorktree(e)
  PROVE  IInv'
<1>1. TypeOK /\ WitnessTrue /\ Handed
  BY All
<1>2. UNCHANGED <<files, holder, pc, job, git, handed>> /\ faults' \in 0 .. MaxFaults
  BY <1>1 DEF LockWorktree, UnlockWorktree, PruneWorktree, Fault, TypeOK
<1>3. /\ reg' \in [Entries -> Regs]
      /\ \A f \in Entries : f # e => reg'[f] = reg[f]
      /\ reg'[e].rec = "aside" => reg[e].rec = "aside"
      /\ reg'[e].rec = "none" => reg[e].rec = "none" \/ GitIdle
  <2>1. reg \in [Entries -> Regs]
    BY <1>1 DEF TypeOK
  <2>2. CASE LockWorktree(e)
    BY <2>1, <2>2 DEF LockWorktree, Regs
  <2>3. CASE UnlockWorktree(e)
    BY <2>1, <2>3 DEF UnlockWorktree, Regs
  <2>4. CASE PruneWorktree(e)
    BY <2>1, <2>4 DEF PruneWorktree, Regs, NoReg
  <2>5. QED
    BY <2>2, <2>3, <2>4
<1>4. \A q \in Procs : git[q].st = "running" => git[q].ent # e
  <2>1. SUFFICES ASSUME NEW q \in Procs, git[q].st = "running", git[q].ent = e PROVE FALSE
    OBVIOUS
  <2>2. reg[e] = [rec |-> "gitdir", locked |-> "init"] /\ ~GitIdle
    BY <2>1, All DEF Child, GitIdle
  <2>3. QED
    BY <2>1, <2>2 DEF LockWorktree, UnlockWorktree, PruneWorktree
<1>5. TypeOK'
  BY <1>1, <1>2, <1>3, PeopleFrame DEF TypeOK, files
<1>6. WitnessTrue' /\ Handed'
  BY <1>1, <1>2 DEF WitnessTrue, Handed, files
<1>7. ASSUME NEW q \in Procs PROVE Place(q)' /\ Claims(q)' /\ Child(q)'
  <2>1. Place(q) /\ Claims(q) /\ Child(q)
    BY All
  <2>2. Place(q)'
    BY <1>2, <1>3, <2>1 DEF Place, files
  <2>3. Claims(q)'
    BY <1>2, <1>3, <2>1 DEF Claims, GitIdle
  <2>4. git[q].st = "running" => reg'[git[q].ent] = reg[git[q].ent]
    BY <1>3, <1>4, <2>1 DEF Child
  <2>5. Child(q)'
    BY <1>2, <2>1, <2>4 DEF Child, files
  <2>6. QED
    BY <2>2, <2>3, <2>5
<1>8. QED
  BY <1>5, <1>6, <1>7 DEF IInv
-----------------------------------------------------------------------------
LEMMA NextIInv == IInv /\ [Next]_vars => IInv'
<1> SUFFICES ASSUME IInv, [Next]_vars PROVE IInv'
  OBVIOUS
<1>1. CASE UNCHANGED vars
  BY <1>1 DEF vars, files, IInv, TypeOK, WitnessTrue, Handed, Place, Claims, Child, GitIdle
<1>2. ASSUME NEW p \in Procs, \/ \E i \in Ids : MaterializeAcquire(p, i)
                              \/ ReleaseAcquire(p) \/ StartGC(p)
      PROVE  IInv'
  BY <1>2, EnterInv
<1>3. ASSUME NEW p \in Procs, Step(p) PROVE IInv'
  <2>1. CASE ReconcileStep(p)
    BY <2>1, EnumerateInv, VisitEntryInv, RegistryInv, PostconditionInv DEF ReconcileStep
  <2>2. CASE MaterializeStep(p)
    BY <2>2, LookInv, UnlinkOrphansInv, RemoveTreeInv, UnlinkResidueStagingInv, StartAddInv,
       ApplyPatchInv, WitnessInv, HandoverInv DEF MaterializeStep
  <2>3. CASE GCStep(p)
    BY <2>3, EnterInv, RederiveInv, DeleteWitnessInv, RemoveTreeInv, ReleaseMarkerInv DEF GCStep
  <2>4. CASE GitStep(p)
    BY <2>4, GitBeginsInv, GitEndsInv DEF GitStep
  <2>5. QED
    BY <1>3, <2>1, <2>2, <2>3, <2>4, ReleaseMarkerInv DEF Step
<1>4. ASSUME NEW p \in Procs, RemoveSome(p) \/ KillGit(p) \/ IOError(p) \/ Crash(p)
      PROVE  IInv'
  BY <1>4, RemoveTreeInv, KillGitInv, IOErrorInv, CrashInv
<1>5. CASE Edit \/ Commit \/ Tamper
  BY <1>5, EditInv, TamperInv
<1>6. ASSUME NEW e \in Entries, LockWorktree(e) \/ UnlockWorktree(e) \/ PruneWorktree(e)
      PROVE  IInv'
  BY <1>6, PersonInv
<1>7. QED
  BY <1>1, <1>2, <1>3, <1>4, <1>5, <1>6 DEF Next

(* The lock, the marker, the witness and git's registrations fit together   *)
(* in every state of the unit, whatever crashed, failed or raced.           *)
THEOREM Invariance == Spec => []IInv
<1>1. Init => IInv
  BY InitIInv
<1>2. IInv /\ [Next]_vars => IInv'
  BY NextIInv
<1>3. QED
  BY <1>1, <1>2, PTL DEF Spec

(* A .request beside a directory witnesses its whole tree, a git worktree   *)
(* add starts with no claim of an earlier run left, and an operation is     *)
(* under way exactly in the process that holds the unit lock.               *)
THEOREM Sound == Spec => []UnitSound
<1>1. IInv => UnitSound
  BY DEF IInv, UnitSound, ClaimsResolved, Place, At
<1>2. QED
  BY <1>1, Invariance, PTL

(* Materialize hands out, fresh or reused, the whole tree of the identity   *)
(* it was asked for, witnessed and not released.                            *)
THEOREM Handovers == Spec => []HandoverSound
<1>1. IInv => HandoverSound
  BY DEF IInv, HandoverSound, Place, At, Unmarked
<1>2. QED
  BY <1>1, Invariance, PTL
-----------------------------------------------------------------------------
(* Steps that may change what is in the tree.                               *)
LEMMA TreeStep ==
  ASSUME IInv, [Next]_vars, tree' # tree, ~Tamper
  PROVE  \/ \E p \in Procs : RemoveSome(p) \/ RemoveResidue(p) \/ DeleteTree(p)
         \/ \E p \in Procs : GitBegins(p) \/ GitEnds(p) \/ ApplyPatch(p)
         \/ Edit \/ Commit
<1> SUFFICES ASSUME ~(Edit \/ Commit), NEW p \in Procs,
                    \/ \E i \in Ids : MaterializeAcquire(p, i)
                    \/ ReleaseAcquire(p) \/ StartGC(p) \/ Step(p)
                    \/ RemoveSome(p) \/ KillGit(p) \/ IOError(p) \/ Crash(p)
             PROVE  \/ RemoveSome(p) \/ RemoveResidue(p) \/ DeleteTree(p)
                    \/ GitBegins(p) \/ GitEnds(p) \/ ApplyPatch(p)
  BY DEF Next, vars, files, LockWorktree, UnlockWorktree, PruneWorktree
<1>1. ~ReconcileStep(p)
  BY DEF ReconcileStep, Enumerate, VisitEntry, Claim, Verify, DeleteEntry, Postcondition, files
<1>2. MaterializeStep(p) => RemoveResidue(p) \/ ApplyPatch(p)
  BY DEF MaterializeStep, Look, UnlinkOrphans, UnlinkResidueStaging, StartAdd, StageWitness,
         RenameWitness, Handover, files
<1>3. GCStep(p) => DeleteTree(p)
  BY DEF GCStep, DecideUnit, RankAcquire, RankHeld, Rederive, DeleteWitness, DeleteReleased, files
<1>4. ~ReleaseMarker(p) /\ ~KillGit(p) /\ ~IOError(p) /\ ~Crash(p)
  BY DEF ReleaseMarker, KillGit, IOError, Crash, files
<1>5. ~StartGC(p) /\ ~ReleaseAcquire(p) /\ \A i \in Ids : ~MaterializeAcquire(p, i)
  BY DEF StartGC, ReleaseAcquire, MaterializeAcquire, files
<1>6. QED
  BY <1>1, <1>2, <1>3, <1>4, <1>5 DEF Step, GitStep

(* What removes a tree, and what completes one, finds it in nobody's hands  *)
(* or released without work that was there before.                          *)
LEMMA RemovalFinds ==
  ASSUME IInv, NEW p \in Procs, RemoveSome(p) \/ RemoveResidue(p) \/ DeleteTree(p)
  PROVE  tree.work # "early" /\ (marker = "regular" \/ ~handed)
<1>1. pc[p] \in {"removeResidue", "delTree"}
  BY DEF RemoveSome, RemoveResidue, DeleteTree, At
<1>2. TypeOK /\ Handed /\ Place(p)
  BY All
<1>3. CASE pc[p] = "removeResidue"
  BY <1>2, <1>3 DEF Place, Unhanded, Unwitnessed, Handed
<1>4. CASE pc[p] = "delTree"
  BY <1>2, <1>4 DEF Place, Reclaiming
<1>5. QED
  BY <1>1, <1>3, <1>4

LEMMA AddingFinds ==
  ASSUME IInv, NEW p \in Procs, GitBegins(p) \/ GitEnds(p) \/ ApplyPatch(p), tree' # tree
  PROVE  ~handed /\ tree.work = "none"
<1>1. TypeOK /\ Handed /\ Place(p) /\ Child(p)
  BY All
<1>2. ~handed
  <2>1. CASE GitBegins(p)
    BY <1>1, <2>1 DEF GitBegins, Handed
  <2>2. CASE GitEnds(p)
    BY <1>1, <2>2 DEF GitEnds, Child
  <2>3. CASE ApplyPatch(p)
    BY <1>1, <2>3 DEF ApplyPatch, At, Place, Unhanded, Unwitnessed
  <2>4. QED
    BY <2>1, <2>2, <2>3
<1>3. QED
  BY <1>1, <1>2 DEF Handed, TypeOK, Trees

(* Nobody's tree and nobody's work is removed on the word of a look that is *)
(* out of date.                                                             *)
THEOREM Kept == Spec => WantedKept
<1>1. ASSUME IInv, [Next]_vars
      PROVE  /\ handed /\ marker # "regular" =>
                  (tree'.whole = tree.whole /\ tree'.of = tree.of) \/ Tamper
             /\ tree.work = "early" =>
                  (tree'.work = "early" /\ tree'.of = tree.of) \/ Commit \/ Tamper
  <2>1. CASE tree' = tree \/ Tamper
    BY <2>1
  <2>2. CASE \E p \in Procs : RemoveSome(p) \/ RemoveResidue(p) \/ DeleteTree(p)
    BY <1>1, <2>2, RemovalFinds
  <2>3. CASE tree' # tree /\ \E p \in Procs : GitBegins(p) \/ GitEnds(p) \/ ApplyPatch(p)
    BY <1>1, <2>3, AddingFinds
  <2>4. CASE Edit \/ Commit
    <3>1. tree \in Trees
      BY <1>1 DEF IInv, TypeOK
    <3>2. QED
      BY <2>4, <3>1 DEF Edit, Commit, Trees
  <2>5. QED
    BY <1>1, <2>1, <2>2, <2>3, <2>4, TreeStep
<1>2. QED
  BY <1>1, Invariance, PTL DEF Spec, WantedKept, LiveUnitKept, EarlyWorkKept

(* No entry that a git child is still at work on is unlocked or deleted,    *)
(* even when its parent is dead and another process holds the unit lock.    *)
THEOREM AddsKept == Spec => InFlightAddKept
<1>1. ASSUME IInv, [Next]_vars, NEW p \in Procs, git[p].st = "running", git'[p] = git[p]
      PROVE  reg'[git[p].ent].locked = reg[git[p].ent].locked
  <2>1. IInv'
    BY <1>1, NextIInv
  <2>2. reg[git[p].ent] = [rec |-> "gitdir", locked |-> "init"]
    BY <1>1 DEF IInv, Child
  <2>3. Child(p)'
    BY <2>1 DEF IInv
  <2>4. reg'[git[p].ent] = [rec |-> "gitdir", locked |-> "init"]
    BY <1>1, <2>3 DEF Child
  <2>5. QED
    BY <2>2, <2>4
<1>2. IInv /\ [Next]_vars =>
        \A p \in Procs : git[p].st = "running" /\ git'[p] = git[p] =>
          reg'[git[p].ent].locked = reg[git[p].ent].locked
  BY <1>1
<1>3. QED
  BY <1>2, Invariance, PTL DEF Spec, InFlightAddKept
=============================================================================
