---------------------------- MODULE FileLockProof ----------------------------
(***************************************************************************)
(* Proofs about FileLock, for every set of processes, goroutines and       *)
(* inodes and every retry bound.                                           *)
(***************************************************************************)
EXTENDS FileLock, TLAPS

(***************************************************************************)
(* The inductive invariant.                                                *)
(***************************************************************************)
\* The goroutines of a dead process, and only they, run no more.
DeadStop == \A t \in Threads : pc[t] = "dead" <=> ~alive[ProcOf[t]]

\* From its exclusive create to the end of its Release, a goroutine's own file
\* is the one the path names, and nothing about it invites a takeover.
OwnsPath ==
    \A t \in Threads : pc[t] \in Owning =>
        /\ file[t] \in Inodes
        /\ path = file[t]
        /\ IF pc[t] \in {"encode", "discard"}
           THEN body[file[t]] = Incomplete /\ ~aged[file[t]]
           ELSE body[file[t]] = ProcOf[t]

\* So there is one such goroutine.
OneOwner == \A t, u \in Threads : pc[t] \in Owning /\ pc[u] \in Owning => t = u

\* A file that no living goroutine will ever own again.
Stale(i) == \/ body[i] \in Procs /\ ~alive[body[i]]
            \/ body[i] = Incomplete /\ aged[i]

\* A detector keeps its handle open, judged it stale once and for all, holds
\* the flock on it, and past its identity check the path still names it.
DetectorSound ==
    \A t \in Threads :
        /\ pc[t] \in Takeover \ {"tkOpen"} => file[t] \in Inodes
        /\ pc[t] \in {"tkFlock", "tkSame", "tkRecheck", "tkUnlink"} => Stale(file[t])
        /\ pc[t] \in Flocked => flock[file[t]] = t
        /\ pc[t] \in {"tkRecheck", "tkUnlink"} => path = file[t]

\* acquire hands takeOverStale, and recurses from it, with budget left.
RetryLeft == \A t \in Threads : pc[t] \in Takeover => tries[t] > 0

\* probe is asked about complete bodies only.
ProbeComplete == \A t \in Threads : pc[t] = "probe" => seen[t] \in Procs

\* The registry knows exactly the handle of its process's holder.
RegistrySound ==
    /\ \A t \in Threads : pc[t] \in Holding => entry[ProcOf[t]] = file[t]
    /\ \A p \in Procs : entry[p] # NoFile =>
         \E t \in Threads : ProcOf[t] = p /\ pc[t] \in Holding /\ file[t] = entry[p]

\* A lease is on the entry its process has registered.
LeaseSound ==
    \A t \in Threads :
        /\ pc[t] \in Leasing <=> lease[t] # NoFile
        /\ lease[t] # NoFile => entry[ProcOf[t]] = lease[t]

\* A writer past the checkout mutex owns it; nobody else asks for a lease.
MutexSound ==
    \A t \in Threads :
        /\ t \in Writers /\ pc[t] \notin {"idle", "mutex", "dead"}
             => mutex[ProcOf[t]] = t
        /\ pc[t] \in {"mutex", "lease", "unlock"} \cup Leasing => t \in Writers

IInv == /\ TypeOK
        /\ DeadStop
        /\ OwnsPath
        /\ OneOwner
        /\ DetectorSound
        /\ RetryLeft
        /\ ProbeComplete
        /\ RegistrySound
        /\ LeaseSound
        /\ MutexSound

-----------------------------------------------------------------------------
(***************************************************************************)
(* The constants, and the sets of locations and ways out of a call of      *)
(* which every action is built, are visible from here on.                  *)
(***************************************************************************)
USE ConstantsAssumption
USE DEF Bodies, Locations, Owning, Creating, Holding, Releasing, Judging,
        Takeover, Flocked, Leasing
USE DEF Goto, Leave, Return, Held, Retry, Exhausted, Forget, fileVars, localVars

\* A holder alive() may deny is dead: a live process is never judged dead.
LEMMA AliveSound == \A p \in Procs : FALSE \in Alive(p) => ~alive[p]
  BY DEF Alive

\* What bodyStale may call stale is stale for good.
LEMMA StaleSound ==
    ASSUME NEW b \in Bodies, NEW i, TRUE \in BodyStale(b, i)
    PROVE  \/ b \in Procs /\ ~alive[b]
           \/ b = Incomplete /\ aged[i]
<1>1. CASE b \in Procs
  <2>1. PICK a \in Alive(b) : TRUE = ~a
    BY <1>1 DEF BodyStale
  <2>. QED
    BY <2>1, <1>1, AliveSound DEF Alive
<1>2. CASE b = Incomplete
  BY <1>2 DEF BodyStale
<1>3. CASE b = Garbled
  BY <1>3 DEF BodyStale
<1>. QED
  BY <1>1, <1>2, <1>3

\* Every initial state satisfies the invariant, whatever lock it finds.
LEMMA InitInv == Init => IInv
  BY DEF IInv, TypeOK, DeadStop, OwnsPath, OneOwner, DetectorSound, Stale,
        RetryLeft, ProbeComplete, RegistrySound, LeaseSound, MutexSound, Init

-----------------------------------------------------------------------------
(***************************************************************************)
(* Most steps of acquire change nothing that two goroutines share.  They   *)
(* are of two kinds: one looks at the lock and goes on judging, the other  *)
(* leaves the call, or starts it again, without any handle.                *)
(***************************************************************************)
\* The rest of the world, and what the other goroutines know, stays.
Private(t) ==
    /\ UNCHANGED <<fileVars, flock, alive, entry, lease, mutex>>
    /\ seen' \in [Threads -> Bodies]
    /\ tries' \in [Threads -> 0..AcquireRetries]
    /\ rereads' \in [Threads -> 0..LockDecodeRetries]
    /\ \A u \in Threads \ {t} : seen'[u] = seen[u] /\ tries'[u] = tries[u]

\* A goroutine that owns no file, has no flock and no lease.
Light == {"open", "lease", "tkOpen", "tkJudge", "tkFlock"} \cup Judging

\* Going on to judge the lock, or to open it for a takeover with budget left.
LEMMA JudgeOnStep ==
    ASSUME IInv, NEW t \in Threads, NEW l \in Judging \cup {"tkOpen"},
           pc[t] \in {"open"} \cup Judging, Goto(t, l), Private(t), UNCHANGED file,
           l = "tkOpen" => tries'[t] > 0,
           l = "probe" => seen'[t] \in Procs
    PROVE  IInv'
<1>1. TypeOK'
  BY DEF IInv, TypeOK, Private
<1>2. DeadStop'
  BY DEF IInv, TypeOK, DeadStop, Private
<1>3. OwnsPath'
  BY DEF IInv, TypeOK, OwnsPath, Private
<1>4. OneOwner'
  BY DEF IInv, TypeOK, OneOwner, Private
<1>5. DetectorSound'
  BY DEF IInv, TypeOK, DetectorSound, Stale, Private
<1>6. RetryLeft'
  BY DEF IInv, TypeOK, RetryLeft, Private
<1>7. ProbeComplete'
  BY DEF IInv, TypeOK, ProbeComplete, Private
<1>8. RegistrySound'
  <2>1. \A u \in Threads : pc'[u] \in Holding <=> pc[u] \in Holding
    BY DEF IInv, TypeOK
  <2>. QED
    BY <2>1 DEF IInv, RegistrySound, Private
<1>9. LeaseSound'
  BY DEF IInv, TypeOK, LeaseSound, Private
<1>10. MutexSound'
  BY DEF IInv, TypeOK, MutexSound, Private
<1>. QED
  BY <1>1, <1>2, <1>3, <1>4, <1>5, <1>6, <1>7, <1>8, <1>9, <1>10 DEF IInv

\* Leaving the call, or retrying it, with no handle in hand.
LEMMA LeaveStep ==
    ASSUME IInv, NEW t \in Threads, NEW l \in {"open", "lease", "unlock", "idle"},
           pc[t] \in Light, Goto(t, l), Private(t),
           file' = [file EXCEPT ![t] = NoFile],
           l \in {"lease", "unlock"} => t \in Writers,
           l = "idle" => t \notin Writers
    PROVE  IInv'
<1>. USE DEF Light
<1>1. TypeOK'
  BY DEF IInv, TypeOK, Private
<1>2. DeadStop'
  BY DEF IInv, TypeOK, DeadStop, Private
<1>3. OwnsPath'
  BY DEF IInv, TypeOK, OwnsPath, Private
<1>4. OneOwner'
  BY DEF IInv, TypeOK, OneOwner, Private
<1>5. DetectorSound'
  BY DEF IInv, TypeOK, DetectorSound, Stale, Private
<1>6. RetryLeft'
  BY DEF IInv, TypeOK, RetryLeft, Private
<1>7. ProbeComplete'
  BY DEF IInv, TypeOK, ProbeComplete, Private
<1>8. RegistrySound'
  <2>1. \A u \in Threads : /\ pc'[u] \in Holding <=> pc[u] \in Holding
                           /\ pc[u] \in Holding => file'[u] = file[u]
    BY DEF IInv, TypeOK
  <2>. QED
    BY <2>1 DEF IInv, RegistrySound, Private
<1>9. LeaseSound'
  BY DEF IInv, TypeOK, LeaseSound, Private
<1>10. MutexSound'
  BY DEF IInv, TypeOK, MutexSound, Private
<1>. QED
  BY <1>1, <1>2, <1>3, <1>4, <1>5, <1>6, <1>7, <1>8, <1>9, <1>10 DEF IInv

\* acquire's recursive call, its exhausted budget, its refusals and its other
\* returns are ways of leaving.
LEMMA LeaveKinds ==
    ASSUME IInv, NEW t \in Threads, pc[t] \in Light,
           UNCHANGED <<fileVars, flock, alive, entry, lease, mutex>>,
           Retry(t) \/ Held(t) \/ Return(t)
    PROVE  IInv'
<1>1. Private(t)
  BY DEF IInv, TypeOK, Private
<1>2. CASE Retry(t)
  BY <1>1, <1>2, LeaveStep
<1>3. CASE Held(t)
  BY <1>1, <1>3, LeaveStep
<1>4. CASE Return(t)
  BY <1>1, <1>4, LeaveStep
<1>. QED
  BY <1>2, <1>3, <1>4

-----------------------------------------------------------------------------
(***************************************************************************)
(* Each step preserves it: WithWriterLock's entry, and Acquire.            *)
(***************************************************************************)
\* A goroutine that starts a call holds nothing.
LEMMA BeginStep == ASSUME IInv, NEW t \in Threads, Begin(t) PROVE IInv'
  BY SMTT(30)
    DEF IInv, TypeOK, DeadStop, OwnsPath, OneOwner, DetectorSound, Stale,
        RetryLeft, ProbeComplete, RegistrySound, LeaseSound, MutexSound, Begin

\* The mutex admits a writer only when no other writer is past it.
LEMMA EnterMutexStep == ASSUME IInv, NEW t \in Threads, EnterMutex(t) PROVE IInv'
  BY SMTT(30)
    DEF IInv, TypeOK, DeadStop, OwnsPath, OneOwner, DetectorSound, Stale,
        RetryLeft, ProbeComplete, RegistrySound, LeaseSound, MutexSound, EnterMutex

\* A writer leaves the mutex when it owns and leases nothing.
LEMMA LeaveMutexStep == ASSUME IInv, NEW t \in Threads, LeaveMutex(t) PROVE IInv'
  BY SMTT(30)
    DEF IInv, TypeOK, DeadStop, OwnsPath, OneOwner, DetectorSound, Stale,
        RetryLeft, ProbeComplete, RegistrySound, LeaseSound, MutexSound, LeaveMutex

\* The exclusive create needs an unnamed path, so there is no owner, and takes
\* no inode a detector has open.
LEMMA CreateStep == ASSUME IInv, NEW t \in Threads, Create(t) PROVE IInv'
  BY SMTT(30)
    DEF IInv, TypeOK, DeadStop, OwnsPath, OneOwner, DetectorSound, Stale,
        RetryLeft, ProbeComplete, RegistrySound, LeaseSound, MutexSound, Create, Open, OpenPcs

\* A failed create changes nothing on disk.
LEMMA CreateExistsStep == ASSUME IInv, NEW t \in Threads, CreateExists(t) PROVE IInv'
<1>1. Private(t)
  BY DEF IInv, TypeOK, CreateExists, Private
<1>. QED
  BY <1>1, JudgeOnStep DEF CreateExists

\* The creator writes its own name into its own file.
LEMMA EncodeStep == ASSUME IInv, NEW t \in Threads, Encode(t) PROVE IInv'
  BY SMTT(30)
    DEF IInv, TypeOK, DeadStop, OwnsPath, OneOwner, DetectorSound, Stale,
        RetryLeft, ProbeComplete, RegistrySound, LeaseSound, MutexSound, Encode

\* A failed write leaves an incomplete, young file at the path.
LEMMA EncodeFailsStep == ASSUME IInv, NEW t \in Threads, EncodeFails(t) PROVE IInv'
  BY SMTT(30)
    DEF IInv, TypeOK, DeadStop, OwnsPath, OneOwner, DetectorSound, Stale,
        RetryLeft, ProbeComplete, RegistrySound, LeaseSound, MutexSound, EncodeFails

\* The failed creator removes by name what is still its own file.
LEMMA DiscardStep == ASSUME IInv, NEW t \in Threads, Discard(t) PROVE IInv'
  BY SMTT(30)
    DEF IInv, TypeOK, DeadStop, OwnsPath, OneOwner, DetectorSound, Stale,
        RetryLeft, ProbeComplete, RegistrySound, LeaseSound, MutexSound, Discard

\* The registry had no entry: its holder would be a second owner.
LEMMA RegisterStep == ASSUME IInv, NEW t \in Threads, Register(t) PROVE IInv'
  BY SMTT(30)
    DEF IInv, TypeOK, DeadStop, OwnsPath, OneOwner, DetectorSound, Stale,
        RetryLeft, ProbeComplete, RegistrySound, LeaseSound, MutexSound, Register

-----------------------------------------------------------------------------
\* Reading and judging the holder.

\* Reading the path changes only what the goroutine has seen.
LEMMA ReadStep == ASSUME IInv, NEW t \in Threads, Read(t) PROVE IInv'
<1>1. CASE Retry(t) \/ Exhausted(t)
  BY <1>1, LeaveKinds DEF Read, Light
<1>2. CASE /\ path # NoFile
           /\ seen' = [seen EXCEPT ![t] = body[path]]
           /\ rereads' = [rereads EXCEPT ![t] = 0]
           /\ Goto(t, IF body[path] \in Procs THEN "probe" ELSE "reread")
           /\ UNCHANGED <<file, tries>>
  <2>1. Private(t)
    BY <1>2 DEF IInv, TypeOK, Read, Private
  <2>2. seen'[t] = body[path]
    BY <1>2 DEF IInv, TypeOK
  <2>. QED
    BY <1>2, <2>1, <2>2, JudgeOnStep DEF Read
<1>. QED
  BY <1>1, <1>2 DEF Read

\* So does decodeLockInfo's loop.
LEMMA RereadStep == ASSUME IInv, NEW t \in Threads, Reread(t) PROVE IInv'
<1>1. PICK b \in IF path = NoFile THEN {seen[t]} ELSE {body[path]} :
        /\ seen' = [seen EXCEPT ![t] = b]
        /\ Goto(t, IF b \in Procs THEN "probe" ELSE "reread")
  BY Zenon DEF Reread
<1>2. b \in Bodies
  BY <1>1 DEF IInv, TypeOK
<1>3. Private(t)
  BY <1>1, <1>2 DEF IInv, TypeOK, Reread, Private
<1>4. seen'[t] = b
  BY <1>1 DEF IInv, TypeOK
<1>. QED
  BY <1>1, <1>3, <1>4, JudgeOnStep DEF Reread

\* Its end either gives up or goes on to the age of the file.
LEMMA DecodeFailsStep == ASSUME IInv, NEW t \in Threads, DecodeFails(t) PROVE IInv'
<1>1. CASE Return(t)
  BY <1>1, LeaveKinds DEF DecodeFails, Light
<1>2. CASE Goto(t, "age") /\ UNCHANGED <<file, localVars>>
  <2>1. Private(t)
    BY <1>2 DEF IInv, TypeOK, DecodeFails, Private
  <2>. QED
    BY <1>2, <2>1, JudgeOnStep DEF DecodeFails
<1>. QED
  BY <1>1, <1>2 DEF DecodeFails

\* A young file is held, an old one is taken over.
LEMMA JudgeAgeStep == ASSUME IInv, NEW t \in Threads, JudgeAge(t) PROVE IInv'
<1>1. CASE Retry(t) \/ Exhausted(t) \/ Held(t)
  BY <1>1, LeaveKinds DEF JudgeAge, Light
<1>2. CASE /\ tries[t] > 0
           /\ Goto(t, "tkOpen")
           /\ UNCHANGED <<file, localVars>>
  <2>1. Private(t)
    BY <1>2 DEF IInv, TypeOK, JudgeAge, Private
  <2>. QED
    BY <1>2, <2>1, JudgeOnStep DEF JudgeAge
<1>. QED
  BY <1>1, <1>2 DEF JudgeAge

\* A live holder is held, a dead one is taken over.
LEMMA ProbeStep == ASSUME IInv, NEW t \in Threads, Probe(t) PROVE IInv'
<1>1. CASE Exhausted(t) \/ Held(t)
  BY <1>1, LeaveKinds DEF Probe, Light
<1>2. CASE /\ tries[t] > 0
           /\ Goto(t, "tkOpen")
           /\ UNCHANGED <<file, localVars>>
  <2>1. Private(t)
    BY <1>2 DEF IInv, TypeOK, Probe, Private
  <2>. QED
    BY <1>2, <2>1, JudgeOnStep DEF Probe
<1>. QED
  BY <1>1, <1>2 DEF Probe

-----------------------------------------------------------------------------
\* takeOverStale.

\* The detector opens what the path names.
LEMMA TkOpenStep == ASSUME IInv, NEW t \in Threads, TkOpen(t) PROVE IInv'
<1>1. CASE path = NoFile
  BY <1>1, LeaveKinds DEF TkOpen, Light
<1>2. CASE path # NoFile
  <2>1. TypeOK'
    BY <1>2 DEF IInv, TypeOK, TkOpen
  <2>2. DeadStop'
    BY <1>2 DEF IInv, TypeOK, DeadStop, TkOpen
  <2>3. OwnsPath' /\ OneOwner'
    BY <1>2 DEF IInv, TypeOK, OwnsPath, OneOwner, TkOpen
  <2>4. DetectorSound'
    BY <1>2 DEF IInv, TypeOK, DetectorSound, Stale, TkOpen
  <2>5. RetryLeft' /\ ProbeComplete'
    BY <1>2 DEF IInv, TypeOK, RetryLeft, ProbeComplete, TkOpen
  <2>6. RegistrySound'
    BY <1>2 DEF IInv, TypeOK, RegistrySound, TkOpen
  <2>7. LeaseSound' /\ MutexSound'
    BY <1>2 DEF IInv, TypeOK, LeaseSound, MutexSound, TkOpen
  <2>. QED
    BY <2>1, <2>2, <2>3, <2>4, <2>5, <2>6, <2>7 DEF IInv
<1>. QED
  BY <1>1, <1>2

\* What it judges stale stays stale, because its handle keeps the inode.
LEMMA TkJudgeStep == ASSUME IInv, NEW t \in Threads, TkJudge(t) PROVE IInv'
<1>a. TRUE \in BodyStale(body[file[t]], file[t]) => Stale(file[t])
  BY StaleSound DEF IInv, TypeOK, DetectorSound, Stale, TkJudge
<1>1. CASE /\ TRUE \in BodyStale(body[file[t]], file[t])
           /\ seen' = [seen EXCEPT ![t] = body[file[t]]]
           /\ Goto(t, "tkFlock")
           /\ UNCHANGED <<file, tries, rereads>>
  BY <1>1, <1>a, SMTT(30)
    DEF IInv, TypeOK, DeadStop, OwnsPath, OneOwner, DetectorSound, Stale,
        RetryLeft, ProbeComplete, RegistrySound, LeaseSound, MutexSound, TkJudge
<1>2. CASE Retry(t)
  BY <1>2, LeaveKinds DEF TkJudge, Light
<1>. QED
  BY <1>1, <1>2 DEF TkJudge

\* One detector at a time has the flock.
LEMMA TkFlockStep == ASSUME IInv, NEW t \in Threads, TkFlock(t) PROVE IInv'
<1>1. CASE flock[file[t]] = NoThread
  <2>1. TypeOK'
    BY <1>1 DEF IInv, TypeOK, DetectorSound, TkFlock
  <2>2. DeadStop'
    BY <1>1 DEF IInv, TypeOK, DeadStop, TkFlock
  <2>3. OwnsPath' /\ OneOwner'
    BY <1>1 DEF IInv, TypeOK, OwnsPath, OneOwner, TkFlock
  <2>4. DetectorSound'
    BY <1>1 DEF IInv, TypeOK, DetectorSound, Stale, TkFlock
  <2>5. RetryLeft' /\ ProbeComplete'
    BY <1>1 DEF IInv, TypeOK, RetryLeft, ProbeComplete, TkFlock
  <2>6. RegistrySound'
    BY <1>1 DEF IInv, TypeOK, RegistrySound, TkFlock
  <2>7. LeaseSound' /\ MutexSound'
    BY <1>1 DEF IInv, TypeOK, LeaseSound, MutexSound, TkFlock
  <2>. QED
    BY <2>1, <2>2, <2>3, <2>4, <2>5, <2>6, <2>7 DEF IInv
<1>2. CASE flock[file[t]] # NoThread
  BY <1>2, LeaveKinds DEF TkFlock, Light
<1>. QED
  BY <1>1, <1>2

\* The path names the judged file, or the takeover ends.
LEMMA TkSameStep == ASSUME IInv, NEW t \in Threads, TkSame(t) PROVE IInv'
  BY SMTT(30)
    DEF IInv, TypeOK, DeadStop, OwnsPath, OneOwner, DetectorSound, Stale,
        RetryLeft, ProbeComplete, RegistrySound, LeaseSound, MutexSound, TkSame

\* Nothing but a detector with the flock unlinks a stale file.
LEMMA TkRecheckStep == ASSUME IInv, NEW t \in Threads, TkRecheck(t) PROVE IInv'
<1>1. CASE Goto(t, "tkUnlink")
  BY <1>1, SMTT(30)
    DEF IInv, TypeOK, DeadStop, OwnsPath, OneOwner, DetectorSound, Stale,
        RetryLeft, ProbeComplete, RegistrySound, LeaseSound, MutexSound, TkRecheck
<1>2. CASE Goto(t, "tkClose")
  BY <1>2, SMTT(30)
    DEF IInv, TypeOK, DeadStop, OwnsPath, OneOwner, DetectorSound, Stale,
        RetryLeft, ProbeComplete, RegistrySound, LeaseSound, MutexSound, TkRecheck
<1>. QED
  BY <1>1, <1>2 DEF TkRecheck

\* The unlinked file is stale, so no owner loses its own.
LEMMA TkUnlinkStep == ASSUME IInv, NEW t \in Threads, TkUnlink(t) PROVE IInv'
  BY SMTT(30)
    DEF IInv, TypeOK, DeadStop, OwnsPath, OneOwner, DetectorSound, Stale,
        RetryLeft, ProbeComplete, RegistrySound, LeaseSound, MutexSound, TkUnlink

\* Closing the handle drops the flock.
LEMMA TkCloseStep == ASSUME IInv, NEW t \in Threads, TkClose(t) PROVE IInv'
  BY SMTT(30)
    DEF IInv, TypeOK, DeadStop, OwnsPath, OneOwner, DetectorSound, Stale,
        RetryLeft, ProbeComplete, RegistrySound, LeaseSound, MutexSound, TkClose

-----------------------------------------------------------------------------
\* Leases.

\* A lease is counted against the registered entry.
LEMMA TakeLeaseStep == ASSUME IInv, NEW t \in Threads, TakeLease(t) PROVE IInv'
<1>1. CASE entry[ProcOf[t]] # NoFile
  <2>1. TypeOK'
    BY <1>1 DEF IInv, TypeOK, TakeLease
  <2>2. DeadStop'
    BY <1>1 DEF IInv, TypeOK, DeadStop, TakeLease
  <2>3. OwnsPath' /\ OneOwner'
    BY <1>1 DEF IInv, TypeOK, OwnsPath, OneOwner, TakeLease
  <2>4. DetectorSound'
    BY <1>1 DEF IInv, TypeOK, DetectorSound, Stale, TakeLease
  <2>5. RetryLeft' /\ ProbeComplete'
    BY <1>1 DEF IInv, TypeOK, RetryLeft, ProbeComplete, TakeLease
  <2>6. RegistrySound'
    BY <1>1 DEF IInv, TypeOK, RegistrySound, TakeLease
  <2>7. LeaseSound' /\ MutexSound'
    BY <1>1 DEF IInv, TypeOK, LeaseSound, MutexSound, TakeLease
  <2>. QED
    BY <2>1, <2>2, <2>3, <2>4, <2>5, <2>6, <2>7 DEF IInv
<1>2. CASE entry[ProcOf[t]] = NoFile
  BY <1>2, LeaveKinds DEF TakeLease, Light
<1>. QED
  BY <1>1, <1>2

\* The proof succeeds, or the lease is dropped again.
LEMMA ProveLeaseStep == ASSUME IInv, NEW t \in Threads, ProveLease(t) PROVE IInv'
  BY SMTT(30)
    DEF IInv, TypeOK, DeadStop, OwnsPath, OneOwner, DetectorSound, Stale,
        RetryLeft, ProbeComplete, RegistrySound, LeaseSound, MutexSound, ProveLease

\* A lease is dropped by the goroutine that took it.
LEMMA DropLeaseStep == ASSUME IInv, NEW t \in Threads, DropLease(t) PROVE IInv'
  BY SMTT(30)
    DEF IInv, TypeOK, DeadStop, OwnsPath, OneOwner, DetectorSound, Stale,
        RetryLeft, ProbeComplete, RegistrySound, LeaseSound, MutexSound, DropLease

-----------------------------------------------------------------------------
\* Release.

\* Release starts.
LEMMA ReleaseStep == ASSUME IInv, NEW t \in Threads, Release(t) PROVE IInv'
  BY SMTT(30)
    DEF IInv, TypeOK, DeadStop, OwnsPath, OneOwner, DetectorSound, Stale,
        RetryLeft, ProbeComplete, RegistrySound, LeaseSound, MutexSound, Release

\* The entry goes when nobody leases it.
LEMMA DeregisterStep == ASSUME IInv, NEW t \in Threads, Deregister(t) PROVE IInv'
  BY SMTT(30)
    DEF IInv, TypeOK, DeadStop, OwnsPath, OneOwner, DetectorSound, Stale,
        RetryLeft, ProbeComplete, RegistrySound, LeaseSound, MutexSound, Deregister, Leases

\* The holder finds its own file at the path.
LEMMA IdentifyStep == ASSUME IInv, NEW t \in Threads, Identify(t) PROVE IInv'
  BY SMTT(30)
    DEF IInv, TypeOK, DeadStop, OwnsPath, OneOwner, DetectorSound, Stale,
        RetryLeft, ProbeComplete, RegistrySound, LeaseSound, MutexSound, Identify

\* The holder removes by name what is still its own file.
LEMMA RemoveStep == ASSUME IInv, NEW t \in Threads, Remove(t) PROVE IInv'
  BY SMTT(30)
    DEF IInv, TypeOK, DeadStop, OwnsPath, OneOwner, DetectorSound, Stale,
        RetryLeft, ProbeComplete, RegistrySound, LeaseSound, MutexSound, Remove

-----------------------------------------------------------------------------
\* The environment.

\* A goroutine that returns an error drops what it has, and leaves the path alone.
LEMMA IOErrorStep == ASSUME IInv, NEW t \in Threads, IOError(t) PROVE IInv'
<1>1. TypeOK'
  BY SMTT(30)
    DEF IInv, TypeOK, DeadStop, OwnsPath, OneOwner, DetectorSound, Stale,
        RetryLeft, ProbeComplete, RegistrySound, LeaseSound, MutexSound, IOError, Fallible
<1>2. DeadStop'
  BY SMTT(30)
    DEF IInv, TypeOK, DeadStop, OwnsPath, OneOwner, DetectorSound, Stale,
        RetryLeft, ProbeComplete, RegistrySound, LeaseSound, MutexSound, IOError, Fallible
<1>3. OwnsPath'
  BY SMTT(30)
    DEF IInv, TypeOK, DeadStop, OwnsPath, OneOwner, DetectorSound, Stale,
        RetryLeft, ProbeComplete, RegistrySound, LeaseSound, MutexSound, IOError, Fallible
<1>4. OneOwner'
  BY SMTT(30)
    DEF IInv, TypeOK, DeadStop, OwnsPath, OneOwner, DetectorSound, Stale,
        RetryLeft, ProbeComplete, RegistrySound, LeaseSound, MutexSound, IOError, Fallible
<1>5. DetectorSound'
  BY SMTT(30)
    DEF IInv, TypeOK, DeadStop, OwnsPath, OneOwner, DetectorSound, Stale,
        RetryLeft, ProbeComplete, RegistrySound, LeaseSound, MutexSound, IOError, Fallible
<1>6. RetryLeft'
  BY SMTT(30)
    DEF IInv, TypeOK, DeadStop, OwnsPath, OneOwner, DetectorSound, Stale,
        RetryLeft, ProbeComplete, RegistrySound, LeaseSound, MutexSound, IOError, Fallible
<1>7. ProbeComplete'
  BY SMTT(30)
    DEF IInv, TypeOK, DeadStop, OwnsPath, OneOwner, DetectorSound, Stale,
        RetryLeft, ProbeComplete, RegistrySound, LeaseSound, MutexSound, IOError, Fallible
<1>8. RegistrySound'
  BY SMTT(30)
    DEF IInv, TypeOK, DeadStop, OwnsPath, OneOwner, DetectorSound, Stale,
        RetryLeft, ProbeComplete, RegistrySound, LeaseSound, MutexSound, IOError, Fallible
<1>9. LeaseSound'
  BY SMTT(30)
    DEF IInv, TypeOK, DeadStop, OwnsPath, OneOwner, DetectorSound, Stale,
        RetryLeft, ProbeComplete, RegistrySound, LeaseSound, MutexSound, IOError, Fallible
<1>10. MutexSound'
  BY SMTT(30)
    DEF IInv, TypeOK, DeadStop, OwnsPath, OneOwner, DetectorSound, Stale,
        RetryLeft, ProbeComplete, RegistrySound, LeaseSound, MutexSound, IOError, Fallible
<1>. QED
  BY <1>1, <1>2, <1>3, <1>4, <1>5, <1>6, <1>7, <1>8, <1>9, <1>10 DEF IInv

\* A dead process owns nothing; what it named at the path becomes stale.
LEMMA CrashStep == ASSUME IInv, NEW p \in Procs, Crash(p) PROVE IInv'
<1>1. TypeOK'
  BY SMTT(30)
    DEF IInv, TypeOK, DeadStop, OwnsPath, OneOwner, DetectorSound, Stale,
        RetryLeft, ProbeComplete, RegistrySound, LeaseSound, MutexSound, Crash, Dies
<1>2. DeadStop'
  BY SMTT(30)
    DEF IInv, TypeOK, DeadStop, OwnsPath, OneOwner, DetectorSound, Stale,
        RetryLeft, ProbeComplete, RegistrySound, LeaseSound, MutexSound, Crash, Dies
<1>3. OwnsPath'
  BY SMTT(30)
    DEF IInv, TypeOK, DeadStop, OwnsPath, OneOwner, DetectorSound, Stale,
        RetryLeft, ProbeComplete, RegistrySound, LeaseSound, MutexSound, Crash, Dies
<1>4. OneOwner'
  BY SMTT(30)
    DEF IInv, TypeOK, DeadStop, OwnsPath, OneOwner, DetectorSound, Stale,
        RetryLeft, ProbeComplete, RegistrySound, LeaseSound, MutexSound, Crash, Dies
<1>5. DetectorSound'
  BY SMTT(30)
    DEF IInv, TypeOK, DeadStop, OwnsPath, OneOwner, DetectorSound, Stale,
        RetryLeft, ProbeComplete, RegistrySound, LeaseSound, MutexSound, Crash, Dies
<1>6. RetryLeft'
  BY SMTT(30)
    DEF IInv, TypeOK, DeadStop, OwnsPath, OneOwner, DetectorSound, Stale,
        RetryLeft, ProbeComplete, RegistrySound, LeaseSound, MutexSound, Crash, Dies
<1>7. ProbeComplete'
  BY SMTT(30)
    DEF IInv, TypeOK, DeadStop, OwnsPath, OneOwner, DetectorSound, Stale,
        RetryLeft, ProbeComplete, RegistrySound, LeaseSound, MutexSound, Crash, Dies
<1>8. RegistrySound'
  BY SMTT(30)
    DEF IInv, TypeOK, DeadStop, OwnsPath, OneOwner, DetectorSound, Stale,
        RetryLeft, ProbeComplete, RegistrySound, LeaseSound, MutexSound, Crash, Dies
<1>9. LeaseSound'
  BY SMTT(30)
    DEF IInv, TypeOK, DeadStop, OwnsPath, OneOwner, DetectorSound, Stale,
        RetryLeft, ProbeComplete, RegistrySound, LeaseSound, MutexSound, Crash, Dies
<1>10. MutexSound'
  BY SMTT(30)
    DEF IInv, TypeOK, DeadStop, OwnsPath, OneOwner, DetectorSound, Stale,
        RetryLeft, ProbeComplete, RegistrySound, LeaseSound, MutexSound, Crash, Dies
<1>. QED
  BY <1>1, <1>2, <1>3, <1>4, <1>5, <1>6, <1>7, <1>8, <1>9, <1>10 DEF IInv

\* Time makes a file stale only when no live creator is still writing it.
LEMMA ElapseStep == ASSUME IInv, NEW i \in Inodes, Elapse(i) PROVE IInv'
  BY SMTT(30)
    DEF IInv, TypeOK, DeadStop, OwnsPath, OneOwner, DetectorSound, Stale,
        RetryLeft, ProbeComplete, RegistrySound, LeaseSound, MutexSound, Elapse, Open, OpenPcs

-----------------------------------------------------------------------------
\* The invariant is inductive.
LEMMA NextInv == IInv /\ [Next]_vars => IInv'
<1>. SUFFICES ASSUME IInv, [Next]_vars PROVE IInv'
  OBVIOUS
<1>1. ASSUME NEW t \in Threads, Call(t) PROVE IInv'
  BY <1>1, BeginStep, EnterMutexStep, LeaveMutexStep, CreateStep, CreateExistsStep,
         EncodeStep, EncodeFailsStep, DiscardStep, RegisterStep, ReadStep,
         RereadStep, DecodeFailsStep, JudgeAgeStep, ProbeStep, TkOpenStep,
         TkJudgeStep, TkFlockStep, TkSameStep, TkRecheckStep, TkUnlinkStep,
         TkCloseStep, TakeLeaseStep, ProveLeaseStep, DropLeaseStep, ReleaseStep,
         DeregisterStep, IdentifyStep, RemoveStep DEF Call
<1>2. ASSUME NEW t \in Threads, IOError(t) PROVE IInv'
  BY <1>2, IOErrorStep
<1>3. ASSUME NEW p \in Procs, Crash(p) PROVE IInv'
  BY <1>3, CrashStep
<1>4. ASSUME NEW i \in Inodes, Elapse(i) PROVE IInv'
  BY <1>4, ElapseStep
<1>5. CASE UNCHANGED vars
  BY <1>5 DEF IInv, TypeOK, DeadStop, OwnsPath, OneOwner, DetectorSound, Stale,
        RetryLeft, ProbeComplete, RegistrySound, LeaseSound, MutexSound, vars
<1>. QED
  BY <1>1, <1>2, <1>3, <1>4, <1>5 DEF Next, Undisturbed

\* The invariant holds throughout every behaviour of the lock.
THEOREM Invariance == Spec => []IInv
  BY InitInv, NextInv, PTL DEF Spec

\* Type correctness of the lock, its registry and every goroutine's locals.
THEOREM TypeCorrect == Spec => []TypeOK
<1>1. IInv => TypeOK
  BY DEF IInv
<1>. QED
  BY <1>1, Invariance, PTL

\* Acquire grants the lock to one caller at a time, across processes.
THEOREM Exclusive == Spec => []MutualExclusion
<1>1. IInv => MutualExclusion
  BY DEF IInv, OneOwner, MutualExclusion
<1>. QED
  BY <1>1, Invariance, PTL

\* One WithWriterLock callback runs at a time, across processes and leases.
THEOREM WorkExclusive == Spec => []WorkExclusion
<1>1. IInv => WorkExclusion
  <2>. SUFFICES ASSUME IInv, NEW t \in Threads, NEW u \in Threads,
                       Working(t), Working(u)
                PROVE  t = u
    BY DEF WorkExclusion
  <2>1. ASSUME NEW v \in Threads, Working(v)
        PROVE  \E o \in Threads : ProcOf[o] = ProcOf[v] /\ pc[o] \in Holding
    BY <2>1 DEF IInv, TypeOK, Working, LeaseSound, RegistrySound
  <2>2. ProcOf[t] = ProcOf[u]
    BY <2>1 DEF IInv, OneOwner
  <2>. QED
    BY <2>2 DEF IInv, Working, MutexSound
<1>. QED
  BY <1>1, Invariance, PTL

\* While a callback works under a lease, the leased lock stays in force.
THEOREM Custody == Spec => []LeaseCustody
<1>1. IInv => LeaseCustody
  BY DEF IInv, TypeOK, LeaseCustody, LeaseSound, RegistrySound, OwnsPath
<1>. QED
  BY <1>1, Invariance, PTL

\* Every removal by name removes the file its remover checked or made.
THEOREM RemovesIntended == Spec => UnlinkIntended
<1>1. IInv => \A t \in Threads : pc[t] \in {"tkUnlink", "remove", "discard"} => path = file[t]
  BY DEF IInv, OwnsPath, DetectorSound
<1>2. IInv /\ [Next]_vars =>
        [\A t \in Threads :
           pc[t] \in {"tkUnlink", "remove", "discard"} /\ pc'[t] # pc[t] /\ path' # path
             => path = file[t]]_vars
  BY <1>1
<1>. QED
  BY <1>2, Invariance, PTL DEF Spec, UnlinkIntended

-----------------------------------------------------------------------------
(***************************************************************************)
(* The lock implements WriterExclusion.  Four steps are visible there:     *)
(* Register grants, ProveLease admits, DropLease lets go, Deregister       *)
(* releases; a crash is a crash, and everything else is a stutter.         *)
(***************************************************************************)
Owners == {t \in Threads : pc[t] \in Holding}
Guests == {t \in Threads : pc[t] = "leased"}

\* A goroutine that moves between locations of no meaning to the owners and
\* guests leaves both as they are.
LEMMA Invisible ==
    ASSUME TypeOK, NEW t \in Threads, NEW l, Goto(t, l),
           pc[t] \notin Holding \cup {"leased"}, l \notin Holding \cup {"leased"}
    PROVE  Owners' = Owners /\ Guests' = Guests
  BY DEF TypeOK, Owners, Guests

\* Acquire's grant finds the lock without owner.
LEMMA RegisterGrants ==
    ASSUME IInv, NEW t \in Threads, Register(t) PROVE Exclusion!Grant(t)
<1>1. Owners = {}
  BY DEF IInv, OneOwner, Owners, Register
<1>2. Owners' = {t}
  BY <1>1 DEF IInv, TypeOK, Owners, Register
<1>3. Guests' = Guests
  BY DEF IInv, TypeOK, Guests, Register
<1>. QED
  BY <1>1, <1>2, <1>3 DEF Exclusion!Grant, Owners, Guests

\* A proven lease admits the only guest, in the process of a plain owner.
LEMMA ProveAdmits ==
    ASSUME IInv, NEW t \in Threads, ProveLease(t), path = lease[t]
    PROVE  Exclusion!Admit(t)
<1>1. t \in Writers /\ lease[t] # NoFile
  BY DEF IInv, MutexSound, LeaseSound, ProveLease
<1>2. PICK o \in Threads : ProcOf[o] = ProcOf[t] /\ pc[o] \in Holding
  BY <1>1 DEF IInv, TypeOK, LeaseSound, RegistrySound
<1>3. o \notin Writers
  BY <1>1, <1>2 DEF IInv, MutexSound, ProveLease
<1>4. ASSUME NEW g \in Guests PROVE FALSE
  <2>1. g \in Threads /\ g \in Writers /\ lease[g] # NoFile
    BY <1>4 DEF IInv, MutexSound, LeaseSound, Guests
  <2>2. PICK q \in Threads : ProcOf[q] = ProcOf[g] /\ pc[q] \in Holding
    BY <2>1 DEF IInv, TypeOK, LeaseSound, RegistrySound
  <2>3. ProcOf[g] = ProcOf[t]
    BY <1>2, <2>2 DEF IInv, OneOwner
  <2>. QED
    BY <1>1, <2>1, <2>3, <1>4 DEF IInv, MutexSound, ProveLease, Guests
<1>5. Guests' = {t} /\ Owners' = Owners
  BY <1>4 DEF IInv, TypeOK, Guests, Owners, ProveLease
<1>. QED
  BY <1>1, <1>2, <1>3, <1>4, <1>5 DEF Exclusion!Admit, Owners, Guests

\* Dropping the lease is the guest's leave.
LEMMA DropLeaves ==
    ASSUME IInv, NEW t \in Threads, DropLease(t) PROVE Exclusion!Leave(t)
<1>1. t \in Guests /\ Guests' = Guests \ {t} /\ Owners' = Owners
  BY DEF IInv, TypeOK, Guests, Owners, DropLease
<1>. QED
  BY <1>1 DEF Exclusion!Leave, Owners, Guests

\* Deregistration waits for the guests and ends the ownership.
LEMMA DeregisterReleases ==
    ASSUME IInv, NEW t \in Threads, Deregister(t) PROVE Exclusion!Release(t)
<1>1. Owners = {t} /\ Owners' = {}
  BY DEF IInv, TypeOK, OneOwner, Owners, Deregister
<1>2. ASSUME NEW g \in Guests PROVE FALSE
  <2>1. g \in Threads /\ lease[g] # NoFile /\ entry[ProcOf[g]] = lease[g]
    BY <1>2 DEF IInv, LeaseSound, Guests
  <2>2. PICK q \in Threads : /\ ProcOf[q] = ProcOf[g] /\ pc[q] \in Holding
                             /\ file[q] = lease[g]
    BY <2>1 DEF IInv, TypeOK, RegistrySound
  <2>3. q = t
    BY <2>2 DEF IInv, OneOwner, Deregister
  <2>. QED
    BY <2>1, <2>2, <2>3 DEF IInv, RegistrySound, Deregister, Leases
<1>3. Guests' = Guests
  BY DEF IInv, TypeOK, Guests, Deregister
<1>. QED
  BY <1>1, <1>2, <1>3 DEF Exclusion!Release, Owners, Guests

\* The death of a process is the same step above.
LEMMA CrashCrashes ==
    ASSUME IInv, NEW p \in Procs, Crash(p) PROVE Exclusion!Crash(p)
<1>1. Owners' = {t \in Owners : ProcOf[t] # p}
  BY DEF IInv, TypeOK, Owners, Crash, Dies
<1>2. Guests' = {t \in Guests : ProcOf[t] # p}
  BY DEF IInv, TypeOK, Guests, Crash, Dies
<1>. QED
  BY <1>1, <1>2 DEF Exclusion!Crash, Owners, Guests

\* FileLock keeps D3's promise: every behaviour of the lock, seen through its
\* owners and guests, is one WriterExclusion allows.
THEOREM Implements == Spec => ImplementsExclusion
<1>1. Init => Exclusion!Init
  BY DEF Init, Exclusion!Init
<1>2. IInv /\ [Next]_vars => [Exclusion!Next]_(Exclusion!avars)
  <2>. SUFFICES ASSUME IInv, [Next]_vars
                PROVE  \/ Exclusion!Next
                       \/ Owners' = Owners /\ Guests' = Guests
    BY DEF Exclusion!avars, Owners, Guests
  <2>1. ASSUME NEW t \in Threads, Call(t)
        PROVE  \/ Exclusion!Grant(t) \/ Exclusion!Admit(t)
               \/ Exclusion!Leave(t) \/ Exclusion!Release(t)
               \/ Owners' = Owners /\ Guests' = Guests
    <3>1. CASE Register(t)
      BY <3>1, RegisterGrants
    <3>2. CASE ProveLease(t) /\ path = lease[t]
      BY <3>2, ProveAdmits
    <3>3. CASE DropLease(t)
      BY <3>3, DropLeaves
    <3>4. CASE Deregister(t)
      BY <3>4, DeregisterReleases
    <3>5. CASE Release(t)
      BY <3>5 DEF IInv, TypeOK, Release, Owners, Guests
    <3>6. CASE ProveLease(t) /\ path # lease[t]
      BY <3>6, Invisible DEF IInv, ProveLease
    <3>7. CASE \/ Begin(t) \/ EnterMutex(t) \/ LeaveMutex(t)
               \/ Create(t) \/ CreateExists(t) \/ Encode(t) \/ EncodeFails(t)
               \/ Discard(t)
      BY <3>7, Invisible
         DEF IInv, Begin, EnterMutex, LeaveMutex, Create, CreateExists, Encode,
             EncodeFails, Discard
    <3>8. CASE \/ Read(t) \/ Reread(t) \/ DecodeFails(t) \/ JudgeAge(t) \/ Probe(t)
      BY <3>8, Invisible DEF IInv, Read, Reread, DecodeFails, JudgeAge, Probe
    <3>9. CASE \/ TkOpen(t) \/ TkJudge(t) \/ TkFlock(t) \/ TkSame(t)
               \/ TkRecheck(t) \/ TkUnlink(t) \/ TkClose(t)
      BY <3>9, Invisible
         DEF IInv, TkOpen, TkJudge, TkFlock, TkSame, TkRecheck, TkUnlink, TkClose
    <3>10. CASE TakeLease(t) \/ Identify(t) \/ Remove(t)
      BY <3>10, Invisible DEF IInv, TakeLease, Identify, Remove
    <3>. QED
      BY <2>1, <3>1, <3>2, <3>3, <3>4, <3>5, <3>6, <3>7, <3>8, <3>9, <3>10 DEF Call
  <2>2. ASSUME NEW t \in Threads, IOError(t)
        PROVE  Owners' = Owners /\ Guests' = Guests
    BY <2>2, Invisible DEF IInv, IOError, Fallible
  <2>3. ASSUME NEW p \in Procs, Crash(p) PROVE Exclusion!Crash(p)
    BY <2>3, CrashCrashes
  <2>4. ASSUME NEW i \in Inodes, Elapse(i)
        PROVE  Owners' = Owners /\ Guests' = Guests
    BY <2>4 DEF Elapse, Owners, Guests
  <2>5. CASE UNCHANGED vars
    BY <2>5 DEF vars, Owners, Guests
  <2>. QED
    BY <2>1, <2>2, <2>3, <2>4, <2>5 DEF Next, Undisturbed, Exclusion!Next
<1>. QED
  BY <1>1, <1>2, Invariance, PTL DEF Spec, ImplementsExclusion, Exclusion!Spec
=============================================================================
