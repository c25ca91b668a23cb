------------------------------- MODULE FileLock -------------------------------
(***************************************************************************)
(* The writer lock of internal/filelock, as its callers use it.            *)
(*                                                                         *)
(* One lock path, the processes that compete for it and the goroutines of  *)
(* those processes.  A goroutine is either a plain caller of Acquire and   *)
(* Release (`verdi serve` and `verdi mcp` hold the lock for their whole    *)
(* life, internal/wtmanager and internal/execworkspace for one operation)  *)
(* or a writer: a caller of draftmutation.WithWriterLock, which enters the *)
(* per-checkout mutex, acquires the lock, or, when its own process already *)
(* owns it, works under a lease of that outer ownership.                   *)
(*                                                                         *)
(* Each step is one system call or one critical section of registryMu, so  *)
(* that every interleaving the operating system allows is a behaviour.     *)
(* Assumed of the environment, as the source discloses: a live holder is   *)
(* never judged dead (no BL-109 clock step) and a live creator flushes its *)
(* body within lockMidFlushWindow.  Everything else may happen: a process  *)
(* may die between any two steps, a pid may be reused, an I/O call may     *)
(* fail, and the lock found at start may be anybody's remains.             *)
(***************************************************************************)
EXTENDS Naturals

CONSTANTS
    Procs,              \* processes of the machine, past (dead) and present
    Threads,            \* goroutines that use the lock
    ProcOf,             \* the process of each goroutine
    Writers,            \* the goroutines that come through WithWriterLock
    Reused,             \* processes whose pid may name somebody else after death
    Inodes,             \* file identities (device and inode number)
    AcquireRetries,     \* Acquire's takeover budget: 5 in the code
    LockDecodeRetries,  \* decodeLockInfo's re-reads: 25 in the code
    NoFile, NoThread, Incomplete, Garbled

ASSUME ConstantsAssumption ==
    /\ ProcOf \in [Threads -> Procs]
    /\ Writers \subseteq Threads
    /\ Reused \subseteq Procs
    /\ AcquireRetries \in Nat
    /\ LockDecodeRetries \in Nat
    /\ NoFile \notin Inodes
    /\ NoThread \notin Threads
    /\ Incomplete \notin Procs /\ Garbled \notin Procs /\ Incomplete # Garbled

VARIABLES
    path,       \* the inode the lock path names, or NoFile
    body,       \* per inode: Incomplete, Garbled, or the process {pid,start} names
    aged,       \* per inode: last modified longer ago than lockMidFlushWindow
    flock,      \* per inode: the detector that holds flock(2) on it
    alive,      \* per process: it runs
    pc,         \* per goroutine: the next call it makes
    file,       \* per goroutine: the *os.File it opened, by identity
    seen,       \* per goroutine: the lock body it read last
    tries,      \* per goroutine: acquire's retriesLeft
    rereads,    \* per goroutine: decodeLockInfo's loop counter
    entry,      \* per process: registry[path].file
    lease,      \* per goroutine: the registry entry it holds a lease on
    mutex       \* per process: the goroutine inside checkoutMutexFor(path)

fileVars   == <<path, body, aged>>
localVars  == <<seen, tries, rereads>>
vars == <<path, body, aged, flock, alive, pc, file, seen, tries, rereads,
          entry, lease, mutex>>

Bodies == Procs \cup {Incomplete, Garbled}

(***************************************************************************)
(* What a goroutine is about to do, grouped by what it holds.              *)
(***************************************************************************)
Creating  == {"encode", "discard", "register"}
Holding   == {"held", "drain"}
Releasing == {"identify", "remove"}
Owning    == Creating \cup Holding \cup Releasing
Judging   == {"read", "reread", "age", "probe"}
Takeover  == {"tkOpen", "tkJudge", "tkFlock", "tkSame", "tkRecheck",
              "tkUnlink", "tkClose"}
Flocked   == {"tkSame", "tkRecheck", "tkUnlink", "tkClose"}
Leasing   == {"prove", "leased"}
Locations == {"idle", "mutex", "open", "lease", "unlock", "dead"}
               \cup Owning \cup Judging \cup Takeover \cup Leasing

\* The goroutines that keep the inode open, so that it cannot be reused.
OpenPcs == (Owning \ {"discard", "remove"}) \cup (Takeover \ {"tkOpen"})
Open(i) == \E t \in Threads : pc[t] \in OpenPcs /\ file[t] = i

(***************************************************************************)
(* What alive() may answer for a holder, and bodyStale() for a lock body:  *)
(* a dead holder whose pid was reused is judged by the start time ps       *)
(* reports, which may be missing or too close to tell.                     *)
(***************************************************************************)
\* Mutant: an undecided probe is read as dead.
AliveUndecidedIsDead(p) == IF alive[p] THEN {TRUE, FALSE} ELSE {FALSE}

Alive(p) == IF alive[p] THEN {TRUE}
            ELSE IF p \in Reused THEN {TRUE, FALSE} ELSE {FALSE}

\* Mutant: only a complete body is ever stale.
BodyStaleCompleteOnly(b, i) == IF b \in Procs THEN {~a : a \in Alive(b)} ELSE {FALSE}

BodyStale(b, i) == CASE b \in Procs    -> {~a : a \in Alive(b)}
                     [] b = Incomplete -> {aged[i]}
                     [] OTHER          -> {FALSE}

Init ==
    /\ alive \in [Procs -> BOOLEAN]
    /\ path \in Inodes \cup {NoFile}
    /\ body \in {[i \in Inodes |-> b] : b \in Bodies}
    /\ aged = [i \in Inodes |-> FALSE]      \* Elapse makes it any age
    /\ flock = [i \in Inodes |-> NoThread]
    /\ pc = [t \in Threads |-> IF alive[ProcOf[t]] THEN "idle" ELSE "dead"]
    /\ file = [t \in Threads |-> NoFile]
    /\ seen = [t \in Threads |-> Incomplete]
    /\ tries = [t \in Threads |-> AcquireRetries]
    /\ rereads = [t \in Threads |-> 0]
    /\ entry = [p \in Procs |-> NoFile]
    /\ lease = [t \in Threads |-> NoFile]
    /\ mutex = [p \in Procs |-> NoThread]

-----------------------------------------------------------------------------
(***************************************************************************)
(* Ways out of a call.  Goto keeps the open handle; Retry is acquire's     *)
(* recursive call; Return leaves Acquire, Lease or Release, and a writer   *)
(* still has the checkout mutex to unlock; Held is the *ErrHeld answer,    *)
(* on which a writer asks for a lease.                                     *)
(***************************************************************************)
Goto(t, l) == pc' = [pc EXCEPT ![t] = l]

\* What acquire knew dies with the call.
Forget(t) == /\ seen' = [seen EXCEPT ![t] = Incomplete]
             /\ rereads' = [rereads EXCEPT ![t] = 0]

Leave(t, l) == /\ Goto(t, l)
               /\ file' = [file EXCEPT ![t] = NoFile]
               /\ tries' = [tries EXCEPT ![t] = AcquireRetries]
               /\ Forget(t)

Return(t) == Leave(t, IF t \in Writers THEN "unlock" ELSE "idle")

Held(t) == Leave(t, IF t \in Writers THEN "lease" ELSE "idle")

Exhausted(t) == tries[t] = 0 /\ Return(t)

\* Mutants: the budget is not checked; or not spent.
RetryUnchecked(t) == /\ tries' = [tries EXCEPT ![t] = @ - 1]
                     /\ file' = [file EXCEPT ![t] = NoFile]
                     /\ Goto(t, "open")
                     /\ Forget(t)
RetryFree(t) == /\ file' = [file EXCEPT ![t] = NoFile]
                /\ Goto(t, "open")
                /\ Forget(t)
                /\ UNCHANGED tries

Retry(t) == /\ tries[t] > 0
            /\ tries' = [tries EXCEPT ![t] = @ - 1]
            /\ file' = [file EXCEPT ![t] = NoFile]
            /\ Goto(t, "open")
            /\ Forget(t)

-----------------------------------------------------------------------------
(***************************************************************************)
(* WithWriterLock's entry and Acquire's exclusive create.                  *)
(***************************************************************************)
Begin(t) ==
    /\ pc[t] = "idle"
    /\ Goto(t, IF t \in Writers THEN "mutex" ELSE "open")
    /\ UNCHANGED <<fileVars, flock, alive, file, localVars, entry, lease, mutex>>

EnterMutex(t) ==
    /\ pc[t] = "mutex"
    /\ mutex[ProcOf[t]] = NoThread
    /\ mutex' = [mutex EXCEPT ![ProcOf[t]] = t]
    /\ Goto(t, "open")
    /\ UNCHANGED <<fileVars, flock, alive, file, localVars, entry, lease>>

LeaveMutex(t) ==
    /\ pc[t] = "unlock"
    /\ mutex' = [mutex EXCEPT ![ProcOf[t]] = NoThread]
    /\ Goto(t, "idle")
    /\ UNCHANGED <<fileVars, flock, alive, file, localVars, entry, lease>>

\* O_CREATE|O_EXCL succeeds; the number of a closed, unlinked file is reused.
Create(t) ==
    /\ pc[t] = "open"
    /\ path = NoFile
    /\ \E i \in Inodes :
         /\ ~Open(i)
         /\ path' = i
         /\ body' = [body EXCEPT ![i] = Incomplete]
         /\ aged' = [aged EXCEPT ![i] = FALSE]
         /\ file' = [file EXCEPT ![t] = i]
    /\ Goto(t, "encode")
    /\ tries' = [tries EXCEPT ![t] = AcquireRetries]
    /\ Forget(t)
    /\ UNCHANGED <<flock, alive, entry, lease, mutex>>

CreateExists(t) ==
    /\ pc[t] = "open"
    /\ path # NoFile
    /\ Goto(t, "read")
    /\ UNCHANGED <<fileVars, flock, alive, file, localVars, entry, lease, mutex>>

Encode(t) ==
    /\ pc[t] = "encode"
    /\ body' = [body EXCEPT ![file[t]] = ProcOf[t]]
    /\ Goto(t, "register")
    /\ UNCHANGED <<path, aged, flock, alive, file, localVars, entry, lease, mutex>>

\* The encoder fails: close, and then remove the path by name.
EncodeFails(t) ==
    /\ pc[t] = "encode"
    /\ Goto(t, "discard")
    /\ UNCHANGED <<fileVars, flock, alive, file, localVars, entry, lease, mutex>>

Discard(t) ==
    /\ pc[t] = "discard"
    /\ path' \in {NoFile, path}
    /\ Return(t)
    /\ UNCHANGED <<body, aged, flock, alive, entry, lease, mutex>>

Register(t) ==
    /\ pc[t] = "register"
    /\ entry' = [entry EXCEPT ![ProcOf[t]] = file[t]]
    /\ Goto(t, "held")
    /\ UNCHANGED <<fileVars, flock, alive, file, localVars, lease, mutex>>

-----------------------------------------------------------------------------
(***************************************************************************)
(* The path exists: acquire reads it, decodes it with a bounded number of  *)
(* re-reads, and judges the holder.                                        *)
(***************************************************************************)
Read(t) ==
    /\ pc[t] = "read"
    /\ \/ /\ path = NoFile
          /\ Retry(t) \/ Exhausted(t)
       \/ /\ path # NoFile
          /\ seen' = [seen EXCEPT ![t] = body[path]]
          /\ rereads' = [rereads EXCEPT ![t] = 0]
          /\ Goto(t, IF body[path] \in Procs THEN "probe" ELSE "reread")
          /\ UNCHANGED <<file, tries>>
    /\ UNCHANGED <<fileVars, flock, alive, entry, lease, mutex>>

\* A read error (the file is gone) only uses up one iteration.
Reread(t) ==
    /\ pc[t] = "reread"
    /\ rereads[t] < LockDecodeRetries
    /\ \E b \in IF path = NoFile THEN {seen[t]} ELSE {body[path]} :
         /\ seen' = [seen EXCEPT ![t] = b]
         /\ Goto(t, IF b \in Procs THEN "probe" ELSE "reread")
    /\ rereads' = [rereads EXCEPT ![t] = @ + 1]
    /\ UNCHANGED <<fileVars, flock, alive, file, tries, entry, lease, mutex>>

\* The last decode error decides: garbled is malformed, incomplete is aged.
DecodeFails(t) ==
    /\ pc[t] = "reread"
    /\ rereads[t] = LockDecodeRetries
    /\ \/ /\ seen[t] = Garbled
          /\ Return(t)
       \/ /\ seen[t] = Incomplete
          /\ Goto(t, "age")
          /\ UNCHANGED <<file, localVars>>
    /\ UNCHANGED <<fileVars, flock, alive, entry, lease, mutex>>

\* lockFileYoung looks at the path, where by now a whole body of any age may be.
Aged(i) == IF body[i] = Incomplete THEN {aged[i]} ELSE BOOLEAN

JudgeAge(t) ==
    /\ pc[t] = "age"
    /\ \/ /\ path = NoFile
          /\ Retry(t) \/ Exhausted(t)
       \/ /\ path # NoFile /\ FALSE \in Aged(path)
          /\ Held(t)
       \/ /\ path # NoFile /\ TRUE \in Aged(path)
          /\ tries[t] > 0
          /\ Goto(t, "tkOpen")
          /\ UNCHANGED <<file, localVars>>
       \/ /\ path # NoFile /\ TRUE \in Aged(path)
          /\ Exhausted(t)
    /\ UNCHANGED <<fileVars, flock, alive, entry, lease, mutex>>

Probe(t) ==
    /\ pc[t] = "probe"
    /\ \/ /\ TRUE \in Alive(seen[t])
          /\ Held(t)
       \/ /\ FALSE \in Alive(seen[t])
          /\ tries[t] > 0
          /\ Goto(t, "tkOpen")
          /\ UNCHANGED <<file, localVars>>
       \/ /\ FALSE \in Alive(seen[t])
          /\ Exhausted(t)
    /\ UNCHANGED <<fileVars, flock, alive, entry, lease, mutex>>

-----------------------------------------------------------------------------
(***************************************************************************)
(* takeOverStale: judge the file through a handle of one's own, take its   *)
(* flock, check again, unlink the path by name and only then let go.       *)
(***************************************************************************)
TkOpen(t) ==
    /\ pc[t] = "tkOpen"
    /\ \/ /\ path = NoFile
          /\ Retry(t)
       \/ /\ path # NoFile
          /\ file' = [file EXCEPT ![t] = path]
          /\ Goto(t, "tkJudge")
          /\ UNCHANGED localVars
    /\ UNCHANGED <<fileVars, flock, alive, entry, lease, mutex>>

TkJudge(t) ==
    /\ pc[t] = "tkJudge"
    /\ \/ /\ TRUE \in BodyStale(body[file[t]], file[t])
          /\ seen' = [seen EXCEPT ![t] = body[file[t]]]
          /\ Goto(t, "tkFlock")
          /\ UNCHANGED <<file, tries, rereads>>
       \/ /\ FALSE \in BodyStale(body[file[t]], file[t])
          /\ Retry(t)
    /\ UNCHANGED <<fileVars, flock, alive, entry, lease, mutex>>

\* Mutant: the result of flock(2) is ignored.
TkFlockIgnored(t) ==
    /\ pc[t] = "tkFlock"
    /\ flock' = [flock EXCEPT ![file[t]] = t]
    /\ Goto(t, "tkSame")
    /\ UNCHANGED <<fileVars, alive, file, localVars, entry, lease, mutex>>

TkFlock(t) ==
    /\ pc[t] = "tkFlock"
    /\ \/ /\ flock[file[t]] = NoThread
          /\ flock' = [flock EXCEPT ![file[t]] = t]
          /\ Goto(t, "tkSame")
          /\ UNCHANGED <<file, localVars>>
       \/ /\ flock[file[t]] # NoThread
          /\ Held(t)
          /\ UNCHANGED flock
    /\ UNCHANGED <<fileVars, alive, entry, lease, mutex>>

\* Mutant: no identity check under the flock.
TkSameSkipped(t) ==
    /\ pc[t] = "tkSame"
    /\ Goto(t, "tkRecheck")
    /\ UNCHANGED <<fileVars, flock, alive, file, localVars, entry, lease, mutex>>

TkSame(t) ==
    /\ pc[t] = "tkSame"
    /\ Goto(t, IF path = file[t] THEN "tkRecheck" ELSE "tkClose")
    /\ UNCHANGED <<fileVars, flock, alive, file, localVars, entry, lease, mutex>>

TkRecheck(t) ==
    /\ pc[t] = "tkRecheck"
    /\ \/ /\ body[file[t]] = seen[t]
          /\ TRUE \in BodyStale(seen[t], file[t])
          /\ Goto(t, "tkUnlink")
       \/ /\ body[file[t]] # seen[t] \/ FALSE \in BodyStale(seen[t], file[t])
          /\ Goto(t, "tkClose")
    /\ UNCHANGED <<fileVars, flock, alive, file, localVars, entry, lease, mutex>>

TkUnlink(t) ==
    /\ pc[t] = "tkUnlink"
    /\ path' = NoFile
    /\ Goto(t, "tkClose")
    /\ UNCHANGED <<body, aged, flock, alive, file, localVars, entry, lease, mutex>>

TkClose(t) ==
    /\ pc[t] = "tkClose"
    /\ flock' = [flock EXCEPT ![file[t]] = NoThread]
    /\ Retry(t)
    /\ UNCHANGED <<fileVars, alive, entry, lease, mutex>>

-----------------------------------------------------------------------------
(***************************************************************************)
(* LeaseIfHeldByCurrentProcess and the work done under the lease.          *)
(***************************************************************************)
TakeLease(t) ==
    /\ pc[t] = "lease"
    /\ \/ /\ entry[ProcOf[t]] = NoFile
          /\ Return(t)
          /\ UNCHANGED lease
       \/ /\ entry[ProcOf[t]] # NoFile
          /\ lease' = [lease EXCEPT ![t] = entry[ProcOf[t]]]
          /\ Goto(t, "prove")
          /\ UNCHANGED <<file, localVars>>
    /\ UNCHANGED <<fileVars, flock, alive, entry, mutex>>

\* Mutant: ownership proven at one instant, no lease kept.
ProveLeaseInstant(t) ==
    /\ pc[t] = "prove"
    /\ lease' = [lease EXCEPT ![t] = NoFile]
    /\ \/ path = lease[t] /\ Goto(t, "leased") /\ UNCHANGED <<file, localVars>>
       \/ path # lease[t] /\ Return(t)
    /\ UNCHANGED <<fileVars, flock, alive, entry, mutex>>

ProveLease(t) ==
    /\ pc[t] = "prove"
    /\ \/ /\ path = lease[t]
          /\ Goto(t, "leased")
          /\ UNCHANGED <<file, lease, localVars>>
       \/ /\ path # lease[t]
          /\ lease' = [lease EXCEPT ![t] = NoFile]
          /\ Return(t)
    /\ UNCHANGED <<fileVars, flock, alive, entry, mutex>>

\* Mutant: the lease is never released.
DropLeaseLeak(t) ==
    /\ pc[t] = "leased"
    /\ Return(t)
    /\ UNCHANGED <<fileVars, flock, alive, entry, lease, mutex>>

DropLease(t) ==
    /\ pc[t] = "leased"
    /\ lease' = [lease EXCEPT ![t] = NoFile]
    /\ Return(t)
    /\ UNCHANGED <<fileVars, flock, alive, entry, mutex>>

-----------------------------------------------------------------------------
(***************************************************************************)
(* Release: drain the leases and deregister, check that the path still     *)
(* names the held file, close it, and remove the path by name.             *)
(***************************************************************************)
Release(t) ==
    /\ pc[t] = "held"
    /\ Goto(t, "drain")
    /\ UNCHANGED <<fileVars, flock, alive, file, localVars, entry, lease, mutex>>

Leases(p, i) == {t \in Threads : ProcOf[t] = p /\ lease[t] = i}

\* Mutant: Release does not wait for the leases.
DeregisterUndrained(t) ==
    /\ pc[t] = "drain"
    /\ entry' = [entry EXCEPT ![ProcOf[t]] = NoFile]
    /\ Goto(t, "identify")
    /\ UNCHANGED <<fileVars, flock, alive, file, localVars, lease, mutex>>

Deregister(t) ==
    /\ pc[t] = "drain"
    /\ \/ /\ entry[ProcOf[t]] # file[t]
          /\ UNCHANGED entry
       \/ /\ entry[ProcOf[t]] = file[t]
          /\ Leases(ProcOf[t], file[t]) = {}
          /\ entry' = [entry EXCEPT ![ProcOf[t]] = NoFile]
    /\ Goto(t, "identify")
    /\ UNCHANGED <<fileVars, flock, alive, file, localVars, lease, mutex>>

Identify(t) ==
    /\ pc[t] = "identify"
    /\ \/ /\ path = file[t]
          /\ Goto(t, "remove")
          /\ UNCHANGED <<file, localVars>>
       \/ /\ path # file[t]
          /\ Return(t)
    /\ UNCHANGED <<fileVars, flock, alive, entry, lease, mutex>>

Remove(t) ==
    /\ pc[t] = "remove"
    /\ path' = NoFile
    /\ Return(t)
    /\ UNCHANGED <<body, aged, flock, alive, entry, lease, mutex>>

-----------------------------------------------------------------------------
(***************************************************************************)
(* The environment: an I/O call fails and its caller returns the error,    *)
(* dropping what it has open; a process dies; time passes.                 *)
(***************************************************************************)
Fallible == {"open", "read", "age", "prove", "identify", "remove"}
              \cup (Takeover \ {"tkClose"})

IOError(t) ==
    /\ pc[t] \in Fallible
    /\ flock' = [i \in Inodes |-> IF flock[i] = t THEN NoThread ELSE flock[i]]
    /\ lease' = [lease EXCEPT ![t] = NoFile]
    /\ Return(t)
    /\ UNCHANGED <<fileVars, alive, entry, mutex>>

Dies(t, p) == ProcOf[t] = p

Crash(p) ==
    /\ alive[p]
    /\ alive' = [alive EXCEPT ![p] = FALSE]
    /\ pc' = [t \in Threads |-> IF Dies(t, p) THEN "dead" ELSE pc[t]]
    /\ file' = [t \in Threads |-> IF Dies(t, p) THEN NoFile ELSE file[t]]
    /\ lease' = [t \in Threads |-> IF Dies(t, p) THEN NoFile ELSE lease[t]]
    /\ flock' = [i \in Inodes |-> IF \E t \in Threads : flock[i] = t /\ Dies(t, p)
                                  THEN NoThread ELSE flock[i]]
    /\ entry' = [entry EXCEPT ![p] = NoFile]
    /\ mutex' = [mutex EXCEPT ![p] = NoThread]
    /\ UNCHANGED <<fileVars, localVars>>

\* lockMidFlushWindow passes for a file no live creator is still writing; of whole
\* bodies only JudgeAge looks at the age.
Elapse(i) ==
    /\ ~aged[i]
    /\ body[i] = Incomplete
    /\ path = i \/ Open(i)
    /\ \A t \in Threads : file[t] = i => pc[t] \notin {"encode", "discard"}
    /\ aged' = [aged EXCEPT ![i] = TRUE]
    /\ UNCHANGED <<path, body, flock, alive, pc, file, localVars, entry, lease, mutex>>

Call(t) == \/ Begin(t) \/ EnterMutex(t) \/ LeaveMutex(t)
           \/ Create(t) \/ CreateExists(t) \/ Encode(t) \/ EncodeFails(t)
           \/ Discard(t) \/ Register(t)
           \/ Read(t) \/ Reread(t) \/ DecodeFails(t) \/ JudgeAge(t) \/ Probe(t)
           \/ TkOpen(t) \/ TkJudge(t) \/ TkFlock(t) \/ TkSame(t) \/ TkRecheck(t)
           \/ TkUnlink(t) \/ TkClose(t)
           \/ TakeLease(t) \/ ProveLease(t) \/ DropLease(t)
           \/ Release(t) \/ Deregister(t) \/ Identify(t) \/ Remove(t)

Undisturbed == \/ \E t \in Threads : Call(t)
               \/ \E p \in Procs : Crash(p)
               \/ \E i \in Inodes : Elapse(i)

Next == Undisturbed \/ \E t \in Threads : IOError(t)

Spec == Init /\ [][Next]_vars

(***************************************************************************)
(* Fairness.  A goroutine inside a call goes on to its end, and time       *)
(* passes.  Nobody has to start a call or to end its ownership, except     *)
(* that plain callers poll (wtmanager's EnsureWorktree loop).  Deregister  *)
(* is strongly fair: every DropLease broadcasts registryCond, and before   *)
(* the next lease is counted its taker has to run a whole Acquire.         *)
(* Progress is promised while the file system answers: no IOError.         *)
(***************************************************************************)
Progress(t) == Call(t) /\ pc[t] \notin {"idle", "held"}

Fairness ==
    /\ \A t \in Threads : WF_vars(Progress(t)) /\ SF_vars(Deregister(t))
    /\ \A t \in Threads \ Writers : WF_vars(Begin(t))
    /\ \A i \in Inodes : WF_vars(Elapse(i))

LiveSpec == Init /\ [][Undisturbed]_vars /\ Fairness

-----------------------------------------------------------------------------
\* Every variable keeps its type; in particular acquire's takeover budget and
\* decodeLockInfo's re-reads stay within their bounds.
TypeOK ==
    /\ path \in Inodes \cup {NoFile}
    /\ body \in [Inodes -> Bodies]
    /\ aged \in [Inodes -> BOOLEAN]
    /\ flock \in [Inodes -> Threads \cup {NoThread}]
    /\ alive \in [Procs -> BOOLEAN]
    /\ pc \in [Threads -> Locations]
    /\ file \in [Threads -> Inodes \cup {NoFile}]
    /\ seen \in [Threads -> Bodies]
    /\ tries \in [Threads -> 0..AcquireRetries]
    /\ rereads \in [Threads -> 0..LockDecodeRetries]
    /\ entry \in [Procs -> Inodes \cup {NoFile}]
    /\ lease \in [Threads -> Inodes \cup {NoFile}]
    /\ mutex \in [Procs -> Threads \cup {NoThread}]

\* Acquire never grants the lock to two callers at once: from Acquire's
\* return until Release has deregistered the handle there is one holder,
\* whatever the detectors of stale locks do to the path meanwhile.
MutualExclusion ==
    \A t, u \in Threads : pc[t] \in Holding /\ pc[u] \in Holding => t = u

\* WithWriterLock runs at most one callback on a checkout at any time, in any
\* process, whether it owns the lock or works under a lease of the serving
\* process's lifetime lock.
Working(t) == t \in Writers /\ pc[t] \in {"held", "leased"}
WorkExclusion == \A t, u \in Threads : Working(t) /\ Working(u) => t = u

\* Custody is continuous: while a callback works under a lease, the lock file
\* of the handle it leased stays on disk, names this process, and its owner
\* has not got past the draining of its Release.
LeaseCustody ==
    \A t \in Threads : pc[t] = "leased" =>
        /\ path = lease[t]
        /\ body[path] = ProcOf[t]
        /\ \E u \in Threads : /\ ProcOf[u] = ProcOf[t]
                              /\ pc[u] \in Holding
                              /\ file[u] = lease[t]

\* Every removal by name hits the file the remover meant: a detector the file
\* it judged under its flock, a releasing holder its own, a failed creator the
\* one it made, although each checks first and removes in a later call.
UnlinkIntended ==
    [][\A t \in Threads :
         pc[t] \in {"tkUnlink", "remove", "discard"} /\ pc'[t] # pc[t] /\ path' # path
           => path = file[t]]_vars

\* The lock keeps D3's promise: FileLock implements WriterExclusion, with the
\* goroutines between Acquire's return and Release's deregistration as owners
\* and the callbacks running under a lease as guests.
Exclusion == INSTANCE WriterExclusion
             WITH owners <- {t \in Threads : pc[t] \in Holding},
                  guests <- {t \in Threads : pc[t] = "leased"}

ImplementsExclusion == Exclusion!Spec

\* Acquire returns: its recursion, its re-reads and its takeovers are bounded
\* however often others create and remove the lock under it.
AcquireReturns ==
    \A t \in Threads : pc[t] = "open" ~>
        pc[t] \in {"held", "idle", "lease", "unlock", "dead"}

\* Release comes to its end although writers may keep taking leases.
ReleaseDrains ==
    \A t \in Threads : pc[t] = "drain" ~> pc[t] \in {"idle", "unlock", "dead"}

\* What a crash leaves behind is taken over: a lock of a dead process (its pid
\* not reused) or one whose creator died before the flush does not outlive the
\* polling callers.
Abandoned(i) == \/ body[i] \in Procs \ Reused /\ ~alive[body[i]]
                \/ body[i] = Incomplete
StaleLockReclaimed ==
    \A i \in Inodes :
        path = i /\ Abandoned(i) ~>
            \/ path # i
            \/ ~Abandoned(i)
            \/ \A t \in Threads \ Writers : pc[t] = "dead"
=============================================================================
