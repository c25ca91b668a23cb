# A TLA+ development of verdi's shared state

verdi keeps a design store (specs, their provenance, evidence, execution
workspaces) as files in a git checkout.  Several processes change that store at
once: `verdi serve`, `verdi mcp`, one-shot CLI commands, agents' tools, git, and
people with an editor.  This project models how they are kept apart, how the
store survives their interruptions, and how a sealed execution orders what
happens in it.

## 1. The system

| Component | State | Operations | Hard because | Modelled |
|---|---|---|---|---|
| `internal/filelock` | the lock file (inode, body, age), `flock`s of detectors, the process-local registry of held handles and their leases | `Acquire` (create, read, decode with re-reads, judge, take over), `Release` (drain, identify, close, remove), `LeaseIfHeldByCurrentProcess` | several processes and goroutines; a lock can be removed by name after it was judged; a crash leaves a lock, perhaps without a body; pids are reused | `FileLock` |
| `internal/draftmutation`: `WithWriterLock` | one mutex per checkout | enter the mutex, acquire or lease, run a callback | a callback may run under somebody else's ownership, which may end during it | `FileLock` |
| `internal/draftmutation`: `Mutate`, `Commit`, `Recover` | `spec.md`, the provenance sidecar, `journal.json`, `spec.new`, `provenance.new` | refuse or apply a request, stage and install two files, repair | kills, power losses and I/O errors between any two calls; direct edits without a lock; retries | `DraftMutation` |
| `internal/designprovenance` | the JSONL log of entries chained by digests | `DecodeLog`, `EncodeEntry` | gaps left by direct edits | chaining, in `DraftMutation` |
| `internal/wtmanager` | a git worktree per design branch, one lock each | `EnsureWorktree`, `GC` | gc decides before it holds the lock; losers of the lock poll | `WtManager` |
| `internal/execworkspace` | per unit: directory, `.request`, `.request.staging`, `.released`, lock, git's registrations | `Materialize`, `Release`, `ReconcileUnit`, `GC` | crashes between any two of five files and a registry git owns; git children outlive their parents | `ExecWorkspace` |
| `internal/experimentrun`, `internal/atomicfile` | receipt, observations, result, environment roots | `Start`, `Resume` | no lock covers a run, only single publications; resumes compete | `ExperimentRun` |
| `internal/sealedexec`: `Service`, the Claude adapter, the command's signal watcher | table of active runs, provider process, session store | `Execute`, `BeginReplacement`, `InterruptRegistered`, `Stop` | a stop from another goroutine races completion, launch and session acknowledgement | `SealedExec` |
| `internal/sealedexec`: `FlightState`, scoped MCP server, completion, restart | position and digest of the event stream, revision, acknowledgements | append, context transition, install expansion, close, complete, plan restart | three producers of one sequence; unacknowledged appends; restart from what the recorder has | `FlightState` |
| `internal/disclosureview`, `gitx`'s shallow memo | entry per root, process-wide memo | lead or await an enumeration, store, release, evict | files written between key and enumeration, within one timestamp granule; single flight | `DisclosureCache` |
| `provider`, `policyconflict` caches | entries keyed by inputs | resolve, publish | see section 7 | no |
| `specstate`, `evidence`, `artifact`, `lint`, `dex`, ... | none of their own | decode, classify, validate, render | pure functions over documents and git history | no |
| `workbench`, `mcpserve`, `cmd/verdi`, `gitx`, `forge` | connections, child processes | adapters | I/O | where they meet a component above |

Interaction: every change to the shared store goes through one lock,
`.verdi/data/writer.lock`.  `serve` and `mcp` hold it for their whole life;
requests they serve then find it held by their own process and work under a
*lease* of it.  `wtmanager`, `execworkspace` and `experimentrun` use the same
lock code.  `FileLock` is therefore the base: it is proved to implement
`WriterExclusion`, and the other modules rely on that promise, an exclusive
holder whose death frees the lock (their variable `holder` or `lock`).  A sealed
execution is two modules because the two concerns meet in few events: who may
run and stop (`SealedExec`), and in which order its events are recorded
(`FlightState`).

What makes the parts correct:

- lock: one owner at a time over all processes; a leased callback never outlives
  the ownership it leases; nobody removes a lock it did not mean to; calls
  return; what a crash leaves is taken over;
- draft transactions: spec and provenance change together, never the spec
  alone; every direct edit is disclosed as a gap; a retried request is applied
  once; success is durable; a refusal is final; only an edit racing with the
  installation itself may be overwritten;
- worktrees and workspaces: nobody is handed a tree that was not completed for
  his request; nothing that is wanted, and no work, is deleted; nothing left by
  a crash blocks the path for ever;
- experiments: evidence is only appended, in the order of the schedule; the
  result is over all of it and final; a run can be completed;
- sealed executions: a provider runs only under the key; success is not
  published over a stop; the event stream is one chain of whole transitions;
  nobody waits for ever;
- disclosure cache: what is served was true during the request.

`PROJECT.json` lists the hazards, each at its line with the properties that
watch it.

## 2. Modules

| Module | What it is |
|---|---|
| `WriterExclusion` | abstract specification: owners and guests of a checkout (design decision D3) |
| `FileLock` | `filelock.go`, `takeover_flock.go` and `WithWriterLock`'s custody, one step per system call or critical section |
| `FileLockProof` | inductive invariant, safety theorems and refinement of `WriterExclusion`, for all constants |
| `DraftMutation` | `Mutate`, `Commit`, `Recover`, `cleanup` over two directories, with kills and power losses |
| `WtManager`, `WtManagerProof` | one branch's worktree; its safety for all constants |
| `ExecWorkspace` | one unit path |
| `ExperimentRun` | one run |
| `SealedExec` | one execution key |
| `FlightState` | one execution's event stream |
| `DisclosureCache` | the cache of a serving process |
| `DraftMutationProof`, `ExecWorkspaceProof`, `ExperimentRunProof`, `SealedExecProof`, `FlightStateProof`, `DisclosureCacheProof` | the safety of each, for all constants |
| `MC*` | instances of these for TLC: model values, symmetry, small functions |

Definitions under a comment "Mutant" (or that describe a defect the source does
not have) are plausible bugs, each placed before the definition it replaces;
nothing else uses them.  Every property is shown to fail under one of them, a
property that is a conjunction mostly under one for each part.  Definitions under
a comment "Refuted" state something the repository says and the code does not
keep; section 5 lists them.

### FileLock

| Code | Model |
|---|---|
| the path; the inode it names | `path`, `Inodes`; a closed and unlinked inode may be reused by the next create (`Open`) |
| body: empty or cut short / garbage / `{pid,start}` | `body[i]`: `Incomplete`, `Garbled`, or a process |
| modification older than `lockMidFlushWindow` | `aged[i]`, set by `Elapse`, while the body is incomplete; a whole body that `lockFileYoung` finds at the path by then may be of any age (`Aged`) |
| `flock(2)` on the detector's handle | `flock[i]` |
| `registry[path].file`, `.leases` | `entry[p]`, the set `Leases(p, i)` of goroutines whose `lease` is that entry |
| `checkoutMutexFor(path)` | `mutex[p]` |
| `retriesLeft`, `decodeLockInfo`'s loop | `tries[t]`, `rereads[t]` |
| `alive`/`probe` | `Alive(p)`: the set of possible verdicts; both for a dead holder whose pid was reused |
| control flow | `pc[t]`; an action per call, `Retry`/`Held`/`Return` for the ways out |

`Init` starts with any lock on disk: none, a dead process's, a half-written
one, garbage.  `Crash` may happen between any two steps; `IOError` stands for
an error of any fallible call and drops what the caller had open.

Assumed, as the source itself discloses: a live holder is not judged dead (no
clock step beyond the tolerance, BL-109), and a live creator flushes its body
within `lockMidFlushWindow`.  `WithWriterLock`'s contract that a callback does
not call it again is kept.  `Release`'s wait on `registryCond` is the guard of
`Deregister`: that `releaseLease` wakes it is read in the code, not checked.

### DraftMutation

A spec's text is the sequence of edits that produced it and stands for its
digest; an entry of the log has `prev`, `result` and whether it declares a gap.
`disk` is what processes see.  `recent` is the set of states a power loss may
bring back: every change adds to it and an fsync of a directory discards the
alternatives for that directory.  `ordered` is chosen once, in `Init`: file
systems that commit metadata in order, where an fsync covers both directories,
and those where each directory reverts on its own (all POSIX promises).  Within
a directory operations persist in order.

`writeExclusive` is two steps, since a kill or a full disk may leave the file
created but not wholly written (`Torn`).  `Recover` adopts the journal as `txn`
and goes on where the transaction stopped, so that installation and `cleanup`
are the same steps for `Commit` and `Recover`, as in the code.  `Interrupt` is
any early end of the callback; the client may retry the same request.

`RecoverRetains` ends its client: whatever a later write of the same spec finds,
it is answered in the same way until a person removes the journal, which the model
does not let anybody do.

Left out: Markdown surgery (an edit is opaque), the reasons of refusals (one
nondeterministic refusal), symlink and path validation, a person's restoring an
earlier text by hand.

### WtManager

| Code | Model |
|---|---|
| `pathExists` and what is really there | `Exists`, `tree`: `"partial"` from git's first mkdir on |
| git's registration, locked while initialising | `reg` |
| `EnsureWorktree`: fast path, `Acquire`, 10 ms poll, re-check under the lock, `git worktree add` | `Ensure`, `Poll`, `Recheck`, `AddBegins`, `AddRefused`, `AddEnds`, `AddFails`; the path a call returned is `gave` |
| `gcOne`: eligibility, dirtiness, `Peek`, `Acquire`, `git worktree remove` | `ReadEligible`, `ReadStatus`, `Peek`, `LockToRemove`, `Remove`, `RemoveRefused`, `Removed`, `RemoveFails` |
| a process that dies, and the git it started (`gitx/exec.go:40`), which goes on or dies with it | `Crash`, `dead[p]`: `pc[p]` is then where that git is; `stray` remembers that the directory is the work of such a git |
| a git whose tree another git deletes | `DeletesUnder`, `AddBroken` |
| branches and people | `MoveBranch`, `Edit`, `Commit` |

`work` distinguishes `"early"` edits, which git's own check sees, from `"late"`
ones made between that check and the deletion: no program can keep the latter.
git's look at the path, its registration and its mkdir are one step (`AddBegins`):
two gits that look before either registers are kept apart by git's own exclusive
creation of `.git/worktrees/<id>`, and the second is refused as it is by `AddRefused`.
A git that nobody reads from any more may die of it; that is `AddFails`, or a
`Crash` that takes it along.

### ExecWorkspace

| Code | Model |
|---|---|
| the unit directory | `tree`: the identity it was cut for, whether it is whole, its `.git` link, uncommitted work |
| `.request`, `.request.staging`, `.released` | `request`, `staging`, `marker` |
| `.git/worktrees/<id>` entries that resolve to the path | `reg`: through `gitdir`, or `aside` after a claim was interrupted; `locked` by git (`"init"`) or a person |
| `Materialize` | `MaterializeAcquire`, `Look`, `UnlinkOrphans` or `RemoveResidue`, the reconcile steps, `StartAdd`, `ApplyPatch`, `StageWitness`, `RenameWitness`, `Handover` |
| `ReconcileUnit` (`reconcile.go`) | `Enumerate`, `VisitEntry`, `Claim`, `Verify`, `DeleteEntry`, `Postcondition` |
| `Release` | `ReleaseAcquire`, `ReleaseMarker` |
| `GC` with its ranks | `StartGC`, `DecideUnit`, `RankAcquire`, `RankHeld`, `Rederive`, `DeleteWitness`, `DeleteTree`, `DeleteReleased` |
| `git worktree add` as a child process | `GitBegins`, `GitEnds`, `KillGit`; with `Orphans` it goes on after `Crash` of its parent |
| people | `Edit`, `Commit`, `LockWorktree`, `UnlockWorktree`, `PruneWorktree`, `Tamper` |

A `RemoveAll` that stops half-way is `RemoveSome`.  The lock's `ErrHeld` returns
without effect and is no step.

### ExperimentRun

| Code | Model |
|---|---|
| receipt, `observations.jsonl`, result, the reserved environment roots | `receipt`, `obs`, `result`, `root` |
| `DeriveSchedule`, `validateMeasuredPrefix`, `validateNextObservation` | `Scheduled`, `IsMeasuredPrefix`, `IsNext` |
| `Start` up to the exclusive receipt | `Start`, `Plan`, `CreateReceipt` |
| `Resume`'s loads and boundaries | `Resume`, `LoadResult`, `ReturnResult`, `RefuseIncomplete`, `RefusePresentRoot`, `ValidateRoots`, `CheckRoot` |
| activation (four `MkdirAll`), warmups, attempts | `ActivateBegins`, `ActivateEnds`, `RunWarmups`, `Evaluate` |
| append under the writer lock: read, validate, rename | `AppendObservation`, `PublishObservation` |
| cleanup (`RemoveAll`, then its postcondition), `atomicfile.CreateImmutable` of the result | `CleanupBegins`, `CleanupEnds`, `PublishResult` |
| an activation and a removal of one root by two invocations that overlap | `ActivateCut`, `CleanupCut` |

Each process keeps its own copy `loc` of the observations; measured values
differ between processes, so that a mixed result would show.

A root is `"absent"`, `"whole"` or in between (`"part"`).  Two invocations that meet
at a root leave it in any of these shapes: the activation may make again what is
being removed and even report success, the removal may end with the root gone, or
with an error because it "remains after cleanup".  Such an error counts as a fault,
since two commands repeated at the same pace could disturb each other for ever.
What an evaluator writes into its root is not modelled.

### SealedExec

| Code | Model |
|---|---|
| `Service.active`, `activeExecution` | `active`, `run` |
| `Service.mu` and the run's mutex, when held over a wait | `smu`, `run[e].mu` |
| the adapter's stream and process | `stream`, `item` (the `AdapterResult` under work) |
| `execute`, `BeginReplacement` | `Acquire`, `Refuse`, `Launch`, `RecordResume`, `Activate`, `Release` |
| the consumer's loop | `Loop`, `StopTerminal`, `Frame`, `ProcessTerminal`, `StreamError`, `LockSession`, `RecordEvent`, `StoreSession`, `Judge` |
| the three ends | `TryFinishNormally`, `RecordSuspension` with `RecordStop`, `RequestFailureStop` |
| `InterruptRegistered` and the signal watcher | `Signal`, `Receive`, `LookupRegistered`, `Snapshot`, `LookupActive`, `Accept`, `WatcherStop`, `Await` |

All verification before a launch reads only and is one step that may refuse.
The Codex adapter differs in how frames are decoded, not in the races.

### FlightState

| Code | Model |
|---|---|
| `FlightState.snapshot`, `.acks`, `.mu` | `flight`, `acks`, `mu` |
| the recorder (external) | `rec`: stores an event unless its identity (revision, source sequence) is taken; its answer may be lost; its checkpoint is `Segment(r)` of each revision, without receipts |
| `EncodeEvent`'s rules on prior event and prior revision | `Encodable`; a state that breaks them appends nothing |
| the expansion ledger (external) | `ledger` |
| `adapterStartLatch` | `latch` |
| the service's appends | `RecordResume`, `RecordAdapterStart`, `RecordObservation`, `RecordTerminal`, `RecordStop` over `Lifecycle` |
| a `request_context` call | `CallArrives`, `AwaitAdapterStart`, `Enter`, `AppendContextRequest`, `Approve`/`Deny`/`InvalidateEpoch`, `AppendChildManifest`, `InstallExpansion`, `RaiseTerminal` |
| the command: close, completion | `CloseWatcher`, `Shutdown`, `RecordResult`, `RecordReceipt` |
| the end or a kill of the command; `EventChainRoot`, `planRestart`, `newExecutionFlightState` | `Kill`; `Completed`, `Resume` with `Restored`, `ResumeRefused` |

An append is one step of the mutex holder: stored and acknowledged, stored with
the answer lost, or refused; only the first advances the state.

A resume is accepted only where the checkpoint's revisions end in child-manifests and
the last one in an execution-result (`contextevent/codec.go:291`, asked for by
`service.go:1589`, `service.go:1736` and the request's own decoder,
`sealedexec/codec.go:596`); everything else is `ResumeRefused`.  Section 7 says what
becomes of `planRestart`'s other arm.

### DisclosureCache

| Code | Model |
|---|---|
| the inputs of a key, their stamps | `content`, `stamp`; two inputs, one for each reading order in `cachekey.go` |
| `Cache.entries`, `cacheEntry` | `cache`, `entry` |
| `gitx.shallowCache` | `memo`, with `Load`, `Probe`, `StoreMemo` as separate steps |
| `Count`: read, claim, lead or await, settle, re-read, finish or release | `Start`, `Read`, `Claim`, `Await`, `Reset`, `Compare`, `Finish`, `Release` |
| the page's `Current` | `Start` with `page` |
| the clock and the file system's granule | `now`, `Tick`, `Granule`, `Window` (`racyWindow`) |

`seen[c][i]` is what input `i` held while call `c` ran: the yardstick of
"current".

## 3. Runs

Times are with two workers.

| Run | Question | Instance and why it is enough |
|---|---|---|
| `lock_custody` | types, custody of leases, removal by name, refinement of `WriterExclusion` | `serve` and a writer in one process, a writer in another; three inodes (one per goroutine can be pinned at once); one takeover retry, after which the code repeats itself; 745k states, 1 min |
| `lock_live` | progress | one process, a polling holder and a writer, remains of a dead process and of one whose pid was reused; one retry and one re-read; no symmetry; 84k states, 1 min |
| `draft_recovery` | the pair of files under three faults, on both kinds of file system | three requests, one direct edit, three interruptions: a commit, its recovery and the recovery's recovery can each be cut short; 1.8M states, 90 s |
| `draft_torn_stage` | violation: see section 5 | two requests, one fault |
| `workspace_lifecycle` | safety of one unit | three processes (a holder, one that takes over, one that inspects), two identities of one path, one of them patched, two entries, three faults; 121k states |
| `workspace_progress` | progress of one unit | one process, because two can beat each other to the lock for ever; three faults; 10k states |
| `wt_manager` | safety and progress of a worktree | two callers, two sweeps, two faults: a git that outlives its caller meets the add or the removal of the next holder, which may fail or die too; 132k states, 40 s |
| `experiment_shared` | evidence and completion | two processes, two candidates with a warmup and a round (the rotation shows), two values, crashes inside activation and removal and meetings of the two, two faults; 213k states, 1 min |
| `sealed_run` | key, stop, success, session boundary, end | a start, a resume, repeated replacements, a watcher for each of the two commands, one frame, one signal, one fault of any of five kinds; 550k states, 2 min 20 s |
| `flight_sequence` | the stream | two calls (one waits for the other), one observation, one expansion, two faults (an acknowledgement that is lost and an install that fails), one resume, accepted or refused; 283k states, 2 min |
| `disclosure_serve` | freshness and retention | two requests, one root, two values, two writes (change and change back), a granule of two ticks; 1.6M states, 1 min |
| `disclosure_end` | every request ends | two requests, two roots competing for one entry, two errors; 194k states |

Two things these instances do not reach are left to theorems: two leases of one
process at once (`lock_custody` has one writer in each process; `WorkExclusive`), and
the eviction of a root by another one in `disclosure_serve` (`Keeps`).  `sealed_run`
assumes that the standard output of a killed provider closes: no grandchild keeps it.

Deadlock is checked except where the instance really stops: all goroutines dead
and all requests answered (`lock_*`, `draft_*`), the execution completed
(`flight_sequence`), all requests served (`disclosure_*`).

Properties that are conjunctions of named parts, which the modules define and
explain one by one:

| Property | Parts |
|---|---|
| `LogFaithful` | `GapsDisclosed`, `AppliedOnce`, `RefusalFinal` |
| `UnitSound` | `TypeOK`, `WitnessTrue` (a completed `.request` is on a tree cut whole for that identity), `ClaimsResolved` |
| `WantedKept` | `LiveUnitKept`, `EarlyWorkKept` |
| `EvidenceSound` | `TypeOK`, `PrefixExact`, `ResultOverFile`, `OneStart` |
| `EvidenceFinal` | `ObservationsImmutable`, `ResultFinal` |
| `SuccessEarned` | `TypeOK`, `InterruptHonoured`, `CompletedClean` |
| `StreamSound` | `TypeOK`, `Chained`, `TransitionsWhole`, `ContextAfterStart` |
| `StateTrue` | `StreamMatchesState`, `ResultPositionFree` |

Where the code does not keep a promise without exception, the property names the
exception (`ordered` in `NeverProvenanceAhead`, `CutRoot` in `RunCompletes`,
`ResumeLeaked` in `ProviderUnderKey`, `Refused` in `NeverWedged`); section 5 has
what is refuted without it.

## 4. Fairness

Everywhere: a goroutine inside a call proceeds (`WF` on its steps; the Go
scheduler, the kernel and git run), nobody is obliged to begin a call, and no
fault is ever obliged to happen.  Beyond that:

- `lock_live`: plain callers keep trying, as `EnsureWorktree`'s loop does.
  `Deregister` is strongly fair: it is disabled while a lease is counted, every
  `releaseLease` broadcasts `registryCond`, and the next taker has to run a whole
  failing `Acquire` first.  Time passes (`WF` on `Elapse`).  `IOError` is
  excluded, since a file system that never answers stops everybody.
- `workspace_progress`: callers ask again (`SF` on `MaterializeAcquire` and
  `StartGC`), and gc's acquisition succeeds sometimes (`SF` on `RankAcquire`);
  with two processes nothing in the code guarantees the latter, so the run has one.
  A person who locked a worktree unlocks it eventually.  A lock that falls
  between `VisitEntry` and `Claim`, whose run then dies, is out of reach of `git
  worktree unlock`; the code refuses such a unit by name, and `Refused` covers it.
- `wt_manager`: `SF` on `Poll`: the loop looks every 10 ms, and the lock is free
  or the path there in between.  A git whose parent died runs on (`WF`, as if it
  were waited for); nobody is delayed by it.
- `experiment_shared`: `SF` on `Resume`: whoever runs the experiment repeats the
  command.
- `flight_sequence`: `SF` on a call's steps, since Go's mutex hands itself over to
  a waiter that starves.
- `sealed_run`, `disclosure_end`: `WF` only.

## 5. Claims the code does not keep

Run `draft_torn_stage` (the finding of `PROJECT.json`): `internal/recovery` tells
the user that the "next board draft write completes or rolls back this journal"
(`recovery/derive.go:971`).  If the interruption tore `spec.new` or
`provenance.new`, `validStage` refuses and the journal is retained by every
later write.

The following were met on the way.  Each is stated in its module under a comment
"Refuted"; put in place of the properties of the named cfg, TLC finds a
counterexample.

| Definition (cfg) | The repository says | The code |
|---|---|---|
| `NoFalseIncomplete` (ExperimentShared) | a run is incomplete with a result only if damaged (`resume.go:102`) | `Resume` loads the prefix (`resume.go:92`), then the result (`:96`), under no lock; another process appends the last observation and publishes in between, and a healthy finished run is reported as damaged.  A bug. |
| `RunCompletes` without `CutRoot` (ExperimentShared) | "Missing roots are retryable before measured evidence and at the unique complete-prefix/no-result cleanup boundary" (`resume.go:121`) | a crash inside activation or `RemoveAll` leaves a root neither missing nor whole; so do, without any crash, an activation and a removal of two invocations that overlap (`isolation.go:497`, `resume.go:279`); every resume refuses it |
| `RootsGoneAtResult` (ExperimentShared) | the environment directory "is removed only after a complete measured set validates and before result publication" (`comparative-spike-experiments-v3/spec.md:763`) | activation and cleanup take no lock: a second resume activates the roots again while the first publishes |
| `NoAddRacesHolder` (WorkspaceLifecycle) | "no in-flight `git worktree add` for this unit can race the lock holder" (`execution-workspace/spec.md:189`) | git is an ordinary child; its parent's death frees the lock while it goes on.  `InFlightAddKept` shows that git's own lock marker keeps this harmless |
| `ReclaimAlwaysReentrant` (WorkspaceProgress) | "RECLAIM IS RE-ENTRANT" (`execution-workspace/spec.md:658`) | an `os.RemoveAll` that stops half-way leaves a tree later gcs judge dirty and keep |
| `PathOfCompletedCut` (WtManager) | the poll waits for "the winner's completed cut" (`ensure.go:20`) | `pathExists` holds from git's mkdir on; the caller may get a tree still being filled, or one a crash left partial |
| `AddAlone` (WtManager) | exactly one caller runs `git worktree add` and the others "never attempt a competing add" (`ensure.go:36`, `:68`) | a git whose caller was killed goes on without the lock: it may make the directory after the next holder's re-check (`gitx/exec.go:40`) |
| `OwnerKeepsTree` (WtManager) | "a concurrent owner that grabbed the lock in between is still never removed out from under it" (`gc.go:176`) | nor does a git of a killed gc stop: it may delete under the add of the lock's next owner |
| `OneStop` (SealedRun) | "exactly one suspension and one adapter-stop" (`context_execution_contract_test.go:1179`) | if the provider's end beats `Stop`, the adapter emits a stop and `recordStop` a second one |
| `NoResumeLeaks` (SealedRun) | "resume and replacement dispatch cannot coexist for one epoch" (`sealed-codex-execution/spec.md:24`) | a failed append of the gap or resume event (`service.go:836, 862`) returns after the launch without stopping the provider, and frees the key |
| `SignalHeeded` (SealedRun with one start, one watcher, two signals, no faults) | "an interrupt requests a normalized stop" (`sealed-codex-execution/spec.md:32`) | the watcher returns after any answer but `ErrInterruptNotActive` (`context_execution.go:168`); later signals find nobody |
| `ResultPositionUnshared` (FlightSequence) | a context request "allocates no duplicate event key" (`2026-08-29-shared-sealed-event-sequencer-design.md:166`) | `Complete` builds the result at a copy of the position (`service.go:1330`); a call still in flight appends there too |
| `NoResultAfterInvalidation` (FlightSequence) | "MCP invalidation remains terminal and prevents later result or receipt" (same file, line 140) | `Close` cancels the watcher, whose `select` may take the cancellation rather than the terminal already in the channel (`context_execution.go:1145`) |
| `SessionResumable` (FlightSequence) | "An active revision means the previous process left one unconfirmed position: its exact acknowledgments are restored" (`service.go:1732`), exercised at `service_test.go:767` | a run killed before its result has a checkpoint whose last revision does not end in one, which `validateResumeFacts` and `planRestart` refuse; the session that was acknowledged is lost |
| `ResumeContinues` (FlightSequence) | "resume continues from the completed revision terminal" (`service.go:1732`) | the position behind the result is the receipt's (`completion.go:196`): the recorder, which keeps one event for a position, refuses the resume event |
| `StoredShallowIsKeys` (DisclosureServe) | "the enumeration reads the shallow state the key read" (`cachekey.go:35`) | a probe begun before the reset stores its answer after it (`reachable.go:184`) |
| `PageCurrent` (DisclosureServe) | "computed fresh on every call" (`disclosureview.go:32`) | the page does not reset the memo (`workbench/disclosures.go:34`) |
| `NeverProvenanceAhead` without `ordered` (DraftRecovery) | old or new, never half (`draftmutation`'s journal) | recovery with both destinations new removes the journal without repeating the fsync of the spec's directory; where directories revert independently provenance can stay ahead |

## 6. Proofs

### FileLockProof

For all sets of processes, goroutines, inodes and all retry budgets satisfying
`ConstantsAssumption`: `TypeOK`, `MutualExclusion`, `WorkExclusion`,
`LeaseCustody`, `UnlinkIntended`, and `ImplementsExclusion` (refinement of
`WriterExclusion`).  `MutualExclusion` and `WorkExclusion` are left to their
theorems; `lock_custody` checks the other four on its instance.

None of these is inductive alone.  `IInv` adds:

- `DeadStop`: goroutines run exactly in live processes;
- `OwnsPath`, `OneOwner`: from create to remove, the owner's file is at the path,
  names its process once encoded, and there is one owner.  This needs
- `DetectorSound` with `Stale`: a detector that passed the identity check under
  its flock is looking at the path's file; that file is stale, and stays so,
  because only its creator, who is dead or done, could revive it, and no other
  detector can remove it without the flock;
- `RetryLeft`, `ProbeComplete`: takeover starts only with budget left and a
  complete body;
- `RegistrySound`, `LeaseSound`: a registry entry is the handle of a holder, and
  a proven lease names the entry in force, which cannot be deregistered under it;
- `MutexSound`: a writer between mutex and unlock is the one the mutex names.

`NextInv` cites one lemma per action.  The steps that touch nothing shared (reading,
judging, and every way out of `acquire`) rest on `JudgeOnStep` and `LeaveKinds`,
which treat them once for all.  The refinement maps `Register` to
`Grant`, a successful `ProveLease` to `Admit`, `DropLease` to `Leave`,
`Deregister` to `Release`, `Crash` to `Crash`, all else to a stutter.

### WtManagerProof

For any number of callers and sweeps and any bound on faults (`WtConstants`):
`TypeOK`, `OneMutator` (two gits change the worktree at once only if one has outlived
the process that started it), `AddIntoNothing` (a living caller's add finds its path
taken only by the git of a dead one), and the action property `WorkKept`.  `TypeOK`
ties the lock to the critical sections of living processes, which gives `OneMutator`.
The others need that what was found under the lock still holds when it is acted on,
although gits of dead processes work outside it.  `IInv` adds `DeadLeftGit` (who died
was in the middle of a git), `DeletingSeenClean` (no work git's check would have seen
is in a tree that is being deleted: edits after the check are `"late"`), and
`FillingAlone` (a tree an add fills is there and partial, and one git fills it; git's
check refuses to remove a partial tree).

### DraftMutationProof

For any number of clients, direct edits, interruptions and power losses, on both
kinds of file system: `TypeOK`, `NeverSpecAhead`, `NeverProvenanceAhead`,
`LogFaithful`, `SuccessDurable` and the action property `OnlyRacingEditsLost`.

The invariant speaks of the files on disk, the states `recent` a power loss may
bring back, and the requests made so far (which text each was built on), never of
the variables themselves: a change or an fsync only mixes what was there
(`Mixed`), so that `FilesFollow` and `AnsweredFollow` settle once what every step
leaves to a power loss.  `Advances`, `Leaves`, `Puts`, `Syncs` and `Moves` do the
rest of the bookkeeping, and a step's own lemma proves only that its new files
`Follow` the old ones and what the holder then relies on (`Place`).  `Files` says:

- `SpecDir`: in every state a power loss may leave, the text is covered by its log,
  the log holds entries of requests only, and it is a prefix of the log on disk;
- `TxDir`, `OneJournal`: a journal that decodes is the transaction of a request,
  and no two such journals are within reach of one power loss;
- `Resumable`, the heart of it: whenever a power loss could bring back a
  transaction root and a spec directory, even of different moments, that recovery
  would finish, then that transaction is under way on disk too, or its edit is in
  the text already.  Hence a refusal, given while nothing was under way, is final;
- `Whole`, for ordered metadata only: the log is one chain of growing texts whose
  gaps are direct edits, and without a journal it is not ahead of the text.
  `AppliedOnce` follows, since two entries of one request would have the same text.

`RefusalFinal`, a part of `LogFaithful`, was first stated too strongly, and the
proof showed it: a journal of the refused request may come back.  It takes four
faults (the run has three): one to interrupt the first attempt before its stages
are complete, two to cut short its undoing, after the journal's removal and again
after the root's, each before the fsync, and, after the refusal, a power loss.
The journal is back, but a stage it needs is not, so it can only be undone; this is
what the property now says.

### ExecWorkspaceProof

For any number of processes, identities, registry entries and faults, with and
without git children that survive their parents: `UnitSound`, `HandoverSound`, and
the action properties `WantedKept` and `InFlightAddKept`.  `Place` says what the
holder of the unit lock established (no `.request`, no marker, nobody was given
the tree, every entry verified) and that it stays so until he acts on it, although
git children and people are outside the lock.  `Child` says why a surviving child
does no harm: the entry it works on is registered and carries git's own lock
marker; there is one such child at a time, and none once a tree is being completed.  `Claims` carries this
through `ReconcileUnit`: an entry whose git still runs is never claimed.
`Handed` ties the consumer's tree to its witness or its release.

### ExperimentRunProof

For any number of processes, candidates, warmups, rounds, values and faults:
`EvidenceSound`, and the action properties `EvidenceFinal` and `MeasuredInRoots`.
A process builds what it publishes over many steps and holds nothing meanwhile.
`CopySound` is why this is safe: its copy is what the file begins with, and the one
record it may be ahead has the next place of the schedule.  That needs
`MeasuredInjective` (no two places of the measured schedule are equal, by
arithmetic of the rotation), so that an append that validates against a file that
grew in the meantime can only be the next record.  `RootsUp`: while measurements
are missing, roots a process activated stay whole, since only a holder of a
complete copy cleans up.

### SealedExecProof

For any number of calls, watchers, frames, signals and faults: `ProviderUnderKey`,
`SuccessEarned`, `AckMeansSuspended`, and the action property
`SessionBoundaryAtomic`.  The invariant has one part per concern of a call, each by
the place its consumer has reached: `Stage` (state and lock), `Process` (an issued
stop was tried; a stop that succeeded, or a terminal that was read, found the
provider ended), `Recorded` (the log of an undisturbed run is clean up to what is
still to be recorded of the item at hand), `Sessions`, `Suspended`, and `Watching`
for what a watcher knows.  A call's parts mention its own cells only (`LocalKept`),
so an interrupt has to be considered exactly where it writes them.

### FlightStateProof

For any number of calls, observations, revisions, faults and resumes:
`StreamSound`, `StateTrue`, and the action property `OnInstalledRevision`.
`FlightOK` ties what the sequencer believes to the recorder: its position is the
first free one of the installed revision (`Within`), or one that is taken by an event
it never saw acknowledged (`Fresh`).  `Ordered` says that source order goes with global
order, so that the last event of a revision is the one at its highest position.
`RunOK` says the same of the copy of the position with which the result is built, which
a transition still in flight may take, and `ReceiptOK` of the position behind it.
A resume is accepted behind a result only; `Receipted`, a receipt is right behind its
result, then gives that nothing but the receipt is behind the position it continues
from.  `Started` says that the adapter-start a context transition waits for is of its
own run.  `Calling` says what the mutex's holder has appended so far: a transition's
events are adjacent because nobody else can append between them.  A kill may leave
a transition unfinished, but nothing gets between those of its events that are there.

### DisclosureCacheProof

For any number of calls, checkouts, contents and writes, any clock and any
`Window` no shorter than the `Granule`: `TypeOK`, `ServedCurrent`, and the action
property `StoredKept`.  `Watched`: since a call began, the document is what it was,
or its stamp lies within a granule of the call's start.  `Leading`: hence a leader that reads
again and finds the stamp of settled inputs unmoved has enumerated what its key
read.  `Following` carries the answer over to those who wait.

### Assumptions on the constants

Besides finiteness of bounds (`\in Nat`) and the kinds of parameters, the proofs
need only what the models' sentinels mean: no client is `NoClient` or `Human`, no
process `NoProc`, no identity `NoId` or `"bad"`, calls and watchers of `SealedExec`
are disjoint, `Absent` and `Torn` differ from each other and from every file's
content.  `Window >= Granule` is the comment on `racyWindow`.  TLC evaluates each
assumption in the runs.

### Only model-checked

- All liveness (`AcquireReturns`, `ReleaseDrains`, `StaleLockReclaimed`,
  `NeverWedged`, `ReclaimReentrant`, `EnsureReturns`, `RunCompletes`,
  `StopEndsRun`, `CallsReleased`, `CallsEnd`): it rests on fairness, hence on
  `ENABLED`, which the prover does not support.
- The counterexamples of section 5.

Every safety property of a passing run has a theorem.

## 7. Not modelled

- Most of the repository by size: decoding, validating, linting, comparing and
  rendering documents (`artifact`, `lint`, `dex`, `contextowner`,
  `contextcompile`, `workbench`'s board), command-line wiring and forge access.
  These are sequential transformations of one input into one output, or I/O:
  they keep no state between calls, and a model would repeat their text.  The
  mapped lines are therefore a small share of the whole, and most of the code that
  shares state.
- `specstate`, `evidence`: pure classifications over git history, without state.
- `provider.CachingProvider` has no production caller.  `policyconflict`'s judge
  cache publishes immutable files under the digest of their inputs and shares
  nothing else.
- `takeover_noflock.go` belongs to another build and discloses its own weakness.
- `planRestart`'s arm for an active revision (a telemetry gap, then the resume; or
  `refuseUnconfirmedInitialSession`).  It wants the checkpoint to have an active
  revision equal to the request's (`service.go:1752`), while the request's is the last
  completed one (`sealedexec/codec.go:604`, `service.go:1589`); but the codec of the
  recorder's answers admits an active revision only if it is the completed one's
  successor (`contextowner/codec.go:1515`).  No answer passes both; only the test's fake
  recorder, which has no codec, gives one (`service_test.go:769`).
- The recorder itself.  Assumed of it: one event for a position, receipts included; a
  checkpoint that lists what was stored, and an event in progress as such.
- Inside the modelled parts: clock steps beyond the lock's tolerance and a creator
  descheduled for longer than `lockMidFlushWindow` (the source accepts both); a
  person's restoring an earlier text by hand during a draft transaction; the
  environment an isolation profile describes; normalisation of provider frames,
  profiles, authority checks and the contents of receipts.
