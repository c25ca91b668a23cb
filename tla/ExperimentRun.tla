--------------------------- MODULE ExperimentRun ---------------------------
(***************************************************************************)
(* One durable experiment run (internal/experimentrun): its receipt, its   *)
(* observations file, its result and the reserved environment root of      *)
(* each candidate, under concurrent Start and Resume, with crashes and     *)
(* failures between any two steps.  No lock covers a run: only the single  *)
(* publications take the checkout's writer lock.                           *)
(*                                                                         *)
(* Abstractions.  The writer lock is an exclusive holder whose death frees *)
(* it (FileLock).  Receipt parity, inputs, authorization and workspaces    *)
(* are unchanged between invocations.  All warmups of an invocation are    *)
(* one step: they touch nothing durable.  An observation is its place in   *)
(* the schedule and the value measured there; a result is the observations *)
(* it was computed from and the publisher's warmup diagnostics.  A root    *)
(* has the exact activated shape ("whole"), another one ("part") or is     *)
(* absent.  atomicfile's rename and link are each one step.                *)
(***************************************************************************)
EXTENDS Naturals, Sequences

CONSTANTS
  Procs,      \* processes that call Start and Resume
  NoProc,
  Count,      \* the number of candidates
  Warmups, Rounds,
  Values,     \* what an evaluation can measure
  CutShort,   \* whether a crash can fall inside Activate or RemoveAll
  MaxFaults   \* bound: invocations that end in an error or a crash of their own

ASSUME RunConstants ==
  /\ NoProc \notin Procs /\ Count \in Nat \ {0} /\ Rounds \in Nat \ {0}
  /\ Warmups \in Nat /\ CutShort \in BOOLEAN /\ MaxFaults \in Nat

VARIABLES
  receipt,   \* whether the execution receipt was published
  obs,       \* the observations file
  result,    \* the published result, or NoResult
  root,      \* root[c]: the environment root of candidate c
  lock,      \* the holder of the writer lock
  pc,        \* pc[p]: the step process p is at
  mode,      \* mode[p]: "start" or "resume"
  loc,       \* loc[p]: the observations p holds in memory
  buf,       \* buf[p]: the file contents p is about to publish
  cur,       \* cur[p]: the candidate p's loop is at
  diag,      \* diag[p]: whether a warmup of this invocation failed
  faults

durable == <<receipt, obs, result, root>>
memory == <<mode, loc, buf, cur, diag>>
vars == <<durable, lock, pc, memory, faults>>

Candidates == 0 .. Count - 1

(* DeriveSchedule: in cycle n (counted over warmups and rounds) the list of *)
(* candidates is rotated left by n.  Scheduled(n) is the n-th attempt.      *)
Scheduled(n) ==
  LET cycle == n \div Count IN
  [cand |-> (cycle + (n % Count)) % Count,
   round |-> IF cycle < Warmups THEN cycle + 1 ELSE cycle - Warmups + 1]

(* measuredSchedule: what the i-th record of the file has to be.            *)
Total == Count * Rounds
Measured(i) == Scheduled(Warmups * Count + i - 1)

Observations == [cand: Candidates, round: 1 .. Rounds, value: Values]
NoResult == [over |-> <<>>, diag |-> FALSE]

(* validateMeasuredPrefix, which every reader of the file runs on it.       *)
IsMeasuredPrefix(s) ==
  /\ Len(s) <= Total
  /\ \A i \in 1 .. Len(s) : [cand |-> s[i].cand, round |-> s[i].round] = Measured(i)

(* Mutant: any record of the schedule may follow.                           *)
IsNextAny(s, o) == Len(s) < Total

(* validateNextObservation: a record extends the file only at its place.    *)
IsNext(s, o) ==
  /\ Len(s) < Total
  /\ [cand |-> o.cand, round |-> o.round] = Measured(Len(s) + 1)

Init ==
  /\ receipt = FALSE /\ obs = <<>> /\ result = NoResult
  /\ root = [c \in Candidates |-> "absent"]
  /\ lock = NoProc
  /\ pc = [p \in Procs |-> "idle"] /\ mode = [p \in Procs |-> "start"]
  /\ loc = [p \in Procs |-> <<>>] /\ buf = [p \in Procs |-> <<>>]
  /\ cur = [p \in Procs |-> 0] /\ diag = [p \in Procs |-> FALSE]
  /\ faults = 0

At(p, l) == pc[p] = l
Goto(p, l) == pc' = [pc EXCEPT ![p] = l]
Fault == faults < MaxFaults /\ faults' = faults + 1

(* Every return, with or without an error, forgets the invocation and       *)
(* releases the writer lock if it is held.                                  *)
Return(p) ==
  /\ Goto(p, "idle")
  /\ mode' = [mode EXCEPT ![p] = "start"] /\ loc' = [loc EXCEPT ![p] = <<>>]
  /\ buf' = [buf EXCEPT ![p] = <<>>] /\ cur' = [cur EXCEPT ![p] = 0]
  /\ diag' = [diag EXCEPT ![p] = FALSE]
  /\ lock' = IF lock = p THEN NoProc ELSE lock

(* The loops over the candidates: on to the next one, or out of the loop.   *)
NextCandidate(p, loop, out) ==
  IF cur[p] + 1 < Count
  THEN cur' = [cur EXCEPT ![p] = @ + 1] /\ Goto(p, loop)
  ELSE cur' = [cur EXCEPT ![p] = 0] /\ Goto(p, out)
-----------------------------------------------------------------------------
(* Start: preflightStart, then planCandidates, which looks at the roots.    *)
Start(p) ==
  /\ At(p, "idle") /\ obs = <<>> /\ result = NoResult
  /\ mode' = [mode EXCEPT ![p] = "start"] /\ Goto(p, "plan")
  /\ UNCHANGED <<durable, lock, loc, buf, cur, diag, faults>>

Plan(p) ==
  /\ At(p, "plan")
  /\ \/ /\ \A c \in Candidates : root[c] = "absent"
        /\ Goto(p, "receipt") /\ UNCHANGED <<lock, memory>>
     \/ (\E c \in Candidates : root[c] # "absent") /\ Return(p)
  /\ UNCHANGED <<durable, faults>>

(* Mutant: an equal receipt that is already there is good enough.           *)
CreateReceiptAgain(p) ==
  /\ At(p, "receipt")
  /\ \/ lock = NoProc /\ receipt' = TRUE /\ Goto(p, "activate") /\ UNCHANGED <<lock, memory>>
     \/ lock # NoProc /\ Return(p) /\ UNCHANGED receipt
  /\ UNCHANGED <<obs, result, root, faults>>

(* createReceipt: a receipt that is there already ends the invocation.      *)
CreateReceipt(p) ==
  /\ At(p, "receipt")
  /\ \/ /\ lock = NoProc /\ ~receipt
        /\ receipt' = TRUE /\ Goto(p, "activate") /\ UNCHANGED <<lock, memory>>
     \/ (lock # NoProc \/ receipt) /\ Return(p) /\ UNCHANGED receipt
  /\ UNCHANGED <<obs, result, root, faults>>
-----------------------------------------------------------------------------
(* Resume: the receipt is required; then the file, then the result is read. *)
Resume(p) ==
  /\ At(p, "idle") /\ receipt
  /\ IsMeasuredPrefix(obs)
  /\ mode' = [mode EXCEPT ![p] = "resume"]
  /\ loc' = [loc EXCEPT ![p] = obs]
  /\ Goto(p, "loadResult")
  /\ UNCHANGED <<durable, lock, buf, cur, diag, faults>>

Complete(p) == Len(loc[p]) = Total

(* "incomplete run has a result".                                           *)
RefuseIncomplete(p) ==
  /\ At(p, "loadResult") /\ result # NoResult /\ ~Complete(p)
  /\ Return(p)
  /\ UNCHANGED <<durable, faults>>

(* loadResult: a complete run with a result goes on to return it.           *)
LoadResult(p) ==
  /\ At(p, "loadResult")
  /\ \/ result = NoResult /\ Goto(p, "validate")
     \/ result # NoResult /\ Complete(p) /\ Goto(p, "prove")
  /\ UNCHANGED <<durable, lock, memory, faults>>

(* proveEnvironmentRootsAbsent, then VerifyResult: both ends return.        *)
ReturnResult(p) ==
  /\ At(p, "prove") /\ (\A c \in Candidates : root[c] = "absent")
  /\ Return(p)
  /\ UNCHANGED <<durable, faults>>

RefusePresentRoot(p) ==
  /\ At(p, "prove") /\ (\E c \in Candidates : root[c] # "absent")
  /\ Return(p)
  /\ UNCHANGED <<durable, faults>>

(* Mutant: the roots are required from the first measurement on.            *)
MustExistAlways(p) == mode[p] = "resume" /\ loc[p] # <<>>

(* validateResumeEnvironmentRoot: the exact shape, or absent where that is  *)
(* retryable: with no measurement yet, or with all of them.                 *)
MustExist(p) == mode[p] = "resume" /\ loc[p] # <<>> /\ ~Complete(p)
ResumableRoot(p, c) == root[c] = "whole" \/ (root[c] = "absent" /\ ~MustExist(p))

(* Resume validates every root before it touches one.                       *)
ValidateRoots(p) ==
  /\ At(p, "validate")
  /\ \/ (\A c \in Candidates : ResumableRoot(p, c)) /\ Goto(p, "activate") /\ UNCHANGED <<lock, memory>>
     \/ (\E c \in Candidates : ~ResumableRoot(p, c)) /\ Return(p)
  /\ UNCHANGED <<durable, faults>>

(* activateCandidate and activateResumeCandidate: the root of one candidate *)
(* is checked again after Materialize.                                      *)
MayActivate(p) ==
  IF mode[p] = "start" THEN root[cur[p]] = "absent" ELSE ResumableRoot(p, cur[p])

CheckRoot(p) ==
  /\ At(p, "activate")
  /\ \/ MayActivate(p) /\ Goto(p, "mkdir") /\ UNCHANGED <<lock, memory>>
     \/ ~MayActivate(p) /\ Return(p)
  /\ UNCHANGED <<durable, faults>>

(* Activate: four MkdirAll calls, which leave an existing directory alone.  *)
(* No lock keeps another invocation from removing the same root meanwhile   *)
(* (Cut): the one may make again what the other has removed, or find the    *)
(* parent of what it makes gone.                                            *)
ActivateBegins(p) ==
  LET met == {q \in Procs : pc[q] \in {"cleanupRest", "cleanupCut"} /\ cur[q] = cur[p]} IN
  /\ At(p, "mkdir")
  /\ root' = [root EXCEPT ![cur[p]] = IF @ = "absent" THEN "part" ELSE @]
  /\ pc' = [q \in Procs |-> IF q = p THEN IF met = {} THEN "mkdirRest" ELSE "mkdirCut"
                            ELSE IF q \in met THEN "cleanupCut" ELSE pc[q]]
  /\ UNCHANGED <<receipt, obs, result, lock, memory, faults>>

ActivateEnds(p) ==
  /\ At(p, "mkdirRest")
  /\ root' = [root EXCEPT ![cur[p]] = "whole"]
  /\ NextCandidate(p, "activate", "warm")
  /\ UNCHANGED <<receipt, obs, result, lock, mode, loc, buf, diag, faults>>

(* The root is as the last removal left it, or some or all of it is made.   *)
ActivateCut(p) ==
  /\ At(p, "mkdirCut")
  /\ \E shape \in {root[cur[p]], "part", "whole"} : root' = [root EXCEPT ![cur[p]] = shape]
  /\ \/ /\ NextCandidate(p, "activate", "warm")
        /\ UNCHANGED <<lock, mode, loc, buf, diag, faults>>
     \/ Fault /\ Return(p)
  /\ UNCHANGED <<receipt, obs, result>>
-----------------------------------------------------------------------------
(* The warmups of the schedule: failures are kept for the result only.      *)
RunWarmups(p) ==
  /\ At(p, "warm")
  /\ \E failed \in (IF Warmups = 0 THEN {FALSE} ELSE BOOLEAN) :
       diag' = [diag EXCEPT ![p] = failed]
  /\ Goto(p, IF Complete(p) THEN "cleanup" ELSE "measure")
  /\ UNCHANGED <<durable, lock, mode, loc, buf, cur, faults>>

(* The next entry of the measured tail, at the length of the local copy.    *)
Evaluated(p, v) ==
  [cand |-> Measured(Len(loc[p]) + 1).cand, round |-> Measured(Len(loc[p]) + 1).round, value |-> v]

Evaluate(p) ==
  /\ At(p, "measure")
  /\ \E v \in Values : loc' = [loc EXCEPT ![p] = Append(@, Evaluated(p, v))]
  /\ Goto(p, "append")
  /\ UNCHANGED <<durable, lock, mode, buf, cur, diag, faults>>

NewRecord(p) == loc[p][Len(loc[p])]

(* Mutant: the file is rebuilt from the invocation's own copy.              *)
AppendObservationOwnCopy(p) ==
  /\ At(p, "append")
  /\ \/ /\ lock = NoProc
        /\ lock' = p /\ buf' = [buf EXCEPT ![p] = loc[p]]
        /\ Goto(p, "write") /\ UNCHANGED <<mode, loc, cur, diag>>
     \/ lock # NoProc /\ Return(p)
  /\ UNCHANGED <<durable, faults>>

(* Mutant: a place that is already filled counts as recorded.               *)
AppendObservationTolerant(p) ==
  /\ At(p, "append")
  /\ \/ /\ lock = NoProc /\ IsMeasuredPrefix(obs)
        /\ lock' = p
        /\ buf' = [buf EXCEPT ![p] = IF IsNext(obs, NewRecord(p)) THEN Append(obs, NewRecord(p)) ELSE obs]
        /\ Goto(p, "write") /\ UNCHANGED <<mode, loc, cur, diag>>
     \/ lock # NoProc /\ Return(p)
  /\ UNCHANGED <<durable, faults>>

(* Mutant: a refused record ends in the cleanup, as a deferred one would.   *)
AppendObservationCleans(p) ==
  /\ At(p, "append")
  /\ \/ /\ lock = NoProc /\ IsNext(obs, NewRecord(p))
        /\ lock' = p /\ buf' = [buf EXCEPT ![p] = Append(obs, NewRecord(p))]
        /\ Goto(p, "write") /\ UNCHANGED <<mode, loc, cur, diag>>
     \/ /\ lock # NoProc \/ ~IsNext(obs, NewRecord(p))
        /\ Goto(p, "cleanup") /\ UNCHANGED <<lock, memory>>
  /\ UNCHANGED <<durable, faults>>

(* appendObservation: under the lock the file is read again and validated,  *)
(* and the record has to be the next one.                                   *)
AppendObservation(p) ==
  /\ At(p, "append")
  /\ \/ /\ lock = NoProc /\ IsMeasuredPrefix(obs) /\ IsNext(obs, NewRecord(p))
        /\ lock' = p /\ buf' = [buf EXCEPT ![p] = Append(obs, NewRecord(p))]
        /\ Goto(p, "write") /\ UNCHANGED <<mode, loc, cur, diag>>
     \/ /\ lock # NoProc \/ ~IsMeasuredPrefix(obs) \/ ~IsNext(obs, NewRecord(p))
        /\ Return(p)
  /\ UNCHANGED <<durable, faults>>

(* Mutant: the lock is not released.                                        *)
PublishObservationHolding(p) ==
  /\ At(p, "write")
  /\ obs' = buf[p] /\ buf' = [buf EXCEPT ![p] = <<>>]
  /\ Goto(p, IF Complete(p) THEN "cleanup" ELSE "measure")
  /\ UNCHANGED <<lock, receipt, result, root, mode, loc, cur, diag, faults>>

(* atomicfile.Write renames the new contents into place; then the lock is   *)
(* released and the loop goes on, or completeRun begins (ValidateComplete). *)
PublishObservation(p) ==
  /\ At(p, "write")
  /\ obs' = buf[p]
  /\ buf' = [buf EXCEPT ![p] = <<>>]
  /\ lock' = NoProc
  /\ Goto(p, IF Complete(p) THEN "cleanup" ELSE "measure")
  /\ UNCHANGED <<receipt, result, root, mode, loc, cur, diag, faults>>
-----------------------------------------------------------------------------
(* cleanupEnvironmentRoots: RemoveAll on each root that is there.           *)
CleanupBegins(p) ==
  LET met == {q \in Procs : pc[q] \in {"mkdirRest", "mkdirCut"} /\ cur[q] = cur[p]} IN
  /\ At(p, "cleanup") /\ root[cur[p]] # "absent"
  /\ root' = [root EXCEPT ![cur[p]] = "part"]
  /\ pc' = [q \in Procs |-> IF q = p THEN IF met = {} THEN "cleanupRest" ELSE "cleanupCut"
                            ELSE IF q \in met THEN "mkdirCut" ELSE pc[q]]
  /\ UNCHANGED <<receipt, obs, result, lock, memory, faults>>

CleanupEnds(p) ==
  /\ At(p, "cleanup") \/ At(p, "cleanupRest") \/ At(p, "cleanupCut")
  /\ At(p, "cleanup") => root[cur[p]] = "absent"
  /\ root' = [root EXCEPT ![cur[p]] = "absent"]
  /\ NextCandidate(p, "cleanup", "publish")
  /\ UNCHANGED <<receipt, obs, result, lock, mode, loc, buf, diag, faults>>

(* Another invocation made some of the root again under the removal:        *)
(* RemoveAll fails, or the root "remains after cleanup".                    *)
CleanupCut(p) ==
  /\ At(p, "cleanupCut") /\ Fault
  /\ \E shape \in {"part", "whole"} : root' = [root EXCEPT ![cur[p]] = shape]
  /\ Return(p)
  /\ UNCHANGED <<receipt, obs, result>>

Built(p) == [over |-> loc[p], diag |-> diag[p]]

(* Mutant: the result is published by replacing the file.                   *)
PublishResultOver(p) ==
  /\ At(p, "publish")
  /\ \/ lock = NoProc /\ result' = Built(p)
     \/ lock # NoProc /\ UNCHANGED result
  /\ Return(p)
  /\ UNCHANGED <<receipt, obs, root, faults>>

(* publishResult: no clobber; an equal result is accepted, another one is   *)
(* an error; either way the invocation ends.                                *)
PublishResult(p) ==
  /\ At(p, "publish")
  /\ \/ lock = NoProc /\ result = NoResult /\ result' = Built(p)
     \/ (lock # NoProc \/ result # NoResult) /\ UNCHANGED result
  /\ Return(p)
  /\ UNCHANGED <<receipt, obs, root, faults>>

(* A crash, a failing call, a contended lock (other commands write under it *)
(* too) or an evaluator error ends the invocation where it is.  Inside      *)
(* Activate and RemoveAll only if CutShort.                                 *)
Abort(p) ==
  /\ ~At(p, "idle") /\ Fault /\ Return(p)
  /\ ~CutShort => pc[p] \notin {"mkdirRest", "mkdirCut", "cleanupRest", "cleanupCut"}
  /\ UNCHANGED durable

StartSteps(p) == Start(p) \/ Plan(p) \/ CreateReceipt(p)
LoadSteps(p) == RefuseIncomplete(p) \/ LoadResult(p) \/ ReturnResult(p)
             \/ RefusePresentRoot(p) \/ ValidateRoots(p)
ActivateSteps(p) == CheckRoot(p) \/ ActivateBegins(p) \/ ActivateEnds(p) \/ ActivateCut(p)
MeasureSteps(p) == RunWarmups(p) \/ Evaluate(p) \/ AppendObservation(p) \/ PublishObservation(p)
CompleteSteps(p) == CleanupBegins(p) \/ CleanupEnds(p) \/ CleanupCut(p) \/ PublishResult(p)
Continue(p) == Plan(p) \/ CreateReceipt(p) \/ LoadSteps(p) \/ ActivateSteps(p)
            \/ MeasureSteps(p) \/ CompleteSteps(p)

Next == \E p \in Procs :
  \/ StartSteps(p) \/ Resume(p) \/ LoadSteps(p)
  \/ ActivateSteps(p) \/ MeasureSteps(p) \/ CompleteSteps(p) \/ Abort(p)

Spec == Init /\ [][Next]_vars

(* An invocation that was begun goes on, and an interrupted run is resumed  *)
(* again: whoever runs the experiment repeats the command, and does not     *)
(* only ever try a new Start (hence strong fairness).                       *)
FairSpec == Spec /\ \A p \in Procs : WF_vars(Continue(p)) /\ SF_vars(Resume(p))
-----------------------------------------------------------------------------
(* Types, and the lock is held exactly by who is between reading the file   *)
(* and renaming its successor into place.                                   *)
TypeOK ==
  /\ receipt \in BOOLEAN /\ obs \in Seq(Observations)
  /\ result.over \in Seq(Observations) /\ result.diag \in BOOLEAN
  /\ root \in [Candidates -> {"absent", "part", "whole"}]
  /\ cur \in [Procs -> Candidates]
  /\ \A p \in Procs : lock = p <=> At(p, "write")

(* The file is at every moment an exact prefix of the measured schedule,    *)
(* each candidate at the place the rotation gives it, whoever appended to   *)
(* it and wherever the appenders were interrupted.                          *)
PrefixExact == IsMeasuredPrefix(obs)

(* "Existing observations are immutable": a step leaves the file alone or   *)
(* adds one record to it.                                                   *)
ObservationsImmutable ==
  [][obs' # obs => Len(obs') = Len(obs) + 1 /\ SubSeq(obs', 1, Len(obs)) = obs]_vars

(* A result is computed from exactly the observations that are on disk, and *)
(* from all of them, although publishers work on a copy they built up over  *)
(* many steps with nothing held.                                            *)
ResultOverFile == result # NoResult => Len(obs) = Total /\ result.over = obs

(* A result that was published is never replaced, however many invocations  *)
(* complete the run with other warmup diagnostics.                          *)
ResultFinal == [][result # NoResult => result' = result]_vars

(* No measurement enters the file after a root was taken away: cleanup by   *)
(* another invocation never slips under a measurement that is recorded.     *)
MeasuredInRoots ==
  [][obs' # obs => \A c \in Candidates : root[c] = "whole"]_vars

(* Of all concurrent Starts of a run one at most gets to execute.           *)
Executing(p) ==
  mode[p] = "start" /\ pc[p] \notin {"idle", "plan", "receipt"}
OneStart == \A p, q \in Procs : Executing(p) /\ Executing(q) => p = q

(* What is on disk is evidence: a prefix of the schedule, produced by one   *)
(* start, and a result only over all of it.                                 *)
EvidenceSound == TypeOK /\ PrefixExact /\ ResultOverFile /\ OneStart

(* Nothing that was published changes.                                      *)
EvidenceFinal == ObservationsImmutable /\ ResultFinal

(* Refuted: the roots are removed before the result is published: once      *)
(* there is a result there is no root, so that Resume returns it.           *)
RootsGoneAtResult == result # NoResult => \A c \in Candidates : root[c] = "absent"

(* Refuted: Resume never reports an incomplete run with a result.           *)
NoFalseIncomplete == [][~ \E p \in Procs : RefuseIncomplete(p)]_vars

(* A root is cut when its creation or removal was cut short, by a crash, an *)
(* error, or one invocation creating it while another removes it; and no    *)
(* invocation is past the check of the roots and may yet complete it.       *)
CutRoot ==
  /\ \E c \in Candidates : root[c] = "part"
  /\ \A p \in Procs : pc[p] \in {"idle", "plan", "receipt", "loadResult", "prove", "validate"}

(* A run that was begun is completed by resuming it often enough, unless a  *)
(* root is cut: it is neither absent nor whole, and every resume refuses it.*)
RunCompletes == receipt ~> result # NoResult \/ CutRoot
=============================================================================
