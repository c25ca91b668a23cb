------------------------------ MODULE SealedExec ------------------------------
(***************************************************************************)
(* The sealed execution service of internal/sealedexec: the exclusion key   *)
(* that start, resume and replacement dispatch share, the one consumer of a *)
(* provider stream, the interrupt path that stops a run from another        *)
(* goroutine, and the command's signal watcher (cmd/verdi), which turns     *)
(* signals into interrupts.  The provider process is external; the stream   *)
(* is the Claude adapter's (internal/sealedexec/claude/adapter.go).         *)
(*                                                                          *)
(* All calls of the model use one execution key: the service's table of     *)
(* active runs is one cell.  The verification that precedes a launch reads  *)
(* only, so it is one step that may refuse.  The recorder is the log of the *)
(* events it acknowledged; only their kinds stay.                           *)
(***************************************************************************)
EXTENDS Naturals, Sequences, FiniteSets, SequencesExt

CONSTANTS
  Execs,        \* calls of Execute, each made once, and of BeginReplacement
  Watchers,     \* callers of InterruptRegistered: the command's signal watchers
  Operation,    \* the arm of the request each of them carries
  Faults,       \* which faults may happen, see FaultKinds
  MaxFaults,    \* how many faults happen in a behaviour
  MaxFrames,    \* how many complete frames a provider writes
  MaxSignals,   \* how many signals arrive
  NoOne         \* the empty cell

\* "append": the recorder fails an event; "resumeAppend": it fails the resume event
\* of a launch; "store": the session store fails; "stream": the process stream
\* breaks; "kill": the provider cannot be killed
FaultKinds == {"append", "resumeAppend", "store", "stream", "kill"}

ASSUME SealedAssumption ==
  /\ Execs \cap Watchers = {} /\ NoOne \notin Execs \cup Watchers \cup {"prior"}
  /\ Operation \in [Execs \cup Watchers -> {"start", "resume", "replacement"}]
  /\ Faults \subseteq FaultKinds
  /\ MaxFaults \in Nat /\ MaxFrames \in Nat /\ MaxSignals \in Nat

VARIABLES
  active,   \* Service.active: the holder of the key
  smu,      \* Service.mu, when it is held over a wait: the holding watcher
  pc,       \* where each call is
  run,      \* activeExecution, per call
  stream,   \* the adapter's run and its provider process, per call
  item,     \* the AdapterResult the consumer is working on
  log,      \* the events of each call the recorder acknowledged
  watch,    \* what each watcher remembers
  sig,      \* the buffered signal of each watcher
  faults, signals   \* how many happened

vars == <<active, smu, pc, run, stream, item, log, watch, sig, faults, signals>>

Kinds == {"resume", "start", "event", "error", "suspension", "stop"}

\* The provider session a run is identified by: its own for a start, the
\* continuity record's for a resume.
SessionOf(e) == IF Operation[e] = "start" THEN e ELSE "prior"

NewRun == [state |-> "preparing", session |-> NoOne, mu |-> FALSE, isInterrupt |-> FALSE,
           stopIssued |-> FALSE, stopErr |-> FALSE, result |-> "none"]
NewStream == [provider |-> "none", stop |-> "no", frames |-> 0, started |-> FALSE]
NoItem == [obs |-> <<>>, fail |-> FALSE, term |-> FALSE, usable |-> TRUE]
NewWatch == [run |-> NoOne, session |-> NoOne, answer |-> "none"]

Init ==
  /\ active = NoOne /\ smu = NoOne
  /\ pc = [c \in Execs \cup Watchers |-> "idle"]
  /\ run = [e \in Execs |-> NewRun]
  /\ stream = [e \in Execs |-> NewStream]
  /\ item = [e \in Execs |-> NoItem]
  /\ log = [e \in Execs |-> <<>>]
  /\ watch = [w \in Watchers |-> NewWatch]
  /\ sig = [w \in Watchers |-> FALSE]
  /\ faults = 0 /\ signals = 0

Goto(c, place) == pc' = [pc EXCEPT ![c] = place]

Fault(kind) ==
  /\ kind \in Faults /\ faults < MaxFaults
  /\ faults' = faults + 1

-----------------------------------------------------------------------------
\* Dispatch.

\* Where a call that returned is: an execution is over, a replacement may be dispatched
\* again.
Returned(e) == IF Operation[e] = "replacement" THEN "idle" ELSE "done"

\* The key is taken over from a call that has no stream yet.
AcquireOverPreparing(e) ==
  /\ pc[e] = "idle" /\ smu = NoOne
  /\ IF active = NoOne \/ run[active].state = "preparing"
     THEN /\ active' = e
          /\ Goto(e, IF Operation[e] = "replacement" THEN "release" ELSE "prepare")
     ELSE Goto(e, Returned(e)) /\ UNCHANGED active
  /\ UNCHANGED <<smu, run, stream, item, log, watch, sig, faults, signals>>

\* execute and BeginReplacement take the key, or refuse with ErrConcurrentDispatch.
Acquire(e) ==
  /\ pc[e] = "idle" /\ smu = NoOne
  /\ IF active = NoOne
     THEN /\ active' = e
          /\ Goto(e, IF Operation[e] = "replacement" THEN "release" ELSE "prepare")
     ELSE Goto(e, Returned(e)) /\ UNCHANGED active
  /\ UNCHANGED <<smu, run, stream, item, log, watch, sig, faults, signals>>

\* A prerequisite is not proven: no provider was launched.
Refuse(e) ==
  /\ pc[e] = "prepare"
  /\ Goto(e, "release")
  /\ UNCHANGED <<active, smu, run, stream, item, log, watch, sig, faults, signals>>

\* Adapter.Start or Adapter.Resume.
Launch(e) ==
  /\ pc[e] = "prepare"
  /\ stream' = [stream EXCEPT ![e].provider = "alive"]
  /\ Goto(e, IF Operation[e] = "resume" THEN "resumed" ELSE "activate")
  /\ UNCHANGED <<active, smu, run, item, log, watch, sig, faults, signals>>

\* A resumed run records its resume event before it is activated.  A failed append
\* returns at once: the stream is not stopped.
RecordResume(e) ==
  /\ pc[e] = "resumed"
  /\ \/ /\ log' = [log EXCEPT ![e] = Append(@, "resume")]
        /\ Goto(e, "activate")
        /\ UNCHANGED faults
     \/ /\ Fault("resumeAppend")
        /\ Goto(e, "release")
        /\ UNCHANGED log
  /\ UNCHANGED <<active, smu, run, stream, item, watch, sig, signals>>

Activate(e) ==
  /\ pc[e] = "activate" /\ smu = NoOne
  /\ run' = [run EXCEPT ![e].state = "running",
                        ![e].session = IF Operation[e] = "resume" THEN SessionOf(e) ELSE NoOne]
  /\ Goto(e, "loop")
  /\ UNCHANGED <<active, smu, stream, item, log, watch, sig, faults, signals>>

Release(e) ==
  /\ pc[e] = "release" /\ smu = NoOne
  /\ active' = IF active = e THEN NoOne ELSE active
  /\ item' = [item EXCEPT ![e] = NoItem]
  /\ Goto(e, Returned(e))
  /\ UNCHANGED <<smu, run, stream, log, watch, sig, faults, signals>>

-----------------------------------------------------------------------------
\* The provider process (external): it may end by itself at any time.

ProviderExits(e) ==
  /\ stream[e].provider = "alive"
  /\ stream' = [stream EXCEPT ![e].provider = "exited"]
  /\ UNCHANGED <<active, smu, pc, run, item, log, watch, sig, faults, signals>>

-----------------------------------------------------------------------------
\* The stream's Next, called by the one consumer.

\* The head of consumeActive's loop: once a stop is requested, wait for it to be
\* issued; a stop that failed ends the run without an acknowledged stop.
Loop(e) ==
  /\ pc[e] = "loop"
  /\ run[e].state = "stopRequested" => run[e].stopIssued
  /\ Goto(e, IF run[e].state = "stopRequested" /\ run[e].stopErr THEN "unacked" ELSE "next")
  /\ UNCHANGED <<active, smu, run, stream, item, log, watch, sig, faults, signals>>

\* No stop requested yet: read the process.
NextReads(e) ==
  /\ pc[e] = "next" /\ stream[e].stop = "no"
  /\ Goto(e, "reading")
  /\ UNCHANGED <<active, smu, run, stream, item, log, watch, sig, faults, signals>>

\* The stop terminal is taken for an error of a stream that is already stopping.
StopTerminalDropped(e) ==
  /\ \/ pc[e] = "next"
     \/ pc[e] = "reading" /\ stream[e].provider # "alive"
  /\ stream[e].stop \in {"done", "failed"}
  /\ Goto(e, "loop")
  /\ UNCHANGED <<active, smu, run, stream, item, log, watch, sig, faults, signals>>

\* The stop terminal: Next saw the request before reading, or the read ended with
\* anything but a complete frame.  A failed stop is an error, and the run is
\* already stopping: the loop goes round.
StopTerminal(e) ==
  /\ \/ pc[e] = "next"
     \/ pc[e] = "reading" /\ stream[e].provider # "alive"
  /\ stream[e].stop \in {"done", "failed"}
  /\ Goto(e, IF stream[e].stop = "done" THEN "stopped" ELSE "loop")
  /\ UNCHANGED <<active, smu, run, stream, item, log, watch, sig, faults, signals>>

\* A complete frame, read even if a stop was requested meanwhile: the first may be
\* the provider's init frame; any may be malformed or block authority.
Frame(e) ==
  /\ pc[e] = "reading" /\ stream[e].frames < MaxFrames
  /\ \E init, bad \in BOOLEAN :
       /\ init => ~stream[e].started
       /\ stream' = [stream EXCEPT ![e].frames = @ + 1, ![e].started = @ \/ init]
       /\ item' = [item EXCEPT ![e] =
                     [NoItem EXCEPT !.obs = <<IF init THEN "start" ELSE IF bad THEN "error" ELSE "event">>,
                                    !.fail = bad]]
  /\ Goto(e, "record")
  /\ UNCHANGED <<active, smu, run, log, watch, sig, faults, signals>>

\* handleProcessTerminal: the reaped child becomes the adapter's own adapter-stop,
\* after an adapter-error in the failing arms.
ProcessTerminal(e) ==
  /\ pc[e] = "reading" /\ stream[e].provider # "alive" /\ stream[e].stop = "no"
  /\ \E bad \in BOOLEAN :
       item' = [item EXCEPT ![e] =
                  [NoItem EXCEPT !.obs = IF bad THEN <<"error", "stop">> ELSE <<"stop">>,
                                 !.fail = bad, !.term = TRUE]]
  /\ Goto(e, "record")
  /\ UNCHANGED <<active, smu, run, stream, log, watch, sig, faults, signals>>

\* The process stream breaks: nothing to record.
StreamError(e) ==
  /\ pc[e] = "reading" /\ stream[e].stop = "no"
  /\ Fault("stream")
  /\ item' = [item EXCEPT ![e] = NoItem]
  /\ Goto(e, "fail")
  /\ UNCHANGED <<active, smu, run, stream, log, watch, sig, signals>>

-----------------------------------------------------------------------------
\* recordResult: the observations of one result, in order.

\* The append of a start's adapter-start and the store of its session are one
\* critical section of activeExecution.mu.
SessionBoundary(e) ==
  Operation[e] = "start" /\ item[e].obs # <<>> /\ Head(item[e].obs) = "start"

\* The boundary without its lock.
LockSessionNot(e) ==
  /\ pc[e] = "record" /\ SessionBoundary(e)
  /\ Goto(e, "append")
  /\ UNCHANGED <<active, smu, run, stream, item, log, watch, sig, faults, signals>>

LockSession(e) ==
  /\ pc[e] = "record" /\ SessionBoundary(e) /\ ~run[e].mu
  /\ run' = [run EXCEPT ![e].mu = TRUE]
  /\ Goto(e, "append")
  /\ UNCHANGED <<active, smu, stream, item, log, watch, sig, faults, signals>>

RecordEvent(e) ==
  /\ \/ pc[e] = "append"
     \/ pc[e] = "record" /\ item[e].obs # <<>> /\ ~SessionBoundary(e)
  /\ \/ /\ log' = [log EXCEPT ![e] = Append(@, Head(item[e].obs))]
        /\ item' = [item EXCEPT ![e].obs = Tail(@)]
        /\ Goto(e, IF pc[e] = "append" THEN "store" ELSE "record")
        /\ UNCHANGED <<faults, run>>
     \/ /\ Fault("append")
        /\ item' = [item EXCEPT ![e].usable = FALSE]
        /\ run' = [run EXCEPT ![e].mu = FALSE]
        /\ Goto(e, "fail")
        /\ UNCHANGED log
  /\ UNCHANGED <<active, smu, stream, watch, sig, signals>>

StoreSession(e) ==
  /\ pc[e] = "store"
  /\ \/ /\ run' = [run EXCEPT ![e].session = SessionOf(e), ![e].mu = FALSE]
        /\ Goto(e, "record")
        /\ UNCHANGED faults
     \/ /\ Fault("store")
        /\ run' = [run EXCEPT ![e].mu = FALSE]
        /\ Goto(e, "fail")
  /\ UNCHANGED <<active, smu, stream, item, log, watch, sig, signals>>

\* A start may end without a session.
FailedSessionless(e) == item[e].fail

\* consumeActive, after the result is recorded: failures first, then a stop that
\* came meanwhile, then the natural end.
Failed(e) ==
  \/ item[e].fail
  \/ item[e].term /\ Operation[e] = "start" /\ run[e].session = NoOne

Judge(e) ==
  /\ pc[e] = "record" /\ item[e].obs = <<>>
  /\ LET stopping == run[e].state = "stopRequested" IN
     Goto(e, IF Failed(e) THEN "fail"
             ELSE IF ~item[e].term THEN "loop"
             ELSE IF stopping THEN "unacked" ELSE "finish")
  /\ UNCHANGED <<active, smu, run, stream, item, log, watch, sig, faults, signals>>

-----------------------------------------------------------------------------
\* Ends of a run.

\* The state is not looked at again.
TryFinishUnchecked(e) ==
  /\ pc[e] = "finish"
  /\ run' = [run EXCEPT ![e].state = "terminal", ![e].stopIssued = TRUE,
                        ![e].result = "completed"]
  /\ Goto(e, "release")
  /\ UNCHANGED <<active, smu, stream, item, log, watch, sig, faults, signals>>

TryFinishNormally(e) ==
  /\ pc[e] = "finish"
  /\ IF run[e].state = "running"
     THEN /\ run' = [run EXCEPT ![e].state = "terminal", ![e].stopIssued = TRUE,
                                ![e].result = "completed"]
          /\ Goto(e, "release")
     ELSE Goto(e, "loop") /\ UNCHANGED run
  /\ UNCHANGED <<active, smu, stream, item, log, watch, sig, faults, signals>>

\* No suspension is recorded.
SuspendsNever(e) == FALSE

\* recordStop: an interrupted run that has events records its suspension first.
Suspends(e) == run[e].isInterrupt /\ log[e] # <<>>

RecordSuspension(e) ==
  /\ pc[e] = "stopped"
  /\ \/ /\ log' = IF Suspends(e) THEN [log EXCEPT ![e] = Append(@, "suspension")] ELSE log
        /\ Goto(e, "recordStop")
        /\ UNCHANGED faults
     \/ /\ Suspends(e) /\ Fault("append")
        /\ Goto(e, "unacked")
        /\ UNCHANGED log
  /\ UNCHANGED <<active, smu, run, stream, item, watch, sig, signals>>

RecordStop(e) ==
  /\ pc[e] = "recordStop"
  /\ \/ /\ log' = [log EXCEPT ![e] = Append(@, "stop")]
        /\ run' = [run EXCEPT ![e].state = "terminal", ![e].result = "stopped"]
        /\ Goto(e, "release")
        /\ UNCHANGED faults
     \/ /\ Fault("append")
        /\ Goto(e, "unacked")
        /\ UNCHANGED <<log, run>>
  /\ UNCHANGED <<active, smu, stream, item, watch, sig, signals>>

\* finishWithoutStopAck waits for an issued stop to return before the run ends.
FinishWithoutStopAck(e) ==
  /\ pc[e] = "unacked"
  /\ run[e].state = "stopRequested" => run[e].stopIssued
  /\ run' = [run EXCEPT ![e].state = "terminal", ![e].result = "unacked"]
  /\ Goto(e, "release")
  /\ UNCHANGED <<active, smu, stream, item, log, watch, sig, faults, signals>>

-----------------------------------------------------------------------------
\* Stopping: by the consumer that met a failure or by an interrupt, whichever moves
\* the state from running first.

RequestFailureStop(e) ==
  /\ pc[e] = "fail"
  /\ IF run[e].state = "running"
     THEN run' = [run EXCEPT ![e].state = "stopRequested"] /\ Goto(e, "stop")
     ELSE Goto(e, IF item[e].usable THEN "loop" ELSE "unacked") /\ UNCHANGED run
  /\ UNCHANGED <<active, smu, stream, item, log, watch, sig, faults, signals>>

\* c issues the stop of run e: the request is visible to Next before the process is
\* killed, and the kill before the issue is announced.
StopBegins(c, e) ==
  /\ pc[c] = "stop" /\ stream[e].stop = "no"
  /\ stream' = [stream EXCEPT ![e].stop = "requested"]
  /\ UNCHANGED <<active, smu, pc, run, item, log, watch, sig, faults, signals>>

StopEnds(c, e) ==
  /\ pc[c] = "stop" /\ stream[e].stop = "requested"
  /\ \/ /\ stream' = [stream EXCEPT ![e].stop = "done",
                                    ![e].provider = IF @ = "alive" THEN "killed" ELSE @]
        /\ UNCHANGED faults
     \/ /\ stream[e].provider = "alive" /\ Fault("kill")
        /\ stream' = [stream EXCEPT ![e].stop = "failed"]
  /\ UNCHANGED <<active, smu, pc, run, item, log, watch, sig, signals>>

StopIssued(c, e) ==
  /\ pc[c] = "stop" /\ stream[e].stop \in {"done", "failed"}
  /\ run' = [run EXCEPT ![e].stopIssued = TRUE, ![e].stopErr = stream[e].stop = "failed"]
  /\ Goto(c, IF c \in Watchers THEN "await" ELSE IF item[e].usable THEN "loop" ELSE "unacked")
  /\ UNCHANGED <<active, smu, stream, item, log, watch, sig, faults, signals>>

StopStep(c, e) == StopBegins(c, e) \/ StopEnds(c, e) \/ StopIssued(c, e)

-----------------------------------------------------------------------------
\* The signal watcher: one buffered signal, one interrupt at a time.

Signal(w) ==
  /\ signals < MaxSignals
  /\ signals' = signals + 1
  /\ sig' = [sig EXCEPT ![w] = TRUE]
  /\ UNCHANGED <<active, smu, pc, run, stream, item, log, watch, faults>>

Receive(w) ==
  /\ pc[w] = "idle" /\ sig[w]
  /\ sig' = [sig EXCEPT ![w] = FALSE]
  /\ Goto(w, "lookup")
  /\ UNCHANGED <<active, smu, run, stream, item, log, watch, faults, signals>>

\* The watcher retries only ErrInterruptNotActive; any other answer ends it.
Answer(w, answer, r, s) ==
  /\ watch' = [watch EXCEPT ![w] = [run |-> r, session |-> s, answer |-> answer]]
  /\ Goto(w, IF answer = "notActive" THEN "idle" ELSE "exited")

\* InterruptRegistered finds the run under Service.mu and keeps that lock until it
\* has the run's own.
LookupRegistered(w) ==
  /\ pc[w] = "lookup" /\ smu = NoOne
  /\ IF active = NoOne \/ (active # NoOne /\ Operation[active] = "replacement")
     THEN Answer(w, "refused", NoOne, NoOne) /\ UNCHANGED smu
     ELSE /\ smu' = w
          /\ watch' = [watch EXCEPT ![w].run = active]
          /\ Goto(w, "lockRun")
  /\ UNCHANGED <<active, run, stream, item, log, sig, faults, signals>>

Snapshot(w) ==
  /\ pc[w] = "lockRun" /\ ~run[watch[w].run].mu
  /\ smu' = NoOne
  /\ LET r == watch[w].run IN
     IF run[r].state = "preparing"
     THEN Answer(w, "notActive", NoOne, NoOne)
     ELSE /\ watch' = [watch EXCEPT ![w].session = run[r].session]
          /\ Goto(w, "strict")
  /\ UNCHANGED <<active, run, stream, item, log, sig, faults, signals>>

\* Interrupt looks the run up again ...
LookupActive(w) ==
  /\ pc[w] = "strict" /\ smu = NoOne
  /\ IF active = NoOne \/ (active # NoOne /\ run[active].state = "preparing")
     THEN Answer(w, "refused", NoOne, NoOne)
     ELSE /\ watch' = [watch EXCEPT ![w].run = active]
          /\ Goto(w, "accept")
  /\ UNCHANGED <<active, smu, run, stream, item, log, sig, faults, signals>>

\* ... and accepts only a running one with the same request and session.
Accept(w) ==
  /\ pc[w] = "accept" /\ ~run[watch[w].run].mu
  /\ LET r == watch[w].run IN
     IF /\ run[r].state = "running"
        /\ Operation[r] = Operation[w]
        /\ run[r].session = watch[w].session
     THEN /\ run' = [run EXCEPT ![r].state = "stopRequested", ![r].isInterrupt = TRUE]
          /\ Goto(w, "stop")
          /\ UNCHANGED watch
     ELSE Answer(w, "refused", NoOne, NoOne) /\ UNCHANGED run
  /\ UNCHANGED <<active, smu, stream, item, log, sig, faults, signals>>

\* Interrupt waits for the end of the run and answers with its stop, if it has one.
Await(w) ==
  /\ pc[w] = "await" /\ run[watch[w].run].state = "terminal"
  /\ LET r == watch[w].run IN
     Answer(w, IF run[r].result = "stopped" THEN "ack" ELSE "error", r, NoOne)
  /\ UNCHANGED <<active, smu, run, stream, item, log, sig, faults, signals>>

\* The command stops its watcher when Execute has returned.
WatcherStop(w) ==
  /\ pc[w] = "idle" /\ \A e \in Execs : pc[e] = Returned(e)
  /\ Goto(w, "exited")
  /\ UNCHANGED <<active, smu, run, stream, item, log, watch, sig, faults, signals>>

-----------------------------------------------------------------------------
\* What the provider or a broken pipe brings, when it pleases.
Arrives(e) == Frame(e) \/ StreamError(e) \/ ProviderExits(e)

ExecStep(e) ==
  \/ Acquire(e) \/ Refuse(e) \/ Launch(e) \/ RecordResume(e) \/ Activate(e) \/ Release(e)
  \/ Loop(e) \/ NextReads(e) \/ StopTerminal(e) \/ ProcessTerminal(e)
  \/ LockSession(e) \/ RecordEvent(e) \/ StoreSession(e) \/ Judge(e)
  \/ TryFinishNormally(e) \/ RecordSuspension(e) \/ RecordStop(e)
  \/ FinishWithoutStopAck(e) \/ RequestFailureStop(e) \/ StopStep(e, e)

WatchStep(w) ==
  \/ Receive(w) \/ LookupRegistered(w) \/ Snapshot(w) \/ LookupActive(w) \/ Accept(w)
  \/ watch[w].run # NoOne /\ StopStep(w, watch[w].run)
  \/ Await(w) \/ WatcherStop(w)

\* Every call has returned; the processes may idle.
Ended ==
  /\ \A e \in Execs : pc[e] = Returned(e)
  /\ \A w \in Watchers : pc[w] = "exited"
  /\ UNCHANGED vars

Next ==
  \/ \E e \in Execs : ExecStep(e) \/ Arrives(e)
  \/ \E w \in Watchers : Signal(w) \/ WatchStep(w)
  \/ Ended

Spec == Init /\ [][Next]_vars

\* Goroutines that can move do move.  Nothing makes a provider end by itself, write
\* a frame, or a person send a signal.
FairSpec ==
  /\ Spec
  /\ \A e \in Execs : WF_vars(pc[e] # "idle" /\ ExecStep(e))
  /\ \A w \in Watchers : WF_vars(WatchStep(w))

-----------------------------------------------------------------------------
TypeOK ==
  /\ active \in Execs \cup {NoOne}
  /\ smu \in Watchers \cup {NoOne}
  /\ smu # NoOne <=> \E w \in Watchers : pc[w] = "lockRun"
  /\ run \in [Execs -> [state : {"preparing", "running", "stopRequested", "terminal"},
                        session : Execs \cup {NoOne, "prior"}, mu : BOOLEAN,
                        isInterrupt : BOOLEAN, stopIssued : BOOLEAN, stopErr : BOOLEAN,
                        result : {"none", "completed", "stopped", "unacked"}]]
  /\ \A e \in Execs : run[e].mu <=> pc[e] \in {"append", "store"}
  /\ stream \in [Execs -> [provider : {"none", "alive", "exited", "killed"},
                           stop : {"no", "requested", "done", "failed"},
                           frames : 0 .. MaxFrames, started : BOOLEAN]]
  /\ \A e \in Execs : \A i \in 1 .. Len(log[e]) : log[e][i] \in Kinds
  /\ \A w \in Watchers : watch[w].run \in Execs \cup {NoOne}
  /\ faults \in 0 .. MaxFaults /\ signals \in 0 .. MaxSignals

\* A resume that could not record its resume event returned over its live provider.
ResumeLeaked(e) ==
  Operation[e] = "resume" /\ run[e].state = "preparing" /\ stream[e].provider = "alive"
    /\ pc[e] = "done"

\* A provider that may still act belongs to the holder of the key: start, resume and
\* replacement of one key never meet a provider another call left running, unless it
\* could not be killed or its resume event could not be recorded.
ProviderUnderKey ==
  \A e \in Execs : stream[e].provider = "alive" =>
    active = e \/ stream[e].stop = "failed" \/ ResumeLeaked(e)

\* Refuted: the failed append of a resume event leaves no provider behind.
NoResumeLeaks == \A e \in Execs : ~ResumeLeaked(e)

\* A run that accepted an interrupt does not end as completed: the consumer cannot
\* publish success over a stop another goroutine asked for.
InterruptHonoured ==
  \A e \in Execs : run[e].isInterrupt => run[e].result # "completed"

\* An interrupt that is answered with an acknowledgement stopped a run whose log ends
\* with the stop, after a suspension unless the stop is all there is.
AckMeansSuspended ==
  \A w \in Watchers : watch[w].answer = "ack" =>
    LET l == log[watch[w].run] IN
    l = <<"stop">> \/ IsSuffix(<<"suspension", "stop">>, l)

\* A completed run has one stop, the adapter's, as its last event, was not suspended,
\* and, if it is a start, has its acknowledged session.
CompletedClean ==
  \A e \in Execs : run[e].result = "completed" =>
    /\ log[e] # <<>> /\ Last(log[e]) = "stop"
    /\ \A i \in 1 .. Len(log[e]) - 1 : log[e][i] \notin {"stop", "suspension", "error"}
    /\ Operation[e] = "start" => Contains(log[e], "start")

\* Success is published only for a run nobody stopped and nothing failed.
SuccessEarned == TypeOK /\ InterruptHonoured /\ CompletedClean

\* An interrupt is accepted for a run without a session only before its adapter-start
\* is acknowledged (or when its session could not be stored, and the run is about to
\* fail): the acknowledgement and the session become visible together.
SessionBoundaryAtomic ==
  [][\A w \in Watchers :
       (pc[w] = "accept" /\ pc'[w] = "stop" /\ run[watch[w].run].session = NoOne)
         => ~Contains(log[watch[w].run], "start") \/ pc[watch[w].run] = "fail"]_vars

\* Refuted: a run has at most one adapter-stop event.
OneStop ==
  \A e \in Execs : Cardinality({i \in 1 .. Len(log[e]) : log[e][i] = "stop"}) <= 1

\* A run that is being stopped ends, and every interrupt it accepted is answered: no
\* goroutine waits for a stop, a lock or an end that does not come.  Only a provider
\* that could not be killed may keep the consumer reading.
StopEndsRun ==
  \A e \in Execs :
    run[e].state = "stopRequested" ~>
      \/ pc[e] = "done" /\ \A w \in Watchers : watch[w].run = e => pc[w] # "await"
      \/ stream[e].stop = "failed"

\* Refuted: a signal that waits while a run is active stops it, or the run ends.
SignalHeeded ==
  \A w \in Watchers, e \in Execs :
    (sig[w] /\ Operation[w] = Operation[e] /\ run[e].state = "running") ~> run[e].state # "running"
=============================================================================
