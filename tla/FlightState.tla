------------------------------ MODULE FlightState ------------------------------
(***************************************************************************)
(* The shared event sequencer of a sealed execution: FlightState of         *)
(* internal/sealedexec/mcp.go, the execution service that appends lifecycle *)
(* events through it, the calls of the scoped MCP server that append whole  *)
(* context transitions through it and install expansions, the command that  *)
(* closes the server and appends the execution result and the receipt, and  *)
(* the resume that reopens the state from the recorder's checkpoint.        *)
(*                                                                          *)
(* The recorder and the expansion ledger belong to the controller and are   *)
(* external: the recorder stores an event unless its identity, (revision,   *)
(* source sequence), is taken, and its acknowledgement may be lost.  Its    *)
(* checkpoint lists the revisions that have ended, without their receipt.   *)
(* Events are identified by their position in it, which is also their       *)
(* global sequence; digests are positions.                                  *)
(***************************************************************************)
EXTENDS Naturals, Sequences, FiniteSets, SequencesExt

CONSTANTS
  Calls,         \* request_context calls of the provider
  MaxObs,        \* how many provider observations are recorded
  MaxRev,        \* the last manifest revision an expansion may install
  MaxFaults,     \* how many appends or installs fail
  MaxRestarts,   \* how often the command is killed, or has ended, and is resumed
  Nobody         \* no holder of the mutex

ASSUME FlightAssumption ==
  /\ Nobody \notin Calls
  /\ MaxObs \in Nat /\ MaxRev \in Nat \ {0} /\ MaxFaults \in Nat /\ MaxRestarts \in Nat

VARIABLES
  rec,       \* the recorder: the stored events in global order
  ledger,    \* the revision the expansion ledger has installed
  flight,    \* FlightState.snapshot
  acks,      \* FlightState.acks: positions
  latch,     \* adapterStartLatch
  mu,        \* FlightState.mu, when held over several steps: the call
  svc,       \* where Execute and the command are
  pc,        \* where each call is
  run,       \* the terminal snapshot the run returned
  chan,      \* the buffered terminal of the MCP server
  watcher,   \* the goroutine that observes it
  observed,  \* the observer has a terminal
  faults, restarts

vars == <<rec, ledger, flight, acks, latch, mu, svc, pc, run, chan, watcher, observed,
          faults, restarts>>

InFlight == {"waiting", "locking", "request", "decide", "child", "install", "raise"}

\* A start opens revision one at source sequence one.
NewFlight == [rev |-> 1, next |-> 1, prior |-> 0, bridge |-> 0, invalidated |-> FALSE]

Init ==
  /\ rec = <<>> /\ ledger = 1
  /\ flight = NewFlight /\ acks = <<>>
  /\ latch = "open" /\ mu = Nobody
  /\ svc = "init" /\ pc = [c \in Calls |-> "idle"]
  /\ run = NewFlight
  /\ chan = FALSE /\ watcher = "watching" /\ observed = FALSE
  /\ faults = 0 /\ restarts = 0

-----------------------------------------------------------------------------
\* The append transaction.

\* The event a state builds: the bridge to the parent revision goes with the first
\* event of a revision only.
Event(state, kind, acked) ==
  [rev |-> state.rev, seq |-> state.next, prior |-> state.prior,
   bridge |-> IF state.next = 1 THEN state.bridge ELSE 0, kind |-> kind, acked |-> acked]

\* EncodeEvent: a first event names no prior event, and the parent revision if there is
\* one; a later event names its prior event.
Encodable(state) ==
  IF state.next = 1
  THEN state.prior = 0 /\ (state.bridge # 0 <=> state.rev > 1)
  ELSE state.prior # 0

Free(state) ==
  \A i \in 1 .. Len(rec) : <<rec[i].rev, rec[i].seq>> # <<state.rev, state.next>>

Appendable(state) == Encodable(state) /\ Free(state)

\* The recorder stored the event and acknowledged it: only now the state advances.
Acknowledged(kind) ==
  /\ Appendable(flight)
  /\ rec' = Append(rec, Event(flight, kind, TRUE))
  /\ acks' = Append(acks, Len(rec) + 1)
  /\ UNCHANGED faults

\* The prior event is not moved on.
AdvancedStale(state) ==
  [state EXCEPT !.next = @ + 1, !.bridge = IF state.next = 1 THEN 0 ELSE @]

Advanced(state) ==
  [state EXCEPT !.next = @ + 1, !.prior = Len(rec) + 1,
                !.bridge = IF state.next = 1 THEN 0 ELSE @]

\* The append failed: refused, lost on the way, or stored without an acknowledgement.
Fails(state, kind) ==
  \/ ~Appendable(state) /\ UNCHANGED <<rec, faults>>
  \/ /\ faults < MaxFaults /\ faults' = faults + 1
     /\ \/ UNCHANGED rec
        \/ /\ Appendable(state)
           /\ rec' = Append(rec, Event(state, kind, FALSE))

Unacknowledged(kind) == Fails(flight, kind) /\ UNCHANGED acks

-----------------------------------------------------------------------------
\* Execute: the service's own appends, each one critical section of the mutex.

\* No event resolves the latch of a run that ended.
SettleNever(next) == UNCHANGED latch

\* Execute fails a latch nobody resolved when it returns.
Settle(next) ==
  latch' = IF latch = "open" /\ next = "failed" THEN "failed" ELSE latch

\* The service appends without waiting for the context transition under way.
LifecycleUnlocked(at, kind, next) ==
  /\ svc = at
  /\ \/ /\ Acknowledged(kind)
        /\ flight' = Advanced(flight)
        /\ svc' = next /\ Settle(next)
     \/ /\ Unacknowledged(kind)
        /\ svc' = "failed" /\ Settle("failed")
        /\ UNCHANGED flight
  /\ UNCHANGED <<ledger, mu, pc, run, chan, watcher, observed, restarts>>

\* An append moves Execute on, or ends it without another event.
Lifecycle(at, kind, next) ==
  /\ svc = at /\ mu = Nobody
  /\ \/ /\ Acknowledged(kind)
        /\ flight' = Advanced(flight)
        /\ svc' = next /\ Settle(next)
     \/ /\ Unacknowledged(kind)
        /\ svc' = "failed" /\ Settle("failed")
        /\ UNCHANGED flight
  /\ UNCHANGED <<ledger, mu, pc, run, chan, watcher, observed, restarts>>

\* A resumed provider is running when its resume is recorded.
RecordResume == Lifecycle("resume", "resume", "init")

\* adapter-start resolves the latch, whatever becomes of it.
RecordAdapterStart ==
  /\ svc = "init" /\ mu = Nobody
  /\ \/ /\ Acknowledged("start")
        /\ flight' = Advanced(flight)
        /\ svc' = "run"
        /\ latch' = IF latch = "open" THEN "ok" ELSE latch
     \/ /\ Unacknowledged("start")
        /\ svc' = "failed"
        /\ latch' = IF latch = "open" THEN "failed" ELSE latch
        /\ UNCHANGED flight
  /\ UNCHANGED <<ledger, mu, pc, run, chan, watcher, observed, restarts>>

RecordObservation ==
  /\ Len(SelectSeq(rec, LAMBDA ev : ev.kind = "obs")) < MaxObs
  /\ Lifecycle("run", "obs", "run")

\* The adapter's own adapter-stop of a provider that ended well.
RecordTerminal == Lifecycle("run", "stop", "finish")

\* The provider failed or was never heard of: the latch fails with the run.
RequestFailureStop ==
  /\ svc \in {"init", "run"}
  /\ svc' = "stopping"
  /\ latch' = IF latch = "open" THEN "failed" ELSE latch
  /\ UNCHANGED <<rec, ledger, flight, acks, mu, pc, run, chan, watcher, observed, faults, restarts>>

RecordStop == Lifecycle("stopping", "stop", "failed")

\* The run returns the position it was dispatched at.
FinishAtRequest ==
  /\ svc = "finish" /\ mu = Nobody
  /\ run' = [flight EXCEPT !.rev = 1]
  /\ svc' = "close"
  /\ UNCHANGED <<rec, ledger, flight, acks, latch, mu, pc, chan, watcher, observed, faults, restarts>>

\* tryFinishNormally: the run returns the terminal snapshot of the shared state.
FinishNormally ==
  /\ svc = "finish" /\ mu = Nobody
  /\ run' = flight
  /\ svc' = "close"
  /\ UNCHANGED <<rec, ledger, flight, acks, latch, mu, pc, chan, watcher, observed, faults, restarts>>

-----------------------------------------------------------------------------
\* The command, after Execute returned without an error.

\* Close retires the terminal watcher and drains the buffered terminal ...
CloseWatcher ==
  /\ svc = "close"
  /\ watcher' = IF watcher = "watching" THEN "retired" ELSE watcher
  /\ observed' = (observed \/ chan) /\ chan' = FALSE
  /\ svc' = "shutdown"
  /\ UNCHANGED <<rec, ledger, flight, acks, latch, mu, pc, run, faults, restarts>>

\* ... and then shuts the server down, which waits for its handlers.
Shutdown ==
  /\ svc = "shutdown"
  /\ \A c \in Calls : pc[c] \notin InFlight
  /\ svc' = IF observed THEN "failed" ELSE "complete"
  /\ UNCHANGED <<rec, ledger, flight, acks, latch, mu, pc, run, chan, watcher, observed, faults, restarts>>

\* Complete appends execution-result at the position the run returned ...
RecordResult ==
  /\ svc = "complete"
  /\ \/ /\ Appendable(run)
        /\ rec' = Append(rec, Event(run, "result", TRUE))
        /\ run' = Advanced(run) /\ svc' = "receipt"
        /\ UNCHANGED faults
     \/ Fails(run, "result") /\ svc' = "failed" /\ UNCHANGED run
  /\ UNCHANGED <<ledger, flight, acks, latch, mu, pc, chan, watcher, observed, restarts>>

\* ... and the receipt right behind it.
RecordReceipt ==
  /\ svc = "receipt"
  /\ \/ /\ Appendable(run)
        /\ rec' = Append(rec, Event(run, "receipt", TRUE))
        /\ svc' = "done"
        /\ UNCHANGED faults
     \/ Fails(run, "receipt") /\ svc' = "failed"
  /\ UNCHANGED <<ledger, flight, acks, latch, mu, pc, run, chan, watcher, observed, restarts>>

-----------------------------------------------------------------------------
\* One request_context call.

\* The server listens from the launch until it is shut down.
ServerUp == svc \in {"resume", "init", "run", "stopping", "finish", "close", "failed"}

CallArrives(c) ==
  /\ pc[c] = "idle" /\ ServerUp
  /\ pc' = [pc EXCEPT ![c] = "waiting"]
  /\ UNCHANGED <<rec, ledger, flight, acks, latch, mu, svc, run, chan, watcher, observed, faults, restarts>>

\* No latch.
AwaitNothing(c) ==
  /\ pc[c] = "waiting"
  /\ pc' = [pc EXCEPT ![c] = "locking"]
  /\ UNCHANGED <<rec, ledger, flight, acks, latch, mu, svc, run, chan, watcher, observed, faults, restarts>>

\* awaitAdapterStart: released by the latch, or by the client going away.
AwaitAdapterStart(c) ==
  /\ pc[c] = "waiting" /\ latch # "open"
  /\ pc' = [pc EXCEPT ![c] = IF latch = "ok" THEN "locking" ELSE "raise"]
  /\ UNCHANGED <<rec, ledger, flight, acks, latch, mu, svc, run, chan, watcher, observed, faults, restarts>>

ClientGone(c) ==
  /\ pc[c] = "waiting"
  /\ pc' = [pc EXCEPT ![c] = "over"]
  /\ UNCHANGED <<rec, ledger, flight, acks, latch, mu, svc, run, chan, watcher, observed, faults, restarts>>

\* The transition does not take the mutex.
EnterUnlocked(c) ==
  /\ pc[c] = "locking" /\ mu = Nobody
  /\ \/ ~flight.invalidated /\ pc' = [pc EXCEPT ![c] = "request"]
     \/ pc' = [pc EXCEPT ![c] = "raise"]
  /\ UNCHANGED <<rec, ledger, flight, acks, latch, mu, svc, run, chan, watcher, observed, faults, restarts>>

\* The transition holds the mutex to its end.  An invalidated epoch, or a resolver
\* that fails, ends the call at once with a terminal.
Enter(c) ==
  /\ pc[c] = "locking" /\ mu = Nobody
  /\ \/ ~flight.invalidated /\ mu' = c /\ pc' = [pc EXCEPT ![c] = "request"]
     \/ UNCHANGED mu /\ pc' = [pc EXCEPT ![c] = "raise"]
  /\ UNCHANGED <<rec, ledger, flight, acks, latch, svc, run, chan, watcher, observed, faults, restarts>>

Leave(c, next) == mu' = Nobody /\ pc' = [pc EXCEPT ![c] = next]

Invalidate(c) ==
  /\ flight' = [flight EXCEPT !.invalidated = TRUE]
  /\ Leave(c, "raise")

\* An append of the transition: its failure invalidates the epoch.
Transition(c, at, kind, next) ==
  /\ pc[c] = at
  /\ \/ /\ Acknowledged(kind)
        /\ flight' = Advanced(flight)
        /\ IF next = "over" THEN Leave(c, next)
           ELSE pc' = [pc EXCEPT ![c] = next] /\ UNCHANGED mu
     \/ Unacknowledged(kind) /\ Invalidate(c)
  /\ UNCHANGED <<ledger, latch, svc, run, chan, watcher, observed, restarts>>

AppendContextRequest(c) == Transition(c, "request", "request", "decide")

Deny(c) == Transition(c, "decide", "decision", "over")

\* The epoch no longer verifies: recorded, then invalidated.
InvalidateEpoch(c) ==
  /\ pc[c] = "decide"
  /\ \/ /\ Acknowledged("decision")
        /\ flight' = [Advanced(flight) EXCEPT !.invalidated = TRUE]
        /\ Leave(c, "raise")
     \/ Unacknowledged("decision") /\ Invalidate(c)
  /\ UNCHANGED <<ledger, latch, svc, run, chan, watcher, observed, restarts>>

\* A port fails or the child manifest does not match.
FailTransition(c) ==
  /\ pc[c] = "decide"
  /\ Invalidate(c)
  /\ UNCHANGED <<rec, ledger, acks, latch, svc, run, chan, watcher, observed, faults, restarts>>

Approve(c) == flight.rev < MaxRev /\ Transition(c, "decide", "decision", "child")

AppendChildManifest(c) == Transition(c, "child", "child", "install")

\* The ledger has the child, the shared state stays on the parent.
InstallForgotten(c) ==
  /\ pc[c] = "install"
  /\ ledger' = flight.rev + 1
  /\ Leave(c, "over")
  /\ UNCHANGED <<rec, flight, acks, latch, svc, run, chan, watcher, observed, faults, restarts>>

\* InstallExpansion, then installExpansionLocked: source order restarts at one.
InstallExpansion(c) ==
  /\ pc[c] = "install"
  /\ \/ /\ ledger' = flight.rev + 1
        /\ flight' = [flight EXCEPT !.rev = @ + 1, !.next = 1, !.prior = 0,
                                    !.bridge = flight.prior]
        /\ Leave(c, "over")
        /\ UNCHANGED faults
     \/ /\ faults < MaxFaults /\ faults' = faults + 1
        /\ Invalidate(c)
        /\ UNCHANGED ledger
  /\ UNCHANGED <<rec, acks, latch, svc, run, chan, watcher, observed, restarts>>

\* The response is written, then its terminal is offered to the buffered channel; a
\* response that could not be written raises none.
RaiseTerminal(c) ==
  /\ pc[c] = "raise"
  /\ pc' = [pc EXCEPT ![c] = "over"]
  /\ chan' \in {TRUE, chan}
  /\ UNCHANGED <<rec, ledger, flight, acks, latch, mu, svc, run, watcher, observed, faults, restarts>>

WatcherTakes ==
  /\ watcher = "watching" /\ chan
  /\ chan' = FALSE /\ watcher' = "taken"
  /\ UNCHANGED <<rec, ledger, flight, acks, latch, mu, svc, pc, run, observed, faults, restarts>>

\* observe records the terminal and interrupts a run that is active.
Observe ==
  /\ watcher = "taken"
  /\ watcher' = "retired" /\ observed' = TRUE
  /\ svc' = IF svc \in {"init", "run", "finish"} THEN "stopping" ELSE svc
  /\ UNCHANGED <<rec, ledger, flight, acks, latch, mu, pc, run, chan, faults, restarts>>

-----------------------------------------------------------------------------
\* Restart.

\* The command is killed, or it has come to its end.
Kill ==
  /\ restarts < MaxRestarts /\ restarts' = restarts + 1
  /\ svc \notin {"down", "refused"}
  /\ svc' = "down"
  /\ mu' = Nobody /\ latch' = "failed" /\ chan' = FALSE /\ watcher' = "retired"
  /\ pc' = [c \in Calls |-> IF pc[c] = "idle" THEN "idle" ELSE "over"]
  /\ UNCHANGED <<rec, ledger, flight, acks, run, observed, faults>>

\* The events of a revision in the recorder's checkpoint, and the last of them.
Segment(r) == {i \in 1 .. Len(rec) : rec[i].rev = r /\ rec[i].kind # "receipt"}
Ends(i, r) == i \in Segment(r) /\ \A j \in Segment(r) : j <= i

\* EventChainRoot takes a chain of revisions in which all but the last, which is the
\* one the request continues, end in a child-manifest, and the last in a result.
Completed ==
  \A r \in 1 .. ledger : \E i \in Segment(r) :
    Ends(i, r) /\ rec[i].kind = IF r = ledger THEN "result" ELSE "child"

\* The root of the first revision is taken for that of the last.
RestoredFromFirst(terminal) ==
  [rev |-> ledger, next |-> rec[terminal].seq + 1, prior |-> CHOOSE i \in Segment(1) : Ends(i, 1),
   bridge |-> 0, invalidated |-> FALSE]

\* The position of the result itself.
RestoredAtTerminal(terminal) ==
  [rev |-> ledger, next |-> rec[terminal].seq, prior |-> terminal,
   bridge |-> 0, invalidated |-> FALSE]

\* planRestart and newExecutionFlightState: continue behind the terminal.
Restored(terminal) ==
  [rev |-> ledger, next |-> rec[terminal].seq + 1, prior |-> terminal,
   bridge |-> 0, invalidated |-> FALSE]

\* Nothing is acknowledged yet.  A checkpoint with a revision in progress is refused as
\* well: planRestart wants it to be the completed one, the recorder's codec its child.
Resume ==
  /\ svc = "down" /\ Completed
  /\ \E i \in Segment(ledger) : Ends(i, ledger) /\ flight' = Restored(i)
  /\ acks' = <<>>
  /\ svc' = "resume"
  /\ latch' = "open" /\ watcher' = "watching" /\ observed' = FALSE
  /\ UNCHANGED <<rec, ledger, mu, pc, run, chan, faults, restarts>>

ResumeRefused ==
  /\ svc = "down" /\ ~Completed
  /\ svc' = "refused"
  /\ UNCHANGED <<rec, ledger, flight, acks, latch, mu, pc, run, chan, watcher, observed,
                 faults, restarts>>

-----------------------------------------------------------------------------
ServiceStep ==
  \/ RecordResume \/ RecordStop \/ FinishNormally
  \/ CloseWatcher \/ Shutdown \/ RecordResult \/ RecordReceipt \/ WatcherTakes \/ Observe

\* What the provider brings about, when it pleases.
ProviderStep ==
  \/ RecordAdapterStart \/ RecordObservation \/ RecordTerminal \/ RequestFailureStop
  \/ \E c \in Calls : CallArrives(c) \/ ClientGone(c)

CallStep(c) ==
  \/ AwaitAdapterStart(c) \/ Enter(c) \/ AppendContextRequest(c) \/ Deny(c)
  \/ InvalidateEpoch(c) \/ FailTransition(c) \/ Approve(c) \/ AppendChildManifest(c)
  \/ InstallExpansion(c) \/ RaiseTerminal(c)

Next ==
  \/ ServiceStep \/ ProviderStep
  \/ \E c \in Calls : CallStep(c)
  \/ Kill \/ Resume \/ ResumeRefused

Spec == Init /\ [][Next]_vars

\* The command and the server's handlers keep running; the provider need not.
FairSpec ==
  /\ Spec
  /\ WF_vars(ServiceStep)
  /\ \A c \in Calls : SF_vars(CallStep(c))

-----------------------------------------------------------------------------
Snapshots == [rev : 1 .. MaxRev, next : Nat \ {0}, prior : Nat, bridge : Nat,
              invalidated : BOOLEAN]

TypeOK ==
  /\ \A i \in 1 .. Len(rec) :
       rec[i] \in [rev : 1 .. MaxRev, seq : Nat \ {0}, prior : 0 .. Len(rec), bridge : 0 .. Len(rec),
                  kind : {"resume", "start", "obs", "stop", "request", "decision", "child",
                          "result", "receipt"}, acked : BOOLEAN]
  /\ ledger \in 1 .. MaxRev
  /\ flight \in Snapshots /\ run \in Snapshots
  /\ \A i \in 1 .. Len(acks) : acks[i] \in 1 .. Len(rec)
  /\ latch \in {"open", "ok", "failed"}
  /\ \A c \in Calls : mu = c <=> pc[c] \in {"request", "decide", "child", "install"}
  /\ faults \in 0 .. MaxFaults /\ restarts \in 0 .. MaxRestarts

\* Every stored event continues the one before it, over restarts too: within a
\* revision it names the event at the preceding source sequence, and the first of a
\* child revision names the child-manifest that ends its parent.
Chained ==
  \A i \in 1 .. Len(rec) :
    LET ev == rec[i] IN
    IF ev.seq > 1
    THEN /\ ev.bridge = 0 /\ ev.prior \in 1 .. (i - 1)
         /\ rec[ev.prior].rev = ev.rev /\ rec[ev.prior].seq = ev.seq - 1
    ELSE /\ ev.prior = 0
         /\ IF ev.rev = 1 THEN ev.bridge = 0
            ELSE /\ ev.bridge \in 1 .. (i - 1)
                 /\ rec[ev.bridge].rev = ev.rev - 1 /\ rec[ev.bridge].kind = "child"

\* No lifecycle event gets between the events of one context transition.
TransitionsWhole ==
  \A i \in 1 .. Len(rec) :
    /\ rec[i].kind = "decision" => i > 1 /\ rec[i - 1].kind = "request"
    /\ rec[i].kind = "child" => i > 1 /\ rec[i - 1].kind = "decision"

\* A context transition follows an acknowledged adapter-start of its own run.
ContextAfterStart ==
  \A i \in 1 .. Len(rec) : rec[i].kind = "request" =>
    \E j \in 1 .. (i - 1) :
      /\ rec[j].kind = "start" /\ rec[j].acked
      /\ \A k \in j .. i : rec[k].kind # "resume"

\* The recorder holds one chain of whole transitions that begin after the start.
StreamSound == TypeOK /\ Chained /\ TransitionsWhole /\ ContextAfterStart

\* Every event is stored under the revision the ledger has installed by then.
OnInstalledRevision ==
  [][Len(rec') > Len(rec) => Last(rec').rev = ledger]_vars

\* The next event of the state continues the stream: the prior event is the one at the
\* preceding source sequence, and the last that was acknowledged; the acknowledgements
\* are contiguous in each revision.
StreamMatchesState ==
  /\ flight.next > 1 =>
       /\ flight.prior \in 1 .. Len(rec)
       /\ rec[flight.prior].rev = flight.rev /\ rec[flight.prior].seq = flight.next - 1
       /\ acks # <<>> => flight.prior = Last(acks)
  /\ \A i \in 2 .. Len(acks) :
       LET a == rec[acks[i - 1]]  b == rec[acks[i]] IN
       \/ b.rev = a.rev /\ b.seq = a.seq + 1
       \/ b.rev = a.rev + 1 /\ b.seq = 1 /\ a.kind = "child"

\* The position the execution result is built for was acknowledged to no event of the
\* run, and to no other than the context transition of a call that outlived it.
ResultPositionFree ==
  svc = "complete" => \A i \in 1 .. Len(rec) :
    rec[i].acked /\ <<rec[i].rev, rec[i].seq>> = <<run.rev, run.next>>
      => rec[i].kind \in {"request", "decision", "child"}

\* What the sequencer believes about the stream is so.
StateTrue == StreamMatchesState /\ ResultPositionFree

\* Refuted: to no event at all.
ResultPositionUnshared ==
  svc = "complete" => \A i \in 1 .. Len(rec) :
    rec[i].acked => <<rec[i].rev, rec[i].seq>> # <<run.rev, run.next>>

\* Refuted: an epoch that was invalidated gets no execution result.
NoResultAfterInvalidation == svc = "done" => ~flight.invalidated

\* Refuted: a run whose adapter-start was acknowledged can be resumed.
SessionResumable ==
  svc = "refused" => \A i \in 1 .. Len(rec) : ~(rec[i].kind = "start" /\ rec[i].acked)

\* Refuted: a resume continues at a position that is free.
ResumeContinues == svc = "resume" => Free(flight)

\* Once the run is ending, every call of its MCP server is answered: none waits for
\* an adapter-start that cannot come or for the mutex; and a command that closes the
\* server gets to its end.
CallsReleased ==
  /\ \A c \in Calls :
       (pc[c] \in InFlight /\ svc \in {"stopping", "failed", "close", "shutdown"}) ~> pc[c] = "over"
  /\ svc = "close" ~> svc \in {"done", "failed", "down"}
=============================================================================
