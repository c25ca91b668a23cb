--------------------------- MODULE SealedExecProof ---------------------------
(***************************************************************************)
(* Safety of SealedExec for any number of calls, watchers, frames, signals *)
(* and faults.  The four properties are about what one goroutine may rely  *)
(* on while another one moves: each conjunct of the invariant says, for    *)
(* one place in the code, what was settled before it was reached and that  *)
(* no interrupt can unsettle it.                                           *)
(***************************************************************************)
EXTENDS SealedExec, TLAPS

ExecPlaces == {"idle", "prepare", "resumed", "activate", "loop", "next", "reading", "record",
               "append", "store", "fail", "stop", "stopped", "recordStop", "finish", "unacked",
               "release", "done"}
WatchPlaces == {"idle", "lookup", "lockRun", "strict", "accept", "stop", "await", "exited"}

Early == {"idle", "prepare", "resumed", "activate"}
Over == {"release", "done"}

Runs == [state : {"preparing", "running", "stopRequested", "terminal"},
         session : Execs \cup {NoOne, "prior"}, mu : BOOLEAN,
         isInterrupt : BOOLEAN, stopIssued : BOOLEAN, stopErr : BOOLEAN,
         result : {"none", "completed", "stopped", "unacked"}]
Streams == [provider : {"none", "alive", "exited", "killed"},
            stop : {"no", "requested", "done", "failed"},
            frames : 0 .. MaxFrames, started : BOOLEAN]
Items == [obs : Seq(Kinds), fail : BOOLEAN, term : BOOLEAN, usable : BOOLEAN]
Watches == [run : Execs \cup {NoOne}, session : Execs \cup {NoOne, "prior"},
            answer : {"none", "notActive", "refused", "ack", "error"}]

Types ==
  /\ active \in Execs \cup {NoOne} /\ smu \in Watchers \cup {NoOne}
  /\ pc \in [Execs \cup Watchers -> ExecPlaces \cup WatchPlaces]
  /\ run \in [Execs -> Runs] /\ stream \in [Execs -> Streams] /\ item \in [Execs -> Items]
  /\ log \in [Execs -> Seq(Kinds)] /\ watch \in [Watchers -> Watches]
  /\ sig \in [Watchers -> BOOLEAN]
  /\ faults \in 0 .. MaxFaults /\ signals \in 0 .. MaxSignals

(* The key is held by exactly the call that is under way, and Service.mu by *)
(* the watcher that waits for a run's own lock.                             *)
Holder(e) == active = e <=> pc[e] \notin {"idle", "done"}
Holding(w) == smu = w <=> pc[w] = "lockRun"

(* The stage of a run: its state and its lock by the place of its consumer. *)
Stage(e) ==
  /\ pc[e] \in ExecPlaces
  /\ pc[e] \in Early => run[e].state = "preparing"
  /\ run[e].state = "preparing" => run[e].session = NoOne
  /\ pc[e] \in ExecPlaces \ (Early \cup Over) => run[e].state \in {"running", "stopRequested"}
  /\ pc[e] \in Over => run[e].state \in {"preparing", "terminal"}
  /\ pc[e] \in {"stop", "stopped", "recordStop", "unacked"} => run[e].state = "stopRequested"
  /\ run[e].mu <=> pc[e] \in {"append", "store"}
  /\ pc[e] = "resumed" => Operation[e] = "resume"
  /\ Operation[e] = "replacement" => pc[e] \in {"idle", "release"} /\ run[e].state = "preparing"
  /\ run[e].result # "none" <=> run[e].state = "terminal"
  /\ run[e].isInterrupt => run[e].state \in {"stopRequested", "terminal"}
  /\ run[e].isInterrupt => run[e].result # "completed"

(* The provider: an issued stop was tried, a stop that succeeded and a      *)
(* terminal that was read both found the process ended.                     *)
Process(e) ==
  /\ pc[e] \in {"idle", "prepare"} =>
       stream[e].provider = "none" /\ stream[e].stop = "no" /\ item[e].term = FALSE
  /\ Operation[e] = "replacement" => stream[e].provider = "none"
  /\ run[e].state \in {"preparing", "running"} => stream[e].stop = "no" /\ ~run[e].stopIssued
  /\ run[e].state = "stopRequested" /\ run[e].stopIssued => stream[e].stop \in {"done", "failed"}
  /\ stream[e].stop = "done" => stream[e].provider # "alive"
  /\ pc[e] \in {"stopped", "recordStop"} => stream[e].stop = "done"
  /\ item[e].term => stream[e].provider # "alive"
  /\ pc[e] = "finish" => item[e].term
  /\ pc[e] \in Over /\ stream[e].provider = "alive" =>
       stream[e].stop = "failed" \/ (Operation[e] = "resume" /\ run[e].state = "preparing")

Dirty == {"stop", "suspension", "error"}
Clean(l) == \A i \in 1 .. Len(l) : l[i] \notin Dirty
StopLast(l) ==
  /\ Len(l) > 0 /\ l[Len(l)] = "stop"
  /\ \A i \in 1 .. Len(l) - 1 : l[i] \notin Dirty

(* The log of a run that nobody stops, up to what is still to be recorded   *)
(* of the item at hand; a failing item leads to a stop, whatever the log.   *)
Undisturbed(e) == run[e].state \in {"preparing", "running"}
Recorded(e) ==
  /\ Undisturbed(e) /\ pc[e] \in Early \cup Over \cup {"loop", "next", "reading"} => Clean(log[e])
  /\ Undisturbed(e) /\ pc[e] \in {"record", "append", "store"} /\ ~item[e].fail =>
       \/ /\ item[e].term /\ item[e].obs = <<"stop">> /\ Clean(log[e])
       \/ /\ item[e].term /\ item[e].obs = <<>> /\ StopLast(log[e])
       \/ /\ ~item[e].term /\ item[e].obs \in {<<>>, <<"start">>, <<"event">>} /\ Clean(log[e])
  /\ Undisturbed(e) /\ pc[e] = "finish" => StopLast(log[e])
  /\ run[e].result = "completed" => StopLast(log[e])

(* The session of a start and its adapter-start.                            *)
Sessions(e) ==
  /\ pc[e] = "append" => SessionBoundary(e)
  /\ pc[e] = "store" => Operation[e] = "start" /\ Contains(log[e], "start")
  /\ pc[e] = "finish" /\ Operation[e] = "start" => run[e].session # NoOne
  /\ run[e].result = "completed" /\ Operation[e] = "start" => Contains(log[e], "start")
  /\ Operation[e] = "start" /\ run[e].session # NoOne => Contains(log[e], "start")
  /\ Operation[e] = "start" /\ Undisturbed(e) /\ run[e].session = NoOne /\ Contains(log[e], "start")
       => pc[e] \in {"store", "fail"}
  /\ Operation[e] = "resume" /\ run[e].state = "running" => run[e].session # NoOne

(* The end of an interrupted run's log.                                     *)
SuspendedStop(l) ==
  l = <<"stop">> \/ (Len(l) > 1 /\ l[Len(l)] = "stop" /\ l[Len(l) - 1] = "suspension")
Suspended(e) ==
  /\ pc[e] = "recordStop" /\ run[e].isInterrupt =>
       log[e] = <<>> \/ (Len(log[e]) > 0 /\ log[e][Len(log[e])] = "suspension")
  /\ run[e].result = "stopped" /\ run[e].isInterrupt => SuspendedStop(log[e])

(* What a watcher knows of its run.                                         *)
Watching(w) ==
  /\ pc[w] \in WatchPlaces
  /\ pc[w] \in {"lockRun", "accept", "stop", "await"} => watch[w].run \in Execs
  /\ pc[w] \in {"stop", "await"} => run[watch[w].run].isInterrupt
  /\ watch[w].answer = "ack" =>
       /\ pc[w] = "exited" /\ watch[w].run \in Execs
       /\ run[watch[w].run].result = "stopped" /\ run[watch[w].run].isInterrupt

Local(e) == Stage(e) /\ Process(e) /\ Recorded(e) /\ Sessions(e) /\ Suspended(e)

IInv ==
  /\ Types
  /\ \A e \in Execs : Holder(e) /\ Local(e)
  /\ \A w \in Watchers : Holding(w) /\ Watching(w)

USE SealedAssumption
-----------------------------------------------------------------------------
LEMMA InitIInv == Init => IInv
<1> SUFFICES ASSUME Init PROVE IInv
  OBVIOUS
<1> USE DEF Init
<1>1. Types
  BY DEF Types, ExecPlaces, WatchPlaces, Runs, Streams, Items, Watches, NewRun, NewStream, NoItem, NewWatch
<1>2. ASSUME NEW e \in Execs PROVE Holder(e) /\ Local(e)
  <2>1. Holder(e) /\ Stage(e) /\ Process(e)
    BY DEF Holder, Stage, Process, ExecPlaces, Early, Over, NewRun, NewStream, NoItem
  <2>2. Recorded(e) /\ Sessions(e) /\ Suspended(e)
    BY DEF Recorded, Sessions, Suspended, Clean, Contains, Early, Over, NewRun, NoItem
  <2>3. QED
    BY <2>1, <2>2 DEF Local
<1>3. ASSUME NEW w \in Watchers PROVE Holding(w) /\ Watching(w)
  BY DEF Holding, Watching, WatchPlaces, NewWatch
<1>4. QED
  BY <1>1, <1>2, <1>3 DEF IInv

(* What holds of a call is about its own cells.                             *)
LEMMA LocalKept ==
  ASSUME NEW e \in Execs, Local(e), pc'[e] = pc[e], run'[e] = run[e], stream'[e] = stream[e],
         item'[e] = item[e], log'[e] = log[e]
  PROVE  Local(e)'
BY DEF Local, Stage, Process, Recorded, Sessions, Suspended, Undisturbed, SessionBoundary

(* A step of e's consumer or provider, by the new contents of e's cells.    *)
Step(e, to, r, s, i, l) ==
  /\ pc' = [pc EXCEPT ![e] = to] /\ run' = [run EXCEPT ![e] = r]
  /\ stream' = [stream EXCEPT ![e] = s] /\ item' = [item EXCEPT ![e] = i]
  /\ log' = [log EXCEPT ![e] = l]
  /\ UNCHANGED <<smu, watch, sig, signals>> /\ faults' \in 0 .. MaxFaults
  /\ active' \in {active, NoOne, e}

Cells(e, to, r, s, i, l) ==
  pc'[e] = to /\ run'[e] = r /\ stream'[e] = s /\ item'[e] = i /\ log'[e] = l

LEMMA Same ==
  ASSUME NEW S, NEW T, NEW f \in [S -> T], NEW x \in S
  PROVE  f = [f EXCEPT ![x] = f[x]]
OBVIOUS

(* Cells that a step leaves alone.                                          *)
LEMMA CellsSame ==
  ASSUME Types, NEW e \in Execs
  PROVE  /\ pc = [pc EXCEPT ![e] = pc[e]]
         /\ run = [run EXCEPT ![e] = run[e]] /\ stream = [stream EXCEPT ![e] = stream[e]]
         /\ item = [item EXCEPT ![e] = item[e]] /\ log = [log EXCEPT ![e] = log[e]]
         /\ run[e] \in Runs /\ stream[e] \in Streams /\ item[e] \in Items
         /\ log[e] \in Seq(Kinds) /\ faults \in 0 .. MaxFaults
BY Same DEF Types

(* It leaves the others' cells alone; it may take nothing back that an      *)
(* interrupt relies on.                                                     *)
LEMMA StepCells ==
  ASSUME Types, NEW e \in Execs, NEW to, NEW r, NEW s, NEW i, NEW l, Step(e, to, r, s, i, l)
  PROVE  /\ Cells(e, to, r, s, i, l)
         /\ \A c \in (Execs \cup Watchers) \ {e} : pc'[c] = pc[c]
         /\ \A q \in Execs \ {e} :
              run'[q] = run[q] /\ stream'[q] = stream[q] /\ item'[q] = item[q] /\ log'[q] = log[q]
BY DEF Types, Step, Cells

LEMMA StepTypes ==
  ASSUME Types, NEW e \in Execs, NEW to \in ExecPlaces, NEW r \in Runs, NEW s \in Streams,
         NEW i \in Items, NEW l \in Seq(Kinds), Step(e, to, r, s, i, l)
  PROVE  Types'
<1>1. pc' \in [Execs \cup Watchers -> ExecPlaces \cup WatchPlaces]
  BY DEF Types, Step
<1>2. run' \in [Execs -> Runs] /\ stream' \in [Execs -> Streams] /\ item' \in [Execs -> Items]
  BY DEF Types, Step
<1>3. log' \in [Execs -> Seq(Kinds)]
  BY DEF Types, Step
<1>4. QED
  BY <1>1, <1>2, <1>3 DEF Types, Step

LEMMA ExecStepInv ==
  ASSUME IInv, NEW e \in Execs, NEW to \in ExecPlaces, NEW r \in Runs, NEW s \in Streams,
         NEW i \in Items, NEW l \in Seq(Kinds), Step(e, to, r, s, i, l),
         run[e].isInterrupt => r.isInterrupt,
         run[e].result = "stopped" => r.result = "stopped",
         Holder(e)', Local(e)',
         active' = active \/ (active = NoOne /\ active' = e) \/ (active = e /\ active' = NoOne)
  PROVE  IInv'
<1>1. Types' /\ Types
  BY StepTypes DEF IInv
<1>2. /\ Cells(e, to, r, s, i, l)
      /\ \A c \in (Execs \cup Watchers) \ {e} : pc'[c] = pc[c]
      /\ \A q \in Execs \ {e} :
           run'[q] = run[q] /\ stream'[q] = stream[q] /\ item'[q] = item[q] /\ log'[q] = log[q]
  BY <1>1, StepCells
<1>3. ASSUME NEW q \in Execs PROVE Holder(q)' /\ Local(q)'
  <2>1. CASE q = e
    BY <2>1
  <2>2. CASE q # e
    <3>1. Local(q)'
      BY <1>2, <2>2, LocalKept DEF IInv
    <3>2. Holder(q)'
      BY <1>2, <2>2 DEF IInv, Holder
    <3>3. QED
      BY <3>1, <3>2
  <2>3. QED
    BY <2>1, <2>2
<1>4. ASSUME NEW w \in Watchers PROVE Holding(w)' /\ Watching(w)'
  <2>1. w # e /\ pc'[w] = pc[w] /\ watch' = watch /\ smu' = smu
    BY <1>2 DEF Step
  <2>2. Holding(w)'
    BY <2>1 DEF IInv, Holding
  <2>3. ASSUME NEW q \in Execs
        PROVE  /\ run[q].isInterrupt => run'[q].isInterrupt
               /\ run[q].result = "stopped" => run'[q].result = "stopped"
    BY <1>2 DEF Cells
  <2>4. Watching(w)'
    BY <2>1, <2>3 DEF IInv, Watching
  <2>5. QED
    BY <2>2, <2>4
<1>5. QED
  BY <1>1, <1>3, <1>4 DEF IInv

-----------------------------------------------------------------------------
(* Steps that only move the consumer.                                       *)
LEMMA MoveInv ==
  ASSUME IInv, NEW e \in Execs, NEW to \in ExecPlaces, Goto(e, to),
         UNCHANGED <<smu, run, stream, item, log, watch, sig, faults, signals>>,
         active' = active \/ (active = NoOne /\ active' = e),
         Holder(e)', Local(e)'
  PROVE  IInv'
<1>1. Types
  BY DEF IInv
<1>2. Step(e, to, run[e], stream[e], item[e], log[e])
  BY <1>1, CellsSame DEF Step, Goto
<1>3. QED
  BY <1>1, <1>2, CellsSame, ExecStepInv

LEMMA AcquireInv ==
  ASSUME IInv, NEW e \in Execs, Acquire(e)
  PROVE  IInv'
<1>1. PICK to \in {"prepare", "release", "idle", "done"} :
        /\ Goto(e, to)
        /\ to = "prepare" => Operation[e] # "replacement"
        /\ to = "done" => Operation[e] # "replacement"
        /\ to = "idle" => Operation[e] = "replacement"
        /\ \/ to \in {"prepare", "release"} /\ active = NoOne /\ active' = e
           \/ to \in {"idle", "done"} /\ active # NoOne /\ active' = active
  BY DEF Acquire, Returned
<1>2. pc[e] = "idle" /\ pc'[e] = to /\ Local(e) /\ Holder(e)
  BY <1>1 DEF Acquire, IInv, Types, Goto
<1>3. UNCHANGED <<smu, run, stream, item, log, watch, sig, faults, signals>>
  BY DEF Acquire
<1>4. Holder(e)' /\ Stage(e)'
  BY <1>1, <1>2, <1>3 DEF Holder, Local, Stage, ExecPlaces, Early, Over
<1>5. Process(e)'
  BY <1>1, <1>2, <1>3 DEF Local, Process, Early, Over
<1>6. Recorded(e)' /\ Sessions(e)' /\ Suspended(e)'
  BY <1>1, <1>2, <1>3 DEF Local, Recorded, Sessions, Suspended, Undisturbed, SessionBoundary, Early, Over
<1>7. QED
  BY <1>1, <1>3, <1>4, <1>5, <1>6, MoveInv DEF Local, ExecPlaces

LEMMA RunningInv ==
  ASSUME IInv, NEW e \in Execs, Refuse(e) \/ Loop(e) \/ NextReads(e) \/ StopTerminal(e) \/ Judge(e)
  PROVE  IInv'
<1>1. PICK to \in {"release", "unacked", "next", "reading", "stopped", "loop", "fail", "finish"} :
        /\ Goto(e, to)
        /\ \/ pc[e] = "prepare" /\ to = "release"
           \/ pc[e] = "loop" /\ to \in {"next", "unacked"} /\ (to = "unacked" => run[e].state = "stopRequested")
           \/ pc[e] = "next" /\ to = "reading"
           \/ /\ pc[e] \in {"next", "reading"} /\ to \in {"stopped", "loop"}
              /\ stream[e].stop \in {"done", "failed"} /\ (to = "stopped" => stream[e].stop = "done")
           \/ /\ pc[e] = "record" /\ to \in {"fail", "loop", "unacked", "finish"} /\ item[e].obs = <<>>
              /\ to # "fail" => ~Failed(e)
              /\ to = "loop" => ~item[e].term
              /\ to = "finish" => item[e].term /\ run[e].state # "stopRequested"
              /\ to = "unacked" => run[e].state = "stopRequested"
  <2>1. CASE Refuse(e) \/ NextReads(e)
    BY <2>1 DEF Refuse, NextReads
  <2>2. CASE Loop(e)
    BY <2>2 DEF Loop
  <2>3. CASE StopTerminal(e)
    BY <2>3 DEF StopTerminal
  <2>4. CASE Judge(e)
    BY <2>4 DEF Judge
  <2>5. QED
    BY <2>1, <2>2, <2>3, <2>4
<1>2. pc'[e] = to /\ Local(e) /\ Holder(e)
  BY <1>1 DEF IInv, Types, Goto
<1>3. UNCHANGED <<active, smu, run, stream, item, log, watch, sig, faults, signals>>
  BY DEF Refuse, Loop, NextReads, StopTerminal, Judge
<1>4. run[e] \in Runs
  BY DEF IInv, Types
<1>5. Holder(e)' /\ Stage(e)'
  <2>1. Holder(e)'
    BY <1>1, <1>2, <1>3 DEF Holder
  <2>2. stream[e].stop \in {"done", "failed"} /\ pc[e] \in {"next", "reading"} => run[e].state = "stopRequested"
    BY <1>2 DEF Local, Process, Stage, ExecPlaces, Early, Over
  <2>3. Stage(e)'
    BY <1>1, <1>2, <1>3, <2>2 DEF Local, Stage, ExecPlaces, Early, Over
  <2>4. QED
    BY <2>1, <2>3
<1>6. Process(e)'
  BY <1>1, <1>2, <1>3 DEF Local, Process, Over
<1>7. Recorded(e)'
  <2>1. to = "loop" /\ pc[e] = "record" /\ Undisturbed(e) => Clean(log[e])
    BY <1>1, <1>2 DEF Local, Recorded, Failed
  <2>2. to = "finish" /\ Undisturbed(e) => StopLast(log[e])
    BY <1>1, <1>2 DEF Local, Recorded, Failed
  <2>3. stream[e].stop \in {"done", "failed"} => ~Undisturbed(e)
    BY <1>2 DEF Local, Process, Undisturbed
  <2>4. Undisturbed(e)' = Undisturbed(e)
    BY <1>3 DEF Undisturbed
  <2>5. QED
    BY <1>1, <1>2, <1>3, <2>1, <2>2, <2>3, <2>4 DEF Local, Recorded, Early, Over
<1>8. Sessions(e)' /\ Suspended(e)'
  BY <1>1, <1>2, <1>3 DEF Local, Sessions, Suspended, Undisturbed, Failed
<1>9. QED
  BY <1>1, <1>3, <1>5, <1>6, <1>7, <1>8, MoveInv DEF Local, ExecPlaces

-----------------------------------------------------------------------------
LEMMA LaunchInv ==
  ASSUME IInv, NEW e \in Execs, Launch(e)
  PROVE  IInv'
<1>1. Types /\ Local(e) /\ Holder(e)
  BY DEF IInv
<1>2. PICK s \in Streams :
        /\ stream' = [stream EXCEPT ![e] = s]
        /\ s.provider = "alive" /\ s.stop = stream[e].stop
  <2>1. /\ [stream[e] EXCEPT !.provider = "alive"] \in Streams
        /\ [stream[e] EXCEPT !.provider = "alive"].provider = "alive"
        /\ [stream[e] EXCEPT !.provider = "alive"].stop = stream[e].stop
    BY <1>1, CellsSame DEF Streams
  <2>2. QED
    BY <2>1 DEF Launch
<1>3. PICK to \in {"resumed", "activate"} :
        Goto(e, to) /\ (to = "resumed" => Operation[e] = "resume")
  BY DEF Launch
<1>4. Step(e, to, run[e], s, item[e], log[e]) /\ active' = active /\ pc[e] = "prepare"
  BY <1>1, <1>2, <1>3, CellsSame DEF Launch, Step, Goto
<1>5. Cells(e, to, run[e], s, item[e], log[e])
  BY <1>1, <1>4, StepCells
<1>6. Holder(e)' /\ Stage(e)'
  BY <1>1, <1>3, <1>4, <1>5 DEF Cells, Holder, Local, Stage, ExecPlaces, Early, Over
<1>7. Process(e)'
  BY <1>1, <1>2, <1>3, <1>4, <1>5 DEF Cells, Local, Process, Stage, Over, Early
<1>8. Recorded(e)' /\ Sessions(e)' /\ Suspended(e)'
  BY <1>1, <1>3, <1>4, <1>5 DEF Cells, Local, Recorded, Sessions, Suspended, Undisturbed, Early, Over
<1>9. QED
  <2>1. Local(e)'
    BY <1>1, <1>4, <1>6, <1>7, <1>8 DEF Local
  <2>2. run[e] \in Runs /\ stream[e] \in Streams /\ item[e] \in Items /\ log[e] \in Seq(Kinds)
    BY <1>1, CellsSame
  <2>3. QED
    BY <1>1, <1>4, <1>6, <1>7, <1>8, <2>1, <2>2, ExecStepInv DEF ExecPlaces

LEMMA CleanAppend ==
  ASSUME NEW l \in Seq(Kinds), NEW k \in Kinds \ Dirty, Clean(l)
  PROVE  Clean(Append(l, k)) /\ Append(l, k) \in Seq(Kinds)
BY DEF Clean

LEMMA ContainsAppend ==
  ASSUME NEW l \in Seq(Kinds), NEW k \in Kinds
  PROVE  Contains(Append(l, k), "start") <=> (Contains(l, "start") \/ k = "start")
BY DEF Contains

LEMMA StopLastAppend ==
  ASSUME NEW l \in Seq(Kinds), Clean(l)
  PROVE  StopLast(Append(l, "stop"))
BY DEF Clean, StopLast, Kinds

LEMMA RecordResumeInv ==
  ASSUME IInv, NEW e \in Execs, RecordResume(e)
  PROVE  IInv'
<1>1. Types /\ Local(e) /\ Holder(e)
  BY DEF IInv
<1>2. Operation[e] = "resume" /\ run[e].state = "preparing" /\ run[e].result = "none" /\ Clean(log[e])
  BY <1>1 DEF RecordResume, Local, Stage, Recorded, Undisturbed, Early
<1>3. PICK to \in {"release", "activate"}, l \in Seq(Kinds) :
        Goto(e, to) /\ log' = [log EXCEPT ![e] = l] /\ Clean(l) /\ faults' \in 0 .. MaxFaults
  <2>1. Append(log[e], "resume") \in Seq(Kinds) /\ Clean(Append(log[e], "resume"))
    BY <1>1, <1>2, CellsSame, CleanAppend DEF Kinds, Dirty
  <2>2. Fault("resumeAppend") => faults' \in 0 .. MaxFaults
    BY <1>1 DEF Fault, Types
  <2>3. QED
    BY <1>1, <1>2, <2>1, <2>2, CellsSame DEF RecordResume
<1>4. Step(e, to, run[e], stream[e], item[e], l) /\ active' = active /\ pc[e] = "resumed"
  BY <1>1, <1>3, CellsSame DEF RecordResume, Step, Goto
<1>5. Cells(e, to, run[e], stream[e], item[e], l)
  BY <1>1, <1>4, StepCells
<1>6. Holder(e)' /\ Stage(e)'
  BY <1>1, <1>3, <1>4, <1>5 DEF Cells, Holder, Local, Stage, ExecPlaces, Early, Over
<1>7. Process(e)'
  BY <1>1, <1>2, <1>3, <1>4, <1>5 DEF Cells, Local, Process, Over
<1>8. Recorded(e)' /\ Sessions(e)' /\ Suspended(e)'
  BY <1>2, <1>3, <1>5 DEF Cells, Recorded, Sessions, Suspended
<1>9. QED
  <2>1. to \in ExecPlaces /\ Local(e)'
    BY <1>6, <1>7, <1>8 DEF Local, ExecPlaces
  <2>2. run[e] \in Runs /\ stream[e] \in Streams /\ item[e] \in Items
    BY <1>1, CellsSame
  <2>3. QED
    BY <1>4, <1>6, <2>1, <2>2, ExecStepInv

LEMMA ActivateInv ==
  ASSUME IInv, NEW e \in Execs, Activate(e)
  PROVE  IInv'
<1>1. Types /\ Local(e) /\ Holder(e)
  BY DEF IInv
<1>2. PICK r \in Runs :
        /\ run' = [run EXCEPT ![e] = r]
        /\ r.state = "running" /\ r.mu = run[e].mu /\ r.isInterrupt = run[e].isInterrupt
        /\ r.session = IF Operation[e] = "resume" THEN "prior" ELSE NoOne
        /\ r.stopIssued = run[e].stopIssued /\ r.result = run[e].result
  <2> DEFINE x == IF Operation[e] = "resume" THEN "prior" ELSE NoOne
             r == [run[e] EXCEPT !.state = "running", !.session = x]
  <2>1. run' = [run EXCEPT ![e] = r]
    BY <1>1 DEF Activate, SessionOf, Types
  <2>2. /\ r \in Runs /\ r.state = "running" /\ r.mu = run[e].mu
        /\ r.isInterrupt = run[e].isInterrupt /\ r.session = x
        /\ r.stopIssued = run[e].stopIssued /\ r.result = run[e].result
    BY <1>1, CellsSame DEF Runs
  <2>3. QED
    BY <2>1, <2>2
<1>3. Step(e, "loop", r, stream[e], item[e], log[e]) /\ active' = active /\ pc[e] = "activate"
  BY <1>1, <1>2, CellsSame DEF Activate, Step, Goto
<1>4. Cells(e, "loop", r, stream[e], item[e], log[e])
  BY <1>1, <1>3, StepCells
<1>5. Holder(e)' /\ Stage(e)'
  BY <1>1, <1>2, <1>3, <1>4 DEF Cells, Holder, Local, Stage, ExecPlaces, Early, Over
<1>6. Process(e)'
  BY <1>1, <1>2, <1>3, <1>4 DEF Cells, Local, Process, Stage, Over, Early
<1>7. Recorded(e)' /\ Suspended(e)'
  BY <1>1, <1>2, <1>3, <1>4 DEF Cells, Local, Recorded, Stage, Suspended, Undisturbed, Early, Over
<1>8. Sessions(e)'
  <2>1. run[e].state = "preparing" /\ run[e].result = "none"
    BY <1>1, <1>3, CellsSame DEF Local, Stage, Early, Runs
  <2>2. Operation[e] = "start" => ~Contains(log[e], "start")
    BY <1>1, <1>3, <2>1 DEF Local, Stage, Sessions, Undisturbed
  <2>3. QED
    BY <1>2, <1>4, <2>1, <2>2 DEF Cells, Sessions
<1>9. QED
  <2>1. Local(e)'
    BY <1>1, <1>2, <1>3, <1>5, <1>6, <1>7, <1>8 DEF Local
  <2>2. run[e] \in Runs /\ stream[e] \in Streams /\ item[e] \in Items /\ log[e] \in Seq(Kinds)
    BY <1>1, CellsSame
  <2>3. QED
    BY <1>1, <1>2, <1>3, <1>5, <1>6, <1>7, <1>8, <2>1, <2>2, ExecStepInv DEF ExecPlaces

LEMMA ReleaseInv ==
  ASSUME IInv, NEW e \in Execs, Release(e)
  PROVE  IInv'
<1>1. Types /\ Local(e) /\ Holder(e)
  BY DEF IInv
<1>2. NoItem \in Items /\ NoItem.term = FALSE
  BY DEF NoItem, Items
<1>3. PICK to \in {"idle", "done"} :
        Goto(e, to) /\ (to = "idle" <=> Operation[e] = "replacement")
  BY DEF Release, Returned
<1>4. pc[e] = "release" /\ active = e /\ active' = NoOne
  BY <1>1 DEF Release, Holder
<1>5. Step(e, to, run[e], stream[e], NoItem, log[e])
  BY <1>1, <1>3, <1>4, CellsSame DEF Release, Step, Goto
<1>6. Cells(e, to, run[e], stream[e], NoItem, log[e])
  BY <1>1, <1>5, StepCells
<1>7. Holder(e)' /\ Stage(e)'
  BY <1>1, <1>3, <1>4, <1>6 DEF Cells, Holder, Local, Stage, ExecPlaces, Early, Over
<1>8. Process(e)'
  BY <1>1, <1>2, <1>3, <1>4, <1>6 DEF Cells, Local, Process, Stage, Over, Early
<1>9. Recorded(e)' /\ Sessions(e)' /\ Suspended(e)'
  BY <1>1, <1>3, <1>4, <1>6 DEF Cells, Local, Recorded, Sessions, Suspended, Undisturbed, Early, Over
<1>10. QED
  <2>1. Local(e)'
    BY <1>1, <1>2, <1>4, <1>5, <1>7, <1>8, <1>9 DEF Local
  <2>2. run[e] \in Runs /\ stream[e] \in Streams /\ item[e] \in Items /\ log[e] \in Seq(Kinds)
    BY <1>1, CellsSame
  <2>3. QED
    BY <1>1, <1>2, <1>4, <1>5, <1>7, <1>8, <1>9, <2>1, <2>2, ExecStepInv DEF ExecPlaces

(* The provider may end at any moment.                                      *)
LEMMA ProviderExitsInv ==
  ASSUME IInv, NEW e \in Execs, ProviderExits(e)
  PROVE  IInv'
<1>1. Types /\ Local(e) /\ Holder(e)
  BY DEF IInv
<1>2. PICK s \in Streams :
        /\ stream' = [stream EXCEPT ![e] = s]
        /\ s.provider = "exited" /\ s.stop = stream[e].stop
  <2>1. /\ [stream[e] EXCEPT !.provider = "exited"] \in Streams
        /\ [stream[e] EXCEPT !.provider = "exited"].provider = "exited"
        /\ [stream[e] EXCEPT !.provider = "exited"].stop = stream[e].stop
    BY <1>1, CellsSame DEF Streams
  <2>2. QED
    BY <2>1 DEF ProviderExits
<1>3. pc[e] \in ExecPlaces /\ stream[e].provider = "alive"
  BY <1>1 DEF Local, Stage, ProviderExits
<1>4. Step(e, pc[e], run[e], s, item[e], log[e]) /\ active' = active
  BY <1>1, <1>2, CellsSame DEF ProviderExits, Step
<1>5. Cells(e, pc[e], run[e], s, item[e], log[e])
  BY <1>1, <1>4, StepCells
<1>6. Holder(e)' /\ Stage(e)' /\ Recorded(e)' /\ Sessions(e)' /\ Suspended(e)'
  BY <1>1, <1>4, <1>5 DEF Cells, Holder, Local, Stage, Recorded, Sessions, Suspended, Undisturbed, SessionBoundary
<1>7. Process(e)'
  BY <1>1, <1>2, <1>3, <1>5 DEF Cells, Local, Process
<1>8. QED
  <2>1. Local(e)'
    BY <1>1, <1>3, <1>4, <1>6, <1>7 DEF Local
  <2>2. run[e] \in Runs /\ stream[e] \in Streams /\ item[e] \in Items /\ log[e] \in Seq(Kinds)
    BY <1>1, CellsSame
  <2>3. QED
    BY <1>1, <1>3, <1>4, <1>6, <1>7, <2>1, <2>2, ExecStepInv

(* What a read brings: an item that agrees with the process, or nothing.    *)
LEMMA ReadBrings ==
  ASSUME IInv, NEW e \in Execs, Frame(e) \/ ProcessTerminal(e) \/ StreamError(e)
  PROVE  \E to \in {"record", "fail"}, s \in Streams, i \in Items :
           /\ Step(e, to, run[e], s, i, log[e]) /\ active' = active /\ pc[e] = "reading"
           /\ s.provider = stream[e].provider /\ s.stop = stream[e].stop
           /\ i.term => s.provider # "alive"
           /\ to = "record" /\ ~i.fail =>
                \/ i.term /\ i.obs = <<"stop">>
                \/ ~i.term /\ i.obs \in {<<"start">>, <<"event">>}
<1>1. Types
  BY DEF IInv
<1>2. CASE Frame(e)
  <2>1. PICK init \in BOOLEAN, bad \in BOOLEAN :
          /\ stream' = [stream EXCEPT ![e].frames = @ + 1, ![e].started = @ \/ init]
          /\ item' = [item EXCEPT ![e] =
               [NoItem EXCEPT !.obs = <<IF init THEN "start" ELSE IF bad THEN "error" ELSE "event">>, !.fail = bad]]
    BY <1>2 DEF Frame
  <2>2. PICK s \in Streams :
          /\ stream' = [stream EXCEPT ![e] = s]
          /\ s.provider = stream[e].provider /\ s.stop = stream[e].stop
    <3> DEFINE n == stream[e].frames + 1
               b == stream[e].started \/ init
               s == [stream[e] EXCEPT !.frames = n, !.started = b]
    <3>1. stream[e].frames \in 0 .. MaxFrames /\ stream[e].frames < MaxFrames
      BY <1>1, <1>2, CellsSame DEF Frame, Streams
    <3>2. n \in 0 .. MaxFrames
      BY <3>1
    <3>3. b \in BOOLEAN
      OBVIOUS
    <3>4. stream' = [stream EXCEPT ![e] = s]
      BY <2>1, <1>1 DEF Types
    <3> HIDE DEF n, b
    <3>5. s \in Streams /\ s.provider = stream[e].provider /\ s.stop = stream[e].stop
      BY <1>1, <3>2, <3>3, CellsSame DEF Streams
    <3>6. QED
      BY <3>4, <3>5
  <2>3. PICK k \in Kinds :
          /\ item' = [item EXCEPT ![e] = [NoItem EXCEPT !.obs = <<k>>, !.fail = bad]]
          /\ ~bad => k \in {"start", "event"}
    <3>1. (IF init THEN "start" ELSE IF bad THEN "error" ELSE "event") \in Kinds
      BY DEF Kinds
    <3>2. QED
      BY <2>1, <3>1
  <2>4. PICK i \in Items :
          item' = [item EXCEPT ![e] = i] /\ i.obs = <<k>> /\ i.fail = bad /\ i.term = FALSE
    <3>1. <<k>> \in Seq(Kinds)
      OBVIOUS
    <3> DEFINE i == [NoItem EXCEPT !.obs = <<k>>, !.fail = bad]
    <3>2. i \in Items /\ i.obs = <<k>> /\ i.fail = bad /\ i.term = FALSE
      BY <3>1 DEF Items, NoItem
    <3>3. QED
      BY <2>3, <3>2
  <2>5. Step(e, "record", run[e], s, i, log[e]) /\ active' = active /\ pc[e] = "reading"
    BY <1>1, <1>2, <2>2, <2>4, CellsSame DEF Frame, Step, Goto
  <2>6. ~i.fail => i.obs \in {<<"start">>, <<"event">>}
    BY <2>3, <2>4
  <2>7. QED
    BY <2>2, <2>4, <2>5, <2>6
<1>3. CASE ProcessTerminal(e)
  <2>1. PICK bad \in BOOLEAN :
          item' = [item EXCEPT ![e] =
             [NoItem EXCEPT !.obs = IF bad THEN <<"error", "stop">> ELSE <<"stop">>, !.fail = bad, !.term = TRUE]]
    BY <1>3 DEF ProcessTerminal
  <2>2. PICK o \in Seq(Kinds) :
          /\ item' = [item EXCEPT ![e] = [NoItem EXCEPT !.obs = o, !.fail = bad, !.term = TRUE]]
          /\ ~bad => o = <<"stop">>
    <3>1. <<"error", "stop">> \in Seq(Kinds) /\ <<"stop">> \in Seq(Kinds)
      BY DEF Kinds
    <3>2. QED
      BY <2>1, <3>1
  <2>3. PICK i \in Items :
          item' = [item EXCEPT ![e] = i] /\ i.obs = o /\ i.fail = bad /\ i.term
    <3> DEFINE i == [NoItem EXCEPT !.obs = o, !.fail = bad, !.term = TRUE]
    <3>1. i \in Items /\ i.obs = o /\ i.fail = bad /\ i.term
      BY DEF Items, NoItem
    <3>2. QED
      BY <2>2, <3>1
  <2>4. Step(e, "record", run[e], stream[e], i, log[e])
    BY <1>1, <1>3, <2>3, CellsSame DEF ProcessTerminal, Step, Goto
  <2>5. QED
    BY <1>1, <1>3, <2>2, <2>3, <2>4, CellsSame DEF ProcessTerminal
<1>4. CASE StreamError(e)
  <2>1. NoItem \in Items /\ NoItem.term = FALSE
    BY DEF NoItem, Items
  <2>2. Step(e, "fail", run[e], stream[e], NoItem, log[e])
    BY <1>1, <1>4, CellsSame DEF StreamError, Step, Goto, Fault, Types
  <2>3. QED
    BY <1>1, <1>4, <2>1, <2>2, CellsSame DEF StreamError
<1>5. QED
  BY <1>2, <1>3, <1>4

LEMMA ReadInv ==
  ASSUME IInv, NEW e \in Execs, Frame(e) \/ ProcessTerminal(e) \/ StreamError(e)
  PROVE  IInv'
<1>1. Types /\ Local(e) /\ Holder(e)
  BY DEF IInv
<1>2. PICK to \in {"record", "fail"}, s \in Streams, i \in Items :
        /\ Step(e, to, run[e], s, i, log[e]) /\ active' = active /\ pc[e] = "reading"
        /\ s.provider = stream[e].provider /\ s.stop = stream[e].stop
        /\ i.term => s.provider # "alive"
        /\ to = "record" /\ ~i.fail =>
             \/ i.term /\ i.obs = <<"stop">>
             \/ ~i.term /\ i.obs \in {<<"start">>, <<"event">>}
  BY ReadBrings
<1>3. Cells(e, to, run[e], s, i, log[e])
  BY <1>1, <1>2, StepCells
<1>4. Holder(e)' /\ Stage(e)'
  BY <1>1, <1>2, <1>3 DEF Cells, Holder, Local, Stage, ExecPlaces, Early, Over
<1>5. Process(e)'
  <2>1. pc'[e] = to /\ run'[e] = run[e] /\ stream'[e] = s /\ item'[e] = i
    BY <1>3 DEF Cells
  <2>2. Process(e)
    BY <1>1 DEF Local
  <2>3. to \notin {"idle", "prepare", "stopped", "recordStop", "finish"} /\ to \notin Over
    BY DEF Over
  <2>4. QED
    BY <1>2, <2>1, <2>2, <2>3 DEF Process
<1>6. Recorded(e)'
  BY <1>1, <1>2, <1>3 DEF Cells, Local, Recorded, Undisturbed, Early, Over
<1>7. Sessions(e)' /\ Suspended(e)'
  BY <1>1, <1>2, <1>3 DEF Cells, Local, Sessions, Suspended, Undisturbed
<1>8. QED
  <2>1. Local(e)'
    BY <1>1, <1>2, <1>4, <1>5, <1>6, <1>7 DEF Local
  <2>2. run[e] \in Runs /\ stream[e] \in Streams /\ item[e] \in Items /\ log[e] \in Seq(Kinds)
    BY <1>1, CellsSame
  <2>3. QED
    BY <1>1, <1>2, <1>4, <1>5, <1>6, <1>7, <2>1, <2>2, ExecStepInv DEF ExecPlaces

-----------------------------------------------------------------------------
(* The same run but for its session and its lock.                           *)
SameRun(r, q) ==
  r.state = q.state /\ r.result = q.result /\ r.isInterrupt = q.isInterrupt /\ r.stopIssued = q.stopIssued

LEMMA WithMu ==
  ASSUME NEW r \in Runs, NEW m \in BOOLEAN
  PROVE  /\ [r EXCEPT !.mu = m] \in Runs /\ [r EXCEPT !.mu = m].mu = m
         /\ [r EXCEPT !.mu = m].session = r.session /\ SameRun([r EXCEPT !.mu = m], r)
BY DEF Runs, SameRun

LEMMA WithSession ==
  ASSUME NEW r \in Runs, NEW x \in Execs \cup {NoOne, "prior"}
  PROVE  /\ [r EXCEPT !.session = x, !.mu = FALSE] \in Runs
         /\ [r EXCEPT !.session = x, !.mu = FALSE].mu = FALSE
         /\ [r EXCEPT !.session = x, !.mu = FALSE].session = x
         /\ SameRun([r EXCEPT !.session = x, !.mu = FALSE], r)
BY DEF Runs, SameRun

LEMMA LockSessionInv ==
  ASSUME IInv, NEW e \in Execs, LockSession(e)
  PROVE  IInv'
<1>1. Types /\ Local(e) /\ Holder(e)
  BY DEF IInv
<1>2. PICK r \in Runs :
        run' = [run EXCEPT ![e] = r] /\ r.mu = TRUE /\ r.session = run[e].session /\ SameRun(r, run[e])
  BY <1>1, CellsSame, WithMu DEF LockSession
<1>3. Step(e, "append", r, stream[e], item[e], log[e]) /\ active' = active /\ pc[e] = "record"
  BY <1>1, <1>2, CellsSame DEF LockSession, Step, Goto
<1>4. Cells(e, "append", r, stream[e], item[e], log[e])
  BY <1>1, <1>3, StepCells
<1>5. Holder(e)' /\ Stage(e)'
  BY <1>1, <1>2, <1>3, <1>4 DEF Cells, SameRun, Holder, Local, Stage, ExecPlaces, Early, Over
<1>6. Process(e)'
  BY <1>1, <1>2, <1>3, <1>4 DEF Cells, SameRun, Local, Process, Over
<1>7. Recorded(e)'
  BY <1>1, <1>2, <1>3, <1>4 DEF Cells, SameRun, Local, Recorded, Undisturbed, Early, Over
<1>8. Sessions(e)' /\ Suspended(e)'
  <2>1. SessionBoundary(e)'
    BY <1>4 DEF LockSession, SessionBoundary, Cells
  <2>2. QED
    BY <1>1, <1>2, <1>3, <1>4, <2>1 DEF Cells, SameRun, Local, Sessions, Suspended, Undisturbed
<1>9. QED
  <2>1. Local(e)'
    BY <1>1, <1>2, <1>3, <1>5, <1>6, <1>7, <1>8 DEF Local
  <2>2. run[e] \in Runs /\ stream[e] \in Streams /\ item[e] \in Items /\ log[e] \in Seq(Kinds)
    BY <1>1, CellsSame
  <2>3. QED
    BY <1>1, <1>2, <1>3, <1>5, <1>6, <1>7, <1>8, <2>1, <2>2, ExecStepInv DEF ExecPlaces, SameRun

LEMMA StoreSessionInv ==
  ASSUME IInv, NEW e \in Execs, StoreSession(e)
  PROVE  IInv'
<1>1. Types /\ Local(e) /\ Holder(e)
  BY DEF IInv
<1>2. /\ pc[e] = "store" /\ Operation[e] = "start" /\ Contains(log[e], "start")
      /\ SessionOf(e) = e /\ run[e].state \in {"running", "stopRequested"}
  BY <1>1 DEF StoreSession, Local, Sessions, SessionOf, Stage, ExecPlaces, Early, Over
<1>3. PICK to \in {"record", "fail"}, r \in Runs :
        /\ Goto(e, to) /\ run' = [run EXCEPT ![e] = r] /\ r.mu = FALSE /\ SameRun(r, run[e])
        /\ to = "record" => r.session # NoOne
        /\ faults' \in 0 .. MaxFaults
  <2>1. CASE Goto(e, "record") /\ run' = [run EXCEPT ![e].session = SessionOf(e), ![e].mu = FALSE] /\ UNCHANGED faults
    <3>1. run' = [run EXCEPT ![e] = [run[e] EXCEPT !.session = e, !.mu = FALSE]]
      BY <1>1, <1>2, <2>1 DEF Types
    <3>2. e # NoOne /\ run[e] \in Runs /\ faults \in 0 .. MaxFaults
      BY <1>1, CellsSame
    <3>3. /\ [run[e] EXCEPT !.session = e, !.mu = FALSE] \in Runs
          /\ [run[e] EXCEPT !.session = e, !.mu = FALSE].mu = FALSE
          /\ [run[e] EXCEPT !.session = e, !.mu = FALSE].session = e
          /\ SameRun([run[e] EXCEPT !.session = e, !.mu = FALSE], run[e])
      BY <3>2, WithSession
    <3>4. QED
      BY <2>1, <3>1, <3>2, <3>3
  <2>2. CASE Goto(e, "fail") /\ run' = [run EXCEPT ![e].mu = FALSE] /\ Fault("store")
    <3>1. faults' \in 0 .. MaxFaults
      BY <1>1, <2>2 DEF Fault, Types
    <3>2. QED
      BY <1>1, <2>2, <3>1, CellsSame, WithMu
  <2>3. QED
    BY <2>1, <2>2 DEF StoreSession
<1>4. Step(e, to, r, stream[e], item[e], log[e]) /\ active' = active
  BY <1>1, <1>3, CellsSame DEF StoreSession, Step, Goto
<1>5. Cells(e, to, r, stream[e], item[e], log[e])
  BY <1>1, <1>4, StepCells
<1>6. Holder(e)' /\ Stage(e)'
  BY <1>1, <1>2, <1>3, <1>4, <1>5 DEF Cells, SameRun, Holder, Local, Stage, ExecPlaces, Early, Over
<1>7. Process(e)'
  BY <1>1, <1>2, <1>3, <1>5 DEF Cells, SameRun, Local, Process, Over
<1>8. Recorded(e)'
  BY <1>1, <1>2, <1>3, <1>5 DEF Cells, SameRun, Local, Recorded, Undisturbed, Early, Over
<1>9. Sessions(e)' /\ Suspended(e)'
  BY <1>1, <1>2, <1>3, <1>5 DEF Cells, SameRun, Local, Sessions, Suspended, Undisturbed
<1>10. QED
  <2>1. Local(e)'
    BY <1>1, <1>3, <1>4, <1>6, <1>7, <1>8, <1>9 DEF Local
  <2>2. run[e] \in Runs /\ stream[e] \in Streams /\ item[e] \in Items /\ log[e] \in Seq(Kinds)
    BY <1>1, CellsSame
  <2>3. QED
    BY <1>1, <1>3, <1>4, <1>6, <1>7, <1>8, <1>9, <2>1, <2>2, ExecStepInv DEF ExecPlaces, SameRun

LEMMA OneLeft ==
  ASSUME NEW k \in {"stop", "start", "event"}
  PROVE  Tail(<<k>>) = <<>> /\ Head(<<k>>) = k
OBVIOUS

LEMMA HeadTail ==
  ASSUME NEW o \in Seq(Kinds), o # <<>>
  PROVE  Head(o) \in Kinds /\ Tail(o) \in Seq(Kinds)
OBVIOUS

(* An acknowledged event moves from the item to the log.                    *)
LEMMA RecordEventAcked ==
  ASSUME IInv, NEW e \in Execs, RecordEvent(e), log' = [log EXCEPT ![e] = Append(@, Head(item[e].obs))],
         item' = [item EXCEPT ![e].obs = Tail(@)],
         Goto(e, IF pc[e] = "append" THEN "store" ELSE "record"), UNCHANGED <<faults, run>>
  PROVE  IInv'
<1>1. Types /\ Local(e) /\ Holder(e)
  BY DEF IInv
<1>2. PICK to \in {"store", "record"} :
        /\ Goto(e, to)
        /\ \/ pc[e] = "append" /\ to = "store" /\ SessionBoundary(e)
           \/ pc[e] = "record" /\ to = "record" /\ item[e].obs # <<>> /\ ~SessionBoundary(e)
  BY <1>1 DEF RecordEvent, Local, Sessions
<1>3. item[e].obs \in Seq(Kinds) /\ item[e].obs # <<>>
  BY <1>1, <1>2, CellsSame DEF Items, SessionBoundary
<1>4. PICK k \in Kinds, o \in Seq(Kinds) : k = Head(item[e].obs) /\ o = Tail(item[e].obs)
  BY <1>3, HeadTail
<1>5. PICK l \in Seq(Kinds) : l = Append(log[e], k)
  <2>1. log[e] \in Seq(Kinds)
    BY <1>1, CellsSame
  <2>2. Append(log[e], k) \in Seq(Kinds)
    BY <2>1
  <2>3. QED
    BY <2>2
<1>6. PICK i \in Items :
        /\ item' = [item EXCEPT ![e] = i] /\ i.obs = o /\ i.fail = item[e].fail /\ i.term = item[e].term
  <2> DEFINE i == [item[e] EXCEPT !.obs = o]
  <2>1. i \in Items /\ i.obs = o /\ i.fail = item[e].fail /\ i.term = item[e].term
    BY <1>1, CellsSame DEF Items
  <2>2. item' = [item EXCEPT ![e] = i]
    BY <1>1, <1>4 DEF Types
  <2>3. QED
    BY <2>1, <2>2
<1>7. Step(e, to, run[e], stream[e], i, l) /\ active' = active
  BY <1>1, <1>2, <1>4, <1>5, <1>6, CellsSame DEF RecordEvent, Step, Goto
<1>8. Cells(e, to, run[e], stream[e], i, l)
  BY <1>1, <1>7, StepCells
<1>9. Holder(e)' /\ Stage(e)'
  BY <1>1, <1>2, <1>7, <1>8 DEF Cells, Holder, Local, Stage, ExecPlaces, Early, Over
<1>10. Process(e)'
  BY <1>1, <1>2, <1>6, <1>8 DEF Cells, Local, Process, Over
<1>11. run[e].state \in {"running", "stopRequested"} /\ run[e].result = "none"
  BY <1>1, <1>2, CellsSame DEF Local, Stage, ExecPlaces, Early, Over, Runs
<1>12. Recorded(e)'
  <2>1. SUFFICES ASSUME Undisturbed(e), ~item[e].fail
                 PROVE  \/ i.term /\ i.obs = <<"stop">> /\ Clean(l)
                        \/ i.term /\ i.obs = <<>> /\ StopLast(l)
                        \/ ~i.term /\ i.obs \in {<<>>, <<"start">>, <<"event">>} /\ Clean(l)
    BY <1>2, <1>6, <1>8, <1>11 DEF Cells, Recorded, Undisturbed, Early, Over
  <2>2. \/ item[e].term /\ item[e].obs = <<"stop">> /\ Clean(log[e])
        \/ ~item[e].term /\ item[e].obs \in {<<"start">>, <<"event">>} /\ Clean(log[e])
    BY <1>1, <1>2, <1>3, <2>1 DEF Local, Recorded
  <2>3. o = <<>> /\ k \in {"stop", "start", "event"} /\ (item[e].term <=> k = "stop")
    <3>1. PICK x \in {"stop", "start", "event"} : item[e].obs = <<x>> /\ (item[e].term <=> x = "stop")
      BY <2>2
    <3>2. k = x /\ o = <<>>
      BY <1>4, <3>1, OneLeft
    <3>3. QED
      BY <3>1, <3>2
  <2>4. log[e] \in Seq(Kinds)
    BY <1>1, CellsSame
  <2>5. k = "stop" => StopLast(l)
    BY <1>5, <2>2, <2>4, StopLastAppend
  <2>6. k # "stop" => Clean(l)
    BY <1>5, <2>2, <2>3, <2>4, CleanAppend DEF Dirty
  <2>7. QED
    BY <1>6, <2>3, <2>5, <2>6
<1>13. Sessions(e)'
  <2>1. Contains(l, "start") <=> (Contains(log[e], "start") \/ k = "start")
    BY <1>1, <1>5, CellsSame, ContainsAppend
  <2>2. to = "store" => Operation[e] = "start" /\ k = "start"
    BY <1>2, <1>4 DEF SessionBoundary
  <2>3. to = "record" /\ Operation[e] = "start" => k # "start"
    BY <1>2, <1>4 DEF SessionBoundary
  <2>4. QED
    BY <1>1, <1>2, <1>8, <1>11, <2>1, <2>2, <2>3 DEF Cells, Local, Sessions, Undisturbed
<1>14. Suspended(e)'
  BY <1>2, <1>8, <1>11 DEF Cells, Suspended
<1>15. QED
  <2>1. to \in ExecPlaces /\ Local(e)'
    BY <1>9, <1>10, <1>12, <1>13, <1>14 DEF Local, ExecPlaces
  <2>2. run[e] \in Runs /\ stream[e] \in Streams
    BY <1>1, CellsSame
  <2>3. QED
    BY <1>7, <1>9, <2>1, <2>2, ExecStepInv

LEMMA RecordEventInv ==
  ASSUME IInv, NEW e \in Execs, RecordEvent(e)
  PROVE  IInv'
<1>1. Types /\ Local(e) /\ Holder(e)
  BY DEF IInv
<1>2. CASE /\ Fault("append") /\ item' = [item EXCEPT ![e].usable = FALSE]
           /\ run' = [run EXCEPT ![e].mu = FALSE] /\ Goto(e, "fail") /\ UNCHANGED log
  <2>1. PICK r \in Runs :
          run' = [run EXCEPT ![e] = r] /\ r.mu = FALSE /\ r.session = run[e].session /\ SameRun(r, run[e])
    BY <1>1, <1>2, CellsSame, WithMu
  <2>2. PICK i \in Items : item' = [item EXCEPT ![e] = i] /\ i.term = item[e].term
    <3> DEFINE i == [item[e] EXCEPT !.usable = FALSE]
    <3>1. i \in Items /\ i.term = item[e].term
      BY <1>1, CellsSame DEF Items
    <3>2. QED
      BY <1>2, <3>1
  <2>3. faults' \in 0 .. MaxFaults
    BY <1>1, <1>2 DEF Fault, Types
  <2>4. Step(e, "fail", r, stream[e], i, log[e]) /\ active' = active /\ pc[e] \in {"append", "record"}
    BY <1>1, <1>2, <2>1, <2>2, <2>3, CellsSame DEF RecordEvent, Step, Goto
  <2>5. Cells(e, "fail", r, stream[e], i, log[e])
    BY <1>1, <2>4, StepCells
  <2>6. Holder(e)' /\ Stage(e)'
    BY <1>1, <2>1, <2>4, <2>5 DEF Cells, SameRun, Holder, Local, Stage, ExecPlaces, Early, Over
  <2>7. Process(e)'
    BY <1>1, <2>1, <2>2, <2>4, <2>5 DEF Cells, SameRun, Local, Process, Over
  <2>8. Recorded(e)' /\ Sessions(e)' /\ Suspended(e)'
    BY <1>1, <2>1, <2>4, <2>5 DEF Cells, SameRun, Local, Recorded, Sessions, Suspended, Undisturbed, Early, Over
  <2>9. QED
    <3>1. Local(e)'
      BY <1>1, <2>1, <2>2, <2>4, <2>6, <2>7, <2>8 DEF Local
    <3>2. run[e] \in Runs /\ stream[e] \in Streams /\ item[e] \in Items /\ log[e] \in Seq(Kinds)
      BY <1>1, CellsSame
    <3>3. QED
      BY <1>1, <2>1, <2>2, <2>4, <2>6, <2>7, <2>8, <3>1, <3>2, ExecStepInv DEF ExecPlaces, SameRun
<1>3. QED
  BY <1>2, RecordEventAcked DEF RecordEvent

-----------------------------------------------------------------------------
(* The ends of a run.                                                       *)
LEMMA TryFinishInv ==
  ASSUME IInv, NEW e \in Execs, TryFinishNormally(e)
  PROVE  IInv'
<1>1. Types /\ Local(e) /\ Holder(e)
  BY DEF IInv
<1>2. pc[e] = "finish"
  BY DEF TryFinishNormally
<1>3. CASE run[e].state = "running"
  <2>1. PICK r \in Runs :
          /\ run' = [run EXCEPT ![e] = r]
          /\ r.state = "terminal" /\ r.result = "completed" /\ r.mu = run[e].mu
          /\ r.session = run[e].session /\ r.isInterrupt = run[e].isInterrupt
    <3> DEFINE r == [run[e] EXCEPT !.state = "terminal", !.stopIssued = TRUE, !.result = "completed"]
    <3>1. /\ r \in Runs /\ r.state = "terminal" /\ r.result = "completed" /\ r.mu = run[e].mu
          /\ r.session = run[e].session /\ r.isInterrupt = run[e].isInterrupt
      BY <1>1, CellsSame DEF Runs
    <3>2. run' = [run EXCEPT ![e] = r]
      BY <1>1, <1>3 DEF TryFinishNormally, Types
    <3>3. QED
      BY <3>1, <3>2
  <2>2. Step(e, "release", r, stream[e], item[e], log[e]) /\ active' = active
    BY <1>1, <1>3, <2>1, CellsSame DEF TryFinishNormally, Step, Goto
  <2>3. Cells(e, "release", r, stream[e], item[e], log[e])
    BY <1>1, <2>2, StepCells
  <2>4. run[e].result = "none"
    BY <1>1, <1>3, CellsSame DEF Local, Stage, Runs
  <2>5. Holder(e)' /\ Stage(e)'
    BY <1>1, <1>2, <1>3, <2>1, <2>2, <2>3 DEF Cells, Holder, Local, Stage, ExecPlaces, Early, Over
  <2>6. Process(e)'
    BY <1>1, <1>2, <2>1, <2>3 DEF Cells, Local, Process, Over
  <2>7. Recorded(e)' /\ Suspended(e)'
    BY <1>1, <1>2, <1>3, <2>1, <2>3 DEF Cells, Local, Recorded, Suspended, Undisturbed
  <2>8. Sessions(e)'
    BY <1>1, <1>2, <2>1, <2>3 DEF Cells, Local, Sessions, Undisturbed
  <2>9. QED
    <3>1. Local(e)'
      BY <1>1, <2>1, <2>2, <2>4, <2>5, <2>6, <2>7, <2>8 DEF Local
    <3>2. run[e] \in Runs /\ stream[e] \in Streams /\ item[e] \in Items /\ log[e] \in Seq(Kinds)
      BY <1>1, CellsSame
    <3>3. QED
      BY <1>1, <2>1, <2>2, <2>4, <2>5, <2>6, <2>7, <2>8, <3>1, <3>2, ExecStepInv DEF ExecPlaces
<1>4. CASE run[e].state # "running"
  <2>1. Goto(e, "loop") /\ UNCHANGED <<active, smu, run, stream, item, log, watch, sig, faults, signals>>
    BY <1>4 DEF TryFinishNormally
  <2>2. pc'[e] = "loop" /\ ~Undisturbed(e)
    BY <1>1, <1>2, <1>4, <2>1 DEF Goto, Types, Local, Stage, Undisturbed, ExecPlaces, Early, Over
  <2>3. Holder(e)' /\ Stage(e)'
    BY <1>1, <1>2, <2>1, <2>2 DEF Holder, Local, Stage, ExecPlaces, Early, Over
  <2>4. Process(e)'
    BY <1>1, <1>2, <2>1, <2>2 DEF Local, Process, Over
  <2>5. Recorded(e)' /\ Sessions(e)' /\ Suspended(e)'
    BY <1>1, <1>2, <2>1, <2>2 DEF Local, Recorded, Sessions, Suspended, Undisturbed
  <2>6. QED
    BY <1>1, <2>1, <2>3, <2>4, <2>5, MoveInv DEF Local, ExecPlaces
<1>5. QED
  BY <1>3, <1>4

LEMMA AppendKind ==
  ASSUME NEW l \in Seq(Kinds), NEW k \in Kinds
  PROVE  /\ Append(l, k) \in Seq(Kinds) /\ Len(Append(l, k)) = Len(l) + 1
         /\ Append(l, k)[Len(l) + 1] = k
         /\ \A j \in 1 .. Len(l) : Append(l, k)[j] = l[j]
OBVIOUS

LEMMA AppendFirst ==
  ASSUME NEW k \in Kinds
  PROVE  Append(<<>>, k) = <<k>>
OBVIOUS

LEMMA RecordSuspensionInv ==
  ASSUME IInv, NEW e \in Execs, RecordSuspension(e)
  PROVE  IInv'
<1>1. Types /\ Local(e) /\ Holder(e) /\ log[e] \in Seq(Kinds)
  BY CellsSame DEF IInv
<1>2. /\ pc[e] = "stopped" /\ run[e].state = "stopRequested" /\ run[e].result = "none"
      /\ stream[e].stop = "done" /\ ~Undisturbed(e)
  BY <1>1, CellsSame DEF RecordSuspension, Local, Stage, Process, Runs, Undisturbed
<1>3. PICK to \in {"recordStop", "unacked"}, l \in Seq(Kinds) :
        /\ Goto(e, to) /\ log' = [log EXCEPT ![e] = l] /\ faults' \in 0 .. MaxFaults
        /\ to = "recordStop" /\ run[e].isInterrupt => l = <<>> \/ (Len(l) > 0 /\ l[Len(l)] = "suspension")
        /\ Contains(log[e], "start") <=> Contains(l, "start")
  <2>1. /\ Append(log[e], "suspension") \in Seq(Kinds)
        /\ Len(Append(log[e], "suspension")) > 0
        /\ Append(log[e], "suspension")[Len(Append(log[e], "suspension"))] = "suspension"
        /\ Contains(Append(log[e], "suspension"), "start") <=> Contains(log[e], "start")
    BY <1>1, AppendKind, ContainsAppend DEF Kinds
  <2>2. CASE /\ log' = IF Suspends(e) THEN [log EXCEPT ![e] = Append(@, "suspension")] ELSE log
             /\ Goto(e, "recordStop") /\ UNCHANGED faults
    <3>1. CASE Suspends(e)
      BY <1>1, <2>1, <2>2, <3>1, CellsSame
    <3>2. CASE ~Suspends(e)
      BY <1>1, <2>2, <3>2, CellsSame DEF Suspends
    <3>3. QED
      BY <3>1, <3>2
  <2>3. CASE Fault("append") /\ Goto(e, "unacked") /\ UNCHANGED log
    <3>1. faults' \in 0 .. MaxFaults
      BY <1>1, <2>3 DEF Fault, Types
    <3>2. QED
      BY <1>1, <2>3, <3>1, CellsSame
  <2>4. QED
    BY <2>2, <2>3 DEF RecordSuspension
<1>4. Step(e, to, run[e], stream[e], item[e], l) /\ active' = active
  BY <1>1, <1>3, CellsSame DEF RecordSuspension, Step, Goto
<1>5. Cells(e, to, run[e], stream[e], item[e], l)
  BY <1>1, <1>4, StepCells
<1>6. Holder(e)' /\ Stage(e)'
  BY <1>1, <1>2, <1>3, <1>4, <1>5 DEF Cells, Holder, Local, Stage, ExecPlaces, Early, Over
<1>7. Process(e)'
  BY <1>1, <1>2, <1>3, <1>5 DEF Cells, Local, Process, Over
<1>8. Recorded(e)' /\ Suspended(e)'
  BY <1>2, <1>3, <1>5 DEF Cells, Recorded, Suspended, Undisturbed
<1>9. Sessions(e)'
  BY <1>1, <1>2, <1>3, <1>5 DEF Cells, Local, Sessions, Undisturbed
<1>10. QED
  <2>1. to \in ExecPlaces /\ Local(e)'
    BY <1>6, <1>7, <1>8, <1>9 DEF Local, ExecPlaces
  <2>2. run[e] \in Runs /\ stream[e] \in Streams /\ item[e] \in Items
    BY <1>1, CellsSame
  <2>3. QED
    BY <1>4, <1>6, <2>1, <2>2, ExecStepInv

LEMMA RecordStopInv ==
  ASSUME IInv, NEW e \in Execs, RecordStop(e)
  PROVE  IInv'
<1>1. Types /\ Local(e) /\ Holder(e) /\ log[e] \in Seq(Kinds) /\ run[e] \in Runs
  BY CellsSame DEF IInv
<1>2. /\ pc[e] = "recordStop" /\ run[e].state = "stopRequested" /\ run[e].result = "none"
      /\ stream[e].stop = "done" /\ ~Undisturbed(e)
  BY <1>1 DEF RecordStop, Local, Stage, Process, Runs, Undisturbed
<1>3. CASE /\ log' = [log EXCEPT ![e] = Append(@, "stop")] /\ Goto(e, "release") /\ UNCHANGED faults
           /\ run' = [run EXCEPT ![e].state = "terminal", ![e].result = "stopped"]
  <2>1. PICK r \in Runs :
          /\ run' = [run EXCEPT ![e] = r]
          /\ r.state = "terminal" /\ r.result = "stopped" /\ r.mu = run[e].mu
          /\ r.session = run[e].session /\ r.isInterrupt = run[e].isInterrupt
    <3> DEFINE r == [run[e] EXCEPT !.state = "terminal", !.result = "stopped"]
    <3>1. /\ r \in Runs /\ r.state = "terminal" /\ r.result = "stopped" /\ r.mu = run[e].mu
          /\ r.session = run[e].session /\ r.isInterrupt = run[e].isInterrupt
      BY <1>1 DEF Runs
    <3>2. run' = [run EXCEPT ![e] = r]
      BY <1>1, <1>3 DEF Types
    <3>3. QED
      BY <3>1, <3>2
  <2>2. PICK l \in Seq(Kinds) :
          /\ log' = [log EXCEPT ![e] = l] /\ Len(l) = Len(log[e]) + 1 /\ l[Len(l)] = "stop"
          /\ \A j \in 1 .. Len(log[e]) : l[j] = log[e][j]
          /\ log[e] = <<>> => l = <<"stop">>
          /\ Contains(log[e], "start") <=> Contains(l, "start")
    <3>1. "stop" \in Kinds
      BY DEF Kinds
    <3> DEFINE l == Append(log[e], "stop")
    <3>2. /\ l \in Seq(Kinds) /\ Len(l) = Len(log[e]) + 1 /\ l[Len(log[e]) + 1] = "stop"
          /\ \A j \in 1 .. Len(log[e]) : l[j] = log[e][j]
      BY <1>1, <3>1, AppendKind
    <3>3. log[e] = <<>> => l = <<"stop">>
      BY <3>1, AppendFirst
    <3>4. Contains(log[e], "start") <=> Contains(l, "start")
      BY <1>1, <3>1, ContainsAppend
    <3>5. log' = [log EXCEPT ![e] = l]
      BY <1>3
    <3> HIDE DEF l
    <3>6. QED
      BY <3>2, <3>3, <3>4, <3>5
  <2>3. Step(e, "release", r, stream[e], item[e], l) /\ active' = active
    BY <1>1, <1>3, <2>1, <2>2, CellsSame DEF RecordStop, Step, Goto
  <2>4. Cells(e, "release", r, stream[e], item[e], l)
    BY <1>1, <2>3, StepCells
  <2>5. Holder(e)' /\ Stage(e)'
    BY <1>1, <1>2, <2>1, <2>3, <2>4 DEF Cells, Holder, Local, Stage, ExecPlaces, Early, Over
  <2>6. Process(e)'
    BY <1>1, <1>2, <2>1, <2>4 DEF Cells, Local, Process, Over
  <2>7. Recorded(e)'
    BY <2>1, <2>4 DEF Cells, Recorded, Undisturbed
  <2>8. Sessions(e)'
    BY <1>1, <1>2, <2>1, <2>2, <2>4 DEF Cells, Local, Sessions, Undisturbed
  <2>9. Suspended(e)'
    <3>1. SUFFICES ASSUME run[e].isInterrupt PROVE SuspendedStop(l)
      BY <2>1, <2>4 DEF Cells, Suspended
    <3>2. log[e] = <<>> \/ (Len(log[e]) > 0 /\ log[e][Len(log[e])] = "suspension")
      BY <1>1, <1>2, <3>1 DEF Local, Suspended
    <3>3. QED
      BY <1>1, <2>2, <3>2 DEF SuspendedStop
  <2>10. QED
    <3>1. Local(e)'
      BY <1>1, <1>2, <2>1, <2>3, <2>5, <2>6, <2>7, <2>8, <2>9 DEF Local
    <3>2. run[e] \in Runs /\ stream[e] \in Streams /\ item[e] \in Items /\ log[e] \in Seq(Kinds)
      BY <1>1, CellsSame
    <3>3. QED
      BY <1>1, <1>2, <2>1, <2>3, <2>5, <2>6, <2>7, <2>8, <2>9, <3>1, <3>2, ExecStepInv DEF ExecPlaces
<1>4. CASE Fault("append") /\ Goto(e, "unacked") /\ UNCHANGED <<log, run>>
  <2>1. faults' \in 0 .. MaxFaults
    BY <1>1, <1>4 DEF Fault, Types
  <2>2. Step(e, "unacked", run[e], stream[e], item[e], log[e]) /\ active' = active
    BY <1>1, <1>4, <2>1, CellsSame DEF RecordStop, Step, Goto
  <2>3. Cells(e, "unacked", run[e], stream[e], item[e], log[e])
    BY <1>1, <2>2, StepCells
  <2>4. Holder(e)' /\ Stage(e)'
    BY <1>1, <1>2, <2>2, <2>3 DEF Cells, Holder, Local, Stage, ExecPlaces, Early, Over
  <2>5. Process(e)'
    BY <1>1, <1>2, <2>3 DEF Cells, Local, Process, Over
  <2>6. Recorded(e)' /\ Sessions(e)' /\ Suspended(e)'
    BY <1>1, <1>2, <2>3 DEF Cells, Local, Recorded, Sessions, Suspended, Undisturbed
  <2>7. QED
    <3>1. Local(e)'
      BY <1>1, <2>2, <2>4, <2>5, <2>6 DEF Local
    <3>2. run[e] \in Runs /\ stream[e] \in Streams /\ item[e] \in Items /\ log[e] \in Seq(Kinds)
      BY <1>1, CellsSame
    <3>3. QED
      BY <1>1, <2>2, <2>4, <2>5, <2>6, <3>1, <3>2, ExecStepInv DEF ExecPlaces
<1>5. QED
  BY <1>3, <1>4 DEF RecordStop

LEMMA FinishWithoutStopAckInv ==
  ASSUME IInv, NEW e \in Execs, FinishWithoutStopAck(e)
  PROVE  IInv'
<1>1. Types /\ Local(e) /\ Holder(e) /\ run[e] \in Runs
  BY CellsSame DEF IInv
<1>2. /\ pc[e] = "unacked" /\ run[e].state = "stopRequested" /\ run[e].result = "none"
      /\ stream[e].stop \in {"done", "failed"}
  BY <1>1 DEF FinishWithoutStopAck, Local, Stage, Process, Runs
<1>3. PICK r \in Runs :
        /\ run' = [run EXCEPT ![e] = r]
        /\ r.state = "terminal" /\ r.result = "unacked" /\ r.mu = run[e].mu
        /\ r.session = run[e].session /\ r.isInterrupt = run[e].isInterrupt
  <2> DEFINE r == [run[e] EXCEPT !.state = "terminal", !.result = "unacked"]
  <2>1. /\ r \in Runs /\ r.state = "terminal" /\ r.result = "unacked" /\ r.mu = run[e].mu
        /\ r.session = run[e].session /\ r.isInterrupt = run[e].isInterrupt
    BY <1>1 DEF Runs
  <2>2. run' = [run EXCEPT ![e] = r]
    BY <1>1 DEF FinishWithoutStopAck, Types
  <2>3. QED
    BY <2>1, <2>2
<1>4. Step(e, "release", r, stream[e], item[e], log[e]) /\ active' = active
  BY <1>1, <1>3, CellsSame DEF FinishWithoutStopAck, Step, Goto
<1>5. Cells(e, "release", r, stream[e], item[e], log[e])
  BY <1>1, <1>4, StepCells
<1>6. Holder(e)' /\ Stage(e)'
  BY <1>1, <1>2, <1>3, <1>4, <1>5 DEF Cells, Holder, Local, Stage, ExecPlaces, Early, Over
<1>7. Process(e)'
  BY <1>1, <1>2, <1>3, <1>5 DEF Cells, Local, Process, Over
<1>8. Recorded(e)' /\ Suspended(e)'
  BY <1>3, <1>5 DEF Cells, Recorded, Suspended, Undisturbed
<1>9. Sessions(e)'
  BY <1>1, <1>2, <1>3, <1>5 DEF Cells, Local, Sessions, Undisturbed
<1>10. QED
  <2>1. Local(e)'
    BY <1>1, <1>2, <1>3, <1>4, <1>6, <1>7, <1>8, <1>9 DEF Local
  <2>2. run[e] \in Runs /\ stream[e] \in Streams /\ item[e] \in Items /\ log[e] \in Seq(Kinds)
    BY <1>1, CellsSame
  <2>3. QED
    BY <1>1, <1>2, <1>3, <1>4, <1>6, <1>7, <1>8, <1>9, <2>1, <2>2, ExecStepInv DEF ExecPlaces

LEMMA RequestFailureStopInv ==
  ASSUME IInv, NEW e \in Execs, RequestFailureStop(e)
  PROVE  IInv'
<1>1. Types /\ Local(e) /\ Holder(e) /\ run[e] \in Runs
  BY CellsSame DEF IInv
<1>2. pc[e] = "fail" /\ run[e].state \in {"running", "stopRequested"} /\ run[e].result = "none"
  BY <1>1 DEF RequestFailureStop, Local, Stage, ExecPlaces, Early, Over, Runs
<1>3. PICK to \in {"stop", "loop", "unacked"}, r \in Runs :
        /\ Goto(e, to) /\ run' = [run EXCEPT ![e] = r]
        /\ r.state = "stopRequested" /\ r.result = "none" /\ r.mu = run[e].mu
        /\ r.session = run[e].session /\ r.isInterrupt = run[e].isInterrupt
        /\ r.stopIssued = run[e].stopIssued
  <2>1. CASE run[e].state = "running"
    <3> DEFINE r == [run[e] EXCEPT !.state = "stopRequested"]
    <3>1. /\ r \in Runs /\ r.state = "stopRequested" /\ r.result = "none" /\ r.mu = run[e].mu
          /\ r.session = run[e].session /\ r.isInterrupt = run[e].isInterrupt
          /\ r.stopIssued = run[e].stopIssued
      BY <1>1, <1>2 DEF Runs
    <3>2. run' = [run EXCEPT ![e] = r] /\ Goto(e, "stop")
      BY <1>1, <2>1 DEF RequestFailureStop, Types
    <3>3. QED
      BY <3>1, <3>2
  <2>2. CASE run[e].state # "running"
    BY <1>1, <1>2, <2>2, CellsSame DEF RequestFailureStop
  <2>3. QED
    BY <2>1, <2>2
<1>4. Step(e, to, r, stream[e], item[e], log[e]) /\ active' = active
  BY <1>1, <1>3, CellsSame DEF RequestFailureStop, Step, Goto
<1>5. Cells(e, to, r, stream[e], item[e], log[e])
  BY <1>1, <1>4, StepCells
<1>6. Holder(e)' /\ Stage(e)'
  BY <1>1, <1>2, <1>3, <1>4, <1>5 DEF Cells, Holder, Local, Stage, ExecPlaces, Early, Over
<1>7. Process(e)'
  BY <1>1, <1>2, <1>3, <1>5 DEF Cells, Local, Process, Over
<1>8. Recorded(e)' /\ Sessions(e)' /\ Suspended(e)'
  BY <1>1, <1>2, <1>3, <1>5 DEF Cells, Local, Recorded, Sessions, Suspended, Undisturbed
<1>9. QED
  <2>1. to \in ExecPlaces /\ Local(e)'
    BY <1>6, <1>7, <1>8 DEF Local, ExecPlaces
  <2>2. stream[e] \in Streams /\ item[e] \in Items /\ log[e] \in Seq(Kinds)
    BY <1>1, CellsSame
  <2>3. QED
    BY <1>2, <1>3, <1>4, <1>6, <2>1, <2>2, ExecStepInv

-----------------------------------------------------------------------------
(* Whoever issues a stop requested it before.                               *)
LEMMA StopperOf ==
  ASSUME IInv, NEW c \in Execs \cup Watchers, NEW e \in Execs, pc[c] = "stop",
         c = e \/ (c \in Watchers /\ watch[c].run = e)
  PROVE  run[e].state \in {"stopRequested", "terminal"}
BY DEF IInv, Local, Stage, Watching

(* The stop of a process, by the consumer or by a watcher.                  *)
LEMMA StopProcessInv ==
  ASSUME IInv, NEW c, NEW e \in Execs, StopBegins(c, e) \/ StopEnds(c, e),
         run[e].state \in {"stopRequested", "terminal"}
  PROVE  IInv'
<1>1. Types /\ Local(e) /\ Holder(e) /\ stream[e] \in Streams
  BY CellsSame DEF IInv
<1>2. PICK s \in Streams :
        /\ stream' = [stream EXCEPT ![e] = s]
        /\ \/ stream[e].stop = "no" /\ s.stop = "requested"
           \/ stream[e].stop = "requested" /\ s.stop \in {"done", "failed"}
        /\ s.stop = "done" => s.provider # "alive"
        /\ s.provider = "alive" => stream[e].provider = "alive"
        /\ stream[e].provider = "none" => s.provider = "none"
  <2>1. CASE StopBegins(c, e)
    <3> DEFINE s == [stream[e] EXCEPT !.stop = "requested"]
    <3>1. s \in Streams /\ s.stop = "requested" /\ s.provider = stream[e].provider
      BY <1>1 DEF Streams
    <3>2. QED
      BY <2>1, <3>1 DEF StopBegins
  <2>2. CASE stream[e].stop = "requested" /\ stream' = [stream EXCEPT ![e].stop = "failed"]
    <3> DEFINE s == [stream[e] EXCEPT !.stop = "failed"]
    <3>1. s \in Streams /\ s.stop = "failed" /\ s.provider = stream[e].provider
      BY <1>1 DEF Streams
    <3>2. QED
      BY <2>2, <3>1
  <2>3. CASE /\ stream[e].stop = "requested"
             /\ stream' = [stream EXCEPT ![e].stop = "done",
                                         ![e].provider = IF @ = "alive" THEN "killed" ELSE @]
    <3> DEFINE p == IF stream[e].provider = "alive" THEN "killed" ELSE stream[e].provider
               s == [stream[e] EXCEPT !.stop = "done", !.provider = p]
    <3>1. p \in {"none", "exited", "killed"} /\ (stream[e].provider = "none" => p = "none")
      BY <1>1 DEF Streams
    <3>2. stream' = [stream EXCEPT ![e] = s]
      BY <1>1, <2>3 DEF Types, Streams
    <3> HIDE DEF p
    <3>3. s \in Streams /\ s.stop = "done" /\ s.provider = p
      BY <1>1, <3>1 DEF Streams
    <3>4. QED
      BY <2>3, <3>1, <3>2, <3>3
  <2>4. QED
    BY <2>1, <2>2, <2>3 DEF StopEnds
<1>3. pc[e] \in ExecPlaces
  BY <1>1 DEF Local, Stage
<1>4. Step(e, pc[e], run[e], s, item[e], log[e]) /\ active' = active
  BY <1>1, <1>2, CellsSame DEF StopBegins, StopEnds, Step, Fault, Types
<1>5. Cells(e, pc[e], run[e], s, item[e], log[e])
  BY <1>1, <1>4, StepCells
<1>6. Holder(e)' /\ Stage(e)' /\ Recorded(e)' /\ Sessions(e)' /\ Suspended(e)'
  BY <1>1, <1>4, <1>5 DEF Cells, Holder, Local, Stage, Recorded, Sessions, Suspended, Undisturbed, SessionBoundary
<1>7. Process(e)'
  <2>1. pc[e] \notin {"idle", "prepare"} /\ run[e].state \in {"stopRequested", "terminal"}
    BY <1>1 DEF Local, Stage, Early
  <2>2. /\ stream[e].stop \in {"no", "requested"} /\ s.stop # "no"
        /\ run[e].state = "stopRequested" => ~run[e].stopIssued
        /\ pc[e] \notin {"stopped", "recordStop"}
        /\ item[e].term => s.provider # "alive"
        /\ pc[e] = "finish" => item[e].term
        /\ Operation[e] = "replacement" => s.provider = "none"
    BY <1>1, <1>2 DEF Local, Process
  <2>3. pc[e] \in Over => s.provider # "alive"
    BY <1>1, <1>2, <2>1, <2>2 DEF Local, Process
  <2>4. QED
    BY <1>2, <1>5, <2>1, <2>2, <2>3 DEF Cells, Process
<1>8. QED
  <2>1. Local(e)'
    BY <1>1, <1>3, <1>4, <1>6, <1>7 DEF Local
  <2>2. run[e] \in Runs /\ stream[e] \in Streams /\ item[e] \in Items /\ log[e] \in Seq(Kinds)
    BY <1>1, CellsSame
  <2>3. QED
    BY <1>1, <1>3, <1>4, <1>6, <1>7, <2>1, <2>2, ExecStepInv

(* What a stop that was issued leaves in the run.                           *)
LEMMA IssuedRun ==
  ASSUME Types, NEW e \in Execs, NEW b \in BOOLEAN,
         run' = [run EXCEPT ![e].stopIssued = TRUE, ![e].stopErr = b]
  PROVE  \E r \in Runs :
           /\ run' = [run EXCEPT ![e] = r]
           /\ r.state = run[e].state /\ r.result = run[e].result /\ r.mu = run[e].mu
           /\ r.session = run[e].session /\ r.isInterrupt = run[e].isInterrupt
<1> DEFINE r == [run[e] EXCEPT !.stopIssued = TRUE, !.stopErr = b]
<1>1. /\ r \in Runs /\ r.state = run[e].state /\ r.result = run[e].result /\ r.mu = run[e].mu
      /\ r.session = run[e].session /\ r.isInterrupt = run[e].isInterrupt
  BY CellsSame DEF Runs
<1>2. run' = [run EXCEPT ![e] = r]
  BY DEF Types
<1>3. QED
  BY <1>1, <1>2

LEMMA StopIssuedLocal ==
  ASSUME IInv, NEW e \in Execs, NEW to \in {pc[e], "loop", "unacked"}, NEW r \in Runs,
         Cells(e, to, r, stream[e], item[e], log[e]),
         to # pc[e] => pc[e] = "stop",
         stream[e].stop \in {"done", "failed"}, run[e].state \in {"stopRequested", "terminal"},
         r.state = run[e].state, r.result = run[e].result, r.mu = run[e].mu,
         r.session = run[e].session, r.isInterrupt = run[e].isInterrupt
  PROVE  Local(e)'
<1>1. Local(e) /\ ~Undisturbed(e) /\ ~Undisturbed(e)'
  BY DEF IInv, Cells, Undisturbed
<1>2. Stage(e)'
  BY <1>1 DEF Cells, Local, Stage, ExecPlaces, Early, Over
<1>3. Process(e)'
  BY <1>1 DEF Cells, Local, Process, Over
<1>4. Recorded(e)' /\ Suspended(e)'
  BY <1>1 DEF Cells, Local, Recorded, Suspended
<1>5. Sessions(e)'
  BY <1>1 DEF Cells, Local, Sessions, SessionBoundary
<1>6. QED
  BY <1>2, <1>3, <1>4, <1>5 DEF Local

LEMMA ConsumerStopIssuedInv ==
  ASSUME IInv, NEW e \in Execs, StopIssued(e, e)
  PROVE  IInv'
<1>1. Types /\ Holder(e) /\ e \notin Watchers
  BY DEF IInv
<1>2. run[e].state \in {"stopRequested", "terminal"}
  BY StopperOf DEF StopIssued
<1>3. PICK r \in Runs :
        /\ run' = [run EXCEPT ![e] = r]
        /\ r.state = run[e].state /\ r.result = run[e].result /\ r.mu = run[e].mu
        /\ r.session = run[e].session /\ r.isInterrupt = run[e].isInterrupt
  BY <1>1, IssuedRun DEF StopIssued
<1>4. PICK to \in {"loop", "unacked"} : Goto(e, to)
  BY <1>1 DEF StopIssued
<1>5. Step(e, to, r, stream[e], item[e], log[e]) /\ active' = active
  BY <1>1, <1>3, <1>4, CellsSame DEF StopIssued, Step, Goto
<1>6. Cells(e, to, r, stream[e], item[e], log[e])
  BY <1>1, <1>5, StepCells
<1>7. Local(e)'
  BY <1>2, <1>3, <1>6, StopIssuedLocal DEF StopIssued
<1>8. Holder(e)'
  BY <1>1, <1>5, <1>6 DEF Holder, Cells, StopIssued
<1>9. QED
  <2>1. Local(e)'
    BY <1>1, <1>3, <1>5, <1>7, <1>8 DEF Local
  <2>2. run[e] \in Runs /\ stream[e] \in Streams /\ item[e] \in Items /\ log[e] \in Seq(Kinds)
    BY <1>1, CellsSame
  <2>3. QED
    BY <1>1, <1>3, <1>5, <1>7, <1>8, <2>1, <2>2, ExecStepInv DEF ExecPlaces

-----------------------------------------------------------------------------
(* A step of a watcher: to a place, with a memory; it may change one run.   *)
WatcherMoves(w, to, h) ==
  /\ pc' = [pc EXCEPT ![w] = to] /\ watch' = [watch EXCEPT ![w] = h]
  /\ UNCHANGED <<active, stream, item, log, faults>>
  /\ sig' \in [Watchers -> BOOLEAN] /\ signals' = signals

LEMMA WatcherInv ==
  ASSUME IInv, NEW w \in Watchers, NEW to \in WatchPlaces, NEW h \in Watches, WatcherMoves(w, to, h),
         run' \in [Execs -> Runs],
         \A e \in Execs :
           /\ run'[e] = run[e] \/ Local(e)'
           /\ run[e].isInterrupt => run'[e].isInterrupt
           /\ run'[e].result = run[e].result,
         \/ smu' = smu /\ to # "lockRun" /\ pc[w] # "lockRun"
         \/ smu = NoOne /\ smu' = w /\ to = "lockRun"
         \/ smu = w /\ smu' = NoOne /\ to # "lockRun",
         to \in {"lockRun", "accept", "stop", "await"} => h.run \in Execs,
         to \in {"stop", "await"} => run'[h.run].isInterrupt,
         h.answer = "ack" =>
           to = "exited" /\ h.run \in Execs /\ run'[h.run].result = "stopped" /\ run'[h.run].isInterrupt
  PROVE  IInv'
<1>1. Types
  BY DEF IInv
<1>2. /\ pc'[w] = to /\ watch'[w] = h
      /\ \A c \in (Execs \cup Watchers) \ {w} : pc'[c] = pc[c]
      /\ \A v \in Watchers \ {w} : watch'[v] = watch[v]
  BY <1>1 DEF Types, WatcherMoves
<1>3. Types'
  <2>1. pc' \in [Execs \cup Watchers -> ExecPlaces \cup WatchPlaces] /\ watch' \in [Watchers -> Watches]
    BY <1>1 DEF Types, WatcherMoves
  <2>2. QED
    BY <1>1, <2>1 DEF Types, WatcherMoves
<1>4. ASSUME NEW e \in Execs PROVE Holder(e)' /\ Local(e)'
  <2>1. pc'[e] = pc[e] /\ stream'[e] = stream[e] /\ item'[e] = item[e] /\ log'[e] = log[e] /\ active' = active
    BY <1>2 DEF WatcherMoves
  <2>2. Local(e)'
    BY <2>1, LocalKept DEF IInv
  <2>3. Holder(e)'
    BY <2>1 DEF IInv, Holder
  <2>4. QED
    BY <2>2, <2>3
<1>5. Holding(w)' /\ Watching(w)'
  <2>1. Holding(w)'
    BY <1>2 DEF IInv, Holding
  <2>2. Watching(w)'
    BY <1>2 DEF Watching
  <2>3. QED
    BY <2>1, <2>2
<1>6. ASSUME NEW v \in Watchers, v # w PROVE Holding(v)' /\ Watching(v)'
  <2>1. pc'[v] = pc[v] /\ watch'[v] = watch[v] /\ Holding(v) /\ Holding(w) /\ Watching(v)
    BY <1>2, <1>6 DEF IInv
  <2>2. Holding(v)'
    BY <2>1, <1>6 DEF Holding
  <2>3. Watching(v)'
    BY <2>1 DEF Watching
  <2>4. QED
    BY <2>2, <2>3
<1>7. QED
  BY <1>3, <1>4, <1>5, <1>6 DEF IInv

LEMMA WatchSame ==
  ASSUME Types, NEW w \in Watchers
  PROVE  /\ watch = [watch EXCEPT ![w] = watch[w]] /\ watch[w] \in Watches
         /\ sig \in [Watchers -> BOOLEAN] /\ run \in [Execs -> Runs]
BY DEF Types

(* A memory of a run, and an answer.                                        *)
LEMMA WatchUpdates ==
  ASSUME NEW h \in Watches, NEW r \in Execs, NEW x \in Execs \cup {NoOne, "prior"}
  PROVE  /\ [h EXCEPT !.run = r] \in Watches /\ [h EXCEPT !.run = r].run = r
         /\ [h EXCEPT !.run = r].answer = h.answer
         /\ [h EXCEPT !.session = x] \in Watches /\ [h EXCEPT !.session = x].run = h.run
         /\ [h EXCEPT !.session = x].answer = h.answer
BY DEF Watches

LEMMA SignalInv ==
  ASSUME IInv, NEW w \in Watchers, Signal(w)
  PROVE  IInv'
<1>1. Types'
  BY DEF IInv, Types, Signal
<1>2. ASSUME NEW e \in Execs PROVE Holder(e)' /\ Local(e)'
  BY LocalKept DEF Signal, IInv, Holder
<1>3. ASSUME NEW v \in Watchers PROVE Holding(v)' /\ Watching(v)'
  BY DEF Signal, IInv, Holding, Watching
<1>4. QED
  BY <1>1, <1>2, <1>3 DEF IInv

(* A watcher that answers without a stop, or does not get to the point.     *)
LEMMA AnswersInv ==
  ASSUME IInv, NEW w \in Watchers, NEW a \in {"notActive", "refused", "error"},
         NEW r \in Execs \cup {NoOne}, Answer(w, a, r, NoOne),
         UNCHANGED <<active, run, stream, item, log, sig, faults, signals>>,
         (smu' = smu /\ pc[w] # "lockRun") \/ (smu = w /\ smu' = NoOne)
  PROVE  IInv'
<1> DEFINE h == [run |-> r, session |-> NoOne, answer |-> a]
<1>1. h \in Watches /\ h.answer = a
  BY DEF Watches
<1>2. PICK to \in {"idle", "exited"} : Goto(w, to)
  BY DEF Answer
<1>3. WatcherMoves(w, to, h)
  BY <1>2, WatchSame DEF IInv, Answer, Goto, WatcherMoves
<1>4. run' \in [Execs -> Runs] /\ run' = run
  BY DEF IInv, Types
<1> HIDE DEF h
<1>5. QED
  BY <1>1, <1>3, <1>4, WatcherInv DEF WatchPlaces

(* Steps towards the run: a watcher remembers what it saw.                  *)
LEMMA ApproachInv ==
  ASSUME IInv, NEW w \in Watchers,
         Receive(w) \/ LookupRegistered(w) \/ Snapshot(w) \/ LookupActive(w) \/ WatcherStop(w)
  PROVE  IInv'
<1>1. Types /\ Watching(w) /\ Holding(w)
  BY DEF IInv
<1>2. watch[w] \in Watches /\ run' = run /\ run \in [Execs -> Runs]
  BY <1>1, WatchSame DEF Receive, LookupRegistered, Snapshot, LookupActive, WatcherStop
<1>3. CASE \E to \in {"lookup", "exited"} :
             /\ Goto(w, to) /\ watch' = watch /\ smu' = smu /\ sig' \in [Watchers -> BOOLEAN] /\ pc[w] = "idle"
             /\ UNCHANGED <<active, stream, item, log, faults, signals>>
  <2>1. PICK to \in {"lookup", "exited"} :
          /\ Goto(w, to) /\ watch' = watch /\ smu' = smu /\ sig' \in [Watchers -> BOOLEAN] /\ pc[w] = "idle"
          /\ UNCHANGED <<active, stream, item, log, faults, signals>>
    BY <1>3
  <2>2. WatcherMoves(w, to, watch[w])
    BY <1>1, <2>1, WatchSame DEF Goto, WatcherMoves
  <2>3. watch[w].answer # "ack"
    BY <1>1, <2>1 DEF Watching
  <2>4. QED
    BY <1>2, <2>1, <2>2, <2>3, WatcherInv DEF WatchPlaces
<1>4. CASE Receive(w) \/ WatcherStop(w)
  BY <1>1, <1>3, <1>4, WatchSame DEF Receive, WatcherStop, Types
<1>5. ASSUME NEW to \in {"lockRun", "accept"}, NEW r \in Execs, Goto(w, to),
             watch' = [watch EXCEPT ![w].run = r], pc[w] \in {"lookup", "strict"},
             UNCHANGED <<active, stream, item, log, sig, faults, signals>>,
             (to = "lockRun" /\ smu = NoOne /\ smu' = w) \/ (to = "accept" /\ smu' = smu)
      PROVE  IInv'
  <2> DEFINE h == [watch[w] EXCEPT !.run = r]
  <2>1. h \in Watches /\ h.run = r /\ h.answer = watch[w].answer
    BY <1>2, WatchUpdates
  <2>2. WatcherMoves(w, to, h)
    BY <1>1, <1>5, WatchSame DEF Goto, WatcherMoves
  <2>3. watch[w].answer # "ack"
    BY <1>1, <1>5 DEF Watching
  <2> HIDE DEF h
  <2>4. QED
    BY <1>2, <1>5, <2>1, <2>2, <2>3, WatcherInv DEF WatchPlaces
<1>6. active # NoOne => active \in Execs
  BY <1>1 DEF Types
<1>7. CASE LookupRegistered(w)
  <2>1. CASE active = NoOne \/ (active # NoOne /\ Operation[active] = "replacement")
    BY <1>7, <2>1, AnswersInv DEF LookupRegistered
  <2>2. CASE ~(active = NoOne \/ (active # NoOne /\ Operation[active] = "replacement"))
    BY <1>5, <1>6, <1>7, <2>2 DEF LookupRegistered
  <2>3. QED
    BY <2>1, <2>2
<1>8. CASE LookupActive(w)
  <2>1. CASE active = NoOne \/ (active # NoOne /\ run[active].state = "preparing")
    BY <1>8, <2>1, AnswersInv DEF LookupActive
  <2>2. CASE ~(active = NoOne \/ (active # NoOne /\ run[active].state = "preparing"))
    BY <1>5, <1>6, <1>8, <2>2 DEF LookupActive
  <2>3. QED
    BY <2>1, <2>2
<1>9. CASE Snapshot(w)
  <2>1. smu = w /\ pc[w] = "lockRun" /\ watch[w].run \in Execs
    BY <1>1, <1>9 DEF Snapshot, Holding, Watching
  <2>2. CASE run[watch[w].run].state = "preparing"
    BY <1>9, <2>1, <2>2, AnswersInv DEF Snapshot
  <2>3. CASE run[watch[w].run].state # "preparing"
    <3> DEFINE x == run[watch[w].run].session
               h == [watch[w] EXCEPT !.session = x]
    <3>1. x \in Execs \cup {NoOne, "prior"}
      BY <1>2, <2>1 DEF Runs
    <3> HIDE DEF x
    <3>2. h \in Watches /\ h.answer = watch[w].answer
      BY <1>2, <2>1, <3>1, WatchUpdates
    <3>3. WatcherMoves(w, "strict", h) /\ smu' = NoOne
      BY <1>1, <1>9, <2>3, WatchSame DEF Snapshot, Goto, WatcherMoves, x
    <3>4. watch[w].answer # "ack"
      BY <1>1, <2>1 DEF Watching
    <3> HIDE DEF h
    <3>5. QED
      BY <1>2, <2>1, <3>2, <3>3, <3>4, WatcherInv DEF WatchPlaces
  <2>4. QED
    BY <2>2, <2>3
<1>10. QED
  BY <1>4, <1>7, <1>8, <1>9

(* An accepted interrupt moves a running run: nothing that was settled for  *)
(* a run nobody stops is needed any more.                                   *)
LEMMA AcceptInv ==
  ASSUME IInv, NEW w \in Watchers, Accept(w)
  PROVE  IInv'
<1>1. Types /\ Watching(w) /\ Holding(w) /\ watch[w] \in Watches
  BY WatchSame DEF IInv
<1>2. PICK e \in Execs : e = watch[w].run
  BY <1>1 DEF Accept, Watching
<1>3. CASE Answer(w, "refused", NoOne, NoOne) /\ UNCHANGED run
  BY <1>3, AnswersInv DEF Accept
<1>4. CASE /\ run[e].state = "running" /\ Goto(w, "stop") /\ UNCHANGED watch
           /\ run' = [run EXCEPT ![e].state = "stopRequested", ![e].isInterrupt = TRUE]
  <2>1. Local(e) /\ pc'[e] = pc[e] /\ run[e] \in Runs
    BY <1>1, <1>4, CellsSame DEF IInv, Goto, Types
  <2>2. PICK r \in Runs :
          /\ run' = [run EXCEPT ![e] = r]
          /\ r.state = "stopRequested" /\ r.isInterrupt /\ r.result = run[e].result
          /\ r.mu = run[e].mu /\ r.session = run[e].session /\ r.stopIssued = run[e].stopIssued
    <3> DEFINE r == [run[e] EXCEPT !.state = "stopRequested", !.isInterrupt = TRUE]
    <3>1. /\ r \in Runs /\ r.state = "stopRequested" /\ r.isInterrupt /\ r.result = run[e].result
          /\ r.mu = run[e].mu /\ r.session = run[e].session /\ r.stopIssued = run[e].stopIssued
      BY <2>1 DEF Runs
    <3>2. run' = [run EXCEPT ![e] = r]
      BY <1>1, <1>4 DEF Types
    <3>3. QED
      BY <3>1, <3>2
  <2>3. run'[e] = r /\ \A q \in Execs \ {e} : run'[q] = run[q]
    BY <1>1, <2>2 DEF Types
  <2>4. run[e].result = "none" /\ ~Undisturbed(e)'
    BY <1>4, <2>1, <2>2, <2>3 DEF Local, Stage, Runs, Undisturbed
  <2>5. UNCHANGED <<active, smu, stream, item, log, sig, faults, signals>> /\ pc[w] = "accept"
    BY DEF Accept
  <2>6. Stage(e)'
    BY <1>4, <2>1, <2>2, <2>3, <2>4 DEF Local, Stage, ExecPlaces, Early, Over
  <2>7. Process(e)'
    BY <1>4, <2>1, <2>2, <2>3, <2>5 DEF Local, Process, Stage, Over
  <2>8. Recorded(e)'
    BY <2>2, <2>3, <2>4 DEF Recorded
  <2>9. Sessions(e)'
    BY <2>1, <2>2, <2>3, <2>4, <2>5 DEF Local, Sessions, SessionBoundary
  <2>10. Suspended(e)'
    BY <1>4, <2>1, <2>2, <2>3, <2>4 DEF Local, Suspended, Stage
  <2>11. Local(e)'
    BY <2>6, <2>7, <2>8, <2>9, <2>10 DEF Local
  <2>12. WatcherMoves(w, "stop", watch[w])
    BY <1>1, <1>4, <2>5, WatchSame DEF Goto, WatcherMoves
  <2>13. watch[w].answer # "ack" /\ pc[w] # "lockRun"
    BY <1>1, <2>5 DEF Watching
  <2>14. run' \in [Execs -> Runs]
    BY <1>1, <2>2 DEF Types
  <2>15. ASSUME NEW q \in Execs
         PROVE  /\ run'[q] = run[q] \/ Local(q)'
                /\ run[q].isInterrupt => run'[q].isInterrupt
                /\ run'[q].result = run[q].result
    BY <2>2, <2>3, <2>11
  <2>16. QED
    BY <1>1, <1>2, <2>2, <2>3, <2>5, <2>12, <2>13, <2>14, <2>15, WatcherInv DEF WatchPlaces
<1>5. QED
  BY <1>2, <1>3, <1>4 DEF Accept

LEMMA WatcherStopIssuedInv ==
  ASSUME IInv, NEW w \in Watchers, NEW e \in Execs, watch[w].run = e, StopIssued(w, e)
  PROVE  IInv'
<1>1. Types /\ Watching(w) /\ watch[w] \in Watches
  BY WatchSame DEF IInv
<1>2. run[e].state \in {"stopRequested", "terminal"} /\ run[e].isInterrupt /\ pc[w] = "stop"
  BY <1>1, StopperOf DEF StopIssued, Watching
<1>3. PICK r \in Runs :
        /\ run' = [run EXCEPT ![e] = r]
        /\ r.state = run[e].state /\ r.result = run[e].result /\ r.mu = run[e].mu
        /\ r.session = run[e].session /\ r.isInterrupt = run[e].isInterrupt
  BY <1>1, IssuedRun DEF StopIssued
<1>4. Goto(w, "await") /\ UNCHANGED <<active, smu, stream, item, log, watch, sig, faults, signals>>
  BY DEF StopIssued
<1>5. run' \in [Execs -> Runs] /\ run'[e] = r /\ \A q \in Execs \ {e} : run'[q] = run[q]
  BY <1>1, <1>3 DEF Types
<1>6. Cells(e, pc[e], r, stream[e], item[e], log[e])
  BY <1>1, <1>4, <1>5 DEF Cells, Goto, Types
<1>7. Local(e)'
  BY <1>2, <1>3, <1>6, StopIssuedLocal DEF StopIssued
<1>8. WatcherMoves(w, "await", watch[w])
  BY <1>1, <1>4, WatchSame DEF Goto, WatcherMoves
<1>9. watch[w].answer # "ack"
  BY <1>1, <1>2 DEF Watching
<1>10. ASSUME NEW q \in Execs
       PROVE  /\ run'[q] = run[q] \/ Local(q)'
              /\ run[q].isInterrupt => run'[q].isInterrupt
              /\ run'[q].result = run[q].result
  BY <1>3, <1>5, <1>7
<1>11. QED
  BY <1>1, <1>2, <1>3, <1>4, <1>5, <1>8, <1>9, <1>10, WatcherInv DEF WatchPlaces

LEMMA AwaitInv ==
  ASSUME IInv, NEW w \in Watchers, Await(w)
  PROVE  IInv'
<1>1. Types /\ Watching(w) /\ pc[w] = "await"
  BY DEF IInv, Await
<1>2. PICK e \in Execs : e = watch[w].run
  BY <1>1 DEF Watching
<1>3. run[e].isInterrupt
  BY <1>1, <1>2 DEF Watching
<1>4. CASE run[e].result # "stopped"
  BY <1>1, <1>2, <1>4, AnswersInv DEF Await
<1>5. CASE run[e].result = "stopped"
  <2> DEFINE h == [run |-> e, session |-> NoOne, answer |-> "ack"]
  <2>1. h \in Watches /\ h.run = e
    BY DEF Watches
  <2>2. WatcherMoves(w, "exited", h) /\ smu' = smu /\ run' = run
    BY <1>1, <1>2, <1>5, WatchSame DEF Await, Answer, Goto, WatcherMoves
  <2>3. run \in [Execs -> Runs]
    BY <1>1 DEF Types
  <2> HIDE DEF h
  <2>4. QED
    BY <1>1, <1>3, <1>5, <2>1, <2>2, <2>3, WatcherInv DEF WatchPlaces
<1>6. QED
  BY <1>4, <1>5

-----------------------------------------------------------------------------
LEMMA NextIInv == IInv /\ [Next]_vars => IInv'
<1>1. ASSUME IInv, UNCHANGED vars PROVE IInv'
  <2> USE <1>1 DEF vars
  <2>1. Types'
    BY DEF IInv, Types
  <2>2. ASSUME NEW e \in Execs PROVE Holder(e)' /\ Local(e)'
    BY LocalKept DEF IInv, Holder
  <2>3. ASSUME NEW w \in Watchers PROVE Holding(w)' /\ Watching(w)'
    BY DEF IInv, Holding, Watching
  <2>4. QED
    BY <2>1, <2>2, <2>3 DEF IInv
<1>2. ASSUME IInv, NEW e \in Execs, ExecStep(e) PROVE IInv'
  <2>1. CASE Acquire(e) \/ Launch(e) \/ RecordResume(e) \/ Activate(e) \/ Release(e)
    BY <1>2, <2>1, AcquireInv, LaunchInv, RecordResumeInv, ActivateInv, ReleaseInv
  <2>2. CASE Refuse(e) \/ Loop(e) \/ NextReads(e) \/ StopTerminal(e) \/ Judge(e)
    BY <1>2, <2>2, RunningInv
  <2>3. CASE ProcessTerminal(e) \/ LockSession(e) \/ RecordEvent(e) \/ StoreSession(e)
    BY <1>2, <2>3, ReadInv, LockSessionInv, RecordEventInv, StoreSessionInv
  <2>4. CASE TryFinishNormally(e) \/ RecordSuspension(e) \/ RecordStop(e) \/ FinishWithoutStopAck(e)
    BY <1>2, <2>4, TryFinishInv, RecordSuspensionInv, RecordStopInv, FinishWithoutStopAckInv
  <2>5. CASE RequestFailureStop(e)
    BY <1>2, <2>5, RequestFailureStopInv
  <2>6. CASE StopStep(e, e)
    <3>1. pc[e] = "stop" /\ run[e].state \in {"stopRequested", "terminal"}
      BY <1>2, <2>6, StopperOf DEF StopStep, StopBegins, StopEnds, StopIssued
    <3>2. QED
      BY <1>2, <2>6, <3>1, StopProcessInv, ConsumerStopIssuedInv DEF StopStep
  <2>7. QED
    BY <1>2, <2>1, <2>2, <2>3, <2>4, <2>5, <2>6 DEF ExecStep
<1>3. ASSUME IInv, NEW e \in Execs, Arrives(e) PROVE IInv'
  BY <1>3, ReadInv, ProviderExitsInv DEF Arrives
<1>4. ASSUME IInv, NEW w \in Watchers, WatchStep(w) PROVE IInv'
  <2>1. CASE Receive(w) \/ LookupRegistered(w) \/ Snapshot(w) \/ LookupActive(w) \/ WatcherStop(w)
    BY <1>4, <2>1, ApproachInv
  <2>2. CASE Accept(w) \/ Await(w)
    BY <1>4, <2>2, AcceptInv, AwaitInv
  <2>3. CASE watch[w].run # NoOne /\ StopStep(w, watch[w].run)
    <3>1. PICK e \in Execs : e = watch[w].run
      BY <1>4, <2>3 DEF IInv, Types, Watches
    <3>2. pc[w] = "stop" /\ run[e].state \in {"stopRequested", "terminal"}
      BY <1>4, <2>3, <3>1, StopperOf DEF StopStep, StopBegins, StopEnds, StopIssued
    <3>3. QED
      BY <1>4, <2>3, <3>1, <3>2, StopProcessInv, WatcherStopIssuedInv DEF StopStep
  <2>4. QED
    BY <1>4, <2>1, <2>2, <2>3 DEF WatchStep
<1>5. QED
  BY <1>1, <1>2, <1>3, <1>4, SignalInv DEF Next, Ended

-----------------------------------------------------------------------------
(* The inductive invariant.                                                 *)
THEOREM Invariance == Spec => []IInv
<1>1. QED
  BY InitIInv, NextIInv, PTL DEF Spec

(* A provider that may still act belongs to the holder of the execution's   *)
(* key, but for the two that nobody can stop any more.                      *)
THEOREM KeyOverProviders == Spec => []ProviderUnderKey
<1>1. IInv => ProviderUnderKey
  <2>1. SUFFICES ASSUME IInv, NEW e \in Execs, stream[e].provider = "alive", active # e
                 PROVE  stream[e].stop = "failed" \/ ResumeLeaked(e)
    BY DEF ProviderUnderKey
  <2>2. Local(e) /\ pc[e] \in {"idle", "done"}
    BY <2>1 DEF IInv, Holder
  <2>3. QED
    BY <2>1, <2>2 DEF Local, Process, ResumeLeaked, Over
<1>2. QED
  BY <1>1, Invariance, PTL

(* Success is published only for a run nobody stopped and nothing failed,   *)
(* although an interrupt may be accepted up to the moment of publication.   *)
THEOREM EarnedSuccess == Spec => []SuccessEarned
<1>1. IInv => TypeOK
  <2>1. SUFFICES ASSUME IInv PROVE TypeOK
    OBVIOUS
  <2>2. Types
    BY <2>1 DEF IInv
  <2>3. smu # NoOne <=> \E w \in Watchers : pc[w] = "lockRun"
    <3>1. \A w \in Watchers : smu = w <=> pc[w] = "lockRun"
      BY <2>1 DEF IInv, Holding
    <3>2. smu \in Watchers \cup {NoOne} /\ NoOne \notin Watchers
      BY <2>2 DEF Types
    <3>3. QED
      BY <3>1, <3>2
  <2>4. \A e \in Execs : run[e].mu <=> pc[e] \in {"append", "store"}
    BY <2>1 DEF IInv, Local, Stage
  <2>5. \A e \in Execs : \A i \in 1 .. Len(log[e]) : log[e][i] \in Kinds
    BY <2>2 DEF Types
  <2>6. \A w \in Watchers : watch[w].run \in Execs \cup {NoOne}
    BY <2>2 DEF Types, Watches
  <2>7. QED
    BY <2>2, <2>3, <2>4, <2>5, <2>6 DEF TypeOK, Types, Runs, Streams
<1>2. IInv => InterruptHonoured
  BY DEF IInv, Local, Stage, InterruptHonoured
<1>3. IInv => CompletedClean
  <2>1. SUFFICES ASSUME IInv, NEW e \in Execs, run[e].result = "completed"
                 PROVE  /\ log[e] # <<>> /\ Last(log[e]) = "stop"
                        /\ \A i \in 1 .. Len(log[e]) - 1 : log[e][i] \notin {"stop", "suspension", "error"}
                        /\ Operation[e] = "start" => Contains(log[e], "start")
    BY DEF CompletedClean
  <2>2. StopLast(log[e]) /\ (Operation[e] = "start" => Contains(log[e], "start"))
    BY <2>1 DEF IInv, Local, Recorded, Sessions
  <2>3. QED
    BY <2>2 DEF StopLast, Last, Dirty
<1>4. QED
  BY <1>1, <1>2, <1>3, Invariance, PTL DEF SuccessEarned

LEMMA FirstTwo ==
  ASSUME NEW s \in Seq(Kinds), NEW t \in Seq(Kinds), Len(s) > 1, Len(t) > 1, s[1] = t[1], s[2] = t[2]
  PROVE  SubSeq(s, 1, 2) = SubSeq(t, 1, 2)
<1> DEFINE x == SubSeq(s, 1, 2)
           y == SubSeq(t, 1, 2)
<1>1. x \in Seq(Kinds) /\ Len(x) = 2 /\ x[1] = s[1] /\ x[2] = s[2]
  OBVIOUS
<1>2. y \in Seq(Kinds) /\ Len(y) = 2 /\ y[1] = t[1] /\ y[2] = t[2]
  OBVIOUS
<1> HIDE DEF x, y
<1>3. \A i \in 1 .. 2 : i = 1 \/ i = 2
  OBVIOUS
<1>4. x[1] = y[1] /\ x[2] = y[2]
  BY <1>1, <1>2
<1>5. \A i \in 1 .. Len(x) : x[i] = y[i]
  BY <1>1, <1>3, <1>4
<1>6. x = y
  BY <1>1, <1>2, <1>5
<1>7. QED
  BY <1>6 DEF x, y

LEMMA SuspendedSuffix ==
  ASSUME NEW l \in Seq(Kinds), Len(l) > 1, l[Len(l)] = "stop", l[Len(l) - 1] = "suspension"
  PROVE  IsSuffix(<<"suspension", "stop">>, l)
<1> DEFINE a == Reverse(<<"suspension", "stop">>)
           b == Reverse(l)
<1>1. a = <<"stop", "suspension">>
  BY DEF Reverse
<1>2. b \in Seq(Kinds) /\ Len(b) = Len(l) /\ b[1] = "stop" /\ b[2] = "suspension"
  BY DEF Reverse
<1> HIDE DEF a, b
<1>3. Len(a) = 2 /\ a \in Seq(Kinds) /\ a[1] = "stop" /\ a[2] = "suspension"
  BY <1>1 DEF Kinds
<1>4. SubSeq(a, 1, 2) = SubSeq(b, 1, 2)
  BY <1>2, <1>3, FirstTwo
<1>5. Len(a) <= Len(b) /\ SubSeq(a, 1, Len(a)) = SubSeq(b, 1, Len(a))
  BY <1>2, <1>3, <1>4
<1>6. QED
  BY <1>5 DEF IsSuffix, IsPrefix, a, b

(* An interrupt that is acknowledged stopped a run whose log ends with its  *)
(* stop, after its suspension unless the stop is all there is.              *)
THEOREM AcknowledgedStops == Spec => []AckMeansSuspended
<1>1. IInv => AckMeansSuspended
  <2>1. SUFFICES ASSUME IInv, NEW w \in Watchers, watch[w].answer = "ack"
                 PROVE  \/ log[watch[w].run] = <<"stop">>
                        \/ IsSuffix(<<"suspension", "stop">>, log[watch[w].run])
    BY DEF AckMeansSuspended
  <2>2. PICK e \in Execs : e = watch[w].run /\ run[e].result = "stopped" /\ run[e].isInterrupt
    BY <2>1 DEF IInv, Watching
  <2>3. log[e] \in Seq(Kinds) /\ SuspendedStop(log[e])
    BY <2>1, <2>2 DEF IInv, Types, Local, Suspended
  <2>4. QED
    BY <2>2, <2>3, SuspendedSuffix DEF SuspendedStop
<1>2. QED
  BY <1>1, Invariance, PTL

(* The acknowledged adapter-start of a start and its session become visible *)
(* together: no interrupt is accepted for a run that has the one without    *)
(* the other, unless it is about to fail.                                   *)
THEOREM BoundaryAtomic == Spec => SessionBoundaryAtomic
<1> DEFINE Boundary ==
      \A w \in Watchers :
        (pc[w] = "accept" /\ pc'[w] = "stop" /\ run[watch[w].run].session = NoOne)
          => ~Contains(log[watch[w].run], "start") \/ pc[watch[w].run] = "fail"
<1>1. IInv /\ [Next]_vars => [Boundary]_vars
  <2>1. SUFFICES ASSUME IInv, [Next]_vars, NEW w \in Watchers, pc[w] = "accept", pc'[w] = "stop",
                        run[watch[w].run].session = NoOne, Contains(log[watch[w].run], "start")
                 PROVE  pc[watch[w].run] = "fail"
    OBVIOUS
  <2>2. Types /\ Watching(w)
    BY <2>1 DEF IInv
  <2>3. ASSUME NEW e \in Execs, ExecStep(e) \/ Arrives(e) PROVE FALSE
    <3>1. e # w
      OBVIOUS
    <3>2. pc'[w] = pc[w]
      BY <2>2, <2>3, <3>1 DEF ExecStep, Arrives, Goto, Types, Acquire, Refuse, Launch, RecordResume,
         Activate, Release, Loop, NextReads, StopTerminal, ProcessTerminal, LockSession, RecordEvent,
         StoreSession, Judge, TryFinishNormally, RecordSuspension, RecordStop, FinishWithoutStopAck,
         RequestFailureStop, StopStep, StopBegins, StopEnds, StopIssued, Frame, StreamError, ProviderExits
    <3>3. QED
      BY <2>1, <3>2
  <2>4. ASSUME NEW v \in Watchers, v # w, WatchStep(v) PROVE FALSE
    <3>1. pc'[w] = pc[w]
      BY <2>2, <2>4 DEF WatchStep, Answer, Goto, Types, Receive, LookupRegistered, Snapshot, LookupActive,
         Accept, StopStep, StopBegins, StopEnds, StopIssued, Await, WatcherStop
    <3>2. QED
      BY <2>1, <3>1
  <2>5. Accept(w)
    BY <2>1, <2>3, <2>4 DEF Next, vars, Ended, Signal, WatchStep, Receive, LookupRegistered, Snapshot,
       LookupActive, StopStep, StopBegins, StopEnds, StopIssued, Await, WatcherStop
  <2>6. PICK e \in Execs : e = watch[w].run
    BY <2>1, <2>2 DEF Watching
  <2>7. run[e].state = "running" /\ ~run[e].mu
    <3>1. run[e].state # "running" => pc'[w] # "stop"
      BY <2>2, <2>5, <2>6 DEF Accept, Answer, Goto, Types
    <3>2. QED
      BY <2>1, <2>5, <2>6, <3>1 DEF Accept
  <2>8. Local(e)
    BY <2>1 DEF IInv
  <2>9. Operation[e] = "start"
    <3>1. Operation[e] # "resume" /\ Operation[e] # "replacement"
      BY <2>1, <2>6, <2>7, <2>8 DEF Local, Sessions, Stage
    <3>2. QED
      BY <3>1
  <2>10. pc[e] \in {"store", "fail"} /\ pc[e] # "store"
    BY <2>1, <2>6, <2>7, <2>8, <2>9 DEF Local, Sessions, Stage, Undisturbed
  <2>11. QED
    BY <2>6, <2>10
<1>2. QED
  BY <1>1, Invariance, PTL DEF Spec, SessionBoundaryAtomic
=============================================================================
