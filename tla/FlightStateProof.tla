--------------------------- MODULE FlightStateProof ---------------------------
(***************************************************************************)
(* Safety of FlightState for any number of calls, observations, revisions, *)
(* faults and restarts.  What the sequencer believes is tied to the        *)
(* recorder: nothing is stored behind its position in the installed        *)
(* revision but the receipt, and an event at that position is one it never *)
(* saw acknowledged, until the command has appended the result.            *)
(***************************************************************************)
EXTENDS FlightState, TLAPS

Kinds == {"resume", "start", "obs", "stop", "request", "decision", "child", "result", "receipt"}
Events == [rev : 1 .. MaxRev, seq : Nat \ {0}, prior : Nat, bridge : Nat, kind : Kinds,
           acked : BOOLEAN]
Places == {"down", "done", "refused", "resume", "init", "run", "stopping", "finish", "close",
           "shutdown", "complete", "receipt", "failed"}
Inside == {"request", "decide", "child", "install"}

Types ==
  /\ rec \in Seq(Events) /\ acks \in Seq(Nat) /\ (\A i \in 1 .. Len(acks) : acks[i] \in 1 .. Len(rec))
  /\ ledger \in 1 .. MaxRev /\ flight \in Snapshots /\ run \in Snapshots
  /\ latch \in {"open", "ok", "failed"} /\ svc \in Places
  /\ pc \in [Calls -> {"idle", "over"} \cup InFlight] /\ mu \in Calls \cup {Nobody}
  /\ faults \in 0 .. MaxFaults /\ restarts \in 0 .. MaxRestarts

Taken(s) == \E i \in 1 .. Len(rec) : rec[i].rev = s.rev /\ rec[i].seq = s.next

(* Source order goes with global order, and no event is beyond the          *)
(* installed revision.                                                      *)
Ordered ==
  /\ \A i, j \in 1 .. Len(rec) : i < j /\ rec[i].rev = rec[j].rev => rec[i].seq < rec[j].seq
  /\ \A i \in 1 .. Len(rec) : rec[i].rev <= ledger

(* A receipt follows its result.                                            *)
Receipted == \A i \in 1 .. Len(rec) :
  rec[i].kind = "receipt" => rec[i].seq > 1 /\ rec[rec[i].prior].kind # "receipt"

(* Of the installed revision no position is taken behind the n-th.          *)
Within(n) == \A i \in 1 .. Len(rec) : rec[i].rev = ledger => rec[i].seq <= n

(* The events a snapshot would name are those it should.                    *)
Linked(s) ==
  /\ s.next > 1 =>
       s.prior \in 1 .. Len(rec) /\ rec[s.prior].rev = s.rev /\ rec[s.prior].seq = s.next - 1
  /\ s.next = 1 =>
       /\ s.prior = 0
       /\ IF s.rev = 1 THEN s.bridge = 0
          ELSE /\ s.bridge \in 1 .. Len(rec)
               /\ rec[s.bridge].rev = s.rev - 1 /\ rec[s.bridge].kind = "child"

AckOrder ==
  \A i \in 2 .. Len(acks) :
    LET a == rec[acks[i - 1]]  b == rec[acks[i]] IN
    \/ b.rev = a.rev /\ b.seq = a.seq + 1
    \/ b.rev = a.rev + 1 /\ b.seq = 1 /\ a.kind = "child"

AckEnd ==
  /\ flight.next > 1 /\ acks # <<>> => flight.prior = acks[Len(acks)]
  /\ flight.next = 1 /\ acks # <<>> =>
       rec[acks[Len(acks)]].rev = flight.rev - 1 /\ rec[acks[Len(acks)]].kind = "child"

FlightOK ==
  /\ flight.rev = ledger /\ Linked(flight) /\ AckOrder /\ AckEnd
  /\ Within(flight.next) \/ (Taken(flight) /\ Within(flight.next + 1))

(* What is stored at the next position was never acknowledged.              *)
Fresh == \A i \in 1 .. Len(rec) :
  rec[i].rev = flight.rev /\ rec[i].seq = flight.next => ~rec[i].acked

(* The position the run returned is still the next one, or is taken.        *)
RunOK ==
  /\ Linked(run)
  /\ \A i \in 1 .. Len(rec) : rec[i].rev = run.rev /\ rec[i].seq = run.next /\ rec[i].acked
       => rec[i].kind \in {"request", "decision", "child"}
  /\ (run.rev = flight.rev /\ run.next = flight.next) \/ Taken(run)

(* The receipt's position is the one behind the result.                     *)
ReceiptOK ==
  /\ Linked(run) /\ run.rev = ledger /\ Within(run.next)
  /\ run.next > 1 /\ rec[run.prior].kind # "receipt"
  /\ Taken(flight) /\ run.next = flight.next + 1

(* The run's own adapter-start was acknowledged.                            *)
Started == \E j \in 1 .. Len(rec) :
  /\ rec[j].kind = "start" /\ rec[j].acked
  /\ \A k \in j .. Len(rec) : rec[k].kind # "resume"

EndsWith(kind) == Len(rec) > 0 /\ rec[Len(rec)].kind = kind

Ending == {"close", "shutdown", "complete"}
Open == {"init", "run", "stopping", "finish"} \cup Ending
Closed == {"complete", "receipt", "done", "down", "refused"}

Calling(c) ==
  /\ mu = c <=> pc[c] \in Inside
  /\ pc[c] \in Inside \cup {"locking"} => Started /\ svc # "resume"
  /\ pc[c] = "decide" => EndsWith("request")
  /\ pc[c] = "child" => EndsWith("decision") /\ flight.rev < MaxRev
  /\ pc[c] = "install" => /\ flight.rev < MaxRev /\ flight.next > 1
                          /\ rec[flight.prior].kind = "child"
  /\ svc \in Closed => pc[c] \notin InFlight
  /\ svc \in Ending /\ pc[c] \in Inside \ {"request"} => Taken(run)

Recorder == Chained /\ TransitionsWhole /\ ContextAfterStart /\ Ordered /\ Receipted

IInv ==
  /\ Types /\ Recorder /\ FlightOK
  /\ svc \in Open => Fresh
  /\ svc \in Ending => RunOK
  /\ svc = "receipt" => ReceiptOK
  /\ latch = "ok" => Started /\ svc # "resume"
  /\ \A c \in Calls : Calling(c)

USE FlightAssumption
-----------------------------------------------------------------------------
LEMMA InitIInv == Init => IInv
<1> SUFFICES ASSUME Init PROVE IInv
  OBVIOUS
<1> USE DEF Init, NewFlight
<1>1. Types
  BY DEF Types, Snapshots, Places
<1>2. Len(rec) = 0 /\ Len(acks) = 0
  OBVIOUS
<1>3. Recorder /\ Fresh
  BY <1>2 DEF Recorder, Chained, TransitionsWhole, ContextAfterStart, Ordered, Receipted, Fresh
<1>4. FlightOK
  BY <1>2 DEF FlightOK, Linked, AckOrder, AckEnd, Within
<1>5. \A c \in Calls : Calling(c)
  BY DEF Calling, Inside, Ending, Closed
<1>6. QED
  BY <1>1, <1>3, <1>4, <1>5 DEF IInv, Ending

(* The recorder after one more event.                                       *)
LEMMA Grow ==
  ASSUME NEW S, NEW s \in Seq(S), NEW e \in S
  PROVE  /\ Append(s, e) \in Seq(S) /\ Len(s) \in Nat /\ Len(Append(s, e)) = Len(s) + 1
         /\ \A i \in 1 .. Len(s) : Append(s, e)[i] = s[i]
         /\ Append(s, e)[Len(s) + 1] = e
OBVIOUS

LEMMA Fields ==
  ASSUME NEW r \in Seq(Events)
  PROVE  \A i \in 1 .. Len(r) : r[i] \in Events /\ r[i].seq \in Nat \ {0}
<1>1. \A i \in 1 .. Len(r) : r[i] \in Events
  OBVIOUS
<1>2. QED
  BY <1>1 DEF Events

Grows == /\ rec' \in Seq(Events) /\ Len(rec) \in Nat /\ Len(rec') = Len(rec) + 1
         /\ \A i \in 1 .. Len(rec) : rec'[i] = rec[i]

(* What was established of the recorder stays so.                           *)
LEMMA Steady ==
  ASSUME Types, Grows
  PROVE  /\ \A i \in 1 .. Len(rec) : i \in 1 .. Len(rec') /\ rec'[i] = rec[i]
         /\ \A i \in 1 .. Len(rec') : i \in 1 .. Len(rec) \/ i = Len(rec) + 1
BY DEF Grows

LEMMA SteadyStarted ==
  ASSUME Types, Grows, rec'[Len(rec) + 1].kind # "resume", Started
  PROVE  Started'
<1>1. PICK j \in 1 .. Len(rec) : /\ rec[j].kind = "start" /\ rec[j].acked
                                /\ \A k \in j .. Len(rec) : rec[k].kind # "resume"
  BY DEF Started
<1>2. j \in 1 .. Len(rec') /\ rec'[j] = rec[j]
  BY Steady
<1>3. ASSUME NEW k \in j .. Len(rec')
      PROVE  rec'[k].kind # "resume"
  <2>1. k \in 1 .. Len(rec) \/ k = Len(rec) + 1
    BY DEF Grows
  <2>2. CASE k \in 1 .. Len(rec)
    <3>1. k \in j .. Len(rec) /\ rec'[k] = rec[k]
      BY <2>2, Steady
    <3>2. QED
      BY <1>1, <3>1
  <2>3. QED
    BY <2>1, <2>2
<1>4. QED
  BY <1>1, <1>2, <1>3 DEF Started

LEMMA SteadyLinked ==
  ASSUME Types, Grows, NEW s \in Snapshots, Linked(s),
         NEW t \in Snapshots, t.rev = s.rev, t.next = s.next, t.prior = s.prior, t.bridge = s.bridge
  PROVE  Linked(t)'
BY Steady DEF Linked

LEMMA SteadyAcks ==
  ASSUME Types, Grows, acks' = acks, AckOrder
  PROVE  /\ AckOrder'
         /\ \A i \in 1 .. Len(acks') : acks'[i] \in 1 .. Len(rec') /\ rec'[acks'[i]] = rec[acks[i]]
<1>1. \A i \in 1 .. Len(acks') : acks'[i] \in 1 .. Len(rec') /\ rec'[acks'[i]] = rec[acks[i]]
  BY Steady DEF Types
<1>2. ASSUME NEW i \in 2 .. Len(acks)
      PROVE  rec'[acks'[i - 1]] = rec[acks[i - 1]] /\ rec'[acks'[i]] = rec[acks[i]]
  <2>1. i \in 1 .. Len(acks) /\ i - 1 \in 1 .. Len(acks)
    BY DEF Types
  <2>2. QED
    BY <1>1, <2>1
<1>3. AckOrder'
  BY <1>2 DEF AckOrder
<1>4. QED
  BY <1>1, <1>3

(* The event at the next position of the installed revision.                *)
LEMMA Appended ==
  ASSUME Types, Recorder, NEW s \in Snapshots, Linked(s), s.rev = ledger, Within(s.next), Free(s),
         NEW kind \in Kinds, NEW acked \in BOOLEAN,
         rec' = Append(rec, Event(s, kind, acked)), ledger' = ledger,
         kind = "request" => Started,
         kind = "decision" => EndsWith("request"), kind = "child" => EndsWith("decision"),
         kind = "receipt" => s.next > 1 /\ rec[s.prior].kind # "receipt"
  PROVE  Grows /\ rec'[Len(rec) + 1] = Event(s, kind, acked) /\ Recorder' /\ Within(s.next)'
<1> DEFINE e == Event(s, kind, acked)
           n == Len(rec) + 1
<1>1. e \in Events /\ e.rev = s.rev /\ e.seq = s.next /\ e.kind = kind /\ e.prior = s.prior
      /\ e.bridge = IF s.next = 1 THEN s.bridge ELSE 0
  BY DEF Events, Event, Snapshots
<1> HIDE DEF e
<1>2. Grows /\ rec'[n] = e
  BY <1>1, Grow DEF Types, Grows, e
<1>3. /\ n \in 1 .. Len(rec') /\ Len(rec') = n /\ n \in Nat \ {0}
      /\ \A i \in 1 .. Len(rec) : i \in 1 .. Len(rec') /\ rec'[i] = rec[i] /\ i < n /\ rec[i] \in Events
      /\ \A i \in 1 .. Len(rec') : i \in 1 .. Len(rec) \/ i = n
  BY <1>2 DEF Grows, Types
<1>4. s.next \in Nat \ {0} /\ s.rev \in 1 .. MaxRev
  BY DEF Snapshots
<1>5. \A i \in 1 .. Len(rec) : ~(rec[i].rev = s.rev /\ rec[i].seq = s.next)
  BY DEF Free
<1>6. Ordered'
  <2>1. ASSUME NEW i \in 1 .. Len(rec), rec[i].rev = s.rev
        PROVE  rec[i].seq < s.next
    <3>1. rec[i].seq \in Nat /\ rec[i].seq # s.next
      BY <1>3, <1>5, <2>1 DEF Events
    <3>2. rec[i].seq <= s.next
      BY <2>1 DEF Within
    <3>3. QED
      BY <1>4, <3>1, <3>2
  <2>2. \A i, j \in 1 .. Len(rec) : i < j /\ rec'[i].rev = rec'[j].rev => rec'[i].seq < rec'[j].seq
    BY <1>3 DEF Recorder, Ordered
  <2>3. \A i \in 1 .. Len(rec) : rec'[i].rev = rec'[n].rev => rec'[i].seq < rec'[n].seq
    BY <1>1, <1>2, <1>3, <2>1
  <2>4. ASSUME NEW i \in 1 .. Len(rec'), NEW j \in 1 .. Len(rec'), i < j, rec'[i].rev = rec'[j].rev
        PROVE  rec'[i].seq < rec'[j].seq
    <3>1. i \in 1 .. Len(rec)
      BY <1>3, <2>4
    <3>2. QED
      BY <1>3, <2>2, <2>3, <2>4, <3>1
  <2>5. \A i \in 1 .. Len(rec') : rec'[i].rev <= ledger'
    <3>1. rec'[n].rev <= ledger'
      BY <1>1, <1>2, <1>4
    <3>2. \A i \in 1 .. Len(rec) : rec'[i].rev <= ledger'
      BY <1>3 DEF Recorder, Ordered
    <3>3. QED
      BY <1>3, <3>1, <3>2
  <2>6. QED
    BY <2>4, <2>5 DEF Ordered
<1>7. Chained'
  <2>1. SUFFICES ASSUME NEW i \in 1 .. Len(rec')
                 PROVE  LET ev == rec'[i] IN
                          IF ev.seq > 1
                          THEN /\ ev.bridge = 0 /\ ev.prior \in 1 .. (i - 1)
                               /\ rec'[ev.prior].rev = ev.rev /\ rec'[ev.prior].seq = ev.seq - 1
                          ELSE /\ ev.prior = 0
                               /\ IF ev.rev = 1 THEN ev.bridge = 0
                                  ELSE /\ ev.bridge \in 1 .. (i - 1)
                                       /\ rec'[ev.bridge].rev = ev.rev - 1
                                       /\ rec'[ev.bridge].kind = "child"
    BY DEF Chained
  <2>2. CASE i \in 1 .. Len(rec)
    <3>1. \A j \in 1 .. (i - 1) : rec'[j] = rec[j]
      BY <1>3, <2>2
    <3>2. rec'[i] = rec[i]
      BY <1>3, <2>2
    <3>3. QED
      BY <2>2, <3>1, <3>2 DEF Recorder, Chained
  <2>3. CASE i = n
    <3>1. /\ s.next > 1 => s.prior \in 1 .. (n - 1) /\ rec'[s.prior] = rec[s.prior]
          /\ s.next = 1 /\ s.rev # 1 => s.bridge \in 1 .. (n - 1) /\ rec'[s.bridge] = rec[s.bridge]
      BY <1>3 DEF Linked
    <3>2. /\ rec'[i] = e /\ i = n /\ s.next \in Nat \ {0} /\ e.seq = s.next /\ e.rev = s.rev
          /\ e.prior = s.prior /\ e.bridge = IF s.next = 1 THEN s.bridge ELSE 0
      BY <1>1, <1>2, <2>3 DEF Snapshots
    <3>3. CASE s.next > 1
      BY <3>1, <3>2, <3>3 DEF Linked
    <3>4. CASE s.next = 1
      BY <3>1, <3>2, <3>4 DEF Linked
    <3>5. QED
      BY <3>2, <3>3, <3>4
  <2>4. QED
    BY <1>3, <2>2, <2>3
<1>8. TransitionsWhole'
  <2>1. ASSUME NEW i \in 1 .. Len(rec)
        PROVE  /\ rec'[i].kind = "decision" => i > 1 /\ rec'[i - 1].kind = "request"
               /\ rec'[i].kind = "child" => i > 1 /\ rec'[i - 1].kind = "decision"
    <3>1. i > 1 => i - 1 \in 1 .. Len(rec)
      BY <1>3
    <3>2. QED
      BY <1>3, <3>1 DEF Recorder, TransitionsWhole
  <2>2. /\ kind = "decision" => n > 1 /\ rec'[n - 1].kind = "request"
        /\ kind = "child" => n > 1 /\ rec'[n - 1].kind = "decision"
    <3>1. Len(rec) > 0 => n > 1 /\ n - 1 = Len(rec) /\ Len(rec) \in 1 .. Len(rec)
      BY <1>3
    <3>2. QED
      BY <1>3, <3>1 DEF EndsWith
  <2>3. QED
    BY <1>1, <1>2, <1>3, <2>1, <2>2 DEF TransitionsWhole
<1>9. ContextAfterStart'
  <2>1. ASSUME NEW i \in 1 .. Len(rec), rec[i].kind = "request"
        PROVE  \E j \in 1 .. (i - 1) : /\ rec'[j].kind = "start" /\ rec'[j].acked
                                       /\ \A k \in j .. i : rec'[k].kind # "resume"
    <3>1. \A j \in 1 .. i : rec'[j] = rec[j]
      BY <1>3
    <3>2. PICK j \in 1 .. (i - 1) : /\ rec[j].kind = "start" /\ rec[j].acked
                                   /\ \A k \in j .. i : rec[k].kind # "resume"
      BY <2>1 DEF Recorder, ContextAfterStart
    <3>3. \A k \in j .. i : rec'[k].kind # "resume"
      BY <3>1, <3>2
    <3>4. rec'[j] = rec[j]
      BY <3>1
    <3>5. QED
      BY <3>2, <3>3, <3>4
  <2>2. ASSUME kind = "request"
        PROVE  \E j \in 1 .. (n - 1) : /\ rec'[j].kind = "start" /\ rec'[j].acked
                                       /\ \A k \in j .. n : rec'[k].kind # "resume"
    <3>1. PICK j \in 1 .. Len(rec) : /\ rec[j].kind = "start" /\ rec[j].acked
                                    /\ \A k \in j .. Len(rec) : rec[k].kind # "resume"
      BY <2>2 DEF Started
    <3>2. rec'[j] = rec[j] /\ j \in 1 .. (n - 1)
      BY <1>3
    <3>3. \A k \in j .. n : k = n \/ k \in j .. Len(rec)
      BY <1>3
    <3>4. \A k \in j .. Len(rec) : rec'[k] = rec[k]
      BY <1>3
    <3>5. rec'[n].kind # "resume"
      BY <1>1, <1>2, <2>2
    <3>6. QED
      BY <3>1, <3>2, <3>3, <3>4, <3>5
  <2>3. QED
    BY <1>1, <1>2, <1>3, <2>1, <2>2 DEF ContextAfterStart
<1>10. Receipted'
  <2>1. ASSUME NEW i \in 1 .. Len(rec), rec[i].kind = "receipt"
        PROVE  rec'[i].seq > 1 /\ rec'[rec'[i].prior].kind # "receipt"
    <3>1. rec'[i] = rec[i] /\ rec[i].seq > 1 /\ rec[rec[i].prior].kind # "receipt"
      BY <1>3, <2>1 DEF Recorder, Receipted
    <3>2. rec[i].prior \in 1 .. (i - 1)
      BY <3>1 DEF Recorder, Chained
    <3>3. rec[i].prior \in 1 .. Len(rec)
      BY <1>3, <3>2
    <3>4. QED
      BY <1>3, <3>1, <3>3
  <2>2. kind = "receipt" => rec'[n].seq > 1 /\ rec'[rec'[n].prior].kind # "receipt"
    <3>1. s.next > 1 => s.prior \in 1 .. Len(rec)
      BY DEF Linked
    <3>2. QED
      BY <1>1, <1>2, <1>3, <3>1
  <2>3. ASSUME NEW i \in 1 .. Len(rec'), rec'[i].kind = "receipt"
        PROVE  rec'[i].seq > 1 /\ rec'[rec'[i].prior].kind # "receipt"
    <3>1. CASE i \in 1 .. Len(rec)
      BY <1>3, <2>1, <2>3, <3>1
    <3>2. CASE i = n
      BY <1>1, <1>2, <2>2, <2>3, <3>2
    <3>3. QED
      BY <1>3, <3>1, <3>2
  <2>4. QED
    BY <2>3 DEF Receipted
<1>11. Within(s.next)'
  <2>1. \A i \in 1 .. Len(rec) : rec'[i].rev = ledger' => rec'[i].seq <= s.next
    BY <1>3 DEF Within
  <2>2. rec'[n].seq <= s.next
    BY <1>1, <1>2, <1>4
  <2>3. QED
    BY <1>3, <2>1, <2>2 DEF Within
<1>12. QED
  BY <1>2, <1>6, <1>7, <1>8, <1>9, <1>10, <1>11 DEF Recorder, e

(* A step that appends does so under the installed revision.                *)
OnLedger == Len(rec') > Len(rec) => rec'[Len(rec')].rev = ledger

SamePosition == /\ flight'.rev = flight.rev /\ flight'.next = flight.next
                /\ flight'.prior = flight.prior /\ flight'.bridge = flight.bridge

(* The recorder is left alone.                                              *)
LEMMA RecorderKept ==
  ASSUME Recorder, rec' = rec, ledger' = ledger
  PROVE  Recorder'
<1>1. Chained'
  <2>1. Chained
    BY DEF Recorder
  <2>2. QED
    BY <2>1 DEF Chained
<1>2. TransitionsWhole'
  <2>1. TransitionsWhole
    BY DEF Recorder
  <2>2. QED
    BY <2>1 DEF TransitionsWhole
<1>3. ContextAfterStart'
  <2>1. ContextAfterStart
    BY DEF Recorder
  <2>2. QED
    BY <2>1 DEF ContextAfterStart
<1>4. Ordered'
  <2>1. Ordered
    BY DEF Recorder
  <2>2. QED
    BY <2>1 DEF Ordered
<1>5. Receipted'
  <2>1. Receipted
    BY DEF Recorder
  <2>2. QED
    BY <2>1 DEF Receipted
<1>6. QED
  BY <1>1, <1>2, <1>3, <1>4, <1>5 DEF Recorder

(* Nothing is appended, and the position stays.                             *)
LEMMA Still ==
  ASSUME Types, Recorder, FlightOK, SamePosition, UNCHANGED <<rec, ledger, acks>>
  PROVE  /\ Recorder' /\ FlightOK' /\ (Fresh => Fresh') /\ (Started => Started') /\ OnLedger
         /\ run' = run /\ RunOK => RunOK'
         /\ run' = run /\ ReceiptOK => ReceiptOK'
<1> USE DEF SamePosition
<1>1. Recorder'
  BY RecorderKept
<1>2. Linked(flight)'
  BY DEF FlightOK, Linked
<1>3. AckOrder' /\ AckEnd'
  BY DEF FlightOK, AckOrder, AckEnd
<1>4. \A m : Within(m) => Within(m)'
  BY DEF Within
<1>5. Taken(flight) => Taken(flight)'
  BY DEF Taken
<1>6. (Within(flight.next) \/ (Taken(flight) /\ Within(flight.next + 1)))'
  BY <1>4, <1>5 DEF FlightOK
<1>7. FlightOK'
  BY <1>2, <1>3, <1>6 DEF FlightOK
<1>8. (Fresh => Fresh') /\ (Started => Started')
  BY DEF Fresh, Started
<1>9. run' = run /\ RunOK => RunOK'
  BY DEF RunOK, Linked, Taken
<1>10. run' = run /\ ReceiptOK => ReceiptOK'
  BY <1>4, <1>5 DEF ReceiptOK, Linked
<1>11. OnLedger
  BY DEF OnLedger, Types
<1>12. QED
  BY <1>1, <1>7, <1>8, <1>9, <1>10, <1>11

(* Nothing is stored behind a free position.                                *)
LEMMA FreeWithin ==
  ASSUME Types, FlightOK, Free(flight)
  PROVE  Within(flight.next)
BY DEF FlightOK, Taken, Free

Guarded(kind) == /\ kind = "request" => Started
                 /\ kind = "decision" => EndsWith("request")
                 /\ kind = "child" => EndsWith("decision")

Moved == /\ flight'.rev = flight.rev /\ flight'.next = flight.next + 1
         /\ flight'.prior = Len(rec) + 1

(* An acknowledged append at the sequencer's position.                      *)
LEMMA AckedAppend ==
  ASSUME Types, Recorder, FlightOK, NEW kind \in Kinds \ {"receipt"}, Guarded(kind),
         Acknowledged(kind), Moved, flight' \in Snapshots, UNCHANGED ledger
  PROVE  /\ Grows /\ rec'[Len(rec) + 1] = Event(flight, kind, TRUE)
         /\ acks' \in Seq(Nat) /\ \A i \in 1 .. Len(acks') : acks'[i] \in 1 .. Len(rec')
         /\ Recorder' /\ FlightOK' /\ Fresh' /\ OnLedger
<1> DEFINE n == Len(rec) + 1
<1>1. flight \in Snapshots /\ flight.next \in Nat \ {0} /\ Linked(flight) /\ flight.rev = ledger
      /\ Len(rec) \in Nat /\ acks \in Seq(Nat) /\ n \in Nat
  BY DEF Types, FlightOK, Snapshots
<1>2. Free(flight) /\ Within(flight.next)
  BY FreeWithin DEF Acknowledged, Appendable
<1>3. rec' = Append(rec, Event(flight, kind, TRUE)) /\ acks' = Append(acks, n)
  BY DEF Acknowledged
<1>4. Grows /\ rec'[n] = Event(flight, kind, TRUE) /\ Recorder'
      /\ \A i \in 1 .. Len(rec') : rec'[i].rev = ledger' => rec'[i].seq <= flight.next
  BY <1>1, <1>2, <1>3, Appended DEF Guarded, Within
<1>5. /\ Len(rec') = n /\ n \in 1 .. Len(rec')
      /\ \A i \in 1 .. Len(rec) : i \in 1 .. Len(rec') /\ rec'[i] = rec[i]
      /\ \A i \in 1 .. Len(rec') : i \in 1 .. Len(rec) \/ i = n
  BY <1>1, <1>4 DEF Grows
<1>6. rec'[n].rev = flight.rev /\ rec'[n].seq = flight.next /\ rec'[n].kind = kind
  BY <1>4 DEF Event
<1>7. /\ Len(acks') = Len(acks) + 1 /\ Len(acks) \in Nat /\ acks' \in Seq(Nat)
      /\ acks'[Len(acks) + 1] = n /\ \A i \in 1 .. Len(acks) : acks'[i] = acks[i]
  BY <1>1, <1>3, Grow
<1>8. \A i \in 1 .. Len(acks') : acks'[i] \in 1 .. Len(rec')
  <2>1. ASSUME NEW i \in 1 .. Len(acks)
        PROVE  acks'[i] \in 1 .. Len(rec')
    BY <1>5, <1>7 DEF Types
  <2>2. \A i \in 1 .. Len(acks') : i \in 1 .. Len(acks) \/ i = Len(acks) + 1
    BY <1>7
  <2>3. QED
    BY <1>5, <1>7, <2>1, <2>2
<1>9. Within(flight.next)'
  <2>1. flight'.next = flight.next + 1
    BY DEF Moved
  <2>2. \A i \in 1 .. Len(rec') : rec'[i].seq \in Nat
    BY <1>4, Fields DEF Grows
  <2>3. QED
    BY <1>1, <1>4, <2>1, <2>2 DEF Within
<1>10. Linked(flight)'
  <2>1. flight'.next > 1 /\ flight'.prior = n /\ flight'.rev = flight.rev /\ flight'.next - 1 = flight.next
    BY <1>1 DEF Moved
  <2>2. QED
    BY <1>5, <1>6, <2>1 DEF Linked
<1>11. AckOrder'
  <2>1. \A i \in 1 .. Len(acks) : rec'[acks'[i]] = rec[acks[i]]
    BY <1>5, <1>7 DEF Types
  <2>2. ASSUME NEW i \in 2 .. Len(acks)
        PROVE  rec'[acks'[i - 1]] = rec[acks[i - 1]] /\ rec'[acks'[i]] = rec[acks[i]]
    <3>1. i \in 1 .. Len(acks) /\ i - 1 \in 1 .. Len(acks)
      BY <1>7
    <3>2. QED
      BY <2>1, <3>1
  <2>3. ASSUME Len(acks) > 0
        PROVE  LET a == rec'[acks'[Len(acks)]]  b == rec'[n] IN
               \/ b.rev = a.rev /\ b.seq = a.seq + 1
               \/ b.rev = a.rev + 1 /\ b.seq = 1 /\ a.kind = "child"
    <3>1. Len(acks) \in 1 .. Len(acks) /\ rec'[acks'[Len(acks)]] = rec[acks[Len(acks)]]
      BY <1>7, <2>1, <2>3
    <3>2. acks # <<>>
      BY <2>3
    <3>3. acks[Len(acks)] \in 1 .. Len(rec) /\ rec[acks[Len(acks)]] \in Events
      BY <3>1 DEF Types
    <3>4. CASE flight.next > 1
      <4>1. flight.prior = acks[Len(acks)]
        BY <3>2, <3>4 DEF FlightOK, AckEnd
      <4>2. rec[flight.prior].rev = flight.rev /\ rec[flight.prior].seq = flight.next - 1
        BY <1>1, <3>4 DEF Linked
      <4>3. QED
        BY <1>1, <1>6, <3>1, <4>1, <4>2
    <3>5. CASE flight.next = 1
      <4>1. rec[acks[Len(acks)]].rev = flight.rev - 1 /\ rec[acks[Len(acks)]].kind = "child"
        BY <3>2, <3>5 DEF FlightOK, AckEnd
      <4>2. flight.rev \in Nat
        BY <1>1 DEF Snapshots
      <4>3. QED
        BY <1>6, <3>1, <3>5, <4>1, <4>2
    <3>6. QED
      BY <1>1, <3>4, <3>5
  <2>4. SUFFICES ASSUME NEW i \in 2 .. Len(acks')
                 PROVE  LET a == rec'[acks'[i - 1]]  b == rec'[acks'[i]] IN
                        \/ b.rev = a.rev /\ b.seq = a.seq + 1
                        \/ b.rev = a.rev + 1 /\ b.seq = 1 /\ a.kind = "child"
    BY DEF AckOrder
  <2>5. CASE i \in 2 .. Len(acks)
    BY <2>2, <2>5 DEF FlightOK, AckOrder
  <2>6. CASE i = Len(acks) + 1
    <3>1. Len(acks) > 0 /\ i - 1 = Len(acks) /\ acks'[i] = n
      BY <1>7, <2>6
    <3>2. QED
      BY <2>3, <3>1
  <2>7. QED
    BY <1>7, <2>5, <2>6
<1>12. AckEnd'
  BY <1>1, <1>7 DEF AckEnd, Moved
<1>13. FlightOK'
  BY <1>1, <1>9, <1>10, <1>11, <1>12 DEF FlightOK, Moved
<1>14. Fresh'
  <2>1. \A i \in 1 .. Len(rec') : rec'[i].rev = ledger => rec'[i].seq <= flight.next
    BY <1>4
  <2>2. QED
    BY <1>1, <2>1 DEF Fresh, Moved
<1>15. OnLedger
  BY <1>1, <1>5, <1>6 DEF OnLedger
<1>16. QED
  BY <1>4, <1>7, <1>8, <1>13, <1>14, <1>15

(* An append that was not acknowledged: the position stays.                 *)
LEMMA UnackedAppend ==
  ASSUME Types, Recorder, FlightOK, NEW kind \in Kinds \ {"receipt"}, Guarded(kind),
         Unacknowledged(kind), SamePosition, UNCHANGED ledger
  PROVE  /\ rec' = rec \/ (Grows /\ rec'[Len(rec) + 1] = Event(flight, kind, FALSE))
         /\ acks' = acks /\ faults' \in 0 .. MaxFaults
         /\ rec' \in Seq(Events) /\ \A i \in 1 .. Len(acks') : acks'[i] \in 1 .. Len(rec')
         /\ Recorder' /\ FlightOK' /\ (Fresh => Fresh') /\ OnLedger
<1>1. acks' = acks /\ faults' \in 0 .. MaxFaults
  <2>1. faults \in Nat /\ MaxFaults \in Nat /\ faults <= MaxFaults
    BY DEF Types
  <2>2. faults' = faults \/ (faults < MaxFaults /\ faults' = faults + 1)
    BY Zenon DEF Unacknowledged, Fails
  <2>3. acks' = acks
    BY Zenon DEF Unacknowledged
  <2>4. QED
    BY <2>1, <2>2, <2>3
<1>2. CASE rec' = rec
  <2>1. Recorder' /\ FlightOK' /\ (Fresh => Fresh') /\ OnLedger
    BY <1>1, <1>2, Still
  <2>2. QED
    BY <1>1, <1>2, <2>1 DEF Types
<1>3. CASE Free(flight) /\ rec' = Append(rec, Event(flight, kind, FALSE))
  <2> DEFINE n == Len(rec) + 1
  <2>1. flight \in Snapshots /\ Linked(flight) /\ flight.rev = ledger
        /\ AckOrder /\ AckEnd /\ Len(rec) \in Nat /\ n \in Nat
    BY DEF Types, FlightOK, Snapshots
  <2>2. Within(flight.next)
    BY <1>3, FreeWithin
  <2>3. Grows /\ rec'[n] = Event(flight, kind, FALSE) /\ Recorder' /\ Within(flight.next)'
    BY <1>3, <2>1, <2>2, Appended DEF Guarded, SamePosition, Within
  <2>4. /\ Len(rec') = n /\ n \in 1 .. Len(rec')
        /\ \A i \in 1 .. Len(rec) : i \in 1 .. Len(rec') /\ rec'[i] = rec[i]
        /\ \A i \in 1 .. Len(rec') : i \in 1 .. Len(rec) \/ i = n
    BY <2>1, <2>3 DEF Grows
  <2>5. rec'[n].rev = flight.rev /\ ~rec'[n].acked
    BY <2>3 DEF Event
  <2>6. AckOrder' /\ \A i \in 1 .. Len(acks') : acks'[i] \in 1 .. Len(rec') /\ rec'[acks'[i]] = rec[acks[i]]
    BY <1>1, <2>1, <2>3, SteadyAcks
  <2>7. Linked(flight)'
    BY <2>1, <2>4 DEF Linked, SamePosition
  <2>8. AckEnd'
    <3>1. acks # <<>> => Len(acks) \in 1 .. Len(acks)
      BY DEF Types
    <3>2. QED
      BY <1>1, <2>1, <2>6, <3>1 DEF AckEnd, SamePosition
  <2>9. FlightOK'
    BY <2>1, <2>3, <2>6, <2>7, <2>8 DEF FlightOK, SamePosition
  <2>10. Fresh => Fresh'
    BY <2>4, <2>5 DEF Fresh, SamePosition
  <2>11. OnLedger
    BY <2>1, <2>4, <2>5 DEF OnLedger
  <2>12. QED
    BY <1>1, <2>3, <2>6, <2>9, <2>10, <2>11 DEF Grows
<1>4. QED
  BY <1>2, <1>3 DEF Unacknowledged, Fails, Appendable

(* The position the run returned is taken once anything is appended.        *)
LEMMA RunGrows ==
  ASSUME Types, Grows, RunOK, UNCHANGED run,
         NEW kind, NEW acked, rec'[Len(rec) + 1] = Event(flight, kind, acked),
         acked => kind \in {"request", "decision", "child"}
  PROVE  RunOK' /\ Taken(run)'
<1> DEFINE n == Len(rec) + 1
<1>1. /\ n \in 1 .. Len(rec')
      /\ \A i \in 1 .. Len(rec) : i \in 1 .. Len(rec') /\ rec'[i] = rec[i]
      /\ \A i \in 1 .. Len(rec') : i \in 1 .. Len(rec) \/ i = n
  BY DEF Grows
<1>2. rec'[n].rev = flight.rev /\ rec'[n].seq = flight.next /\ rec'[n].acked = acked /\ rec'[n].kind = kind
  BY DEF Event
<1>3. Linked(run)'
  BY SteadyLinked DEF RunOK, Types
<1>4. Taken(run)'
  BY <1>1, <1>2 DEF RunOK, Taken
<1>5. \A i \in 1 .. Len(rec') : rec'[i].rev = run'.rev /\ rec'[i].seq = run'.next /\ rec'[i].acked
        => rec'[i].kind \in {"request", "decision", "child"}
  BY <1>1, <1>2 DEF RunOK
<1>6. QED
  BY <1>3, <1>4, <1>5 DEF RunOK

(* Where the position of the shared state is no business of a call.         *)
LEMMA CallingOutside ==
  ASSUME NEW c \in Calls, pc'[c] \notin Inside, mu' # c,
         pc'[c] = "locking" => Started' /\ svc' # "resume",
         svc' \in Closed => pc'[c] \notin InFlight
  PROVE  Calling(c)'
BY DEF Calling, Inside

LEMMA CallingSame ==
  ASSUME NEW c \in Calls, Calling(c), UNCHANGED <<rec, run>>, SamePosition, pc'[c] = pc[c],
         mu' = c <=> mu = c,
         svc' \in Closed => svc = svc' \/ pc[c] \notin InFlight, svc' = "resume" => svc = svc',
         svc' \in Ending => svc \in Ending \/ pc[c] \notin Inside
  PROVE  Calling(c)'
<1>1. pc'[c] \in Inside \cup {"locking"} => Started' /\ svc' # "resume"
  BY DEF Calling, Started
<1>2. /\ pc'[c] = "decide" => EndsWith("request")'
      /\ pc'[c] = "child" => EndsWith("decision")' /\ flight'.rev < MaxRev
      /\ pc'[c] = "install" => /\ flight'.rev < MaxRev /\ flight'.next > 1
                               /\ rec'[flight'.prior].kind = "child"
  BY DEF Calling, EndsWith, SamePosition
<1>3. svc' \in Ending /\ pc'[c] \in Inside \ {"request"} => Taken(run)'
  BY DEF Calling, Taken
<1>4. svc' \in Closed => pc'[c] \notin InFlight
  BY DEF Calling
<1>5. mu' = c <=> pc'[c] \in Inside
  BY DEF Calling
<1>6. QED
  BY <1>1, <1>2, <1>3, <1>4, <1>5 DEF Calling

(* A step that appends nothing and leaves the position where it is.         *)
LEMMA Quiet ==
  ASSUME IInv, UNCHANGED <<rec, ledger, acks, run>>, SamePosition, flight' \in Snapshots,
         restarts' \in 0 .. MaxRestarts,
         latch' \in {"open", "ok", "failed"}, svc' \in Places, faults' \in 0 .. MaxFaults,
         pc' \in [Calls -> {"idle", "over"} \cup InFlight], mu' \in Calls \cup {Nobody},
         svc' \in Open => svc \in Open, svc' \in Ending => svc \in Ending,
         svc' \in {"receipt", "resume"} => svc = svc',
         latch' = "ok" => latch = "ok", \A c \in Calls : Calling(c)'
  PROVE  IInv' /\ OnLedger
<1>1. Types'
  BY DEF IInv, Types
<1>2. Recorder' /\ FlightOK' /\ (Fresh => Fresh') /\ (Started => Started') /\ OnLedger
      /\ (RunOK => RunOK') /\ (ReceiptOK => ReceiptOK')
  BY Still DEF IInv
<1>3. QED
  BY <1>1, <1>2 DEF IInv

LEMMA AdvancedSnapshot ==
  ASSUME Types, NEW s \in Snapshots
  PROVE  /\ Advanced(s) \in Snapshots /\ Advanced(s).rev = s.rev
         /\ Advanced(s).next = s.next + 1 /\ Advanced(s).prior = Len(rec) + 1
<1> DEFINE b == IF s.next = 1 THEN 0 ELSE s.bridge
           l == Len(rec) + 1
           m == s.next + 1
           f1 == [s EXCEPT !.next = m]
           f2 == [f1 EXCEPT !.prior = l]
           f3 == [f2 EXCEPT !.bridge = b]
<1>1. s \in Snapshots /\ l \in Nat /\ m \in Nat \ {0} /\ b \in Nat
  <2>1. s.next \in Nat \ {0} /\ s.bridge \in Nat
    BY DEF Snapshots
  <2>2. Len(rec) \in Nat
    BY DEF Types
  <2>3. QED
    BY <2>1, <2>2
<1>2. Advanced(s) = [s EXCEPT !.next = m, !.prior = l, !.bridge = b]
  BY DEF Advanced
<1> HIDE DEF b, l, m
<1>3. [s EXCEPT !.next = m, !.prior = l, !.bridge = b] = f3
  BY <1>1 DEF Snapshots
<1>4. f1 \in Snapshots /\ f1.rev = s.rev /\ f1.next = m
  BY <1>1 DEF Snapshots
<1> HIDE DEF f1
<1>5. f2 \in Snapshots /\ f2.rev = s.rev /\ f2.next = m /\ f2.prior = l
  BY <1>1, <1>4 DEF Snapshots
<1> HIDE DEF f2
<1>6. f3 \in Snapshots /\ f3.rev = s.rev /\ f3.next = m /\ f3.prior = l
  BY <1>1, <1>5 DEF Snapshots
<1> HIDE DEF f3
<1>7. QED
  BY <1>2, <1>3, <1>6 DEF m, l

LEMMA AdvancedMoves ==
  ASSUME Types, flight' = Advanced(flight) \/ flight' = [Advanced(flight) EXCEPT !.invalidated = TRUE]
  PROVE  flight' \in Snapshots /\ Moved
<1> DEFINE f == Advanced(flight)
<1>1. f \in Snapshots /\ f.rev = flight.rev /\ f.next = flight.next + 1 /\ f.prior = Len(rec) + 1
  BY AdvancedSnapshot DEF Types
<1> HIDE DEF f
<1>2. flight' = f \/ flight' = [f EXCEPT !.invalidated = TRUE]
  BY DEF f
<1>3. QED
  BY <1>1, <1>2 DEF Moved, Snapshots

Idle == {"init", "run", "stopping", "finish", "failed"}

(* An append of the service: no transition is under way.                    *)
LEMMA ServiceAppend ==
  ASSUME IInv, NEW next \in Idle, NEW kind \in Kinds \ {"request", "decision", "child", "receipt"},
         IF kind = "resume" THEN svc = "resume" ELSE svc \in Idle, mu = Nobody,
         \/ Acknowledged(kind) /\ flight' = Advanced(flight) /\ svc' = next
         \/ Unacknowledged(kind) /\ svc' = "failed" /\ UNCHANGED flight,
         latch' \in {"open", "ok", "failed"},
         latch' = "ok" => latch = "ok" \/ (kind = "start" /\ Acknowledged(kind)),
         UNCHANGED <<ledger, mu, pc, run, restarts>>
  PROVE  IInv' /\ OnLedger
<1> USE DEF Idle
<1>1. Types /\ Recorder /\ FlightOK /\ Guarded(kind) /\ (svc \in Idle \ {"failed"} => Fresh)
  BY DEF IInv, Guarded, Open
<1>2. /\ svc' \in Idle \cap Places /\ svc' \notin Ending \cup Closed \cup {"resume"}
      /\ svc' = next \/ svc' \notin Open
  BY DEF Places, Ending, Closed, Open
<1>3. /\ Types' /\ Recorder' /\ FlightOK' /\ (svc' \in Open => Fresh') /\ OnLedger
      /\ (kind # "resume" /\ Started => Started') /\ (latch' = "ok" => Started')
  <2>1. CASE Acknowledged(kind) /\ flight' = Advanced(flight)
    <3>1. flight' \in Snapshots /\ Moved /\ faults' = faults
      BY <1>1, <2>1, AdvancedMoves DEF Acknowledged
    <3>2. /\ Grows /\ rec'[Len(rec) + 1] = Event(flight, kind, TRUE)
          /\ acks' \in Seq(Nat) /\ \A i \in 1 .. Len(acks') : acks'[i] \in 1 .. Len(rec')
          /\ Recorder' /\ FlightOK' /\ Fresh' /\ OnLedger
      BY <1>1, <2>1, <3>1, AckedAppend
    <3>3. Types'
      BY <1>1, <1>2, <3>1, <3>2 DEF Types, Grows
    <3>4. kind # "resume" /\ Started => Started'
      BY <1>1, <3>2, SteadyStarted DEF Event
    <3>5. kind = "start" => Started'
      <4>1. Len(rec) + 1 \in 1 .. Len(rec') /\ \A k \in (Len(rec) + 1) .. Len(rec') : k = Len(rec) + 1
        BY <3>2 DEF Grows
      <4>2. QED
        BY <3>2, <4>1 DEF Started, Event
    <3>6. latch' = "ok" => Started'
      BY <3>4, <3>5 DEF IInv
    <3>7. QED
      BY <3>2, <3>3, <3>4, <3>6
  <2>2. CASE Unacknowledged(kind) /\ flight' = flight
    <3>1. flight' \in Snapshots /\ SamePosition
      BY <1>1, <2>2 DEF Types, SamePosition
    <3>2. /\ rec' = rec \/ (Grows /\ rec'[Len(rec) + 1] = Event(flight, kind, FALSE))
          /\ acks' = acks /\ faults' \in 0 .. MaxFaults
          /\ rec' \in Seq(Events) /\ \A i \in 1 .. Len(acks') : acks'[i] \in 1 .. Len(rec')
          /\ Recorder' /\ FlightOK' /\ OnLedger
      BY <1>1, <2>2, <3>1, UnackedAppend
    <3>3. Types'
      BY <1>1, <1>2, <3>1, <3>2 DEF Types
    <3>4. kind # "resume" /\ Started => Started'
      <4>1. CASE rec' = rec
        BY <4>1 DEF Started
      <4>2. CASE Grows /\ rec'[Len(rec) + 1] = Event(flight, kind, FALSE)
        BY <1>1, <4>2, SteadyStarted DEF Event
      <4>3. QED
        BY <3>2, <4>1, <4>2
    <3>5. Acknowledged(kind) => acks' = Append(acks, Len(rec) + 1)
      BY DEF Acknowledged
    <3>6. Append(acks, Len(rec) + 1) # acks
      <4>1. acks \in Seq(Nat) /\ Len(rec) + 1 \in Nat
        BY <1>1 DEF Types
      <4>2. QED
        BY <4>1, Grow
    <3>7. latch' = "ok" => Started'
      BY <3>2, <3>4, <3>5, <3>6 DEF IInv
    <3>8. svc' = "failed" /\ svc' \notin Open
      <4>1. svc' = "failed"
        BY <2>2, <3>2, <3>5, <3>6
      <4>2. QED
        BY <4>1 DEF Open, Ending
    <3>9. QED
      BY <3>2, <3>3, <3>4, <3>7, <3>8
  <2>3. QED
    BY <2>1, <2>2
<1>4. \A c \in Calls : Calling(c)'
  <2>1. SUFFICES ASSUME NEW c \in Calls
                 PROVE  Calling(c)'
    OBVIOUS
  <2>2. Calling(c) /\ mu' = Nobody /\ Nobody # c /\ pc'[c] = pc[c]
    BY DEF IInv
  <2>3. pc'[c] \notin Inside /\ (pc'[c] = "locking" => Started')
    BY <1>3, <2>2 DEF Calling
  <2>4. svc' \notin Closed /\ svc' # "resume" /\ mu' # c
    BY <1>2, <2>2
  <2>5. QED
    BY <2>3, <2>4, CallingOutside
<1>5. svc' # "receipt"
  BY <1>2 DEF Closed
<1>6. QED
  BY <1>2, <1>3, <1>4, <1>5 DEF IInv

LEMMA LifecycleInv ==
  ASSUME IInv, NEW at, NEW next \in Idle,
         NEW kind \in Kinds \ {"request", "decision", "child", "receipt"},
         Lifecycle(at, kind, next), IF kind = "resume" THEN at = "resume" ELSE at \in Idle
  PROVE  IInv' /\ OnLedger
<1>1. latch' \in {"open", "ok", "failed"} /\ (latch' = "ok" => latch = "ok")
  BY DEF Lifecycle, Settle, IInv, Types
<1>2. svc = at /\ mu = Nobody /\ UNCHANGED <<ledger, mu, pc, run, restarts>>
  BY DEF Lifecycle
<1>3. \/ Acknowledged(kind) /\ flight' = Advanced(flight) /\ svc' = next
      \/ Unacknowledged(kind) /\ svc' = "failed" /\ UNCHANGED flight
  BY DEF Lifecycle
<1>4. QED
  BY <1>1, <1>2, <1>3, ServiceAppend

LEMMA AppendsInv ==
  ASSUME IInv, RecordResume \/ RecordStop \/ RecordObservation \/ RecordTerminal
  PROVE  IInv' /\ OnLedger
<1> USE DEF Idle, Kinds
<1>1. CASE RecordResume
  BY <1>1, LifecycleInv DEF RecordResume
<1>2. CASE RecordStop
  BY <1>2, LifecycleInv DEF RecordStop
<1>3. CASE RecordObservation
  <2>1. Lifecycle("run", "obs", "run")
    BY <1>3, Zenon DEF RecordObservation
  <2>2. QED
    BY <2>1, LifecycleInv
<1>4. CASE RecordTerminal
  BY <1>4, LifecycleInv DEF RecordTerminal
<1>5. QED
  BY <1>1, <1>2, <1>3, <1>4

LEMMA AdapterStartInv ==
  ASSUME IInv, RecordAdapterStart
  PROVE  IInv' /\ OnLedger
<1>1. latch' \in {"open", "ok", "failed"}
  BY DEF RecordAdapterStart, IInv, Types
<1>2. latch' = "ok" => latch = "ok" \/ Acknowledged("start")
  BY DEF RecordAdapterStart
<1>3. mu = Nobody /\ UNCHANGED <<ledger, mu, pc, run, restarts>>
      /\ svc \in Idle /\ "run" \in Idle /\ "start" \in Kinds \ {"request", "decision", "child", "receipt"}
  BY DEF RecordAdapterStart, Idle, Kinds
<1>4. \/ Acknowledged("start") /\ flight' = Advanced(flight) /\ svc' = "run"
      \/ Unacknowledged("start") /\ svc' = "failed" /\ UNCHANGED flight
  BY DEF RecordAdapterStart
<1>5. QED
  BY <1>1, <1>2, <1>3, <1>4, ServiceAppend

(* An append of the command: nobody else appends any more.                  *)
LEMMA CommandAppend ==
  ASSUME IInv, NEW kind \in {"result", "receipt"}, NEW acked \in BOOLEAN,
         Free(run), Linked(run), run.rev = ledger, Within(run.next),
         kind = "receipt" => run.next > 1 /\ rec[run.prior].kind # "receipt",
         rec' = Append(rec, Event(run, kind, acked)), UNCHANGED <<ledger, flight, acks>>
  PROVE  /\ Grows /\ rec'[Len(rec) + 1] = Event(run, kind, acked)
         /\ \A i \in 1 .. Len(acks') : acks'[i] \in 1 .. Len(rec')
         /\ Recorder' /\ Linked(flight)' /\ AckOrder' /\ AckEnd' /\ OnLedger
         /\ Taken(flight) => Taken(flight)'
         /\ Started => Started'
         /\ \A i \in 1 .. Len(rec') : rec'[i].rev = ledger' => rec'[i].seq <= run.next
<1>1. Types /\ Recorder /\ run \in Snapshots /\ flight \in Snapshots /\ kind \in Kinds
  BY DEF IInv, Types, Kinds
<1>2. FlightOK /\ Linked(flight) /\ AckOrder /\ AckEnd
  BY DEF IInv, FlightOK
<1>3. /\ Grows /\ rec'[Len(rec) + 1] = Event(run, kind, acked) /\ Recorder'
      /\ \A i \in 1 .. Len(rec') : rec'[i].rev = ledger' => rec'[i].seq <= run.next
  BY <1>1, Appended DEF Within
<1>4. Linked(flight)'
  BY <1>1, <1>2, <1>3, Steady DEF Linked
<1>5. AckOrder' /\ \A i \in 1 .. Len(acks') : acks'[i] \in 1 .. Len(rec') /\ rec'[acks'[i]] = rec[acks[i]]
  BY <1>1, <1>2, <1>3, SteadyAcks
<1>6. AckEnd'
  <2>1. acks # <<>> => Len(acks) \in 1 .. Len(acks)
    BY <1>1 DEF Types
  <2>2. QED
    BY <1>2, <1>5, <2>1 DEF AckEnd
<1>7. Taken(flight) => Taken(flight)'
  BY <1>1, <1>3, Steady DEF Taken
<1>8. Started => Started'
  BY <1>1, <1>3, SteadyStarted DEF Event
<1>9. OnLedger
  BY <1>1, <1>3 DEF OnLedger, Grows, Event
<1>10. QED
  BY <1>3, <1>4, <1>5, <1>6, <1>7, <1>8, <1>9

(* The handlers are gone, and what else the command leaves alone.           *)
LEMMA CommandOver ==
  ASSUME IInv, svc \in {"complete", "receipt"}, svc' \in {"receipt", "done", "failed"},
         UNCHANGED <<mu, pc>>
  PROVE  \A c \in Calls : Calling(c)'
<1>1. ASSUME NEW c \in Calls
      PROVE  Calling(c)'
  <2>1. Calling(c) /\ pc'[c] = pc[c] /\ mu' = mu
    BY DEF IInv
  <2>2. pc[c] \notin InFlight
    BY <2>1 DEF Calling, Closed
  <2>3. pc'[c] \notin Inside /\ pc'[c] # "locking" /\ mu' # c /\ pc'[c] \notin InFlight
    BY <2>1, <2>2 DEF InFlight, Inside, Calling
  <2>4. QED
    BY <2>3, CallingOutside
<1>2. QED
  BY <1>1

LEMMA FailsFaults ==
  ASSUME Types, NEW s, NEW kind, Fails(s, kind)
  PROVE  /\ faults' \in 0 .. MaxFaults
         /\ rec' = rec \/ (Free(s) /\ rec' = Append(rec, Event(s, kind, FALSE)))
<1>1. faults \in Nat /\ MaxFaults \in Nat /\ faults <= MaxFaults
  BY DEF Types
<1>2. faults' = faults \/ (faults < MaxFaults /\ faults' = faults + 1)
  BY Zenon DEF Fails
<1>3. rec' = rec \/ (Free(s) /\ rec' = Append(rec, Event(s, kind, FALSE)))
  BY Zenon DEF Fails, Appendable
<1>4. faults' \in 0 .. MaxFaults
  BY <1>1, <1>2
<1>5. QED
  BY <1>3, <1>4, Zenon

(* A failed append of the command stores nothing.                           *)
LEMMA CommandFails ==
  ASSUME IInv, svc \in {"complete", "receipt"}, svc' = "failed", rec' = rec, faults' \in 0 .. MaxFaults,
         UNCHANGED <<ledger, flight, acks, latch, mu, pc, run, restarts>>
  PROVE  IInv' /\ OnLedger
<1>1. Types /\ SamePosition /\ svc' \in Places /\ svc' \notin Open \cup {"receipt", "resume"}
  BY DEF IInv, SamePosition, Places, Open, Ending
<1>2. \A c \in Calls : Calling(c)'
  BY CommandOver
<1>3. QED
  BY <1>1, <1>2, Quiet DEF Types, Open

(* The result goes to the position the run returned only if it is free: then *)
(* it is the sequencer's, and the receipt's is behind it.                    *)
LEMMA ResultInv ==
  ASSUME IInv, RecordResult
  PROVE  IInv' /\ OnLedger
<1>1. Types /\ Recorder /\ FlightOK /\ RunOK /\ svc = "complete"
  BY DEF IInv, RecordResult, Ending
<1>2. UNCHANGED <<ledger, flight, acks, latch, mu, pc, restarts>>
  BY DEF RecordResult
<1>3. \/ /\ Free(run) /\ rec' = Append(rec, Event(run, "result", TRUE))
         /\ run' = Advanced(run) /\ svc' = "receipt" /\ faults' = faults
      \/ Fails(run, "result") /\ svc' = "failed" /\ run' = run
  BY DEF RecordResult, Appendable
<1>4. svc' \in {"receipt", "failed"} /\ svc' \in Places /\ faults' \in 0 .. MaxFaults
  BY <1>1, <1>3, FailsFaults DEF Places, Types
<1>5. \A c \in Calls : Calling(c)'
  BY <1>1, <1>2, <1>4, CommandOver
<1>6. CASE rec' = rec /\ svc' = "failed" /\ run' = run
  BY <1>1, <1>2, <1>4, <1>6, CommandFails
<1>7. ASSUME NEW acked \in BOOLEAN, Free(run), rec' = Append(rec, Event(run, "result", acked)),
             run' \in Snapshots, svc' = "receipt" => acked /\ run' = Advanced(run)
      PROVE  IInv' /\ OnLedger
  <2>1. run \in Snapshots /\ flight \in Snapshots /\ flight.rev = ledger /\ Linked(run)
    BY <1>1 DEF Types, FlightOK, RunOK
  <2>2. run.rev = flight.rev /\ run.next = flight.next
    BY <1>1, <1>7 DEF RunOK, Taken, Free
  <2>3. Free(flight)
    BY <1>7, <2>2 DEF Free
  <2>4. Within(run.next)
    BY <1>1, <2>2, <2>3, FreeWithin
  <2>5. /\ Grows /\ rec'[Len(rec) + 1] = Event(run, "result", acked)
        /\ \A i \in 1 .. Len(acks') : acks'[i] \in 1 .. Len(rec')
        /\ Recorder' /\ Linked(flight)' /\ AckOrder' /\ AckEnd' /\ OnLedger
        /\ Started => Started'
        /\ \A i \in 1 .. Len(rec') : rec'[i].rev = ledger' => rec'[i].seq <= run.next
    BY <1>2, <1>7, <2>1, <2>2, <2>4, CommandAppend
  <2>6. Types'
    BY <1>1, <1>2, <1>4, <1>7, <2>5 DEF Types, Grows
  <2>7. FlightOK'
    BY <1>2, <2>1, <2>2, <2>5 DEF FlightOK, Within
  <2>8. latch' = "ok" => Started'
    BY <1>2, <2>5 DEF IInv
  <2>9. svc' = "receipt" => ReceiptOK'
    <3>1. SUFFICES ASSUME svc' = "receipt"
                   PROVE  ReceiptOK'
      OBVIOUS
    <3>2. /\ run'.rev = run.rev /\ run'.next = run.next + 1 /\ run'.prior = Len(rec) + 1
          /\ run.next \in Nat \ {0} /\ Len(rec) \in Nat
      <4>1. run' = Advanced(run)
        BY <1>7, <3>1
      <4>2. run.next \in Nat \ {0} /\ Len(rec) \in Nat
        BY <1>1, <2>1 DEF Snapshots, Types
      <4>3. QED
        BY <1>1, <2>1, <4>1, <4>2, AdvancedSnapshot
    <3>3. /\ Len(rec) + 1 \in 1 .. Len(rec') /\ rec'[Len(rec) + 1].rev = run.rev
          /\ rec'[Len(rec) + 1].seq = run.next /\ rec'[Len(rec) + 1].kind = "result"
      BY <2>5, <3>2 DEF Grows, Event
    <3>4. Linked(run)' /\ run'.next > 1 /\ rec'[run'.prior].kind # "receipt"
      BY <3>2, <3>3 DEF Linked
    <3>5. Taken(flight)' /\ run'.next = flight'.next + 1 /\ run'.rev = ledger'
      BY <1>2, <2>1, <2>2, <3>2, <3>3 DEF Taken
    <3>6. Within(run.next)'
      <4>1. \A i \in 1 .. Len(rec') : rec'[i].seq \in Nat
        BY <2>5, Fields DEF Grows
      <4>2. QED
        BY <2>5, <3>2, <4>1 DEF Within
    <3>7. QED
      BY <3>4, <3>5, <3>6 DEF ReceiptOK
  <2>10. QED
    BY <1>4, <1>5, <2>5, <2>6, <2>7, <2>8, <2>9 DEF IInv, Open, Ending
<1>8. CASE Free(run) /\ rec' = Append(rec, Event(run, "result", FALSE)) /\ svc' = "failed" /\ run' = run
  <2>1. run' \in Snapshots
    BY <1>1, <1>8 DEF Types
  <2>2. QED
    BY <1>7, <1>8, <2>1
<1>9. CASE /\ Free(run) /\ rec' = Append(rec, Event(run, "result", TRUE))
           /\ run' = Advanced(run) /\ svc' = "receipt"
  <2>1. run' \in Snapshots
    BY <1>1, <1>9, AdvancedSnapshot DEF Types
  <2>2. QED
    BY <1>7, <1>9, <2>1
<1>10. QED
  BY <1>1, <1>3, <1>6, <1>8, <1>9, FailsFaults

LEMMA ReceiptInv ==
  ASSUME IInv, RecordReceipt
  PROVE  IInv' /\ OnLedger
<1>1. Types /\ Recorder /\ FlightOK /\ ReceiptOK /\ svc = "receipt"
  BY DEF IInv, RecordReceipt
<1>2. UNCHANGED <<ledger, flight, acks, latch, mu, pc, run, restarts>>
  BY DEF RecordReceipt
<1>3. \/ /\ Free(run) /\ rec' = Append(rec, Event(run, "receipt", TRUE))
         /\ svc' = "done" /\ faults' = faults
      \/ Fails(run, "receipt") /\ svc' = "failed"
  BY DEF RecordReceipt, Appendable
<1>4. svc' \in {"done", "failed"} /\ svc' \in Places /\ faults' \in 0 .. MaxFaults
  BY <1>1, <1>3, FailsFaults DEF Places, Types
<1>5. \A c \in Calls : Calling(c)'
  BY <1>1, <1>2, <1>4, CommandOver
<1>6. CASE rec' = rec /\ svc' = "failed"
  BY <1>1, <1>2, <1>4, <1>6, CommandFails
<1>7. ASSUME NEW acked \in BOOLEAN, Free(run), rec' = Append(rec, Event(run, "receipt", acked))
      PROVE  IInv' /\ OnLedger
  <2>1. /\ Grows /\ \A i \in 1 .. Len(acks') : acks'[i] \in 1 .. Len(rec')
        /\ Recorder' /\ Linked(flight)' /\ AckOrder' /\ AckEnd' /\ OnLedger
        /\ (Taken(flight) => Taken(flight)') /\ (Started => Started')
        /\ \A i \in 1 .. Len(rec') : rec'[i].rev = ledger' => rec'[i].seq <= run.next
    BY <1>1, <1>2, <1>7, CommandAppend DEF ReceiptOK
  <2>2. Types'
    BY <1>1, <1>2, <1>4, <2>1 DEF Types, Grows
  <2>3. FlightOK'
    BY <1>1, <1>2, <2>1 DEF FlightOK, ReceiptOK, Within
  <2>4. latch' = "ok" => Started'
    BY <1>2, <2>1 DEF IInv
  <2>5. QED
    BY <1>4, <1>5, <2>1, <2>2, <2>3, <2>4 DEF IInv, Open, Ending
<1>8. QED
  BY <1>1, <1>3, <1>6, <1>7, FailsFaults

(* Nothing but a call moves on.                                             *)
LEMMA MoveCall ==
  ASSUME IInv, NEW c \in Calls, NEW m \in {"waiting", "locking", "raise", "over"},
         UNCHANGED <<rec, ledger, flight, acks, latch, mu, svc, run, faults, restarts>>,
         pc[c] \notin Inside, pc' = [pc EXCEPT ![c] = m], m = "locking" => Started,
         m = "locking" => svc # "resume", m \in InFlight => svc \notin Closed
  PROVE  IInv' /\ OnLedger
<1>1. Types /\ SamePosition
  BY DEF IInv, SamePosition
<1>2. pc' \in [Calls -> {"idle", "over"} \cup InFlight]
  BY <1>1 DEF Types, InFlight
<1>3. ASSUME NEW d \in Calls
      PROVE  Calling(d)'
  <2>1. Calling(c) /\ Calling(d)
    BY DEF IInv
  <2>2. CASE d = c
    <3>1. pc'[d] = m /\ mu' # d
      BY <1>1, <2>1, <2>2 DEF Types, Calling
    <3>2. Started => Started'
      BY DEF Started
    <3>3. m \notin Inside
      BY DEF Inside
    <3>4. QED
      BY <3>1, <3>2, <3>3, CallingOutside
  <2>3. CASE d # c
    <3>1. pc'[d] = pc[d]
      BY <1>1, <2>3 DEF Types
    <3>2. QED
      BY <1>1, <2>1, <3>1, CallingSame
  <2>4. QED
    BY <2>2, <2>3
<1>4. QED
  BY <1>1, <1>2, <1>3, Quiet DEF Types

LEMMA MovesInv ==
  ASSUME IInv, NEW c \in Calls,
         CallArrives(c) \/ ClientGone(c) \/ AwaitAdapterStart(c) \/ RaiseTerminal(c)
  PROVE  IInv' /\ OnLedger
<1>1. Calling(c) /\ (latch = "ok" => Started /\ svc # "resume")
  BY DEF IInv
<1>2. CASE CallArrives(c)
  <2>1. pc[c] \notin Inside /\ svc \notin Closed /\ pc' = [pc EXCEPT ![c] = "waiting"]
    BY <1>2 DEF CallArrives, ServerUp, Inside, Closed
  <2>2. QED
    BY <1>2, <2>1, MoveCall DEF CallArrives
<1>3. CASE ClientGone(c)
  BY <1>3, MoveCall DEF ClientGone, Inside, InFlight
<1>4. CASE AwaitAdapterStart(c)
  <2>1. pc[c] \notin Inside /\ svc \notin Closed
    BY <1>1, <1>4 DEF AwaitAdapterStart, Calling, Inside, InFlight
  <2>2. UNCHANGED <<rec, ledger, flight, acks, latch, mu, svc, run, faults, restarts>>
    BY <1>4 DEF AwaitAdapterStart
  <2>3. CASE latch = "ok"
    <3>1. pc' = [pc EXCEPT ![c] = "locking"]
      BY <1>4, <2>3 DEF AwaitAdapterStart
    <3>2. QED
      BY <1>1, <2>1, <2>2, <2>3, <3>1, MoveCall
  <2>4. CASE latch # "ok"
    <3>1. pc' = [pc EXCEPT ![c] = "raise"]
      BY <1>4, <2>4 DEF AwaitAdapterStart
    <3>2. QED
      BY <2>1, <2>2, <3>1, MoveCall
  <2>5. QED
    BY <2>3, <2>4
<1>5. CASE RaiseTerminal(c)
  BY <1>5, MoveCall DEF RaiseTerminal, Inside, InFlight
<1>6. QED
  BY <1>2, <1>3, <1>4, <1>5

LEMMA EnterInv ==
  ASSUME IInv, NEW c \in Calls, Enter(c)
  PROVE  IInv' /\ OnLedger
<1>1. Types /\ Calling(c) /\ pc[c] = "locking" /\ mu = Nobody
  BY DEF IInv, Enter
<1>2. Started /\ svc \notin Closed /\ svc # "resume" /\ pc[c] \notin Inside
  BY <1>1 DEF Calling, InFlight, Inside
<1>3. UNCHANGED <<rec, ledger, flight, acks, latch, svc, run, faults, restarts>>
  BY DEF Enter
<1>4. CASE UNCHANGED mu /\ pc' = [pc EXCEPT ![c] = "raise"]
  BY <1>2, <1>3, <1>4, MoveCall
<1>5. CASE mu' = c /\ pc' = [pc EXCEPT ![c] = "request"]
  <2>1. SamePosition /\ flight' \in Snapshots /\ latch' \in {"open", "ok", "failed"}
        /\ faults' \in 0 .. MaxFaults /\ mu' \in Calls \cup {Nobody} /\ svc' \in Places
        /\ restarts' \in 0 .. MaxRestarts
    BY <1>1, <1>3, <1>5 DEF Types, SamePosition
  <2>2. pc' \in [Calls -> {"idle", "over"} \cup InFlight] /\ pc'[c] = "request"
    BY <1>1, <1>5 DEF Types, InFlight
  <2>3. Started'
    BY <1>2, <1>3 DEF Started
  <2>4. ASSUME NEW d \in Calls
        PROVE  Calling(d)'
    <3>1. CASE d = c
      BY <1>2, <1>3, <1>5, <2>2, <2>3, <3>1 DEF Calling, Inside
    <3>2. CASE d # c
      <4>1. pc'[d] = pc[d] /\ mu' # d /\ mu # d
        BY <1>1, <1>5, <3>2 DEF Types
      <4>2. Calling(d)
        BY DEF IInv
      <4>3. QED
        BY <1>3, <2>1, <4>1, <4>2, CallingSame
    <3>3. QED
      BY <3>1, <3>2
  <2>5. QED
    BY <1>3, <2>1, <2>2, <2>4, Quiet
<1>6. QED
  BY <1>4, <1>5 DEF Enter

(* Moves of the service and the command that append nothing.                *)
LEMMA MoveService ==
  ASSUME IInv, UNCHANGED <<rec, ledger, flight, acks, mu, pc, run, faults, restarts>>,
         svc' \in Places \ {"done", "receipt", "resume"},
         svc' \in Open => svc \in Open, svc' \in Ending => svc \in Ending,
         svc' \in {"down", "refused"} => svc = "down",
         svc' = "complete" => \A c \in Calls : pc[c] \notin InFlight,
         latch' \in {latch, "failed"}
  PROVE  IInv' /\ OnLedger
<1>1. Types /\ SamePosition
  BY DEF IInv, SamePosition
<1>2. ASSUME NEW c \in Calls
      PROVE  Calling(c)'
  <2>1. Calling(c)
    BY DEF IInv
  <2>2. svc' \in Closed => svc = svc' \/ pc[c] \notin InFlight
    BY <2>1 DEF Calling, Closed
  <2>3. svc' \in Ending => svc \in Ending
    OBVIOUS
  <2>4. QED
    BY <1>1, <2>1, <2>2, <2>3, CallingSame
<1>3. latch' \in {"open", "ok", "failed"} /\ (latch' = "ok" => latch = "ok")
  BY <1>1 DEF Types
<1>4. QED
  BY <1>1, <1>2, <1>3, Quiet DEF Types

LEMMA ServiceMovesInv ==
  ASSUME IInv, \/ RequestFailureStop \/ CloseWatcher \/ Shutdown \/ WatcherTakes \/ Observe
               \/ ResumeRefused
  PROVE  IInv' /\ OnLedger
<1> USE DEF Places, Ending, Open
<1>1. svc \in Places
  BY DEF IInv, Types
<1>2. CASE RequestFailureStop
  BY <1>2, MoveService DEF RequestFailureStop
<1>3. CASE CloseWatcher
  BY <1>3, MoveService DEF CloseWatcher
<1>4. CASE Shutdown
  BY <1>4, MoveService DEF Shutdown
<1>5. CASE WatcherTakes \/ (Observe /\ svc' = svc)
  <2>1. SamePosition /\ UNCHANGED <<rec, ledger, flight, acks, latch, mu, svc, pc, run, faults, restarts>>
    BY <1>5 DEF WatcherTakes, Observe, SamePosition
  <2>2. ASSUME NEW c \in Calls
        PROVE  Calling(c)'
    <3>1. Calling(c)
      BY DEF IInv
    <3>2. QED
      BY <2>1, <3>1, CallingSame
  <2>3. QED
    BY <2>1, <2>2, Quiet DEF IInv, Types
<1>6. CASE Observe /\ svc' # svc
  BY <1>1, <1>6, MoveService DEF Observe
<1>7. CASE ResumeRefused
  BY <1>7, MoveService DEF ResumeRefused
<1>8. QED
  BY <1>2, <1>3, <1>4, <1>5, <1>6, <1>7

(* The run returns the position of the sequencer.                           *)
LEMMA FinishInv ==
  ASSUME IInv, FinishNormally
  PROVE  IInv' /\ OnLedger
<1>1. Types /\ Recorder /\ FlightOK /\ Fresh /\ mu = Nobody /\ svc = "finish"
  BY DEF IInv, FinishNormally, Open
<1>2. UNCHANGED <<rec, ledger, flight, acks, latch, mu, pc, faults, restarts>> /\ svc' = "close" /\ run' = flight
  BY DEF FinishNormally
<1>3. SamePosition
  BY <1>2 DEF SamePosition
<1>4. Recorder' /\ FlightOK' /\ Fresh' /\ (Started => Started') /\ OnLedger
  BY <1>1, <1>2, <1>3, Still
<1>5. Types'
  BY <1>1, <1>2 DEF Types, Places
<1>6. RunOK'
  <2>1. Linked(run)'
    BY <1>1, <1>2 DEF FlightOK, Linked
  <2>2. \A i \in 1 .. Len(rec') : ~(rec'[i].rev = run'.rev /\ rec'[i].seq = run'.next /\ rec'[i].acked)
    BY <1>1, <1>2 DEF Fresh
  <2>3. QED
    BY <1>2, <2>1, <2>2 DEF RunOK
<1>7. ASSUME NEW c \in Calls
      PROVE  Calling(c)'
  <2>1. Calling(c) /\ pc'[c] = pc[c] /\ mu' # c
    BY <1>1, <1>2 DEF IInv
  <2>2. pc'[c] \notin Inside /\ (pc'[c] = "locking" => Started')
    BY <1>1, <1>4, <2>1 DEF Calling
  <2>3. svc' \notin Closed \cup {"resume"}
    BY <1>2 DEF Closed
  <2>4. QED
    BY <2>1, <2>2, <2>3, CallingOutside
<1>8. latch' = "ok" => Started'
  BY <1>2, <1>4 DEF IInv
<1>9. QED
  BY <1>2, <1>4, <1>5, <1>6, <1>7, <1>8 DEF IInv

LEMMA KillInv ==
  ASSUME IInv, Kill
  PROVE  IInv' /\ OnLedger
<1>1. Types /\ restarts \in Nat /\ restarts < MaxRestarts /\ MaxRestarts \in Nat
  BY DEF IInv, Kill, Types
<1>2. UNCHANGED <<rec, ledger, flight, acks, run, faults>> /\ restarts' = restarts + 1
      /\ svc' = "down" /\ mu' = Nobody /\ latch' = "failed"
      /\ pc' = [c \in Calls |-> IF pc[c] = "idle" THEN "idle" ELSE "over"]
  BY DEF Kill
<1>3. SamePosition /\ restarts' \in 0 .. MaxRestarts
  BY <1>1, <1>2 DEF SamePosition
<1>4. ASSUME NEW c \in Calls
      PROVE  Calling(c)'
  <2>1. pc'[c] \in {"idle", "over"}
    BY <1>2
  <2>2. QED
    BY <1>2, <2>1, CallingOutside DEF Inside, InFlight
<1>5. svc' \in Places /\ svc' \notin Open \cup {"receipt", "resume"}
  BY <1>2 DEF Places, Open, Ending
<1>6. pc' \in [Calls -> {"idle", "over"} \cup InFlight]
  BY <1>2
<1>7. QED
  BY <1>1, <1>2, <1>3, <1>4, <1>5, <1>6, Quiet DEF Types, Open

Goes(c, m) ==
  /\ pc' = [pc EXCEPT ![c] = m]
  /\ mu' = IF m \in Inside THEN mu ELSE Nobody

(* What holds of the other calls while one is inside a transition.          *)
LEMMA OthersOutside ==
  ASSUME IInv, NEW c \in Calls, pc[c] \in Inside, NEW m, Goes(c, m), Started => Started', svc' = svc
  PROVE  \A d \in Calls : d # c => Calling(d)'
<1>1. SUFFICES ASSUME NEW d \in Calls, d # c
               PROVE  Calling(d)'
  OBVIOUS
<1>2. Calling(c) /\ Calling(d) /\ Types
  BY DEF IInv
<1>3. mu = c
  BY <1>2 DEF Calling
<1>4. pc[d] \notin Inside
  BY <1>1, <1>2, <1>3 DEF Calling
<1>5. pc'[d] = pc[d] /\ mu' # d
  BY <1>1, <1>2, <1>3 DEF Goes, Types
<1>6. QED
  BY <1>2, <1>4, <1>5, CallingOutside DEF Calling

(* The epoch is invalidated, or the failed append of a transition.          *)
LEMMA InvalidateInv ==
  ASSUME IInv, NEW c \in Calls, pc[c] \in Inside, Invalidate(c),
         \/ UNCHANGED <<rec, acks>> /\ faults' \in 0 .. MaxFaults
         \/ \E kind \in {"request", "decision", "child"} : Unacknowledged(kind) /\ Guarded(kind),
         UNCHANGED <<ledger, latch, svc, run, restarts>>
  PROVE  IInv' /\ OnLedger
<1>1. Types /\ Recorder /\ FlightOK /\ Calling(c)
  BY DEF IInv
<1>2. svc \notin Closed /\ svc # "resume" /\ Started
  BY <1>1 DEF Calling, Inside, InFlight
<1>3. flight' \in Snapshots /\ SamePosition
  BY <1>1 DEF Invalidate, Types, Snapshots, SamePosition
<1>4. Goes(c, "raise")
  BY DEF Invalidate, Leave, Goes, Inside
<1>5. /\ rec' = rec \/ (Grows /\ \E kind \in {"request", "decision", "child"} : rec'[Len(rec) + 1] = Event(flight, kind, FALSE))
      /\ acks' = acks /\ faults' \in 0 .. MaxFaults
      /\ rec' \in Seq(Events) /\ \A i \in 1 .. Len(acks') : acks'[i] \in 1 .. Len(rec')
      /\ Recorder' /\ FlightOK' /\ (Fresh => Fresh') /\ OnLedger
  <2>1. CASE UNCHANGED <<rec, acks>> /\ faults' \in 0 .. MaxFaults
    <3>1. Recorder' /\ FlightOK' /\ (Fresh => Fresh') /\ OnLedger
      BY <1>1, <1>2, <1>3, <2>1, Still
    <3>2. QED
      BY <1>1, <2>1, <3>1 DEF Types
  <2>2. CASE \E kind \in {"request", "decision", "child"} : Unacknowledged(kind) /\ Guarded(kind)
    <3>1. PICK kind \in {"request", "decision", "child"} : Unacknowledged(kind) /\ Guarded(kind)
      BY <2>2
    <3>2. QED
      BY <1>1, <1>3, <3>1, UnackedAppend DEF Kinds
  <2>3. QED
    BY <2>1, <2>2
<1>6. Started'
  <2>1. CASE rec' = rec
    BY <1>2, <2>1 DEF Started
  <2>2. CASE Grows /\ \E kind \in {"request", "decision", "child"} : rec'[Len(rec) + 1] = Event(flight, kind, FALSE)
    BY <1>1, <1>2, <2>2, SteadyStarted DEF Event
  <2>3. QED
    BY <1>5, <2>1, <2>2
<1>7. Types'
  <2>1. pc' \in [Calls -> {"idle", "over"} \cup InFlight] /\ mu' \in Calls \cup {Nobody}
    BY <1>1, <1>4 DEF Types, Goes, InFlight
  <2>2. QED
    BY <1>1, <1>3, <1>5, <2>1 DEF Types
<1>8. svc \in Ending => RunOK'
  <2>1. CASE rec' = rec
    BY <1>1, <1>3, <2>1, <1>5, Still DEF IInv
  <2>2. CASE Grows /\ \E kind \in {"request", "decision", "child"} : rec'[Len(rec) + 1] = Event(flight, kind, FALSE)
    <3>1. PICK kind \in {"request", "decision", "child"} : rec'[Len(rec) + 1] = Event(flight, kind, FALSE)
      BY <2>2
    <3>2. QED
      BY <1>1, <2>2, <3>1, RunGrows DEF IInv
  <2>3. QED
    BY <1>5, <2>1, <2>2
<1>9. Calling(c)'
  <2>1. pc'[c] = "raise" /\ mu' = Nobody
    BY <1>1, <1>4 DEF Goes, Types, Inside
  <2>2. QED
    BY <1>2, <2>1, CallingOutside DEF Inside
<1>10. \A d \in Calls : Calling(d)'
  BY <1>4, <1>6, <1>9, OthersOutside
<1>11. QED
  BY <1>2, <1>5, <1>6, <1>7, <1>8, <1>10 DEF IInv, Closed

(* An acknowledged append of a transition, which goes on or ends.           *)
LEMMA TransitionInv ==
  ASSUME IInv, NEW c \in Calls, pc[c] \in Inside, NEW kind \in {"request", "decision", "child"},
         Guarded(kind), Acknowledged(kind),
         flight' = Advanced(flight) \/ flight' = [Advanced(flight) EXCEPT !.invalidated = TRUE],
         NEW m \in {"decide", "child", "install", "over", "raise"}, Goes(c, m),
         m = "decide" => kind = "request",
         m = "child" => kind = "decision" /\ flight.rev < MaxRev,
         m = "install" => kind = "child" /\ flight.rev < MaxRev,
         UNCHANGED <<ledger, latch, svc, run, restarts>>
  PROVE  IInv' /\ OnLedger
<1>1. Types /\ Recorder /\ FlightOK /\ Calling(c) /\ kind \in Kinds
  BY DEF IInv, Kinds
<1>2. svc \notin Closed /\ svc # "resume" /\ Started /\ mu = c
  BY <1>1 DEF Calling, Inside, InFlight
<1>3. flight' \in Snapshots /\ Moved
  BY <1>1, AdvancedMoves
<1>4. /\ Grows /\ rec'[Len(rec) + 1] = Event(flight, kind, TRUE)
      /\ acks' \in Seq(Nat) /\ \A i \in 1 .. Len(acks') : acks'[i] \in 1 .. Len(rec')
      /\ Recorder' /\ FlightOK' /\ Fresh' /\ OnLedger
  BY <1>1, <1>3, AckedAppend
<1>5. Started'
  BY <1>1, <1>2, <1>4, SteadyStarted DEF Event
<1>6. Types'
  <2>1. pc' \in [Calls -> {"idle", "over"} \cup InFlight] /\ mu' \in Calls \cup {Nobody}
    BY <1>1 DEF Types, Goes, InFlight
  <2>2. faults' = faults
    BY DEF Acknowledged
  <2>3. QED
    BY <1>1, <1>3, <1>4, <2>1, <2>2 DEF Types, Grows
<1>7. svc \in Ending => RunOK' /\ Taken(run)'
  BY <1>1, <1>4, RunGrows DEF IInv
<1>8. Calling(c)'
  <2>1. pc'[c] = m /\ (mu' = c <=> m \in Inside)
    BY <1>1, <1>2 DEF Goes, Types
  <2>2. Len(rec') > 0 /\ rec'[Len(rec')].kind = kind /\ flight'.prior = Len(rec') /\ flight'.rev = flight.rev
        /\ flight'.next > 1
    <3>1. flight.next \in Nat \ {0} /\ Len(rec) \in Nat /\ Len(rec') = Len(rec) + 1
      BY <1>1, <1>4 DEF Types, Snapshots, Grows
    <3>2. rec'[Len(rec')].kind = kind
      BY <1>4, <3>1 DEF Event
    <3>3. QED
      BY <1>3, <3>1, <3>2 DEF Moved
  <2>3. pc'[c] = "request" => FALSE
    BY <2>1
  <2>4. /\ pc'[c] = "decide" => EndsWith("request")'
        /\ pc'[c] = "child" => EndsWith("decision")' /\ flight'.rev < MaxRev
        /\ pc'[c] = "install" => /\ flight'.rev < MaxRev /\ flight'.next > 1
                                 /\ rec'[flight'.prior].kind = "child"
    BY <2>1, <2>2 DEF EndsWith
  <2>5. QED
    BY <1>2, <1>5, <1>7, <2>1, <2>4 DEF Calling
<1>9. \A d \in Calls : Calling(d)'
  BY <1>5, <1>8, OthersOutside
<1>10. QED
  BY <1>2, <1>4, <1>5, <1>6, <1>7, <1>9 DEF IInv, Closed

LEMMA CallAppendsInv ==
  ASSUME IInv, NEW c \in Calls,
         \/ AppendContextRequest(c) \/ Deny(c) \/ Approve(c) \/ AppendChildManifest(c)
  PROVE  IInv' /\ OnLedger
<1>1. PICK at \in {"request", "decide", "child"}, kind \in {"request", "decision", "child"},
           m \in {"decide", "child", "install", "over"} :
        /\ Transition(c, at, kind, m)
        /\ at = "request" <=> kind = "request"
        /\ at = "decide" <=> kind = "decision"
        /\ m = "decide" => kind = "request"
        /\ m = "child" => kind = "decision" /\ flight.rev < MaxRev
        /\ m = "install" => kind = "child"
  <2>1. CASE AppendContextRequest(c)
    BY <2>1 DEF AppendContextRequest
  <2>2. CASE Deny(c)
    BY <2>2 DEF Deny
  <2>3. CASE Approve(c)
    BY <2>3 DEF Approve
  <2>4. CASE AppendChildManifest(c)
    BY <2>4 DEF AppendChildManifest
  <2>5. QED
    BY <2>1, <2>2, <2>3, <2>4
<1>2. Types /\ Calling(c) /\ pc[c] = at
  BY <1>1 DEF IInv, Transition
<1>3. pc[c] \in Inside /\ Guarded(kind) /\ kind \in Kinds /\ (m = "install" => flight.rev < MaxRev)
  BY <1>1, <1>2 DEF Inside, Guarded, Calling, Kinds
<1>4. UNCHANGED <<ledger, latch, svc, run, restarts>>
  BY <1>1 DEF Transition
<1>5. CASE Unacknowledged(kind) /\ Invalidate(c)
  BY <1>3, <1>4, <1>5, InvalidateInv
<1>6. CASE /\ Acknowledged(kind) /\ flight' = Advanced(flight)
           /\ IF m = "over" THEN Leave(c, m) ELSE pc' = [pc EXCEPT ![c] = m] /\ UNCHANGED mu
  <2>1. Goes(c, m)
    BY <1>6 DEF Goes, Leave, Inside
  <2>2. m \in {"decide", "child", "install", "over", "raise"}
    OBVIOUS
  <2>3. QED
    BY <1>1, <1>3, <1>4, <1>6, <2>1, <2>2, TransitionInv
<1>7. QED
  BY <1>1, <1>5, <1>6 DEF Transition

LEMMA EpochInv ==
  ASSUME IInv, NEW c \in Calls, InvalidateEpoch(c) \/ FailTransition(c)
  PROVE  IInv' /\ OnLedger
<1>1. Types /\ Calling(c) /\ pc[c] = "decide" /\ pc[c] \in Inside
  BY DEF IInv, InvalidateEpoch, FailTransition, Inside
<1>2. Guarded("decision") /\ "decision" \in Kinds
  BY <1>1 DEF Guarded, Calling, Kinds
<1>3. UNCHANGED <<ledger, latch, svc, run, restarts>>
  BY DEF InvalidateEpoch, FailTransition
<1>4. CASE FailTransition(c)
  <2>1. Invalidate(c) /\ UNCHANGED <<rec, acks>> /\ faults' \in 0 .. MaxFaults
    BY <1>1, <1>4 DEF FailTransition, Types
  <2>2. QED
    BY <1>1, <1>3, <2>1, InvalidateInv
<1>5. CASE Unacknowledged("decision") /\ Invalidate(c)
  BY <1>1, <1>2, <1>3, <1>5, InvalidateInv
<1>6. CASE /\ Acknowledged("decision")
           /\ flight' = [Advanced(flight) EXCEPT !.invalidated = TRUE]
           /\ Leave(c, "raise")
  <2>1. Goes(c, "raise")
    BY <1>6 DEF Goes, Leave, Inside
  <2>2. QED
    BY <1>1, <1>2, <1>3, <1>6, <2>1, TransitionInv
<1>7. QED
  BY <1>4, <1>5, <1>6 DEF InvalidateEpoch

(* A revision begins at source sequence one, and its first event will name  *)
(* the child-manifest that ends its parent.                                 *)
LEMMA InstallInv ==
  ASSUME IInv, NEW c \in Calls, InstallExpansion(c)
  PROVE  IInv' /\ OnLedger
<1>1. Types /\ Recorder /\ FlightOK /\ Calling(c) /\ pc[c] = "install" /\ pc[c] \in Inside
  BY DEF IInv, InstallExpansion, Inside
<1>2. /\ svc \notin Closed /\ svc # "resume" /\ Started
      /\ flight.rev < MaxRev /\ flight.next > 1 /\ rec[flight.prior].kind = "child"
  BY <1>1 DEF Calling, Inside, InFlight
<1>3. UNCHANGED <<rec, acks, latch, svc, run, restarts>>
  BY DEF InstallExpansion
<1>4. CASE faults < MaxFaults /\ faults' = faults + 1 /\ Invalidate(c) /\ UNCHANGED ledger
  <2>1. faults' \in 0 .. MaxFaults
    BY <1>1, <1>4 DEF Types
  <2>2. QED
    BY <1>1, <1>3, <1>4, <2>1, InvalidateInv
<1>5. CASE /\ ledger' = flight.rev + 1
           /\ flight' = [flight EXCEPT !.rev = @ + 1, !.next = 1, !.prior = 0, !.bridge = flight.prior]
           /\ Leave(c, "over") /\ UNCHANGED faults
  <2>1. /\ flight.rev \in 1 .. MaxRev /\ flight.rev = ledger /\ flight.next \in Nat \ {0}
        /\ flight.prior \in 1 .. Len(rec) /\ rec[flight.prior].rev = flight.rev
    BY <1>1, <1>2 DEF Types, Snapshots, FlightOK, Linked
  <2>2. /\ flight' \in Snapshots /\ flight'.rev = flight.rev + 1 /\ flight'.next = 1
        /\ flight'.prior = 0 /\ flight'.bridge = flight.prior
    <3> DEFINE f1 == [flight EXCEPT !.rev = flight.rev + 1]
               f2 == [f1 EXCEPT !.next = 1]
               f3 == [f2 EXCEPT !.prior = 0]
               f4 == [f3 EXCEPT !.bridge = flight.prior]
    <3>1. flight \in Snapshots /\ flight.rev + 1 \in 1 .. MaxRev /\ flight.prior \in Nat
      BY <1>1, <1>2, <2>1 DEF Types, Snapshots
    <3>2. flight' = f4
      BY <1>5, <3>1 DEF Snapshots
    <3>3. f1 \in Snapshots /\ f1.rev = flight.rev + 1
      BY <3>1 DEF Snapshots
    <3> HIDE DEF f1
    <3>4. f2 \in Snapshots /\ f2.rev = flight.rev + 1 /\ f2.next = 1
      BY <3>3 DEF Snapshots
    <3> HIDE DEF f2
    <3>5. f3 \in Snapshots /\ f3.rev = flight.rev + 1 /\ f3.next = 1 /\ f3.prior = 0
      BY <3>4 DEF Snapshots
    <3> HIDE DEF f3
    <3>6. f4 \in Snapshots /\ f4.rev = flight.rev + 1 /\ f4.next = 1 /\ f4.prior = 0 /\ f4.bridge = flight.prior
      BY <3>1, <3>5 DEF Snapshots
    <3>7. QED
      BY <3>2, <3>6
  <2>3. ledger' = ledger + 1 /\ ledger' \in 1 .. MaxRev /\ faults' = faults /\ Goes(c, "over")
    BY <1>2, <1>5, <2>1 DEF Goes, Leave, Inside
  <2>4. Types'
    <3>1. pc' \in [Calls -> {"idle", "over"} \cup InFlight] /\ mu' \in Calls \cup {Nobody}
      BY <1>1, <2>3 DEF Types, Goes
    <3>2. QED
      BY <1>1, <1>3, <2>2, <2>3, <3>1 DEF Types
  <2>5. \A i \in 1 .. Len(rec') : rec'[i].rev <= ledger /\ rec'[i].rev \in Nat
    <3>1. \A i \in 1 .. Len(rec') : rec'[i].rev <= ledger
      BY <1>1, <1>3 DEF Recorder, Ordered
    <3>2. \A i \in 1 .. Len(rec') : rec'[i] \in Events
      BY <1>1, <1>3 DEF Types
    <3>3. \A i \in 1 .. Len(rec') : rec'[i].rev \in Nat
      BY <3>2 DEF Events
    <3>4. QED
      BY <3>1, <3>3
  <2>6. Recorder'
    <3>1. TransitionsWhole' /\ ContextAfterStart' /\ Chained' /\ Receipted'
      BY <1>1, <1>3 DEF Recorder, TransitionsWhole, ContextAfterStart, Chained, Receipted
    <3>2. Ordered'
      BY <1>1, <1>3, <2>1, <2>3, <2>5 DEF Recorder, Ordered
    <3>3. QED
      BY <3>1, <3>2 DEF Recorder
  <2>7. \A i \in 1 .. Len(rec') : rec'[i].rev # ledger' /\ rec'[i].rev # flight'.rev
    BY <2>1, <2>2, <2>3, <2>5
  <2>8. Linked(flight)' /\ AckOrder'
    <3>1. AckOrder'
      BY <1>1, <1>3 DEF FlightOK, AckOrder
    <3>2. flight'.bridge \in 1 .. Len(rec') /\ rec'[flight'.bridge].rev = flight'.rev - 1
          /\ rec'[flight'.bridge].kind = "child"
      BY <1>2, <1>3, <2>1, <2>2
    <3>3. flight'.rev # 1
      BY <2>1, <2>2
    <3>4. QED
      BY <2>2, <3>1, <3>2, <3>3 DEF Linked
  <2>9. AckEnd'
    <3>1. acks # <<>> => flight.prior = acks[Len(acks)]
      BY <1>1, <1>2 DEF FlightOK, AckEnd
    <3>2. QED
      BY <1>2, <1>3, <2>1, <2>2, <3>1 DEF AckEnd
  <2>10. Within(flight.next)'
    BY <2>7 DEF Within
  <2>11. FlightOK' /\ Fresh'
    BY <2>1, <2>2, <2>3, <2>7, <2>8, <2>9, <2>10 DEF FlightOK, Fresh
  <2>12. Started'
    BY <1>2, <1>3 DEF Started
  <2>13. svc \in Ending => RunOK'
    <3>1. svc \in Ending => Taken(run) /\ RunOK
      BY <1>1 DEF IInv, Calling, Inside
    <3>2. QED
      BY <1>3, <3>1 DEF RunOK, Taken, Linked
  <2>14. \A d \in Calls : Calling(d)'
    <3>1. pc'[c] = "over" /\ mu' = Nobody
      BY <1>1, <2>3 DEF Goes, Types, Inside
    <3>2. Calling(c)'
      BY <3>1, CallingOutside DEF Inside, InFlight
    <3>3. QED
      BY <1>1, <1>3, <2>3, <2>12, <3>2, OthersOutside
  <2>15. OnLedger
    BY <1>1, <1>3 DEF OnLedger, Types
  <2>16. QED
    BY <1>2, <1>3, <2>4, <2>6, <2>11, <2>12, <2>13, <2>14, <2>15 DEF IInv, Closed
<1>6. QED
  BY <1>4, <1>5 DEF InstallExpansion

(* A resume continues behind the last event of the checkpoint: behind it in *)
(* the installed revision there is at most the receipt.                     *)
LEMMA ResumeInv ==
  ASSUME IInv, Resume
  PROVE  IInv' /\ OnLedger
<1>1. Types /\ Recorder /\ FlightOK /\ svc = "down"
  BY DEF IInv, Resume
<1>2. /\ UNCHANGED <<rec, ledger, mu, pc, run, faults, restarts>> /\ latch' = "open"
      /\ svc' = "resume" /\ acks' = <<>>
  BY DEF Resume
<1>3. PICK t \in Segment(ledger) : Ends(t, ledger) /\ flight' = Restored(t)
  BY DEF Resume
<1>4. /\ t \in 1 .. Len(rec) /\ rec[t] \in Events /\ rec[t].rev = ledger /\ rec[t].seq \in Nat \ {0}
      /\ t \in Nat \ {0} /\ ledger \in 1 .. MaxRev
  BY <1>1, Fields DEF Segment, Types
<1>5. /\ flight'.rev = ledger /\ flight'.next = rec[t].seq + 1 /\ flight'.prior = t
      /\ flight' \in Snapshots
  BY <1>3, <1>4 DEF Restored, Snapshots
<1>6. Types'
  BY <1>1, <1>2, <1>5 DEF Types, Places
<1>7. Recorder'
  BY <1>1, <1>2, RecorderKept
<1>8. Linked(flight)'
  <2>1. flight'.next > 1 /\ flight'.next - 1 = rec[t].seq
    BY <1>4, <1>5
  <2>2. QED
    BY <1>2, <1>4, <1>5, <2>1 DEF Linked
<1>9. AckOrder' /\ AckEnd'
  BY <1>2 DEF AckOrder, AckEnd
<1>10. ASSUME NEW i \in 1 .. Len(rec), rec[i].rev = ledger
       PROVE  rec[i].seq <= rec[t].seq + 1
  <2>1. ASSUME NEW j \in 1 .. Len(rec), rec[j].rev = ledger, rec[j].kind # "receipt"
        PROVE  rec[j].seq <= rec[t].seq
    <3>1. j <= t /\ rec[j].seq \in Nat
      BY <1>1, <1>3, <2>1, Fields DEF Ends, Segment, Types
    <3>2. j < t => rec[j].seq < rec[t].seq
      BY <1>1, <1>4, <2>1 DEF Recorder, Ordered
    <3>3. QED
      BY <1>4, <3>1, <3>2
  <2>2. rec[i].seq \in Nat
    BY <1>1, Fields DEF Types
  <2>3. CASE rec[i].kind = "receipt"
    <3>1. rec[i].seq > 1 /\ rec[rec[i].prior].kind # "receipt"
      BY <1>1, <2>3 DEF Recorder, Receipted
    <3>2. /\ rec[i].prior \in 1 .. (i - 1) /\ rec[rec[i].prior].rev = ledger
          /\ rec[rec[i].prior].seq = rec[i].seq - 1
      BY <1>1, <1>10, <3>1 DEF Recorder, Chained
    <3>3. rec[i].prior \in 1 .. Len(rec)
      BY <1>1, <3>2 DEF Types
    <3>4. rec[i].seq - 1 <= rec[t].seq
      BY <2>1, <3>1, <3>2, <3>3
    <3>5. QED
      BY <1>4, <2>2, <3>4
  <2>4. CASE rec[i].kind # "receipt"
    BY <1>4, <1>10, <2>1, <2>2, <2>4
  <2>5. QED
    BY <2>3, <2>4
<1>11. Within(flight.next)'
  BY <1>2, <1>5, <1>10 DEF Within
<1>12. FlightOK'
  BY <1>2, <1>5, <1>8, <1>9, <1>11 DEF FlightOK
<1>13. ASSUME NEW c \in Calls
       PROVE  Calling(c)'
  <2>1. Calling(c) /\ pc'[c] = pc[c] /\ mu' = mu
    BY <1>2 DEF IInv
  <2>2. pc[c] \notin InFlight
    BY <1>1, <2>1 DEF Calling, Closed
  <2>3. pc'[c] \notin Inside /\ pc'[c] # "locking" /\ mu' # c /\ pc'[c] \notin InFlight
    BY <2>1, <2>2 DEF InFlight, Inside, Calling
  <2>4. QED
    BY <2>3, CallingOutside
<1>14. OnLedger
  BY <1>1, <1>2 DEF OnLedger, Types
<1>15. QED
  BY <1>2, <1>6, <1>7, <1>12, <1>13, <1>14 DEF IInv, Open, Ending
-----------------------------------------------------------------------------
LEMMA NextIInv == IInv /\ Next => IInv' /\ OnLedger
<1> SUFFICES ASSUME IInv, Next PROVE IInv' /\ OnLedger
  OBVIOUS
<1>1. CASE ServiceStep
  BY <1>1, AppendsInv, FinishInv, ServiceMovesInv, ResultInv, ReceiptInv DEF ServiceStep
<1>2. CASE ProviderStep
  BY <1>2, AdapterStartInv, AppendsInv, ServiceMovesInv, MovesInv DEF ProviderStep
<1>3. ASSUME NEW c \in Calls, CallStep(c)
      PROVE  IInv' /\ OnLedger
  BY <1>3, MovesInv, EnterInv, CallAppendsInv, EpochInv, InstallInv DEF CallStep
<1>4. QED
  BY <1>1, <1>2, <1>3, KillInv, ResumeInv, ServiceMovesInv DEF Next

LEMMA StutterIInv == IInv /\ UNCHANGED vars => IInv' /\ OnLedger
<1> SUFFICES ASSUME IInv, UNCHANGED vars PROVE IInv' /\ OnLedger
  OBVIOUS
<1>1. SamePosition /\ UNCHANGED <<rec, ledger, acks, restarts, flight, latch, svc, faults, pc, mu, run>>
  BY DEF vars, SamePosition
<1>2. ASSUME NEW c \in Calls
      PROVE  Calling(c)'
  <2>1. Calling(c)
    BY DEF IInv
  <2>2. QED
    BY <1>1, <2>1, CallingSame
<1>3. QED
  BY <1>1, <1>2, Quiet DEF IInv, Types

LEMMA StreamSoundHolds == IInv => StreamSound
<1> SUFFICES ASSUME IInv PROVE StreamSound
  OBVIOUS
<1>1. Types /\ Recorder
  BY DEF IInv
<1>2. ASSUME NEW i \in 1 .. Len(rec)
      PROVE  rec[i] \in [rev : 1 .. MaxRev, seq : Nat \ {0}, prior : 0 .. Len(rec), bridge : 0 .. Len(rec),
                         kind : Kinds, acked : BOOLEAN]
  <2>1. rec[i] \in Events /\ i \in Nat /\ i <= Len(rec) /\ Len(rec) \in Nat
    BY <1>1 DEF Types
  <2>2. rec[i].seq \in Nat \ {0}
    BY <2>1 DEF Events
  <2>3. rec[i].prior \in 0 .. Len(rec) /\ rec[i].bridge \in 0 .. Len(rec)
    <3>1. CASE rec[i].seq > 1
      <4>1. rec[i].prior \in 1 .. (i - 1) /\ rec[i].bridge = 0
        BY <1>1, <3>1 DEF Recorder, Chained
      <4>2. QED
        BY <2>1, <4>1
    <3>2. CASE ~(rec[i].seq > 1)
      <4>1. rec[i].prior = 0 /\ (rec[i].bridge = 0 \/ rec[i].bridge \in 1 .. (i - 1))
        BY <1>1, <3>2 DEF Recorder, Chained
      <4>2. QED
        BY <2>1, <4>1
    <3>3. QED
      BY <3>1, <3>2
  <2>4. QED
    BY <2>1, <2>3 DEF Events
<1>3. \A c \in Calls : mu = c <=> pc[c] \in {"request", "decide", "child", "install"}
  BY DEF IInv, Calling, Inside
<1>4. TypeOK
  BY <1>1, <1>2, <1>3 DEF TypeOK, Types, Kinds
<1>5. QED
  BY <1>1, <1>4 DEF StreamSound, Recorder

LEMMA StateTrueHolds == IInv => StateTrue
<1> SUFFICES ASSUME IInv PROVE StateTrue
  OBVIOUS
<1>1. StreamMatchesState
  <2>1. acks # <<>> /\ flight.next > 1 => flight.prior = Last(acks)
    BY DEF IInv, FlightOK, AckEnd, Last
  <2>2. flight.next > 1 => /\ flight.prior \in 1 .. Len(rec)
                           /\ rec[flight.prior].rev = flight.rev /\ rec[flight.prior].seq = flight.next - 1
    BY DEF IInv, FlightOK, Linked
  <2>3. AckOrder
    BY DEF IInv, FlightOK
  <2>4. QED
    BY <2>1, <2>2, <2>3 DEF AckOrder, StreamMatchesState
<1>2. ResultPositionFree
  <2>1. SUFFICES ASSUME svc = "complete", NEW i \in 1 .. Len(rec), rec[i].acked,
                        <<rec[i].rev, rec[i].seq>> = <<run.rev, run.next>>
                 PROVE  rec[i].kind \in {"request", "decision", "child"}
    BY DEF ResultPositionFree
  <2>2. RunOK /\ rec[i].rev = run.rev /\ rec[i].seq = run.next
    BY <2>1 DEF IInv, Ending
  <2>3. QED
    BY <2>1, <2>2 DEF RunOK
<1>3. QED
  BY <1>1, <1>2 DEF StateTrue

(* The inductive invariant holds of every execution.                        *)
THEOREM Invariance == Spec => []IInv
<1>1. IInv /\ [Next]_vars => IInv'
  BY NextIInv, StutterIInv
<1>2. QED
  BY <1>1, InitIInv, PTL DEF Spec

(* The recorder holds one chain of whole context transitions, each begun    *)
(* after an acknowledged adapter-start of its own run                       *)
(* (FlightState.appendLocked, ContextTransition and newExecutionFlightState, *)
(* whatever is lost and however often the run is resumed).                  *)
THEOREM Sound == Spec => []StreamSound
BY Invariance, StreamSoundHolds, PTL

(* The acknowledgements the sequencer keeps end where its next event begins *)
(* and are contiguous in each revision, and the position of the execution   *)
(* result was acknowledged to nothing but a transition that outlived the run *)
(* (FlightState.snapshot, planRestart, tryFinishNormally and Complete).     *)
THEOREM BelievesTrue == Spec => []StateTrue
BY Invariance, StateTrueHolds, PTL

(* No append, of the service, of a transition or of the result, stores an   *)
(* event under another revision than the one the ledger has installed.      *)
THEOREM InstalledRevision == Spec => OnInstalledRevision
<1>1. IInv /\ [Next]_vars => [Len(rec') > Len(rec) => Last(rec').rev = ledger]_vars
  BY NextIInv DEF OnLedger, Last
<1>2. QED
  BY <1>1, Invariance, PTL DEF Spec, OnInstalledRevision
=============================================================================
