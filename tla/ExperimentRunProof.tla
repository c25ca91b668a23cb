------------------------- MODULE ExperimentRunProof -------------------------
(***************************************************************************)
(* Safety of ExperimentRun for any number of processes, candidates,        *)
(* warmups, rounds, values and faults.  What a process publishes is built  *)
(* over many steps with nothing held; the proof shows that the private     *)
(* copy cannot part from the file, because the schedule has no two equal   *)
(* places (MeasuredInjective) and the file only grows.                     *)
(***************************************************************************)
EXTENDS ExperimentRun, TLAPS, SequenceTheorems

Places == {"idle", "plan", "receipt", "loadResult", "prove", "validate", "activate",
           "mkdir", "mkdirRest", "mkdirCut", "warm", "measure", "append", "write", "cleanup",
           "cleanupRest", "cleanupCut", "publish"}
Activating == {"activate", "mkdir", "mkdirRest", "mkdirCut"}
Measuring == {"warm", "measure", "append", "write"}
Completing == {"cleanup", "cleanupRest", "cleanupCut", "publish"}

(* The types TypeOK leaves out: they are of the processes' memories.        *)
MemoryTypes ==
  /\ result \in [over: Seq(Observations), diag: BOOLEAN]
  /\ lock \in Procs \cup {NoProc}
  /\ pc \in [Procs -> Places] /\ mode \in [Procs -> {"start", "resume"}]
  /\ loc \in [Procs -> Seq(Observations)] /\ buf \in [Procs -> Seq(Observations)]
  /\ diag \in [Procs -> BOOLEAN]

(* s is what t begins with.                                                 *)
Begins(s, t) == Len(s) <= Len(t) /\ \A i \in 1 .. Len(s) : s[i] = t[i]

InPlace(o, i) == [cand |-> o.cand, round |-> o.round] = Measured(i)

(* A process's copy is what the file begins with; after an evaluation, all  *)
(* of it but its last record, which has the next place of the copy.  Under  *)
(* the lock the copy is one record ahead of the file.                       *)
CopyOf(p) ==
  /\ pc[p] \notin {"append", "write"} => Begins(loc[p], obs)
  /\ pc[p] \in {"append", "write"} =>
       /\ Len(loc[p]) \in 1 .. Total
       /\ Len(loc[p]) <= Len(obs) + 1
       /\ \A i \in 1 .. Len(loc[p]) - 1 : loc[p][i] = obs[i]
       /\ InPlace(NewRecord(p), Len(loc[p]))
  /\ pc[p] = "write" =>
       Len(loc[p]) = Len(obs) + 1 /\ buf[p] = Append(obs, NewRecord(p))
  /\ pc[p] = "measure" => Len(loc[p]) < Total
  /\ pc[p] \in Completing => Complete(p)

CopySound == \A p \in Procs : CopyOf(p)

(* While measurements are missing, a root that a process has activated      *)
(* stays whole, and no activation meets a removal: only those who hold a    *)
(* complete copy clean up.                                                  *)
RootsUp ==
  /\ \A p \in Procs : pc[p] \notin Activating \cup Completing => cur[p] = 0
  /\ Len(obs) < Total =>
       \A p \in Procs :
         /\ pc[p] # "mkdirCut"
         /\ pc[p] \in Activating => \A c \in Candidates : c < cur[p] => root[c] = "whole"
         /\ pc[p] \in Measuring => \A c \in Candidates : root[c] = "whole"

(* Who executes a start has published the receipt.                          *)
StartSound ==
  \A p \in Procs :
    /\ Executing(p) => receipt
    /\ pc[p] \in {"loadResult", "prove", "validate"} => mode[p] = "resume"

IInv == TypeOK /\ MemoryTypes /\ PrefixExact /\ CopySound /\ RootsUp
        /\ ResultOverFile /\ StartSound /\ OneStart

-----------------------------------------------------------------------------
(* Division with remainder.                                                 *)
LEMMA DivMod ==
  ASSUME NEW n \in Nat, NEW d \in Nat \ {0}
  PROVE  /\ n \div d \in Nat /\ n % d \in Nat
         /\ n = d * (n \div d) + (n % d) /\ n % d < d
OBVIOUS

LEMMA TimesMonotone ==
  ASSUME NEW d \in Nat, NEW a \in Nat, NEW b \in Nat, a <= b
  PROVE  d * a <= d * b
<1>1. PICK k \in Nat : b = a + k
  <2>1. b - a \in Nat /\ b = a + (b - a)
    OBVIOUS
  <2>2. QED
    BY <2>1
<1>2. d * b = d * a + d * k /\ d * k \in Nat
  BY <1>1
<1>3. QED
  BY <1>2

LEMMA QuotientUnique ==
  ASSUME NEW q \in Int, NEW r \in Int, NEW d \in Nat \ {0}, NEW e \in Int,
         -d < e, e < d, e = d * q - d * r
  PROVE  q = r
<1>1. CASE q < r
  <2>1. d * (r - q) >= d
    BY <1>1
  <2>2. QED
    BY <2>1
<1>2. CASE q > r
  <2>1. d * (q - r) >= d
    BY <1>2
  <2>2. QED
    BY <2>1
<1>3. QED
  BY <1>1, <1>2

(* Rotating by the same number keeps different candidates apart.            *)
LEMMA RotationInjective ==
  ASSUME NEW m \in Nat, NEW n \in Nat, NEW c \in Nat, NEW d \in Nat \ {0},
         m < d, n < d, (c + m) % d = (c + n) % d
  PROVE  m = n
<1>1. PICK a \in Nat : a = c + m
  OBVIOUS
<1>2. PICK b \in Nat : b = c + n
  OBVIOUS
<1>3. a % d = b % d
  BY <1>1, <1>2
<1>4. /\ a = d * (a \div d) + (a % d) /\ b = d * (b \div d) + (b % d)
      /\ a \div d \in Nat /\ b \div d \in Nat /\ a % d \in Nat
  BY DivMod
<1>5. m - n = d * (a \div d) - d * (b \div d)
  BY <1>1, <1>2, <1>3, <1>4
<1>6. a \div d = b \div d
  BY <1>5, <1>4, QuotientUnique
<1>7. QED
  BY <1>1, <1>2, <1>3, <1>4, <1>6

(* Division with remainder has one solution.                                *)
LEMMA DivUnique ==
  ASSUME NEW n \in Nat, NEW q \in Nat, NEW r \in Nat, NEW d \in Nat \ {0},
         n = d * q + r, r < d
  PROVE  n \div d = q /\ n % d = r
<1>1. PICK x \in Nat, y \in Nat : x = n \div d /\ y = n % d /\ n = d * x + y /\ y < d
  BY DivMod
<1>2. r - y = d * x - d * q
  <2>1. PICK a \in Nat, b \in Nat : a = d * x /\ b = d * q
    OBVIOUS
  <2>2. a + y = b + r
    BY <1>1, <2>1
  <2>3. QED
    BY <2>1, <2>2
<1>3. x = q
  BY <1>1, <1>2, QuotientUnique
<1>4. QED
  BY <1>1, <1>2, <1>3

LEMMA TotalType == Total \in Nat
BY RunConstants DEF Total

(* The cycle, counted from the first measured one, and the place in it, of  *)
(* the i-th measurement.                                                    *)
Cycle(i) == (i - 1) \div Count
Spot(i) == (i - 1) % Count

LEMMA CycleSpot ==
  ASSUME NEW i \in 1 .. Total
  PROVE  /\ Cycle(i) \in Nat /\ Cycle(i) < Rounds
         /\ Spot(i) \in Nat /\ Spot(i) < Count
         /\ i = Count * Cycle(i) + Spot(i) + 1
<1> USE TotalType
<1>1. PICK n \in Nat : n = i - 1 /\ n < Total
  OBVIOUS
<1>2. /\ n \div Count \in Nat /\ n % Count \in Nat /\ n % Count < Count
      /\ n = Count * (n \div Count) + (n % Count)
  BY DivMod, RunConstants
<1>3. /\ Cycle(i) \in Nat /\ Spot(i) \in Nat /\ Spot(i) < Count
      /\ n = Count * Cycle(i) + Spot(i)
  BY <1>1, <1>2 DEF Cycle, Spot
<1>4. Cycle(i) < Rounds
  <2>1. SUFFICES ASSUME Rounds <= Cycle(i) PROVE FALSE
    BY <1>3, RunConstants
  <2>2. Total <= Count * Cycle(i)
    BY <2>1, <1>3, TimesMonotone, RunConstants DEF Total
  <2>3. Count * Cycle(i) \in Nat
    BY <1>3, RunConstants
  <2>4. QED
    BY <2>2, <2>3, <1>1, <1>3
<1>5. QED
  BY <1>1, <1>3, <1>4

(* The i-th measured place: the rotation counts the cycles, warmups too.    *)
LEMMA MeasuredIs ==
  ASSUME NEW i \in 1 .. Total
  PROVE  Measured(i) = [cand |-> (Warmups + Cycle(i) + Spot(i)) % Count, round |-> Cycle(i) + 1]
<1>1. PICK q \in Nat : q = Warmups + Cycle(i)
  BY CycleSpot, RunConstants
<1>2. PICK n \in Nat : n = Count * q + Spot(i) /\ n = Warmups * Count + i - 1
  <2>1. Count * q = Count * Warmups + Count * Cycle(i)
    BY <1>1, CycleSpot, RunConstants
  <2>2. Count * Warmups = Warmups * Count /\ Warmups * Count \in Nat /\ Count * Cycle(i) \in Nat
    BY CycleSpot, RunConstants
  <2>3. QED
    BY <2>1, <2>2, CycleSpot, TotalType
<1>3. n \div Count = q /\ n % Count = Spot(i)
  <2>1. Spot(i) \in Nat /\ Spot(i) < Count /\ Count \in Nat \ {0}
    BY CycleSpot, RunConstants
  <2>2. QED
    BY <2>1, <1>2, DivUnique
<1>4. Measured(i) = Scheduled(n)
  BY <1>2 DEF Measured
<1>5. q >= Warmups /\ q - Warmups + 1 = Cycle(i) + 1
  BY <1>1, CycleSpot, RunConstants
<1>6. Scheduled(n) = [cand |-> (q + Spot(i)) % Count,
                      round |-> IF q < Warmups THEN q + 1 ELSE q - Warmups + 1]
  BY <1>3, Zenon DEF Scheduled
<1>7. ~(q < Warmups)
  BY <1>5, RunConstants
<1>8. QED
  BY <1>1, <1>4, <1>5, <1>6, <1>7

LEMMA MeasuredFields ==
  ASSUME NEW i \in 1 .. Total
  PROVE  /\ Measured(i).cand = (Warmups + Cycle(i) + Spot(i)) % Count
         /\ Measured(i).round = Cycle(i) + 1
         /\ Measured(i) = [cand |-> Measured(i).cand, round |-> Measured(i).round]
<1> DEFINE m == (Warmups + Cycle(i) + Spot(i)) % Count
           k == Cycle(i) + 1
<1>1. Measured(i) = [cand |-> m, round |-> k]
  BY MeasuredIs
<1> HIDE DEF m, k
<1>2. Measured(i).cand = m /\ Measured(i).round = k
  BY <1>1
<1>3. QED
  BY <1>1, <1>2 DEF m, k

(* A place of the schedule is a candidate and a round.                      *)
LEMMA MeasuredType ==
  ASSUME NEW i \in 1 .. Total
  PROVE  Measured(i).cand \in Candidates /\ Measured(i).round \in 1 .. Rounds
<1>1. PICK a \in Nat : a = Warmups + Cycle(i) + Spot(i)
  BY CycleSpot, RunConstants
<1>2. a % Count \in Nat /\ a % Count < Count
  BY DivMod, RunConstants
<1>3. Measured(i).cand \in Nat /\ Measured(i).cand < Count
  BY <1>1, <1>2, MeasuredFields
<1>4. QED
  BY <1>3, CycleSpot, MeasuredFields, RunConstants DEF Candidates

(* No place occurs twice in the measured schedule.                          *)
LEMMA MeasuredInjective ==
  ASSUME NEW i \in 1 .. Total, NEW j \in 1 .. Total, Measured(i) = Measured(j)
  PROVE  i = j
<1>1. Cycle(i) = Cycle(j)
  BY MeasuredFields, CycleSpot
<1>2. PICK c \in Nat : c = Warmups + Cycle(i)
  BY CycleSpot, RunConstants
<1>3. (c + Spot(i)) % Count = (c + Spot(j)) % Count
  BY <1>1, <1>2, MeasuredFields
<1>4. Spot(i) = Spot(j)
  BY <1>3, CycleSpot, RotationInjective, RunConstants
<1>5. QED
  BY <1>1, <1>4, CycleSpot

-----------------------------------------------------------------------------
LEMMA BeginsAppend ==
  ASSUME NEW S, NEW s \in Seq(S), NEW t \in Seq(S), NEW e \in S, Begins(s, t)
  PROVE  Begins(s, Append(t, e))
BY DEF Begins

LEMMA BeginsSelf == ASSUME NEW S, NEW s \in Seq(S) PROVE Begins(s, s)
BY DEF Begins

(* A copy as long as the file is the file.                                  *)
LEMMA BeginsWhole ==
  ASSUME NEW S, NEW s \in Seq(S), NEW t \in Seq(S), Begins(s, t), Len(t) <= Len(s)
  PROVE  s = t
<1>1. Len(s) = Len(t) /\ \A i \in 1 .. Len(s) : s[i] = t[i]
  BY DEF Begins
<1>2. QED
  BY <1>1, SeqEqual

(* A record in its place extends an exact prefix to an exact prefix.        *)
LEMMA PrefixAppend ==
  ASSUME NEW s \in Seq(Observations), NEW o \in Observations,
         IsMeasuredPrefix(s), Len(s) < Total, InPlace(o, Len(s) + 1)
  PROVE  IsMeasuredPrefix(Append(s, o))
<1>1. /\ Len(Append(s, o)) = Len(s) + 1
      /\ \A i \in 1 .. Len(s) : Append(s, o)[i] = s[i]
      /\ Append(s, o)[Len(s) + 1] = o
  OBVIOUS
<1>2. QED
  BY <1>1, TotalType DEF IsMeasuredPrefix, InPlace

USE RunConstants, TotalType
USE DEF At, Goto, Candidates, memory, durable

LEMMA InitInv == Init => IInv
<1> SUFFICES ASSUME Init PROVE IInv
  OBVIOUS
<1> USE DEF Init
<1>1. TypeOK /\ MemoryTypes
  <2>1. <<>> \in Seq(Observations)
    OBVIOUS
  <2>2. NoResult \in [over: Seq(Observations), diag: BOOLEAN]
    BY <2>1 DEF NoResult
  <2>3. NoResult.over \in Seq(Observations) /\ NoResult.diag \in BOOLEAN
    BY <2>2
  <2>4. result \in [over: Seq(Observations), diag: BOOLEAN]
        /\ result.over \in Seq(Observations) /\ result.diag \in BOOLEAN
    BY <2>2, <2>3
  <2>5. NoProc \notin Procs /\ 0 \in 0 .. Count - 1
    OBVIOUS
  <2>6. TypeOK
    BY <2>1, <2>4, <2>5 DEF TypeOK
  <2>7. MemoryTypes
    BY <2>1, <2>4 DEF MemoryTypes, Places
  <2>8. QED
    BY <2>6, <2>7
<1>2. PrefixExact /\ ResultOverFile /\ StartSound /\ OneStart
  BY DEF PrefixExact, IsMeasuredPrefix, ResultOverFile, StartSound, OneStart, Executing
<1>3. CopySound /\ RootsUp
  BY DEF CopySound, CopyOf, RootsUp, Begins, Activating, Measuring, Completing
<1>4. QED
  BY <1>1, <1>2, <1>3 DEF IInv

(* A step of another process that leaves the file alone.                    *)
LEMMA CopyKept ==
  ASSUME NEW q \in Procs, CopyOf(q), pc'[q] = pc[q], loc'[q] = loc[q], buf'[q] = buf[q], obs' = obs
  PROVE  CopyOf(q)'
BY DEF CopyOf, Begins, InPlace, NewRecord, Complete, Completing

(* Every way out of an invocation.                                          *)
LEMMA LeaveInv ==
  ASSUME IInv, NEW p \in Procs, Return(p), UNCHANGED <<receipt, obs, result>>,
         root' \in [Candidates -> {"absent", "part", "whole"}],
         Len(obs) < Total => root' = root
  PROVE  IInv'
<1> USE DEF IInv, Return
<1>1. TypeOK' /\ MemoryTypes'
  BY DEF TypeOK, MemoryTypes, Places
<1>2. PrefixExact' /\ ResultOverFile' /\ StartSound' /\ OneStart'
  BY DEF PrefixExact, IsMeasuredPrefix, ResultOverFile, StartSound, OneStart, Executing, MemoryTypes
<1>3. CopySound'
  <2>1. /\ pc'[p] = "idle" /\ loc'[p] = <<>>
        /\ \A q \in Procs : q # p => pc'[q] = pc[q] /\ loc'[q] = loc[q] /\ buf'[q] = buf[q]
    BY DEF MemoryTypes
  <2>2. CopyOf(p)'
    BY <2>1 DEF CopyOf, Begins, Completing, TypeOK
  <2>3. ASSUME NEW q \in Procs, q # p PROVE CopyOf(q)'
    BY <2>1, <2>3, CopyKept DEF CopySound
  <2>4. QED
    BY <2>2, <2>3 DEF CopySound
<1>4. RootsUp'
  BY DEF RootsUp, MemoryTypes, TypeOK, Activating, Measuring, Completing
<1>5. QED
  BY <1>1, <1>2, <1>3, <1>4

LEMMA ReturnInv ==
  ASSUME IInv, NEW p \in Procs, Return(p), UNCHANGED durable
  PROVE  IInv'
BY LeaveInv DEF IInv, TypeOK

(* Steps that stay within their stages, of one or of several processes.     *)
LEMMA ShiftInv ==
  ASSUME IInv, pc' \in [Procs -> Places],
         \A q \in Procs : \/ pc'[q] = pc[q]
                          \/ pc[q] \in Activating /\ pc'[q] \in Activating
                          \/ pc[q] \in Completing /\ pc'[q] \in Completing,
         UNCHANGED <<receipt, obs, result, lock, memory>>,
         root' \in [Candidates -> {"absent", "part", "whole"}],
         RootsUp'
  PROVE  IInv'
<1> USE DEF IInv, Activating, Completing
<1>1. TypeOK' /\ MemoryTypes'
  BY DEF TypeOK, MemoryTypes
<1>2. PrefixExact' /\ ResultOverFile'
  BY DEF PrefixExact, IsMeasuredPrefix, ResultOverFile
<1>3. StartSound' /\ OneStart'
  <2>1. \A q \in Procs :
          /\ Executing(q)' => Executing(q)
          /\ pc'[q] \in {"loadResult", "prove", "validate"} => pc'[q] = pc[q]
    BY DEF Executing
  <2>2. QED
    BY <2>1 DEF StartSound, OneStart
<1>4. CopySound'
  <2>1. ASSUME NEW q \in Procs PROVE CopyOf(q)'
    <3>1. mode'[q] = mode[q] /\ loc'[q] = loc[q] /\ buf'[q] = buf[q] /\ obs' = obs
      OBVIOUS
    <3>2. CopyOf(q)
      BY DEF CopySound
    <3>3. CASE pc'[q] = pc[q]
      BY <3>1, <3>2, <3>3, CopyKept
    <3>4. CASE pc[q] \in Activating /\ pc'[q] \in Activating
      BY <3>1, <3>2, <3>4 DEF CopyOf, Begins, NewRecord, Complete
    <3>5. CASE pc[q] \in Completing /\ pc'[q] \in Completing
      BY <3>1, <3>2, <3>5 DEF CopyOf, Begins, NewRecord, Complete
    <3>6. QED
      BY <3>3, <3>4, <3>5
  <2>2. QED
    BY <2>1 DEF CopySound
<1>5. QED
  BY <1>1, <1>2, <1>3, <1>4

(* A step that neither evaluates nor appends keeps the invariant if it      *)
(* respects the roots and goes where its copy allows.                       *)
LEMMA MoveInv ==
  ASSUME IInv, NEW p \in Procs, NEW to \in Places \ {"append", "write"}, Goto(p, to),
         pc[p] \notin {"append", "write"},
         UNCHANGED <<receipt, obs, result, lock, mode, loc, buf>>,
         root' \in [Candidates -> {"absent", "part", "whole"}],
         cur' \in [Procs -> Candidates], diag' \in [Procs -> BOOLEAN],
         to = "measure" => Len(loc[p]) < Total,
         to \in Completing => Complete(p),
         to \in {"loadResult", "prove", "validate"} => mode[p] = "resume",
         to \notin {"idle", "plan", "receipt"} =>
           mode[p] = "resume" \/ pc[p] \notin {"idle", "plan", "receipt"},
         RootsUp'
  PROVE  IInv'
<1> USE DEF IInv
<1>1. TypeOK'
  BY DEF TypeOK, MemoryTypes
<1>2. MemoryTypes'
  BY DEF MemoryTypes
<1>3. PrefixExact' /\ ResultOverFile'
  BY DEF PrefixExact, IsMeasuredPrefix, ResultOverFile
<1>4. StartSound' /\ OneStart'
  BY DEF StartSound, OneStart, Executing, MemoryTypes
<1>5. CopySound'
  <2>1. /\ pc'[p] = to /\ mode' = mode /\ loc' = loc /\ buf' = buf /\ obs' = obs
        /\ \A q \in Procs : q # p => pc'[q] = pc[q]
    BY DEF MemoryTypes, Goto
  <2>2. CopyOf(p)
    BY DEF CopySound
  <2>3. CopyOf(p)'
    BY <2>1, <2>2 DEF CopyOf, Begins, Completing, NewRecord, Complete, InPlace
  <2>4. ASSUME NEW q \in Procs, q # p PROVE CopyOf(q)'
    BY <2>1, <2>4, CopyKept DEF CopySound
  <2>5. QED
    BY <2>3, <2>4 DEF CopySound
<1>6. QED
  BY <1>1, <1>2, <1>3, <1>4, <1>5

(* Steps that only read what is durable.                                    *)
LEMMA LookingInv ==
  ASSUME IInv, NEW p \in Procs,
         Start(p) \/ Plan(p) \/ LoadSteps(p) \/ CheckRoot(p) \/ Abort(p)
  PROVE  IInv'
<1> USE DEF IInv
<1>1. CASE Return(p) /\ UNCHANGED durable
  BY <1>1, ReturnInv
<1>2. CASE Start(p)
  <2>1. TypeOK' /\ MemoryTypes'
    BY <1>2 DEF Start, TypeOK, MemoryTypes, Places
  <2>2. PrefixExact' /\ ResultOverFile' /\ StartSound' /\ OneStart'
    BY <1>2 DEF Start, PrefixExact, IsMeasuredPrefix, ResultOverFile, StartSound, OneStart, Executing, MemoryTypes
  <2>3. CopySound' /\ RootsUp'
    BY <1>2 DEF Start, CopySound, CopyOf, RootsUp, MemoryTypes, Begins, TypeOK, Activating, Measuring, Completing, NewRecord, Complete, InPlace
  <2>4. QED
    BY <2>1, <2>2, <2>3
<1>3. ASSUME NEW from \in Places, NEW to \in Places, At(p, from), Goto(p, to),
             <<from, to>> \in {<<"plan", "receipt">>, <<"loadResult", "validate">>,
                              <<"loadResult", "prove">>, <<"validate", "activate">>,
                              <<"activate", "mkdir">>},
             UNCHANGED <<durable, lock, memory>>
      PROVE  IInv'
  <2>1. RootsUp'
    <3>1. /\ obs' = obs /\ root' = root /\ cur' = cur
          /\ pc[p] = from /\ pc'[p] = to /\ \A q \in Procs : q # p => pc'[q] = pc[q]
      BY <1>3 DEF MemoryTypes
    <3>2. \A q \in Procs :
            /\ pc'[q] = "mkdirCut" => pc[q] = "mkdirCut"
            /\ pc'[q] \in Measuring => pc[q] \in Measuring
            /\ pc'[q] \in Activating => pc[q] \in Activating \/ pc[q] = "validate"
            /\ pc'[q] \notin Activating \cup Completing => pc[q] \notin Activating \cup Completing
      BY <1>3, <3>1 DEF Activating, Measuring, Completing
    <3>3. \A q \in Procs : pc[q] = "validate" => cur[q] = 0
      BY DEF RootsUp, Activating, Completing
    <3>4. \A c \in Candidates : ~(c < 0)
      BY DEF RunConstants
    <3>5. QED
      BY <3>1, <3>2, <3>3, <3>4 DEF RootsUp
  <2>2. from \in {"loadResult", "validate"} => mode[p] = "resume"
    BY <1>3 DEF StartSound, Executing
  <2>3. QED
    BY <1>3, <2>1, <2>2, MoveInv DEF TypeOK, MemoryTypes, Completing
<1>4. QED
  BY <1>1, <1>2, <1>3 DEF Plan, LoadSteps, RefuseIncomplete, LoadResult, ReturnResult,
     RefusePresentRoot, ValidateRoots, CheckRoot, Abort, Places

LEMMA CreateReceiptInv ==
  ASSUME IInv, NEW p \in Procs, CreateReceipt(p)
  PROVE  IInv'
<1> USE DEF IInv
<1>1. CASE Return(p) /\ UNCHANGED durable
  BY <1>1, ReturnInv
<1>2. CASE ~receipt /\ receipt' = TRUE /\ At(p, "receipt") /\ Goto(p, "activate")
           /\ UNCHANGED <<obs, result, root, lock, memory>>
  <2>1. TypeOK' /\ MemoryTypes'
    BY <1>2 DEF TypeOK, MemoryTypes, Places
  <2>2. PrefixExact' /\ ResultOverFile'
    BY <1>2 DEF PrefixExact, IsMeasuredPrefix, ResultOverFile
  <2>3. StartSound' /\ OneStart'
    BY <1>2 DEF StartSound, OneStart, Executing, MemoryTypes
  <2>4. CopySound'
    <3>1. pc' = [pc EXCEPT ![p] = "activate"]
      BY <1>2
    <3>2. CopyOf(p)'
      BY <1>2, <3>1 DEF CopySound, CopyOf, Begins, Completing, MemoryTypes
    <3>3. ASSUME NEW q \in Procs, q # p PROVE CopyOf(q)'
      BY <1>2, <3>1, <3>3, CopyKept DEF CopySound, MemoryTypes
    <3>4. QED
      BY <3>2, <3>3 DEF CopySound
  <2>5. RootsUp'
    <3>1. cur[p] = 0 /\ \A c \in Candidates : ~(c < 0)
      BY <1>2 DEF RootsUp, Activating, Completing
    <3>2. /\ pc'[p] = "activate" /\ cur' = cur /\ root' = root /\ obs' = obs
          /\ \A q \in Procs : q # p => pc'[q] = pc[q]
      BY <1>2 DEF MemoryTypes
    <3>3. QED
      BY <3>1, <3>2 DEF RootsUp, Activating, Measuring, Completing
  <2>6. QED
    BY <2>1, <2>2, <2>3, <2>4, <2>5
<1>3. QED
  BY <1>1, <1>2 DEF CreateReceipt

(* A resume begins with a copy of the whole file.                           *)
LEMMA ResumeInv ==
  ASSUME IInv, NEW p \in Procs, Resume(p)
  PROVE  IInv'
<1> USE DEF IInv, Resume
<1>1. TypeOK' /\ MemoryTypes'
  BY DEF TypeOK, MemoryTypes, Places
<1>2. PrefixExact' /\ ResultOverFile'
  BY DEF PrefixExact, IsMeasuredPrefix, ResultOverFile
<1>3. StartSound' /\ OneStart'
  BY DEF StartSound, OneStart, Executing, MemoryTypes
<1>4. CopySound'
  <2>1. Begins(obs, obs)
    BY BeginsSelf DEF TypeOK
  <2>2. QED
    BY <2>1 DEF CopySound, CopyOf, MemoryTypes, Begins, TypeOK, Completing, NewRecord, Complete, InPlace
<1>5. RootsUp'
  BY DEF RootsUp, MemoryTypes, TypeOK, Activating, Measuring, Completing
<1>6. QED
  BY <1>1, <1>2, <1>3, <1>4, <1>5

(* The loops over the candidates stay among the candidates.                 *)
LEMMA NextCandidateIs ==
  ASSUME TypeOK, NEW p \in Procs, NEW loop, NEW out, NextCandidate(p, loop, out)
  PROVE  \E n \in Candidates :
           /\ cur' = [cur EXCEPT ![p] = n]
           /\ \/ n = cur[p] + 1 /\ Goto(p, loop)
              \/ n = 0 /\ cur[p] = Count - 1 /\ Goto(p, out)
<1>1. cur[p] \in 0 .. Count - 1 /\ cur \in [Procs -> Candidates]
  BY DEF TypeOK
<1>2. CASE cur[p] + 1 < Count
  <2>1. cur[p] + 1 \in Candidates
    BY <1>1, <1>2
  <2>2. cur' = [cur EXCEPT ![p] = cur[p] + 1] /\ Goto(p, loop)
    BY <1>2 DEF NextCandidate
  <2>3. QED
    BY <2>1, <2>2
<1>3. CASE ~(cur[p] + 1 < Count)
  <2>1. cur[p] = Count - 1 /\ 0 \in Candidates
    BY <1>1, <1>3
  <2>2. cur' = [cur EXCEPT ![p] = 0] /\ Goto(p, out)
    BY <1>3 DEF NextCandidate
  <2>3. QED
    BY <2>1, <2>2
<1>4. QED
  BY <1>2, <1>3

(* A complete copy is the whole file.                                       *)
LEMMA CompleteCopy ==
  ASSUME IInv, NEW p \in Procs, Complete(p), pc[p] \notin {"append", "write"}
  PROVE  Len(obs) = Total /\ loc[p] = obs
<1>1. loc[p] \in Seq(Observations) /\ obs \in Seq(Observations)
  BY DEF IInv, TypeOK, MemoryTypes
<1>2. Begins(loc[p], obs) /\ Len(loc[p]) = Total /\ Len(obs) <= Total
  BY DEF IInv, CopySound, CopyOf, Complete, PrefixExact, IsMeasuredPrefix
<1>3. loc[p] = obs
  BY <1>1, <1>2, BeginsWhole
<1>4. QED
  BY <1>2, <1>3

(* An activation makes a root whole, and never less whole.                  *)
LEMMA ActivateInv ==
  ASSUME IInv, NEW p \in Procs, ActivateBegins(p) \/ ActivateEnds(p) \/ ActivateCut(p)
  PROVE  IInv'
<1> USE DEF IInv
<1>1. CASE ActivateBegins(p)
  <2> DEFINE met == {q \in Procs : pc[q] \in {"cleanupRest", "cleanupCut"} /\ cur[q] = cur[p]}
  <2>1. /\ pc[p] = "mkdir"
        /\ pc' = [q \in Procs |-> IF q = p THEN IF met = {} THEN "mkdirRest" ELSE "mkdirCut"
                                  ELSE IF q \in met THEN "cleanupCut" ELSE pc[q]]
        /\ UNCHANGED <<receipt, obs, result, lock, memory>>
    BY <1>1 DEF ActivateBegins
  <2>2. /\ root' \in [Candidates -> {"absent", "part", "whole"}]
        /\ \A c \in Candidates : root[c] = "whole" => root'[c] = "whole"
    BY <1>1 DEF ActivateBegins, TypeOK
  <2>3. met # {} => ~(Len(obs) < Total)
    BY CompleteCopy DEF CopySound, CopyOf, Completing
  <2>4. /\ pc' \in [Procs -> Places]
        /\ pc'[p] = IF met = {} THEN "mkdirRest" ELSE "mkdirCut"
        /\ \A q \in Procs : q # p =>
             pc'[q] = pc[q] \/ (pc[q] \in Completing /\ pc'[q] = "cleanupCut")
    BY <2>1 DEF MemoryTypes, Places, Completing
  <2> HIDE DEF met
  <2>5. RootsUp'
    BY <2>1, <2>2, <2>3, <2>4 DEF RootsUp, Activating, Measuring, Completing
  <2>6. \A q \in Procs : \/ pc'[q] = pc[q]
                         \/ pc[q] \in Activating /\ pc'[q] \in Activating
                         \/ pc[q] \in Completing /\ pc'[q] \in Completing
    BY <2>1, <2>4 DEF Activating, Completing
  <2>7. QED
    BY <2>1, <2>2, <2>4, <2>5, <2>6, ShiftInv
<1>2. CASE ActivateEnds(p)
  <2> USE <1>2 DEF ActivateEnds
  <2>1. PICK n \in Candidates :
          /\ cur' = [cur EXCEPT ![p] = n]
          /\ \/ n = cur[p] + 1 /\ Goto(p, "activate")
             \/ n = 0 /\ cur[p] = Count - 1 /\ Goto(p, "warm")
    BY NextCandidateIs
  <2>2. root' \in [Candidates -> {"absent", "part", "whole"}] /\ cur' \in [Procs -> Candidates]
    <3>1. cur' \in [Procs -> Candidates]
      BY <2>1 DEF TypeOK
    <3>2. QED
      BY <3>1 DEF TypeOK
  <2>3. RootsUp'
    <3>1. \A q \in Procs : pc'[q] \notin Activating \cup Completing => cur'[q] = 0
      BY <2>1 DEF RootsUp, MemoryTypes, TypeOK, Activating, Completing
    <3>2. ASSUME Len(obs) < Total, NEW q \in Procs, NEW c \in Candidates,
                 \/ pc'[q] \in Activating /\ c < cur'[q]
                 \/ pc'[q] \in Measuring
          PROVE  root'[c] = "whole"
      <4>1. CASE q = p
        <5>1. c = cur[p] \/ c < cur[p]
          <6>1. c < n \/ (n = 0 /\ cur[p] = Count - 1)
            BY <3>2, <4>1, <2>1 DEF MemoryTypes, TypeOK, Activating, Measuring
          <6>2. c \in 0 .. Count - 1 /\ cur[p] \in 0 .. Count - 1
            BY DEF TypeOK
          <6>3. n = cur[p] + 1 \/ n = 0
            BY <2>1
          <6>4. QED
            BY <6>1, <6>2, <6>3
        <5>2. pc[p] \in Activating
          BY DEF Activating
        <5>3. c < cur[p] => root[c] = "whole"
          BY <3>2, <5>2 DEF RootsUp
        <5>4. QED
          BY <5>1, <5>3 DEF TypeOK
      <4>2. CASE q # p
        <5>1. pc'[q] = pc[q] /\ cur'[q] = cur[q]
          BY <4>2, <2>1 DEF MemoryTypes, TypeOK
        <5>2. root[c] = "whole"
          BY <3>2, <5>1 DEF RootsUp
        <5>3. QED
          BY <5>2 DEF TypeOK
      <4>3. QED
        BY <4>1, <4>2
    <3>3. Len(obs) < Total => \A q \in Procs : pc'[q] # "mkdirCut"
      BY <2>1 DEF RootsUp, MemoryTypes
    <3>4. QED
      BY <3>1, <3>2, <3>3 DEF RootsUp
  <2>4. CASE Goto(p, "activate")
    BY <2>2, <2>3, <2>4, MoveInv DEF MemoryTypes, Places, Completing
  <2>5. CASE Goto(p, "warm")
    BY <2>2, <2>3, <2>5, MoveInv DEF MemoryTypes, Places, Completing
  <2>6. QED
    BY <2>1, <2>4, <2>5
<1>3. CASE ActivateCut(p)
  <2> USE <1>3 DEF ActivateCut
  <2>1. ~(Len(obs) < Total)
    BY DEF RootsUp
  <2>2. root' \in [Candidates -> {"absent", "part", "whole"}]
    BY DEF TypeOK
  <2>3. CASE Return(p)
    BY <2>1, <2>2, <2>3, LeaveInv
  <2>4. CASE NextCandidate(p, "activate", "warm") /\ UNCHANGED <<lock, mode, loc, buf, diag, faults>>
    <3>1. PICK n \in Candidates :
            /\ cur' = [cur EXCEPT ![p] = n]
            /\ \/ n = cur[p] + 1 /\ Goto(p, "activate")
               \/ n = 0 /\ cur[p] = Count - 1 /\ Goto(p, "warm")
      BY <2>4, NextCandidateIs
    <3>2. cur' \in [Procs -> Candidates]
      BY <3>1 DEF TypeOK
    <3>3. RootsUp'
      BY <2>1, <3>1 DEF RootsUp, MemoryTypes, TypeOK, Activating, Completing
    <3>4. CASE Goto(p, "activate")
      BY <2>2, <2>4, <3>2, <3>3, <3>4, MoveInv DEF MemoryTypes, Places, Completing
    <3>5. CASE Goto(p, "warm")
      BY <2>2, <2>4, <3>2, <3>3, <3>5, MoveInv DEF MemoryTypes, Places, Completing
    <3>6. QED
      BY <3>1, <3>4, <3>5
  <2>5. QED
    BY <2>3, <2>4
<1>4. QED
  BY <1>1, <1>2, <1>3

(* Cleaning up, which only a process with a complete copy does.             *)
LEMMA CleanupInv ==
  ASSUME IInv, NEW p \in Procs, CleanupBegins(p) \/ CleanupEnds(p) \/ CleanupCut(p)
  PROVE  IInv'
<1> USE DEF IInv
<1>1. pc[p] \in {"cleanup", "cleanupRest", "cleanupCut"} /\ Complete(p)
  BY DEF CleanupBegins, CleanupEnds, CleanupCut, CopySound, CopyOf, Completing
<1>2. Len(obs) = Total
  BY <1>1, CompleteCopy
<1>3. CASE CleanupBegins(p)
  <2> DEFINE met == {q \in Procs : pc[q] \in {"mkdirRest", "mkdirCut"} /\ cur[q] = cur[p]}
  <2>1. /\ pc' = [q \in Procs |-> IF q = p THEN IF met = {} THEN "cleanupRest" ELSE "cleanupCut"
                                  ELSE IF q \in met THEN "mkdirCut" ELSE pc[q]]
        /\ UNCHANGED <<receipt, obs, result, lock, memory>>
    BY <1>3 DEF CleanupBegins
  <2>2. root' \in [Candidates -> {"absent", "part", "whole"}]
    BY <1>3 DEF CleanupBegins, TypeOK
  <2>3. /\ pc' \in [Procs -> Places] /\ pc'[p] \in Completing
        /\ \A q \in Procs : q # p =>
             pc'[q] = pc[q] \/ (pc[q] \in Activating /\ pc'[q] = "mkdirCut")
    BY <2>1 DEF MemoryTypes, Places, Completing, Activating
  <2> HIDE DEF met
  <2>4. RootsUp'
    BY <1>1, <1>2, <2>1, <2>3 DEF RootsUp, Activating, Completing
  <2>5. \A q \in Procs : \/ pc'[q] = pc[q]
                         \/ pc[q] \in Activating /\ pc'[q] \in Activating
                         \/ pc[q] \in Completing /\ pc'[q] \in Completing
    BY <1>1, <2>3 DEF Activating, Completing
  <2>6. QED
    BY <2>1, <2>2, <2>3, <2>4, <2>5, ShiftInv
<1>4. CASE CleanupEnds(p)
  <2> USE <1>4 DEF CleanupEnds
  <2>1. PICK n \in Candidates :
          /\ cur' = [cur EXCEPT ![p] = n]
          /\ \/ n = cur[p] + 1 /\ Goto(p, "cleanup")
             \/ n = 0 /\ cur[p] = Count - 1 /\ Goto(p, "publish")
    BY NextCandidateIs
  <2>2. root' \in [Candidates -> {"absent", "part", "whole"}] /\ cur' \in [Procs -> Candidates]
    <3>1. cur' \in [Procs -> Candidates]
      BY <2>1 DEF TypeOK
    <3>2. QED
      BY <3>1 DEF TypeOK
  <2>3. RootsUp'
    <3>1. \A q \in Procs : pc'[q] \notin Activating \cup Completing => cur'[q] = 0
      BY <2>1 DEF RootsUp, MemoryTypes, TypeOK, Activating, Completing
    <3>2. ~(Len(obs') < Total)
      BY <1>2
    <3>3. QED
      BY <3>1, <3>2 DEF RootsUp
  <2>4. CASE Goto(p, "cleanup")
    BY <1>1, <2>2, <2>3, <2>4, MoveInv DEF MemoryTypes, Places, Completing
  <2>5. CASE Goto(p, "publish")
    BY <1>1, <2>2, <2>3, <2>5, MoveInv DEF MemoryTypes, Places, Completing
  <2>6. QED
    BY <2>1, <2>4, <2>5
<1>5. CASE CleanupCut(p)
  BY <1>2, <1>5, LeaveInv DEF CleanupCut, TypeOK
<1>6. QED
  BY <1>3, <1>4, <1>5

LEMMA RunWarmupsInv ==
  ASSUME IInv, NEW p \in Procs, RunWarmups(p)
  PROVE  IInv'
<1> USE DEF IInv, RunWarmups
<1>1. diag' \in [Procs -> BOOLEAN]
  BY DEF MemoryTypes
<1>2. RootsUp'
  BY DEF RootsUp, MemoryTypes, TypeOK, Activating, Measuring, Completing, Complete
<1>3. Begins(loc[p], obs) /\ Len(obs) <= Total /\ Len(loc[p]) \in Nat /\ Len(obs) \in Nat
  <2>1. Begins(loc[p], obs)
    BY DEF CopySound, CopyOf
  <2>2. Len(loc[p]) \in Nat /\ Len(obs) \in Nat
    BY DEF TypeOK, MemoryTypes
  <2>3. QED
    BY <2>1, <2>2 DEF PrefixExact, IsMeasuredPrefix
<1>4. Len(loc[p]) < Total \/ Complete(p)
  BY <1>3 DEF Begins, Complete
<1>5. root' \in [Candidates -> {"absent", "part", "whole"}] /\ cur' \in [Procs -> Candidates]
  BY DEF TypeOK
<1>6. CASE Complete(p)
  <2>1. Goto(p, "cleanup")
    BY <1>6
  <2>2. QED
    BY <1>1, <1>2, <1>5, <1>6, <2>1, MoveInv DEF Places, Completing
<1>7. CASE ~Complete(p)
  <2>1. Goto(p, "measure")
    BY <1>7
  <2>2. QED
    BY <1>1, <1>2, <1>4, <1>5, <1>7, <2>1, MoveInv DEF Places, Completing
<1>8. QED
  BY <1>6, <1>7

(* An evaluation extends the copy by a record in the copy's next place.     *)
LEMMA EvaluateInv ==
  ASSUME IInv, NEW p \in Procs, Evaluate(p)
  PROVE  IInv'
<1> USE DEF IInv, Evaluate
<1>1. PICK v \in Values : loc' = [loc EXCEPT ![p] = Append(loc[p], Evaluated(p, v))]
  OBVIOUS
<1>2. /\ loc[p] \in Seq(Observations) /\ obs \in Seq(Observations)
      /\ Begins(loc[p], obs) /\ Len(loc[p]) < Total /\ Len(loc[p]) + 1 \in 1 .. Total
  <2>1. loc[p] \in Seq(Observations) /\ obs \in Seq(Observations)
    BY DEF TypeOK, MemoryTypes
  <2>2. Begins(loc[p], obs) /\ Len(loc[p]) < Total
    BY DEF CopySound, CopyOf
  <2>3. QED
    BY <2>1, <2>2
<1>3. Evaluated(p, v) \in Observations /\ InPlace(Evaluated(p, v), Len(loc[p]) + 1)
  <2>1. PICK i \in 1 .. Total : i = Len(loc[p]) + 1
    BY <1>2
  <2>2. /\ Measured(i).cand \in Candidates /\ Measured(i).round \in 1 .. Rounds
        /\ Measured(i) = [cand |-> Measured(i).cand, round |-> Measured(i).round]
    BY MeasuredType, MeasuredFields
  <2>3. Evaluated(p, v) = [cand |-> Measured(i).cand, round |-> Measured(i).round, value |-> v]
    BY <2>1 DEF Evaluated
  <2>4. Evaluated(p, v).cand = Measured(i).cand /\ Evaluated(p, v).round = Measured(i).round
    BY <2>3
  <2>5. InPlace(Evaluated(p, v), i)
    BY <2>2, <2>4 DEF InPlace
  <2>6. Evaluated(p, v) \in Observations
    BY <2>2, <2>3 DEF Observations
  <2>7. QED
    BY <2>1, <2>5, <2>6
<1>4. PICK new \in Seq(Observations) :
        /\ loc' = [loc EXCEPT ![p] = new] /\ Len(new) = Len(loc[p]) + 1
        /\ \A i \in 1 .. Len(loc[p]) : new[i] = loc[p][i]
        /\ InPlace(new[Len(new)], Len(new))
  <2>1. PICK e \in Observations : e = Evaluated(p, v)
    BY <1>3
  <2>2. PICK old \in Seq(Observations) : old = loc[p]
    BY <1>2
  <2>3. /\ Append(old, e) \in Seq(Observations) /\ Len(Append(old, e)) = Len(old) + 1
        /\ \A i \in 1 .. Len(old) : Append(old, e)[i] = old[i]
        /\ Append(old, e)[Len(old) + 1] = e
    OBVIOUS
  <2>4. InPlace(e, Len(old) + 1)
    BY <1>3, <2>1, <2>2
  <2>5. QED
    BY <1>1, <2>1, <2>2, <2>3, <2>4
<1>5. loc' \in [Procs -> Seq(Observations)]
  BY <1>4 DEF MemoryTypes
<1>6. TypeOK' /\ MemoryTypes'
  BY <1>5 DEF TypeOK, MemoryTypes, Places
<1>7. PrefixExact' /\ ResultOverFile'
  BY DEF PrefixExact, IsMeasuredPrefix, ResultOverFile
<1>8. StartSound' /\ OneStart'
  BY DEF StartSound, OneStart, Executing, MemoryTypes
<1>9. RootsUp'
  BY DEF RootsUp, MemoryTypes, TypeOK, Activating, Measuring, Completing
<1>10. CopySound'
  <2>1. loc'[p] = new /\ pc'[p] = "append"
    BY <1>4 DEF MemoryTypes
  <2>2. /\ Len(new) \in 1 .. Total /\ Len(new) <= Len(obs) + 1
        /\ \A i \in 1 .. Len(new) - 1 : new[i] = obs[i]
    BY <1>2, <1>4 DEF Begins
  <2>3. CopyOf(p)'
    <3>1. InPlace(NewRecord(p), Len(loc[p]))'
      BY <2>1, <1>4 DEF InPlace, NewRecord
    <3>2. QED
      BY <2>1, <2>2, <3>1 DEF CopyOf, Completing
  <2>4. ASSUME NEW q \in Procs, q # p PROVE CopyOf(q)'
    BY <2>4, <1>4, CopyKept DEF MemoryTypes, CopySound
  <2>5. QED
    BY <2>3, <2>4 DEF CopySound
<1>11. QED
  BY <1>6, <1>7, <1>8, <1>9, <1>10

(* The record that is appended has the file's next place, and the copy's:   *)
(* as no place occurs twice, the copy is one record ahead of the file.      *)
LEMMA AppendPlace ==
  ASSUME IInv, NEW p \in Procs, pc[p] = "append", IsNext(obs, NewRecord(p))
  PROVE  /\ Len(loc[p]) = Len(obs) + 1 /\ Len(obs) < Total
         /\ NewRecord(p) \in Observations /\ InPlace(NewRecord(p), Len(obs) + 1)
<1>1. loc[p] \in Seq(Observations) /\ obs \in Seq(Observations)
  BY DEF IInv, TypeOK, MemoryTypes
<1>2. Len(loc[p]) \in 1 .. Total /\ InPlace(NewRecord(p), Len(loc[p]))
  BY DEF IInv, CopySound, CopyOf
<1>3. Len(obs) < Total /\ Len(obs) + 1 \in 1 .. Total /\ InPlace(NewRecord(p), Len(obs) + 1)
  BY <1>1 DEF IsNext, InPlace
<1>4. Measured(Len(loc[p])) = Measured(Len(obs) + 1)
  BY <1>2, <1>3 DEF InPlace
<1>5. Len(loc[p]) = Len(obs) + 1
  BY <1>2, <1>3, <1>4, MeasuredInjective
<1>6. NewRecord(p) \in Observations
  BY <1>1, <1>2 DEF NewRecord
<1>7. QED
  BY <1>3, <1>5, <1>6

LEMMA AppendObservationInv ==
  ASSUME IInv, NEW p \in Procs, AppendObservation(p)
  PROVE  IInv'
<1> USE DEF IInv
<1>1. CASE Return(p) /\ UNCHANGED durable
  BY <1>1, ReturnInv
<1>2. CASE /\ At(p, "append") /\ lock = NoProc /\ IsNext(obs, NewRecord(p))
           /\ lock' = p /\ buf' = [buf EXCEPT ![p] = Append(obs, NewRecord(p))]
           /\ Goto(p, "write") /\ UNCHANGED <<durable, mode, loc, cur, diag>>
  <2> USE <1>2
  <2>1. /\ Len(loc[p]) = Len(obs) + 1 /\ Len(obs) < Total
        /\ NewRecord(p) \in Observations /\ InPlace(NewRecord(p), Len(obs) + 1)
    BY AppendPlace
  <2>2. PICK new \in Seq(Observations) : new = Append(obs, NewRecord(p))
    <3>1. PICK o \in Observations : o = NewRecord(p)
      BY <2>1
    <3>2. Append(obs, o) \in Seq(Observations)
      BY DEF TypeOK
    <3>3. QED
      BY <3>1, <3>2
  <2>3. buf' = [buf EXCEPT ![p] = new]
    BY <2>2
  <2>4. TypeOK'
    BY DEF TypeOK, MemoryTypes
  <2>5. MemoryTypes'
    <3>1. buf' \in [Procs -> Seq(Observations)]
      BY <2>3 DEF MemoryTypes
    <3>2. pc' \in [Procs -> Places]
      BY DEF MemoryTypes, Places
    <3>3. QED
      BY <3>1, <3>2 DEF MemoryTypes
  <2>6. PrefixExact' /\ ResultOverFile'
    BY DEF PrefixExact, IsMeasuredPrefix, ResultOverFile
  <2>7. StartSound' /\ OneStart'
    BY DEF StartSound, OneStart, Executing, MemoryTypes
  <2>8. RootsUp'
    BY DEF RootsUp, MemoryTypes, TypeOK, Activating, Measuring, Completing
  <2>9. CopySound'
    <3>1. pc'[p] = "write" /\ buf'[p] = new
      BY <2>3 DEF MemoryTypes
    <3>2. NewRecord(p)' = NewRecord(p)
      BY DEF NewRecord
    <3>3. CopyOf(p)
      BY DEF CopySound
    <3>4. InPlace(NewRecord(p), Len(loc[p]))'
      BY <3>2, <3>3 DEF CopyOf, InPlace
    <3>5. CopyOf(p)'
      BY <2>1, <2>2, <3>1, <3>2, <3>3, <3>4 DEF CopyOf, Completing
    <3>6. ASSUME NEW q \in Procs, q # p PROVE CopyOf(q)'
      BY <2>3, <3>6, CopyKept DEF MemoryTypes, CopySound
    <3>7. QED
      BY <3>5, <3>6 DEF CopySound
  <2>10. QED
    BY <2>4, <2>5, <2>6, <2>7, <2>8, <2>9
<1>3. QED
  BY <1>1, <1>2 DEF AppendObservation

(* What the rename puts into place: the file and one record in its place.   *)
LEMMA PublishedFile ==
  ASSUME IInv, NEW p \in Procs, PublishObservation(p)
  PROVE  \E o \in Observations :
           /\ obs' = Append(obs, o) /\ InPlace(o, Len(obs) + 1) /\ Len(obs) < Total
           /\ NewRecord(p) = o /\ Len(loc[p]) = Len(obs) + 1
<1>1. pc[p] = "write"
  BY DEF PublishObservation
<1>2. /\ Len(loc[p]) \in 1 .. Total /\ InPlace(NewRecord(p), Len(loc[p]))
      /\ Len(loc[p]) = Len(obs) + 1 /\ buf[p] = Append(obs, NewRecord(p))
  BY <1>1 DEF IInv, CopySound, CopyOf
<1>3. loc[p] \in Seq(Observations) /\ Len(obs) \in Nat
  BY DEF IInv, TypeOK, MemoryTypes
<1>4. NewRecord(p) \in Observations
  BY <1>2, <1>3 DEF NewRecord
<1>5. InPlace(NewRecord(p), Len(obs) + 1) /\ Len(obs) < Total
  BY <1>2, <1>3
<1>6. QED
  BY <1>2, <1>4, <1>5 DEF PublishObservation

(* The other processes' copies are still what the file begins with; none of *)
(* them has the lock.                                                       *)
LEMMA PublishObservationInv ==
  ASSUME IInv, NEW p \in Procs, PublishObservation(p)
  PROVE  IInv'
<1> USE DEF IInv
<1>1. PICK o \in Observations :
        /\ obs' = Append(obs, o) /\ InPlace(o, Len(obs) + 1) /\ Len(obs) < Total
        /\ NewRecord(p) = o /\ Len(loc[p]) = Len(obs) + 1
  BY PublishedFile
<1>2. /\ obs' \in Seq(Observations) /\ Len(obs') = Len(obs) + 1
      /\ \A i \in 1 .. Len(obs) : obs'[i] = obs[i]
      /\ obs'[Len(obs) + 1] = o
      /\ Len(obs) \in Nat
  BY <1>1 DEF TypeOK
<1>3. /\ pc[p] = "write" /\ lock = p /\ lock' = NoProc
      /\ \A q \in Procs : q # p => pc[q] # "write"
  BY DEF PublishObservation, TypeOK
<1>4. PICK to \in {"cleanup", "measure"} :
        Goto(p, to) /\ (to = "cleanup" <=> Complete(p))
  BY DEF PublishObservation
<1>5. TypeOK'
  BY <1>2, <1>3, <1>4 DEF PublishObservation, TypeOK, MemoryTypes
<1>6. MemoryTypes'
  BY <1>4 DEF PublishObservation, MemoryTypes, Places
<1>7. PrefixExact'
  <2>1. IsMeasuredPrefix(Append(obs, o))
    BY <1>1, PrefixAppend DEF PrefixExact, TypeOK
  <2>2. QED
    BY <2>1, <1>1 DEF PrefixExact, IsMeasuredPrefix
<1>8. ResultOverFile'
  BY <1>1 DEF PublishObservation, ResultOverFile
<1>9. StartSound' /\ OneStart'
  BY <1>4 DEF PublishObservation, StartSound, OneStart, Executing, MemoryTypes
<1>10. RootsUp'
  <2>1. cur[p] = 0 /\ \A c \in Candidates : root[c] = "whole"
    BY <1>1, <1>3 DEF RootsUp, Activating, Measuring, Completing
  <2>2. \A q \in Procs : pc'[q] \notin Activating \cup Completing => cur'[q] = 0
    BY <1>4, <2>1 DEF PublishObservation, RootsUp, MemoryTypes, Activating, Completing
  <2>3. \A q \in Procs :
          /\ pc'[q] # "mkdirCut"
          /\ pc'[q] \in Activating => \A c \in Candidates : c < cur'[q] => root'[c] = "whole"
          /\ pc'[q] \in Measuring => \A c \in Candidates : root'[c] = "whole"
    BY <2>1, <1>1, <1>4 DEF PublishObservation, RootsUp, MemoryTypes
  <2>4. QED
    BY <2>2, <2>3 DEF RootsUp
<1>11. CopySound'
  <2>1. loc' = loc
    BY DEF PublishObservation
  <2>2. CopyOf(p)'
    <3>1. loc[p] \in Seq(Observations) /\ \A i \in 1 .. Len(loc[p]) - 1 : loc[p][i] = obs[i]
      BY <1>3 DEF CopySound, CopyOf, MemoryTypes
    <3>2. Begins(loc[p], obs')
      BY <1>1, <1>2, <3>1 DEF Begins, NewRecord
    <3>3. pc'[p] = to /\ Complete(p)' = Complete(p)
      BY <1>4, <2>1 DEF MemoryTypes, Complete
    <3>4. ~Complete(p) => Len(loc[p]) < Total
      BY <1>1, <1>2 DEF Complete
    <3>5. QED
      BY <1>4, <2>1, <3>2, <3>3, <3>4 DEF CopyOf, Completing
  <2>3. ASSUME NEW q \in Procs, q # p PROVE CopyOf(q)'
    <3>1. pc'[q] = pc[q] /\ pc[q] # "write" /\ buf'[q] = buf[q]
      BY <1>3, <1>4, <2>3 DEF PublishObservation, MemoryTypes
    <3>2. CopyOf(q) /\ loc[q] \in Seq(Observations)
      BY DEF CopySound, MemoryTypes
    <3>3. Begins(loc[q], obs) => Begins(loc[q], obs')
      BY <3>2, <1>2 DEF Begins
    <3>4. CASE pc[q] = "append"
      <4>1. NewRecord(q)' = NewRecord(q)
        BY <2>1 DEF NewRecord
      <4>2. /\ Len(loc[q]) \in 1 .. Total /\ Len(loc[q]) <= Len(obs) + 1
            /\ \A i \in 1 .. Len(loc[q]) - 1 : loc[q][i] = obs[i]
            /\ InPlace(NewRecord(q), Len(loc[q]))
        BY <3>2, <3>4 DEF CopyOf
      <4>3. \A i \in 1 .. Len(loc[q]) - 1 : loc[q][i] = obs'[i]
        BY <4>2, <1>2
      <4>4. InPlace(NewRecord(q), Len(loc[q]))'
        BY <4>1, <4>2, <2>1 DEF InPlace
      <4>5. Len(loc[q]) <= Len(obs') + 1
        BY <4>2, <1>2
      <4>6. QED
        BY <4>2, <4>3, <4>4, <4>5, <3>1, <3>4, <2>1 DEF CopyOf, Completing
    <3>5. CASE pc[q] # "append"
      BY <3>1, <3>2, <3>3, <3>5, <2>1 DEF CopyOf, Completing, Complete
    <3>6. QED
      BY <3>4, <3>5
  <2>4. QED
    BY <2>2, <2>3 DEF CopySound
<1>12. QED
  BY <1>5, <1>6, <1>7, <1>8, <1>9, <1>10, <1>11

(* A result is built from a complete copy, which is the file.               *)
LEMMA PublishResultInv ==
  ASSUME IInv, NEW p \in Procs, PublishResult(p)
  PROVE  IInv'
<1> USE DEF IInv
<1>1. CASE Return(p) /\ UNCHANGED durable
  BY <1>1, ReturnInv
<1>2. CASE result' = Built(p) /\ Return(p) /\ UNCHANGED <<receipt, obs, root>> /\ At(p, "publish")
  <2> USE <1>2 DEF Return
  <2>1. Complete(p)
    BY DEF CopySound, CopyOf, Completing
  <2>2. Len(obs) = Total /\ loc[p] = obs
    BY <2>1, CompleteCopy
  <2>3. result' = [over |-> obs, diag |-> diag[p]]
    BY <2>2 DEF Built
  <2>4. obs \in Seq(Observations) /\ diag[p] \in BOOLEAN
    BY DEF TypeOK, MemoryTypes
  <2>5. result' \in [over: Seq(Observations), diag: BOOLEAN]
    BY <2>3, <2>4
  <2>6. result'.over = obs /\ result'.diag = diag[p]
    BY <2>3
  <2>7. TypeOK'
    BY <2>4, <2>6 DEF TypeOK, MemoryTypes
  <2>8. MemoryTypes'
    BY <2>5 DEF MemoryTypes, Places
  <2>9. ResultOverFile'
    BY <2>2, <2>6 DEF ResultOverFile
  <2>10. PrefixExact' /\ StartSound' /\ OneStart'
    BY DEF PrefixExact, IsMeasuredPrefix, StartSound, OneStart, Executing, MemoryTypes
  <2>11. CopySound'
    BY DEF CopySound, CopyOf, MemoryTypes, Begins, TypeOK, Completing, NewRecord, Complete, InPlace
  <2>12. RootsUp'
    BY DEF RootsUp, MemoryTypes, TypeOK, Activating, Measuring, Completing
  <2>13. QED
    BY <2>7, <2>8, <2>9, <2>10, <2>11, <2>12
<1>3. QED
  BY <1>1, <1>2 DEF PublishResult

LEMMA NextIInv == IInv /\ [Next]_vars => IInv'
<1>1. ASSUME IInv, UNCHANGED vars PROVE IInv'
  <2> USE <1>1 DEF vars, IInv
  <2>1. TypeOK' /\ MemoryTypes'
    BY DEF TypeOK, MemoryTypes
  <2>2. PrefixExact' /\ ResultOverFile' /\ StartSound' /\ OneStart'
    BY DEF PrefixExact, IsMeasuredPrefix, ResultOverFile, StartSound, OneStart, Executing
  <2>3. CopySound'
    BY CopyKept DEF CopySound
  <2>4. RootsUp'
    BY DEF RootsUp
  <2>5. QED
    BY <2>1, <2>2, <2>3, <2>4
<1>2. ASSUME IInv, Next PROVE IInv'
  <2>1. PICK p \in Procs :
          \/ StartSteps(p) \/ Resume(p) \/ LoadSteps(p)
          \/ ActivateSteps(p) \/ MeasureSteps(p) \/ CompleteSteps(p) \/ Abort(p)
    BY <1>2 DEF Next
  <2>2. CASE Start(p) \/ Plan(p) \/ LoadSteps(p) \/ CheckRoot(p) \/ Abort(p)
    BY <1>2, <2>2, LookingInv
  <2>3. CASE CreateReceipt(p) \/ Resume(p)
    BY <1>2, <2>3, CreateReceiptInv, ResumeInv
  <2>4. CASE ActivateBegins(p) \/ ActivateEnds(p) \/ ActivateCut(p)
    BY <1>2, <2>4, ActivateInv
  <2>5. CASE MeasureSteps(p)
    BY <1>2, <2>5, RunWarmupsInv, EvaluateInv, AppendObservationInv, PublishObservationInv
       DEF MeasureSteps
  <2>6. CASE CompleteSteps(p)
    BY <1>2, <2>6, CleanupInv, PublishResultInv DEF CompleteSteps
  <2>7. QED
    BY <2>1, <2>2, <2>3, <2>4, <2>5, <2>6 DEF StartSteps, ActivateSteps
<1>3. QED
  BY <1>1, <1>2

-----------------------------------------------------------------------------
(* The inductive invariant: private copies follow the file, roots stay up   *)
(* while measurements are missing, and one Start at most executes.          *)
THEOREM Invariance == Spec => []IInv
<1>1. QED
  BY InitInv, NextIInv, PTL DEF Spec

(* What is on disk is evidence, whoever ran the experiment and wherever it  *)
(* was interrupted: the file is an exact prefix of the measured schedule,   *)
(* a result is over exactly a complete file, and one Start at most gets     *)
(* past createReceipt.                                                      *)
THEOREM Sound == Spec => []EvidenceSound
<1>1. IInv => EvidenceSound
  BY DEF IInv, EvidenceSound
<1>2. QED
  BY <1>1, Invariance, PTL

(* Which steps write the file.                                              *)
LEMMA FileWriter ==
  ASSUME [Next]_vars, obs' # obs
  PROVE  \E p \in Procs : PublishObservation(p)
BY DEF Next, vars, StartSteps, Start, Plan, CreateReceipt, Resume, LoadSteps, RefuseIncomplete,
   LoadResult, ReturnResult, RefusePresentRoot, ValidateRoots, ActivateSteps, CheckRoot,
   ActivateBegins, ActivateEnds, ActivateCut, MeasureSteps, RunWarmups, Evaluate, AppendObservation,
   CompleteSteps, CleanupBegins, CleanupEnds, CleanupCut,
   PublishResult, Abort

LEMMA ResultKept ==
  ASSUME [Next]_vars, result # NoResult
  PROVE  result' = result
BY DEF Next, vars, StartSteps, Start, Plan, CreateReceipt, Resume, LoadSteps, RefuseIncomplete,
   LoadResult, ReturnResult, RefusePresentRoot, ValidateRoots, ActivateSteps, CheckRoot,
   ActivateBegins, ActivateEnds, ActivateCut, MeasureSteps, RunWarmups, Evaluate, AppendObservation,
   PublishObservation, CompleteSteps, CleanupBegins, CleanupEnds, CleanupCut,
   PublishResult, Abort

(* Nothing that was published changes: the file only grows, by one record   *)
(* at a time, and a result is never replaced.                               *)
THEOREM Final == Spec => EvidenceFinal
<1>1. IInv /\ [Next]_vars
      => [obs' # obs => Len(obs') = Len(obs) + 1 /\ SubSeq(obs', 1, Len(obs)) = obs]_vars
  <2>1. SUFFICES ASSUME IInv, [Next]_vars, obs' # obs
                 PROVE  Len(obs') = Len(obs) + 1 /\ SubSeq(obs', 1, Len(obs)) = obs
    OBVIOUS
  <2>2. PICK p \in Procs : PublishObservation(p)
    BY <2>1, FileWriter
  <2>3. PICK o \in Observations : obs' = Append(obs, o)
    BY <2>1, <2>2, PublishedFile
  <2>4. PICK s \in Seq(Observations) : s = obs
    BY <2>1 DEF IInv, TypeOK
  <2>5. Len(Append(s, o)) = Len(s) + 1 /\ SubSeq(Append(s, o), 1, Len(s)) = s
    BY AppendProperties, SubSeqProperties, SeqEqual
  <2>6. QED
    BY <2>3, <2>4, <2>5
<1>2. IInv /\ [Next]_vars => [result # NoResult => result' = result]_vars
  BY ResultKept
<1>3. QED
  BY <1>1, <1>2, Invariance, PTL DEF Spec, EvidenceFinal, ObservationsImmutable, ResultFinal

(* No measurement enters the file after a root was taken away, although     *)
(* the rename and another invocation's cleanup are under no common lock.    *)
THEOREM InRoots == Spec => MeasuredInRoots
<1>1. IInv /\ [Next]_vars => [obs' # obs => \A c \in Candidates : root[c] = "whole"]_vars
  <2>1. SUFFICES ASSUME IInv, [Next]_vars, obs' # obs
                 PROVE  \A c \in Candidates : root[c] = "whole"
    OBVIOUS
  <2>2. PICK p \in Procs : PublishObservation(p)
    BY <2>1, FileWriter
  <2>3. Len(obs) < Total
    BY <2>1, <2>2, PublishedFile
  <2>4. QED
    BY <2>1, <2>2, <2>3 DEF IInv, RootsUp, Measuring, PublishObservation
<1>2. QED
  BY <1>1, Invariance, PTL DEF Spec, MeasuredInRoots
=============================================================================
