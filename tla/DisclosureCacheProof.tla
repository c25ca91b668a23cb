------------------------ MODULE DisclosureCacheProof ------------------------
(***************************************************************************)
(* Safety of the disclosure cache for any number of calls, checkouts,      *)
(* contents and writes, any clock and any window no shorter than the       *)
(* granule.  A call's answer is tied to the contents its inputs had while  *)
(* it ran; a stored one to the key it is stored for.                       *)
(***************************************************************************)
EXTENDS DisclosureCache, FiniteSetTheorems, TLAPS

Early == {"idle", "before", "claim"}
Enumerating == {"reset", "doc", "load", "probe", "store", "enumerated"}
Pcs == Early \union Enumerating \union Ended \union
       {"await", "after", "compare", "unstored", "panic", "release", "drop"}
Answered == {"load", "probe", "store", "enumerated", "after", "compare", "unstored", "release", "returned"}

CallRec == [pc : Pcs, root : Roots \union {None}, page : BOOLEAN, start : 0..MaxTime, step : 1..4,
            before : Reading, after : Reading, leads : BOOLEAN, follows : Calls \union {None},
            items : Items]

Held == {r \in Roots : cache[r] # None}

Types == TypeOK /\ call \in [Calls -> CallRec] /\ IsFiniteSet(Held)

(* What a call has seen of its document, and what became of it since.      *)
Watched(c) ==
    LET k == call[c]  r == k.root IN
    /\ k.pc # "idle" => r \in Roots /\ k.start <= now
    /\ k.pc \notin Ended \union {"idle"} =>
        /\ content[r]["doc"] \in seen[c]["doc"]
        /\ \/ seen[c]["doc"] = {content[r]["doc"]}
           \/ stamp[r]["doc"] > k.start - Granule

(* The key a call read, and the answer it found.                           *)
Found(c) ==
    LET k == call[c] IN
    /\ k.pc \in {"claim", "await"} \/ k.leads => k.before.content["doc"] \in seen[c]["doc"]
    /\ k.pc \in Answered => k.items["doc"] \in seen[c]["doc"]
    /\ k.pc = "claim" \/ (k.leads /\ k.pc \in Enumerating) => k.step = 1

(* A leader that reads again does so for settled inputs; a stamp that did  *)
(* not move by then vouches for the answer.                                *)
Leading(c) ==
    LET k == call[c] IN
    /\ k.leads => k.pc \notin Early \union Ended \union {"await"} /\ entry[c].key = k.before.content
    /\ k.pc \in {"after", "compare"} => k.leads /\ k.before.stamp["doc"] < k.start - Window
    /\ (k.pc = "after" /\ k.step = 4) \/ k.pc = "compare" =>
        \/ k.after.stamp["doc"] > k.start - Granule
        \/ k.items["doc"] = k.before.content["doc"]
    /\ entry[c].ok => k.pc = "returned" /\ entry[c].items["doc"] = entry[c].key["doc"]

(* A call waits for an entry under its own key.                            *)
Following(c) ==
    LET k == call[c] IN
    k.pc = "await" => /\ k.follows \in Calls /\ call[k.follows].pc \notin Early
                      /\ entry[k.follows].key = k.before.content

CallOK(c) == Watched(c) /\ Found(c) /\ Leading(c) /\ Following(c)

CacheOK == \A r \in Roots : cache[r] # None => call[cache[r]].pc \notin Early

IInv == Types /\ (\A c \in Calls : CallOK(c)) /\ CacheOK

USE CacheAssumption
-----------------------------------------------------------------------------
LEMMA InitIInv == Init => IInv
<1> SUFFICES ASSUME Init PROVE IInv
  OBVIOUS
<1>1. NoItems \in Items /\ NoReading \in Reading
  BY DEF NoItems, NoReading, Items, Reading, Contents
<1>2. call \in [Calls -> CallRec]
  <2>1. NewCall \in CallRec
    BY <1>1 DEF NewCall, CallRec, Pcs, Early
  <2>2. QED
    BY <2>1 DEF Init
<1>3. Held = {} /\ IsFiniteSet(Held) /\ Cardinality(Held) = 0
  <2>1. Held = {}
    BY DEF Init, Held
  <2>2. QED
    BY <2>1, FS_EmptySet
<1>4. TypeOK
  <2>1. content \in [Roots -> [Inputs -> Values]] /\ stamp \in [Roots -> [Inputs -> 0..MaxTime]]
    BY DEF Init
  <2>2. now \in 0..MaxTime /\ writes \in 0..MaxWrites /\ errors \in 0..MaxErrors
    BY DEF Init
  <2>3. memo \in [Roots -> Contents] /\ cache \in [Roots -> Calls \union {None}]
    BY DEF Init, Contents
  <2>4. entry \in [Calls -> [key : Items, done : BOOLEAN, items : Items, ok : BOOLEAN]]
    BY <1>1 DEF Init, NewEntry
  <2>5. seen \in [Calls -> [Inputs -> SUBSET Values]]
    BY DEF Init
  <2>6. Cardinality({r \in Roots : cache[r] # None}) <= MaxRoots
    BY <1>3 DEF Held
  <2>7. \A c \in Calls : /\ call[c].before \in Reading
                         /\ call[c].after \in Reading
                         /\ call[c].follows \in Calls \union {None}
                         /\ call[c].items \in Items
    BY <1>2 DEF CallRec
  <2>8. QED
    BY <2>1, <2>2, <2>3, <2>4, <2>5, <2>6, <2>7 DEF TypeOK
<1>5. ASSUME NEW c \in Calls
      PROVE  CallOK(c)
  <2>1. call[c] = NewCall /\ entry[c] = NewEntry
    BY DEF Init
  <2>2. call[c].pc = "idle" /\ ~call[c].leads /\ ~entry[c].ok
    BY <2>1 DEF NewCall, NewEntry
  <2>3. QED
    BY <2>2 DEF CallOK, Watched, Found, Leading, Following, Answered, Enumerating
<1>6. CacheOK
  BY DEF Init, CacheOK
<1>7. QED
  BY <1>2, <1>3, <1>4, <1>5, <1>6 DEF IInv, Types

(* Nothing of another call's is touched.                                    *)
LEMMA Others ==
  ASSUME IInv, NEW c \in Calls, NEW d \in Calls, d # c,
         UNCHANGED <<content, stamp, now>>, call'[d] = call[d], seen'[d] = seen[d], entry'[d] = entry[d],
         call[c].pc \notin Early => call'[c].pc \notin Early /\ entry'[c].key = entry[c].key,
         \A e \in Calls : e # c => call'[e] = call[e] /\ entry'[e] = entry[e]
  PROVE  CallOK(d)'
<1>1. CallOK(d)
  BY DEF IInv
<1>2. Watched(d)'
  BY <1>1 DEF CallOK, Watched
<1>3. Found(d)'
  BY <1>1 DEF CallOK, Found
<1>4. Leading(d)'
  BY <1>1 DEF CallOK, Leading
<1>5. Following(d)'
  BY <1>1 DEF CallOK, Following
<1>6. QED
  BY <1>2, <1>3, <1>4, <1>5 DEF CallOK

(* The frame of a step of one call.                                         *)
LEMMA StepInv ==
  ASSUME IInv, NEW c \in Calls, NEW k \in CallRec, call' = [call EXCEPT ![c] = k],
         UNCHANGED <<content, stamp, now, writes>>,
         memo' \in [Roots -> Contents], errors' \in 0..MaxErrors,
         entry' \in [Calls -> [key : Items, done : BOOLEAN, items : Items, ok : BOOLEAN]],
         seen' \in [Calls -> [Inputs -> SUBSET Values]],
         \A d \in Calls : d # c => entry'[d] = entry[d] /\ seen'[d] = seen[d],
         call[c].pc \notin Early => k.pc \notin Early /\ entry'[c].key = entry[c].key,
         cache' \in [Roots -> Calls \union {None}],
         \A r \in Roots : cache'[r] \in {cache[r], None} \/ (cache'[r] = c /\ k.pc \notin Early),
         IsFiniteSet(Held'), Cardinality(Held') <= MaxRoots,
         CallOK(c)'
  PROVE  IInv'
<1>1. /\ call \in [Calls -> CallRec] /\ call' \in [Calls -> CallRec] /\ call'[c] = k
      /\ \A d \in Calls : d # c => call'[d] = call[d]
  BY DEF IInv, Types
<1>2. ASSUME NEW d \in Calls
      PROVE  CallOK(d)'
  <2>1. CASE d = c
    BY <2>1
  <2>2. CASE d # c
    BY <1>1, <2>2, Others
  <2>3. QED
    BY <2>1, <2>2
<1>3. CacheOK'
  <2>1. SUFFICES ASSUME NEW r \in Roots, cache'[r] # None
                 PROVE  call'[cache'[r]].pc \notin Early
    BY DEF CacheOK
  <2>2. CASE cache'[r] = c /\ k.pc \notin Early
    BY <1>1, <2>2
  <2>3. CASE cache'[r] = cache[r]
    <3>1. cache[r] \in Calls /\ call[cache[r]].pc \notin Early
      BY <2>1, <2>3 DEF IInv, CacheOK, Types, TypeOK
    <3>2. QED
      BY <1>1, <2>3, <3>1
  <2>4. QED
    BY <2>1, <2>2, <2>3
<1>4. Types'
  <2>1. \A d \in Calls : /\ call'[d].before \in Reading /\ call'[d].after \in Reading
                         /\ call'[d].follows \in Calls \union {None} /\ call'[d].items \in Items
    BY <1>1 DEF CallRec
  <2>2. TypeOK'
    BY <2>1 DEF IInv, Types, TypeOK, Held
  <2>3. QED
    BY <1>1, <2>2 DEF Types
<1>5. QED
  BY <1>2, <1>3, <1>4 DEF IInv

(* What a step of a call keeps of the rest, when it moves only its pc,      *)
(* entry and answer.                                                        *)
LEMMA CacheKept ==
  ASSUME IInv, cache' = cache
  PROVE  /\ cache' \in [Roots -> Calls \union {None}] /\ \A r \in Roots : cache'[r] \in {cache[r], None}
         /\ IsFiniteSet(Held') /\ Cardinality(Held') <= MaxRoots
<1>1. Held' = Held
  BY DEF Held
<1>2. QED
  BY <1>1 DEF IInv, Types, TypeOK, Held

(* A step that moves only the call, and keeps what is known of its inputs.  *)
LEMMA MoveInv ==
  ASSUME IInv, NEW c \in Calls, NEW k \in CallRec, call' = [call EXCEPT ![c] = k],
         UNCHANGED <<content, stamp, now, writes, cache, entry, seen>>,
         memo' \in [Roots -> Contents], errors' \in 0..MaxErrors,
         call[c].pc \notin Early => k.pc \notin Early,
         CallOK(c)'
  PROVE  IInv'
<1>1. /\ cache' \in [Roots -> Calls \union {None}] /\ \A r \in Roots : cache'[r] \in {cache[r], None}
      /\ IsFiniteSet(Held') /\ Cardinality(Held') <= MaxRoots
  BY CacheKept
<1>2. entry' \in [Calls -> [key : Items, done : BOOLEAN, items : Items, ok : BOOLEAN]]
      /\ seen' \in [Calls -> [Inputs -> SUBSET Values]]
  BY DEF IInv, Types, TypeOK
<1>3. QED
  BY <1>1, <1>2, StepInv

(* The record a step leaves, with only its pc and answer moved.             *)
LEMMA StepRecord ==
  ASSUME IInv, NEW c \in Calls, NEW p \in Pcs \ Ended, NEW its \in Items, Step(c, p, its)
  PROVE  \E k \in CallRec :
           /\ call' = [call EXCEPT ![c] = k] /\ k.pc = p /\ k.items = its
           /\ k.root = call[c].root /\ k.page = call[c].page /\ k.start = call[c].start
           /\ k.step = call[c].step /\ k.before = call[c].before /\ k.after = call[c].after
           /\ k.leads = call[c].leads /\ k.follows = call[c].follows
<1> DEFINE k == [call[c] EXCEPT !.pc = p, !.items = its]
           k1 == [call[c] EXCEPT !.pc = p]
           k2 == [k1 EXCEPT !.items = its]
<1>1. call \in [Calls -> CallRec] /\ call[c] \in CallRec
  BY DEF IInv, Types
<1>2. k = k2
  BY <1>1 DEF CallRec
<1>3. k1 \in CallRec /\ k1.pc = p
      /\ k1.root = call[c].root /\ k1.page = call[c].page /\ k1.start = call[c].start
      /\ k1.step = call[c].step /\ k1.before = call[c].before /\ k1.after = call[c].after
      /\ k1.leads = call[c].leads /\ k1.follows = call[c].follows
  BY <1>1 DEF CallRec
<1>4. call' = [call EXCEPT ![c] = k]
  BY <1>1 DEF Step
<1> HIDE DEF k, k1
<1>5. k2 \in CallRec /\ k2.pc = p /\ k2.items = its
      /\ k2.root = k1.root /\ k2.page = k1.page /\ k2.start = k1.start
      /\ k2.step = k1.step /\ k2.before = k1.before /\ k2.after = k1.after
      /\ k2.leads = k1.leads /\ k2.follows = k1.follows
  BY <1>3 DEF CallRec
<1> HIDE DEF k2
<1>6. QED
  BY <1>2, <1>3, <1>4, <1>5

(* The record a step leaves that ends the call.                             *)
LEMMA EndRecord ==
  ASSUME IInv, NEW c \in Calls, NEW p \in Ended, NEW its \in Items, Step(c, p, its)
  PROVE  \E k \in CallRec :
           /\ call' = [call EXCEPT ![c] = k] /\ k.pc = p /\ (p = "returned" => k.items = its)
           /\ k.root = call[c].root /\ k.page = call[c].page /\ ~k.leads /\ k.start = 0
<1> DEFINE i == IF p = "failed" THEN NoItems ELSE its
           k == [NewCall EXCEPT !.pc = p, !.root = call[c].root, !.page = call[c].page, !.items = i]
           k1 == [NewCall EXCEPT !.pc = p]
           k2 == [k1 EXCEPT !.root = call[c].root]
           k3 == [k2 EXCEPT !.page = call[c].page]
           k4 == [k3 EXCEPT !.items = i]
<1>1. call \in [Calls -> CallRec] /\ call[c] \in CallRec
  BY DEF IInv, Types
<1>2. call[c].root \in Roots \union {None} /\ call[c].page \in BOOLEAN /\ p \in Pcs
  BY <1>1 DEF CallRec, Pcs
<1>3. NoItems \in Items /\ NoReading \in Reading
  BY DEF NoItems, NoReading, Items, Reading, Contents
<1>4. i \in Items /\ (p = "returned" => i = its)
  BY <1>3
<1>5. NewCall \in CallRec /\ ~NewCall.leads /\ NewCall.start = 0
  BY <1>3 DEF NewCall, CallRec, Pcs, Early
<1>6. call' = [call EXCEPT ![c] = k]
  BY <1>1 DEF Step
<1> HIDE DEF i
<1>7. k = k4
  BY <1>5 DEF CallRec
<1>8. k1 \in CallRec /\ k1.pc = p /\ ~k1.leads /\ k1.start = 0
  BY <1>2, <1>5 DEF CallRec
<1> HIDE DEF k1, k
<1>9. k2 \in CallRec /\ k2.pc = p /\ ~k2.leads /\ k2.start = 0 /\ k2.root = call[c].root
  BY <1>2, <1>8 DEF CallRec
<1> HIDE DEF k2
<1>10. k3 \in CallRec /\ k3.pc = p /\ ~k3.leads /\ k3.start = 0 /\ k3.root = call[c].root
       /\ k3.page = call[c].page
  BY <1>2, <1>9 DEF CallRec
<1> HIDE DEF k3
<1>11. k4 \in CallRec /\ k4.pc = p /\ ~k4.leads /\ k4.start = 0 /\ k4.root = call[c].root
       /\ k4.page = call[c].page /\ k4.items = i
  BY <1>4, <1>10 DEF CallRec
<1> HIDE DEF k4
<1>12. QED
  BY <1>4, <1>6, <1>7, <1>11

-----------------------------------------------------------------------------
(* The inputs have not moved under a call that goes on or ends.             *)
LEMMA WatchedKept ==
  ASSUME IInv, NEW c \in Calls, UNCHANGED <<content, stamp, now>>, seen'[c] = seen[c],
         call[c].pc \notin Ended \union {"idle"}, call'[c].root = call[c].root,
         call'[c].start = call[c].start \/ (call'[c].pc \in Ended /\ call'[c].start = 0)
  PROVE  Watched(c)'
<1>1. Watched(c) /\ now \in 0..MaxTime
  BY DEF IInv, CallOK, Types, TypeOK
<1>2. QED
  BY <1>1 DEF Watched

LEMMA GoInv ==
  ASSUME IInv, NEW c \in Calls, NEW p \in Pcs \ (Ended \union Early \union {"await", "compare"}),
         NEW its \in Items, Step(c, p, its), call[c].pc \notin Ended \union {"idle"},
         UNCHANGED <<content, stamp, now, writes, cache, entry, seen>>,
         memo' \in [Roots -> Contents], errors' \in 0..MaxErrors,
         p \in Answered => call[c].pc \in Answered /\ its = call[c].items,
         call[c].leads /\ p \in Enumerating => call[c].pc \in Enumerating,
         p = "after" => /\ call[c].leads /\ call[c].before.stamp["doc"] < call[c].start - Window
                        /\ call[c].step = 1
  PROVE  IInv'
<1>1. PICK k \in CallRec :
           /\ call' = [call EXCEPT ![c] = k] /\ k.pc = p /\ k.items = its
           /\ k.root = call[c].root /\ k.page = call[c].page /\ k.start = call[c].start
           /\ k.step = call[c].step /\ k.before = call[c].before /\ k.after = call[c].after
           /\ k.leads = call[c].leads /\ k.follows = call[c].follows
  BY StepRecord
<1>2. call'[c] = k
  BY <1>1 DEF IInv, Types
<1>3. CallOK(c)
  BY DEF IInv
<1>4. Watched(c)'
  BY <1>1, <1>2, WatchedKept
<1>5. Found(c)'
  BY <1>1, <1>2, <1>3 DEF CallOK, Found, Early
<1>6. Leading(c)'
  BY <1>1, <1>2, <1>3 DEF CallOK, Leading, Ended
<1>7. Following(c)'
  BY <1>1, <1>2 DEF Following
<1>8. CallOK(c)'
  BY <1>4, <1>5, <1>6, <1>7 DEF CallOK
<1>9. QED
  BY <1>1, <1>8, MoveInv

(* A call ends.                                                             *)
LEMMA EndInv ==
  ASSUME IInv, NEW c \in Calls, NEW p \in Ended, NEW its \in Items, Step(c, p, its),
         call[c].pc \notin Ended \union Early, UNCHANGED <<content, stamp, now, writes, seen>>,
         memo' \in [Roots -> Contents], errors' \in 0..MaxErrors,
         entry' \in [Calls -> [key : Items, done : BOOLEAN, items : Items, ok : BOOLEAN]],
         \A d \in Calls : d # c => entry'[d] = entry[d],
         entry'[c].key = entry[c].key,
         entry'[c].ok => p = "returned" /\ entry'[c].items["doc"] = entry'[c].key["doc"],
         p = "returned" => its["doc"] \in seen[c]["doc"],
         cache' \in [Roots -> Calls \union {None}], \A r \in Roots : cache'[r] \in {cache[r], None},
         IsFiniteSet(Held'), Cardinality(Held') <= MaxRoots
  PROVE  IInv'
<1>1. PICK k \in CallRec :
           /\ call' = [call EXCEPT ![c] = k] /\ k.pc = p /\ (p = "returned" => k.items = its)
           /\ k.root = call[c].root /\ k.page = call[c].page /\ ~k.leads /\ k.start = 0
  BY EndRecord
<1>2. call'[c] = k
  BY <1>1 DEF IInv, Types
<1>3. Watched(c)'
  BY <1>1, <1>2, WatchedKept DEF Early
<1>4. Found(c)'
  BY <1>1, <1>2 DEF Found, Ended, Answered
<1>5. Leading(c)'
  BY <1>1, <1>2 DEF Leading, Ended
<1>6. Following(c)'
  BY <1>1, <1>2 DEF Following, Ended
<1>7. CallOK(c)'
  BY <1>3, <1>4, <1>5, <1>6 DEF CallOK
<1>8. p \notin Early /\ seen' \in [Calls -> [Inputs -> SUBSET Values]]
  BY DEF Ended, Early, IInv, Types, TypeOK
<1>9. QED
  BY <1>1, <1>7, <1>8, StepInv

LEMMA CurrentItems ==
  ASSUME IInv, NEW c \in Calls
  PROVE  /\ call[c] \in CallRec /\ call[c].items \in Items /\ entry[c].items \in Items
         /\ memo \in [Roots -> Contents] /\ errors \in 0..MaxErrors /\ errors \in Nat
         /\ entry \in [Calls -> [key : Items, done : BOOLEAN, items : Items, ok : BOOLEAN]]
         /\ call[c].pc \in Answered => call[c].items["doc"] \in seen[c]["doc"]
         /\ entry[c].ok => call[c].pc = "returned"
BY DEF IInv, Types, TypeOK, CallRec, CallOK, Found, Leading

LEMMA UncomputableInv == ASSUME IInv, NEW c \in Calls, Uncomputable(c) PROVE IInv'
<1>1. errors' \in 0..MaxErrors /\ memo' \in [Roots -> Contents] /\ call[c].items \in Items
  BY CurrentItems DEF Uncomputable
<1>2. call[c].pc = "before" /\ Step(c, "reset", call[c].items)
      /\ UNCHANGED <<content, stamp, now, writes, cache, entry, seen>>
  BY DEF Uncomputable, Goto, world
<1>3. ~call[c].leads
  BY <1>2 DEF IInv, CallOK, Leading, Early
<1>4. QED
  BY <1>1, <1>2, <1>3, GoInv DEF Pcs, Enumerating, Answered, Ended, Early

LEMMA ResetInv == ASSUME IInv, NEW c \in Calls, Reset(c) PROVE IInv'
<1>1. errors' \in 0..MaxErrors /\ memo' \in [Roots -> Contents] /\ call[c].items \in Items
  BY CurrentItems DEF Reset, Contents
<1>2. call[c].pc = "reset" /\ Step(c, "doc", call[c].items)
      /\ UNCHANGED <<content, stamp, now, writes, cache, entry, seen>>
  BY DEF Reset, Goto, world
<1>3. QED
  BY <1>1, <1>2, GoInv DEF Pcs, Enumerating, Answered, Ended, Early

LEMMA StoreMemoInv == ASSUME IInv, NEW c \in Calls, StoreMemo(c) PROVE IInv'
<1>1. call[c].items["shallow"] \in Contents
  BY CurrentItems DEF Items, Inputs
<1>2. errors' \in 0..MaxErrors /\ memo' \in [Roots -> Contents] /\ call[c].items \in Items
  BY <1>1, CurrentItems DEF StoreMemo
<1>3. call[c].pc = "store" /\ Step(c, "enumerated", call[c].items)
      /\ UNCHANGED <<content, stamp, now, writes, cache, entry, seen>>
  BY DEF StoreMemo, Goto, world
<1>4. QED
  BY <1>2, <1>3, GoInv DEF Pcs, Enumerating, Answered, Ended, Early

LEMMA RereadFailsInv == ASSUME IInv, NEW c \in Calls, RereadFails(c) PROVE IInv'
<1>1. errors' \in 0..MaxErrors /\ memo' \in [Roots -> Contents] /\ call[c].items \in Items
  BY CurrentItems DEF RereadFails
<1>2. call[c].pc = "after" /\ Step(c, "unstored", call[c].items)
      /\ UNCHANGED <<content, stamp, now, writes, cache, entry, seen>>
  BY DEF RereadFails, Goto, world
<1>3. QED
  BY <1>1, <1>2, GoInv DEF Pcs, Enumerating, Answered, Ended, Early

LEMMA EnumerateFailsInv == ASSUME IInv, NEW c \in Calls, EnumerateFails(c) PROVE IInv'
<1>1. errors' \in 0..MaxErrors /\ memo' \in [Roots -> Contents] /\ call[c].items \in Items
  BY CurrentItems DEF EnumerateFails
<1>2. /\ call[c].pc \in {"doc", "probe"}
      /\ UNCHANGED <<content, stamp, now, writes, cache, entry, seen, memo>>
      /\ Step(c, IF call[c].leads THEN "panic" ELSE "failed", call[c].items)
  BY DEF EnumerateFails, Goto, world
<1>3. CASE call[c].leads
  <2>1. Step(c, "panic", call[c].items)
    BY <1>2, <1>3
  <2>2. QED
    BY <1>1, <1>2, <2>1, GoInv DEF Pcs, Enumerating, Answered, Ended, Early
<1>4. CASE ~call[c].leads
  <2>1. Step(c, "failed", call[c].items)
    BY <1>2, <1>4
  <2>2. ~entry[c].ok /\ entry' \in [Calls -> [key : Items, done : BOOLEAN, items : Items, ok : BOOLEAN]]
    BY <1>2, CurrentItems
  <2>3. cache' \in [Roots -> Calls \union {None}] /\ (\A r \in Roots : cache'[r] \in {cache[r], None})
        /\ IsFiniteSet(Held') /\ Cardinality(Held') <= MaxRoots
    BY <1>2, CacheKept
  <2>4. "failed" \in Ended /\ "failed" # "returned" /\ call[c].pc \notin Ended \union Early
    BY <1>2 DEF Ended, Early
  <2>5. QED
    BY <1>1, <1>2, <2>1, <2>2, <2>3, <2>4, EndInv
<1>5. QED
  BY <1>3, <1>4

LEMMA CancelInv == ASSUME IInv, NEW c \in Calls, Cancel(c) PROVE IInv'
<1>1. errors' \in 0..MaxErrors /\ memo' \in [Roots -> Contents] /\ call[c].items \in Items
  BY CurrentItems DEF Cancel
<1>2. call[c].pc = "await" /\ Step(c, "failed", call[c].items)
      /\ UNCHANGED <<content, stamp, now, writes, cache, entry, seen>>
  BY DEF Cancel, Goto, world
<1>3. ~entry[c].ok /\ entry' \in [Calls -> [key : Items, done : BOOLEAN, items : Items, ok : BOOLEAN]]
  BY <1>2, CurrentItems
<1>4. cache' \in [Roots -> Calls \union {None}] /\ (\A r \in Roots : cache'[r] \in {cache[r], None})
      /\ IsFiniteSet(Held') /\ Cardinality(Held') <= MaxRoots
  BY <1>2, CacheKept
<1>5. "failed" \in Ended /\ "failed" # "returned" /\ call[c].pc \notin Ended \union Early
  BY <1>2 DEF Ended, Early
<1>6. QED
  BY <1>1, <1>2, <1>3, <1>4, <1>5, EndInv

(* What a waiting call is given was computed from the key it read itself.   *)
LEMMA AwaitInv == ASSUME IInv, NEW c \in Calls, Await(c) PROVE IInv'
<1> DEFINE f == call[c].follows
<1>1. call[c].pc = "await" /\ UNCHANGED <<content, stamp, now, writes, memo, cache, entry, seen, errors>>
      /\ Step(c, IF entry[f].ok THEN "returned" ELSE "reset", entry[f].items)
  BY DEF Await, world
<1>2. /\ f \in Calls /\ entry[f].key = call[c].before.content
      /\ call[c].before.content["doc"] \in seen[c]["doc"] /\ ~call[c].leads /\ ~entry[c].ok
  BY <1>1 DEF IInv, CallOK, Following, Found, Leading
<1>3. errors' \in 0..MaxErrors /\ memo' \in [Roots -> Contents] /\ entry[f].items \in Items
      /\ entry' \in [Calls -> [key : Items, done : BOOLEAN, items : Items, ok : BOOLEAN]]
  BY <1>1, <1>2, CurrentItems
<1>4. CASE entry[f].ok
  <2>1. entry[f].items["doc"] \in seen[c]["doc"]
    BY <1>2, <1>4 DEF IInv, CallOK, Leading
  <2>2. Step(c, "returned", entry[f].items)
    BY <1>1, <1>4
  <2>3. cache' \in [Roots -> Calls \union {None}] /\ (\A r \in Roots : cache'[r] \in {cache[r], None})
        /\ IsFiniteSet(Held') /\ Cardinality(Held') <= MaxRoots
    BY <1>1, CacheKept
  <2>4. "returned" \in Ended /\ call[c].pc \notin Ended \union Early
    BY <1>1 DEF Ended, Early
  <2>5. QED
    BY <1>1, <1>2, <1>3, <2>1, <2>2, <2>3, <2>4, EndInv
<1>5. CASE ~entry[f].ok
  <2>1. Step(c, "reset", entry[f].items)
    BY <1>1, <1>5
  <2>2. QED
    BY <1>1, <1>2, <1>3, <2>1, GoInv DEF Pcs, Enumerating, Answered, Ended, Early
<1>6. QED
  BY <1>4, <1>5

(* The latest stamp is no earlier than the document's.                      *)
LEMMA SettledDoc ==
  ASSUME IInv, NEW c \in Calls, Settled(c)
  PROVE  call[c].before.stamp["doc"] < call[c].start - Window
<1> DEFINE t == call[c].before.stamp
           S == {t[i] : i \in Inputs}
<1>1. t["doc"] \in 0..MaxTime /\ t["shallow"] \in 0..MaxTime /\ S = {t["doc"], t["shallow"]}
      /\ call[c].start \in Nat
  <2>1. call[c] \in CallRec
    BY CurrentItems
  <2>2. call[c].start \in Nat /\ call[c].before \in Reading
    BY <2>1 DEF CallRec
  <2>3. t \in [Inputs -> 0..MaxTime]
    BY <2>2 DEF Reading
  <2>4. QED
    BY <2>2, <2>3 DEF Inputs
<1>2. Max(S) < call[c].start - Window
  BY DEF Settled
<1> HIDE DEF t
<1>3. \E x \in S : \A y \in S : x >= y
  <2>1. CASE t["doc"] >= t["shallow"]
    BY <1>1, <2>1
  <2>2. CASE ~(t["doc"] >= t["shallow"])
    BY <1>1, <2>2
  <2>3. QED
    BY <2>1, <2>2
<1>4. Max(S) \in S /\ \A y \in S : Max(S) >= y
  BY <1>3, Zenon DEF Max
<1>5. Max(S) >= t["doc"] /\ Max(S) \in Nat
  BY <1>1, <1>4
<1>6. t["doc"] < call[c].start - Window
  BY <1>1, <1>2, <1>5
<1>7. QED
  BY <1>6 DEF t

LEMMA EnumeratedInv == ASSUME IInv, NEW c \in Calls, Enumerated(c) PROVE IInv'
<1>1. /\ call[c].pc = "enumerated" /\ UNCHANGED <<content, stamp, now, writes, memo, cache, entry, seen, errors>>
      /\ Step(c, IF ~call[c].leads THEN "returned" ELSE IF Settled(c) THEN "after" ELSE "unstored",
              call[c].items)
  BY DEF Enumerated, Goto, world
<1>2. errors' \in 0..MaxErrors /\ memo' \in [Roots -> Contents] /\ call[c].items \in Items
      /\ entry' \in [Calls -> [key : Items, done : BOOLEAN, items : Items, ok : BOOLEAN]]
      /\ ~entry[c].ok /\ call[c].items["doc"] \in seen[c]["doc"]
  BY <1>1, CurrentItems DEF Answered
<1>3. CASE ~call[c].leads
  <2>1. Step(c, "returned", call[c].items)
    BY <1>1, <1>3
  <2>2. cache' \in [Roots -> Calls \union {None}] /\ (\A r \in Roots : cache'[r] \in {cache[r], None})
        /\ IsFiniteSet(Held') /\ Cardinality(Held') <= MaxRoots
    BY <1>1, CacheKept
  <2>3. "returned" \in Ended /\ call[c].pc \notin Ended \union Early
    BY <1>1 DEF Ended, Early
  <2>4. QED
    BY <1>1, <1>2, <2>1, <2>2, <2>3, EndInv
<1>4. CASE call[c].leads /\ Settled(c)
  <2>1. Step(c, "after", call[c].items)
    BY <1>1, <1>4
  <2>2. call[c].step = 1 /\ call[c].before.stamp["doc"] < call[c].start - Window
    BY <1>1, <1>4, SettledDoc DEF IInv, CallOK, Found, Enumerating
  <2>3. QED
    BY <1>1, <1>2, <1>4, <2>1, <2>2, GoInv DEF Pcs, Enumerating, Answered, Ended, Early
<1>5. CASE call[c].leads /\ ~Settled(c)
  <2>1. Step(c, "unstored", call[c].items)
    BY <1>1, <1>5
  <2>2. QED
    BY <1>1, <1>2, <2>1, GoInv DEF Pcs, Enumerating, Answered, Ended, Early
<1>6. QED
  BY <1>3, <1>4, <1>5

(* The second reading vouches for the answer the leader computed.           *)
LEMMA CompareInv == ASSUME IInv, NEW c \in Calls, Compare(c) PROVE IInv'
<1>1. call[c].pc = "compare" /\ UNCHANGED <<content, stamp, now, writes, memo, cache, seen, errors>>
  BY DEF Compare, world
<1>2. /\ call[c].leads /\ call[c].before.stamp["doc"] < call[c].start - Window
      /\ \/ call[c].after.stamp["doc"] > call[c].start - Granule
         \/ call[c].items["doc"] = call[c].before.content["doc"]
      /\ entry[c].key = call[c].before.content
      /\ call[c].items["doc"] \in seen[c]["doc"]
  BY <1>1 DEF IInv, CallOK, Leading, Found, Answered
<1>3. errors' \in 0..MaxErrors /\ memo' \in [Roots -> Contents] /\ call[c].items \in Items
      /\ entry \in [Calls -> [key : Items, done : BOOLEAN, items : Items, ok : BOOLEAN]]
  BY <1>1, CurrentItems
<1>4. CASE Same(call[c].after, call[c].before)
  <2> DEFINE x == [entry[c] EXCEPT !.ok = TRUE, !.items = call[c].items, !.done = TRUE]
             x1 == [entry[c] EXCEPT !.ok = TRUE]
             x2 == [x1 EXCEPT !.items = call[c].items]
             x3 == [x2 EXCEPT !.done = TRUE]
             E == [key : Items, done : BOOLEAN, items : Items, ok : BOOLEAN]
  <2>1. entry' = [entry EXCEPT ![c] = x] /\ Step(c, "returned", call[c].items)
    BY <1>1, <1>3, <1>4 DEF Compare, Goto
  <2>2. entry[c] \in E
    BY <1>3
  <2>3. x = x3
    BY <2>2
  <2>4. x1 \in E /\ x1.key = entry[c].key
    BY <2>2
  <2> HIDE DEF x, x1
  <2>5. x2 \in E /\ x2.key = entry[c].key /\ x2.items = call[c].items
    BY <1>3, <2>4
  <2> HIDE DEF x2
  <2>6. x3 \in E /\ x3.key = entry[c].key /\ x3.items = call[c].items
    BY <2>5
  <2> HIDE DEF x3
  <2>7. /\ entry'[c] = x3 /\ entry' \in [Calls -> E]
        /\ \A d \in Calls : d # c => entry'[d] = entry[d]
    BY <1>3, <2>1, <2>3, <2>6
  <2> HIDE DEF E
  <2>8. call[c].items["doc"] = call[c].before.content["doc"]
    <3>1. call[c].after.stamp["doc"] = call[c].before.stamp["doc"]
      BY <1>4 DEF Same
    <3>2. call[c].before.stamp["doc"] \in Int /\ call[c].start \in Int
      <4>1. call[c] \in CallRec
        BY CurrentItems
      <4>2. call[c].start \in 0..MaxTime /\ call[c].before \in Reading
        BY <4>1 DEF CallRec
      <4>3. call[c].before.stamp["doc"] \in 0..MaxTime
        BY <4>2 DEF Reading, Inputs
      <4>4. QED
        BY <4>2, <4>3
    <3>3. ~(call[c].before.stamp["doc"] > call[c].start - Granule)
      BY <1>2, <3>2
    <3>4. QED
      BY <1>2, <3>1, <3>3
  <2>9. entry'[c].key = entry[c].key /\ entry'[c].items["doc"] = entry'[c].key["doc"]
    BY <1>2, <2>6, <2>7, <2>8
  <2>10. cache' \in [Roots -> Calls \union {None}] /\ (\A r \in Roots : cache'[r] \in {cache[r], None})
         /\ IsFiniteSet(Held') /\ Cardinality(Held') <= MaxRoots
    BY <1>1, CacheKept
  <2>11. "returned" \in Ended /\ call[c].pc \notin Ended \union Early
    BY <1>1 DEF Ended, Early
  <2>12. QED
    BY <1>1, <1>2, <1>3, <2>1, <2>7, <2>9, <2>10, <2>11, EndInv DEF E
<1>5. CASE ~Same(call[c].after, call[c].before)
  <2>1. Step(c, "unstored", call[c].items) /\ entry' = entry
    BY <1>5 DEF Compare, Goto
  <2>2. QED
    BY <1>1, <1>3, <2>1, GoInv DEF Pcs, Enumerating, Answered, Ended, Early
<1>6. QED
  BY <1>4, <1>5

LEMMA FinishInv == ASSUME IInv, NEW c \in Calls, Finish(c) PROVE IInv'
<1> DEFINE E == [key : Items, done : BOOLEAN, items : Items, ok : BOOLEAN]
           p == IF call[c].pc = "panic" THEN "drop" ELSE "release"
<1>1. /\ call[c].pc \in {"unstored", "panic"} /\ UNCHANGED <<content, stamp, now, writes, memo, cache, seen, errors>>
      /\ entry' = [entry EXCEPT ![c].done = TRUE] /\ Step(c, p, call[c].items)
  BY DEF Finish, Goto, world
<1>2. errors' \in 0..MaxErrors /\ memo' \in [Roots -> Contents] /\ call[c].items \in Items
      /\ entry \in [Calls -> E] /\ ~entry[c].ok
  BY <1>1, CurrentItems
<1>3. entry' \in [Calls -> E] /\ entry'[c].key = entry[c].key /\ ~entry'[c].ok
      /\ \A d \in Calls : d # c => entry'[d] = entry[d]
  BY <1>1, <1>2
<1>4. p \in Pcs \ Ended /\ p \in {"drop", "release"} /\ (p = "release" => call[c].pc = "unstored")
  BY <1>1 DEF Pcs, Ended
<1>5. PICK k \in CallRec :
           /\ call' = [call EXCEPT ![c] = k] /\ k.pc = p /\ k.items = call[c].items
           /\ k.root = call[c].root /\ k.page = call[c].page /\ k.start = call[c].start
           /\ k.step = call[c].step /\ k.before = call[c].before /\ k.after = call[c].after
           /\ k.leads = call[c].leads /\ k.follows = call[c].follows
  BY <1>1, <1>2, <1>4, StepRecord
<1>6. call'[c] = k
  BY <1>5 DEF IInv, Types
<1>7. CallOK(c)
  BY DEF IInv
<1> HIDE DEF p, E
<1>8. Watched(c)'
  BY <1>1, <1>5, <1>6, WatchedKept DEF Ended
<1>9. Found(c)'
  BY <1>1, <1>4, <1>5, <1>6, <1>7 DEF CallOK, Found, Answered, Enumerating
<1>10. Leading(c)'
  BY <1>3, <1>4, <1>5, <1>6, <1>7 DEF CallOK, Leading, Ended, Early
<1>11. Following(c)'
  BY <1>4, <1>5, <1>6 DEF Following
<1>12. CallOK(c)'
  BY <1>8, <1>9, <1>10, <1>11 DEF CallOK
<1>13. cache' \in [Roots -> Calls \union {None}] /\ (\A r \in Roots : cache'[r] \in {cache[r], None})
       /\ IsFiniteSet(Held') /\ Cardinality(Held') <= MaxRoots
  BY <1>1, CacheKept
<1>14. k.pc \notin Early /\ seen' \in [Calls -> [Inputs -> SUBSET Values]]
  BY <1>1, <1>4, <1>5 DEF Early, IInv, Types, TypeOK
<1>15. QED
  BY <1>1, <1>2, <1>3, <1>5, <1>12, <1>13, <1>14, StepInv DEF E

LEMMA ReleaseInv == ASSUME IInv, NEW c \in Calls, Release(c) PROVE IInv'
<1> DEFINE p == IF call[c].pc = "drop" THEN "failed" ELSE "returned"
<1>1. /\ call[c].pc \in {"release", "drop"} /\ UNCHANGED <<content, stamp, now, writes, memo, entry, seen, errors>>
      /\ cache' = [cache EXCEPT ![call[c].root] = IF @ = c THEN None ELSE @]
      /\ Step(c, p, call[c].items)
  BY DEF Release, Goto, world
<1>2. errors' \in 0..MaxErrors /\ memo' \in [Roots -> Contents] /\ call[c].items \in Items
      /\ entry' \in [Calls -> [key : Items, done : BOOLEAN, items : Items, ok : BOOLEAN]] /\ ~entry'[c].ok
  BY <1>1, CurrentItems
<1>3. p \in Ended /\ (p = "returned" => call[c].items["doc"] \in seen[c]["doc"])
      /\ call[c].pc \notin Ended \union Early
  BY <1>1, CurrentItems DEF Ended, Early, Answered
<1>4. cache \in [Roots -> Calls \union {None}]
  BY DEF IInv, Types, TypeOK
<1>5. cache' \in [Roots -> Calls \union {None}] /\ \A r \in Roots : cache'[r] \in {cache[r], None}
  BY <1>1, <1>4
<1>6. Held' \subseteq Held
  BY <1>5 DEF Held
<1>7. IsFiniteSet(Held) /\ Cardinality(Held) <= MaxRoots
  BY DEF IInv, Types, TypeOK, Held
<1>8. IsFiniteSet(Held') /\ Cardinality(Held') <= MaxRoots
  <2>1. IsFiniteSet(Held') /\ Cardinality(Held') <= Cardinality(Held)
    BY <1>6, <1>7, FS_Subset
  <2>2. Cardinality(Held') \in Nat /\ Cardinality(Held) \in Nat
    BY <1>7, <2>1, FS_CardinalityType
  <2>3. QED
    BY <1>7, <2>1, <2>2
<1> HIDE DEF p
<1>9. QED
  BY <1>1, <1>2, <1>3, <1>5, <1>8, EndInv

(* One answer of the enumeration.                                           *)
LEMMA AnswerInv ==
  ASSUME IInv, NEW c \in Calls, NEW p \in {"load", "probe", "enumerated", "store"}, NEW i \in Inputs,
         NEW v \in Contents, call' = [call EXCEPT ![c].pc = p, ![c].items[i] = v],
         UNCHANGED <<content, stamp, now, writes, memo, cache, entry, seen, errors>>,
         \/ i = "doc" /\ call[c].pc = "doc" /\ v = content[call[c].root]["doc"]
         \/ i = "shallow" /\ call[c].pc \in {"load", "probe"}
  PROVE  IInv'
<1> DEFINE its == [call[c].items EXCEPT ![i] = v]
           k1 == [call[c] EXCEPT !.pc = p]
           k == [k1 EXCEPT !.items = its]
<1>1. call[c] \in CallRec /\ call[c].items \in Items /\ call[c].pc \in Enumerating /\ p \in Pcs
  BY CurrentItems DEF Enumerating, Pcs
<1>2. its \in Items
  BY <1>1 DEF Items
<1>3. call' = [call EXCEPT ![c] = k]
  BY <1>1 DEF IInv, Types, CallRec
<1>4. CallOK(c)
  BY DEF IInv
<1>5. call[c].pc \notin Ended \union {"idle"}
  BY DEF Ended
<1>6. its["doc"] \in seen[c]["doc"]
  <2>1. content[call[c].root]["doc"] \in seen[c]["doc"]
    BY <1>4, <1>5 DEF CallOK, Watched
  <2>2. call[c].pc \in {"load", "probe"} => call[c].items["doc"] \in seen[c]["doc"]
    BY CurrentItems DEF Answered
  <2>3. QED
    BY <1>1, <2>1, <2>2 DEF Items, Inputs
<1> HIDE DEF its
<1>7. k1 \in CallRec /\ k1.pc = p
      /\ k1.root = call[c].root /\ k1.page = call[c].page /\ k1.start = call[c].start
      /\ k1.step = call[c].step /\ k1.before = call[c].before /\ k1.after = call[c].after
      /\ k1.leads = call[c].leads /\ k1.follows = call[c].follows
  BY <1>1 DEF CallRec
<1> HIDE DEF k1
<1>8. k \in CallRec /\ k.pc = p /\ k.items = its
      /\ k.root = call[c].root /\ k.page = call[c].page /\ k.start = call[c].start
      /\ k.step = call[c].step /\ k.before = call[c].before /\ k.after = call[c].after
      /\ k.leads = call[c].leads /\ k.follows = call[c].follows
  BY <1>2, <1>7 DEF CallRec
<1> HIDE DEF k
<1>9. call'[c] = k
  BY <1>3 DEF IInv, Types
<1>10. Watched(c)'
  BY <1>5, <1>8, <1>9, WatchedKept
<1>11. Found(c)'
  BY <1>1, <1>4, <1>6, <1>8, <1>9 DEF CallOK, Found
<1>12. Leading(c)'
  BY <1>1, <1>4, <1>8, <1>9 DEF CallOK, Leading, Ended, Early, Enumerating
<1>13. Following(c)'
  BY <1>8, <1>9 DEF Following
<1>14. CallOK(c)'
  BY <1>10, <1>11, <1>12, <1>13 DEF CallOK
<1>15. errors' \in 0..MaxErrors /\ memo' \in [Roots -> Contents] /\ k.pc \notin Early
  BY <1>8, CurrentItems DEF Early
<1>16. QED
  BY <1>3, <1>8, <1>14, <1>15, MoveInv

LEMMA EnumerateInv == ASSUME IInv, NEW c \in Calls, ReadDoc(c) \/ Load(c) \/ Probe(c) PROVE IInv'
<1>1. call[c] \in CallRec /\ memo \in [Roots -> Contents] /\ content \in [Roots -> [Inputs -> Values]]
  BY CurrentItems DEF IInv, Types, TypeOK
<1>2. call[c].pc \in {"doc", "load", "probe"} => call[c].root \in Roots
  BY DEF IInv, CallOK, Watched
<1>3. CASE ReadDoc(c)
  <2>1. "doc" \in Inputs /\ content[call[c].root]["doc"] \in Contents
    BY <1>1, <1>2, <1>3 DEF ReadDoc, Inputs, Contents
  <2>2. /\ call[c].pc = "doc" /\ UNCHANGED <<content, stamp, now, writes, memo, cache, entry, seen, errors>>
        /\ call' = [call EXCEPT ![c].pc = "load", ![c].items["doc"] = content[call[c].root]["doc"]]
    BY <1>3 DEF ReadDoc, world
  <2>3. QED
    BY <2>1, <2>2, AnswerInv
<1>4. CASE Load(c)
  BY <1>1, <1>2, <1>4, AnswerInv DEF Load, world, Inputs
<1>5. CASE Probe(c)
  <2>1. "shallow" \in Inputs /\ content[call[c].root]["shallow"] \in Contents
    BY <1>1, <1>2, <1>5 DEF Probe, Inputs, Contents
  <2>2. /\ call[c].pc = "probe" /\ UNCHANGED <<content, stamp, now, writes, memo, cache, entry, seen, errors>>
        /\ call' = [call EXCEPT ![c].pc = "store", ![c].items["shallow"] = content[call[c].root]["shallow"]]
    BY <1>5 DEF Probe, world
  <2>3. QED
    BY <2>1, <2>2, AnswerInv
<1>6. QED
  BY <1>3, <1>4, <1>5

-----------------------------------------------------------------------------
(* One read or stat, put into a reading.                                    *)
LEMMA PutContent ==
  ASSUME NEW g \in Reading, NEW i \in Inputs, NEW v \in Contents
  PROVE  LET h == [g EXCEPT !["content"][i] = v] IN
         /\ h \in Reading /\ h.stamp = g.stamp /\ h.content[i] = v
         /\ \A j \in Inputs : j # i => h.content[j] = g.content[j]
BY DEF Reading, Items

LEMMA PutStamp ==
  ASSUME NEW g \in Reading, NEW i \in Inputs, NEW v \in 0..MaxTime
  PROVE  LET h == [g EXCEPT !["stamp"][i] = v] IN
         /\ h \in Reading /\ h.content = g.content /\ h.stamp[i] = v
         /\ \A j \in Inputs : j # i => h.stamp[j] = g.stamp[j]
BY DEF Reading, Items

LEMMA ReadsOne ==
  ASSUME IInv, NEW g \in Reading, NEW r \in Roots, NEW n \in 1..4
  PROVE  LET o == Order[n]
             v == IF o[1] = "content" THEN content[r][o[2]] ELSE stamp[r][o[2]]
             h == [g EXCEPT ![o[1]][o[2]] = v]
         IN /\ h \in Reading
            /\ h.stamp["doc"] = IF n = 3 THEN stamp[r]["doc"] ELSE g.stamp["doc"]
            /\ h.content["doc"] = IF n = 4 THEN content[r]["doc"] ELSE g.content["doc"]
<1>1. /\ content[r]["doc"] \in Contents /\ content[r]["shallow"] \in Contents
      /\ stamp[r]["doc"] \in 0..MaxTime /\ stamp[r]["shallow"] \in 0..MaxTime
  BY DEF IInv, Types, TypeOK, Inputs, Contents
<1>2. "doc" \in Inputs /\ "shallow" \in Inputs /\ "doc" # "shallow" /\ "stamp" # "content"
  BY DEF Inputs
<1>3. CASE n = 1
  BY <1>1, <1>2, <1>3, PutContent DEF Order
<1>4. CASE n = 2
  BY <1>1, <1>2, <1>4, PutStamp DEF Order
<1>5. CASE n = 3
  BY <1>1, <1>2, <1>5, PutStamp DEF Order
<1>6. CASE n = 4
  BY <1>1, <1>2, <1>6, PutContent DEF Order
<1>7. QED
  BY <1>3, <1>4, <1>5, <1>6

(* The first reading of the inputs: the key's document is one the call saw. *)
LEMMA ReadBeforeInv == ASSUME IInv, NEW c \in Calls, Read(c, "before") PROVE IInv'
<1> DEFINE n == call[c].step
           o == Order[n]
           v == IF o[1] = "content" THEN content[call[c].root][o[2]] ELSE stamp[call[c].root][o[2]]
           rd == [call[c].before EXCEPT ![o[1]][o[2]] = v]
           st == IF n = 4 THEN 1 ELSE n + 1
           p == IF n = 4 THEN "claim" ELSE "before"
           k1 == [call[c] EXCEPT !.step = st]
           k2 == [k1 EXCEPT !.pc = p]
           k3 == [k2 EXCEPT !.before = rd]
           k == [call[c] EXCEPT !.step = st, !.pc = p, !.before = rd]
<1>1. /\ call[c].pc = "before" /\ UNCHANGED <<content, stamp, now, writes, memo, cache, entry, seen, errors>>
      /\ call[c] \in CallRec /\ CallOK(c)
  BY CurrentItems DEF Read, world, IInv
<1>2. n \in 1..4 /\ call[c].before \in Reading /\ call[c].root \in Roots /\ st \in 1..4 /\ p \in Pcs
      /\ Len(Order) = 4
  BY <1>1 DEF CallRec, CallOK, Watched, Order, Pcs, Early
<1>3. call' = [call EXCEPT ![c] = k]
  <2> DEFINE a1 == IF n = Len(Order) THEN 1 ELSE n + 1
             a2 == IF n = Len(Order) THEN "claim" ELSE call[c].pc
  <2>1. call' = [call EXCEPT ![c].step = a1, ![c].pc = a2, ![c]["before"] = rd]
    BY Zenon DEF Read
  <2>2. a1 = st /\ a2 = p
    BY <1>1, <1>2
  <2> HIDE DEF rd, a1, a2, st, p
  <2>3. QED
    BY <1>1, <2>1, <2>2 DEF IInv, Types, CallRec
<1>4. /\ rd \in Reading
      /\ rd.content["doc"] = IF n = 4 THEN content[call[c].root]["doc"] ELSE call[c].before.content["doc"]
  BY <1>2, ReadsOne
<1> HIDE DEF rd, st, n, o, v, p
<1>5. k = k3
  BY <1>1 DEF CallRec
<1> HIDE DEF k
<1>6. k1 \in CallRec /\ k1.step = st
      /\ k1.root = call[c].root /\ k1.start = call[c].start /\ k1.leads = call[c].leads
  BY <1>1, <1>2 DEF CallRec
<1> HIDE DEF k1
<1>7. k2 \in CallRec /\ k2.step = st /\ k2.pc = p
      /\ k2.root = call[c].root /\ k2.start = call[c].start /\ k2.leads = call[c].leads
  BY <1>2, <1>6 DEF CallRec
<1> HIDE DEF k2
<1>8. k3 \in CallRec /\ k3.step = st /\ k3.pc = p /\ k3.before = rd
      /\ k3.root = call[c].root /\ k3.start = call[c].start /\ k3.leads = call[c].leads
  BY <1>4, <1>7 DEF CallRec
<1> HIDE DEF k3
<1>9. call'[c] = k3
  BY <1>3, <1>5 DEF IInv, Types
<1>10. ~call[c].leads /\ ~entry[c].ok /\ content[call[c].root]["doc"] \in seen[c]["doc"]
  BY <1>1 DEF CallOK, Leading, Watched, Early, Ended
<1>11. p \in {"claim", "before"} /\ (p = "claim" => n = 4 /\ st = 1)
  BY <1>2 DEF p, st
<1>12. Watched(c)'
  BY <1>1, <1>8, <1>9, WatchedKept DEF Ended
<1>13. Found(c)'
  BY <1>1, <1>4, <1>8, <1>9, <1>10, <1>11 DEF Found, Answered
<1>14. Leading(c)'
  BY <1>1, <1>8, <1>9, <1>10, <1>11 DEF Leading
<1>15. Following(c)'
  BY <1>8, <1>9, <1>11 DEF Following
<1>16. CallOK(c)'
  BY <1>12, <1>13, <1>14, <1>15 DEF CallOK
<1>17. errors' \in 0..MaxErrors /\ memo' \in [Roots -> Contents] /\ call[c].pc \in Early
  BY <1>1, CurrentItems DEF Early
<1>18. QED
  BY <1>1, <1>3, <1>5, <1>8, <1>16, <1>17, MoveInv

(* The second reading: a stamp as old as the first one was read before      *)
(* anything was written since the call began.                               *)
LEMMA ReadAfterInv == ASSUME IInv, NEW c \in Calls, Read(c, "after") PROVE IInv'
<1> DEFINE n == call[c].step
           o == Order[n]
           v == IF o[1] = "content" THEN content[call[c].root][o[2]] ELSE stamp[call[c].root][o[2]]
           rd == [call[c].after EXCEPT ![o[1]][o[2]] = v]
           st == IF n = 4 THEN 1 ELSE n + 1
           p == IF n = 4 THEN "compare" ELSE "after"
           k1 == [call[c] EXCEPT !.step = st]
           k2 == [k1 EXCEPT !.pc = p]
           k3 == [k2 EXCEPT !.after = rd]
           k == [call[c] EXCEPT !.step = st, !.pc = p, !.after = rd]
<1>1. /\ call[c].pc = "after" /\ UNCHANGED <<content, stamp, now, writes, memo, cache, entry, seen, errors>>
      /\ call[c] \in CallRec /\ CallOK(c)
  BY CurrentItems DEF Read, world, IInv
<1>2. n \in 1..4 /\ call[c].after \in Reading /\ call[c].root \in Roots /\ st \in 1..4 /\ p \in Pcs
      /\ Len(Order) = 4
  BY <1>1 DEF CallRec, CallOK, Watched, Order, Pcs, Early
<1>3. call' = [call EXCEPT ![c] = k]
  <2> DEFINE a1 == IF n = Len(Order) THEN 1 ELSE n + 1
             a2 == IF n = Len(Order) THEN "compare" ELSE call[c].pc
  <2>1. call' = [call EXCEPT ![c].step = a1, ![c].pc = a2, ![c]["after"] = rd]
    BY Zenon DEF Read
  <2>2. a1 = st /\ a2 = p
    BY <1>1, <1>2
  <2> HIDE DEF rd, a1, a2, st, p
  <2>3. QED
    BY <1>1, <2>1, <2>2 DEF IInv, Types, CallRec
<1>4. /\ rd \in Reading
      /\ rd.stamp["doc"] = IF n = 3 THEN stamp[call[c].root]["doc"] ELSE call[c].after.stamp["doc"]
  BY <1>2, ReadsOne
<1>5. (p = "after" /\ st = 4 => n = 3) /\ (p = "compare" => n = 4) /\ p \in {"after", "compare"}
  BY <1>2
<1> HIDE DEF rd, st, n, o, v, p
<1>6. k = k3
  BY <1>1 DEF CallRec
<1> HIDE DEF k
<1>7. k1 \in CallRec /\ k1.step = st
      /\ k1.root = call[c].root /\ k1.start = call[c].start /\ k1.leads = call[c].leads
      /\ k1.items = call[c].items /\ k1.before = call[c].before
  BY <1>1, <1>2 DEF CallRec
<1> HIDE DEF k1
<1>8. k2 \in CallRec /\ k2.step = st /\ k2.pc = p
      /\ k2.root = call[c].root /\ k2.start = call[c].start /\ k2.leads = call[c].leads
      /\ k2.items = call[c].items /\ k2.before = call[c].before
  BY <1>2, <1>7 DEF CallRec
<1> HIDE DEF k2
<1>9. k3 \in CallRec /\ k3.step = st /\ k3.pc = p /\ k3.after = rd
      /\ k3.root = call[c].root /\ k3.start = call[c].start /\ k3.leads = call[c].leads
      /\ k3.items = call[c].items /\ k3.before = call[c].before
  BY <1>4, <1>8 DEF CallRec
<1> HIDE DEF k3
<1>10. call'[c] = k3
  BY <1>3, <1>6 DEF IInv, Types
<1>11. /\ call[c].leads /\ ~entry[c].ok /\ entry[c].key = call[c].before.content
       /\ call[c].before.stamp["doc"] < call[c].start - Window
       /\ call[c].before.content["doc"] \in seen[c]["doc"] /\ call[c].items["doc"] \in seen[c]["doc"]
  BY <1>1 DEF CallOK, Leading, Found, Answered
<1>12. n = 3 => \/ rd.stamp["doc"] > call[c].start - Granule
                \/ call[c].items["doc"] = call[c].before.content["doc"]
  <2>1. \/ seen[c]["doc"] = {content[call[c].root]["doc"]}
        \/ stamp[call[c].root]["doc"] > call[c].start - Granule
    BY <1>1 DEF CallOK, Watched, Ended
  <2>2. QED
    BY <1>4, <1>11, <2>1
<1>13. n = 4 => \/ rd.stamp["doc"] > call[c].start - Granule
                \/ call[c].items["doc"] = call[c].before.content["doc"]
  <2>1. n = 4 => \/ call[c].after.stamp["doc"] > call[c].start - Granule
                 \/ call[c].items["doc"] = call[c].before.content["doc"]
    BY <1>1 DEF CallOK, Leading, n
  <2>2. QED
    BY <1>4, <2>1
<1>14. Watched(c)'
  BY <1>1, <1>9, <1>10, WatchedKept DEF Ended
<1>15. Found(c)'
  BY <1>1, <1>5, <1>9, <1>10, <1>11 DEF Found, Answered, Enumerating
<1>16. Leading(c)'
  BY <1>1, <1>5, <1>9, <1>10, <1>11, <1>12, <1>13 DEF Leading, Early, Ended
<1>17. Following(c)'
  BY <1>5, <1>9, <1>10 DEF Following
<1>18. CallOK(c)'
  BY <1>14, <1>15, <1>16, <1>17 DEF CallOK
<1>19. errors' \in 0..MaxErrors /\ memo' \in [Roots -> Contents] /\ k3.pc \notin Early
  BY <1>1, <1>5, <1>9, CurrentItems DEF Early
<1>20. QED
  BY <1>1, <1>3, <1>6, <1>9, <1>18, <1>19, MoveInv

-----------------------------------------------------------------------------
(* An insertion evicts one root of a full cache.                            *)
LEMMA EvictedOne ==
  ASSUME IInv, NEW c \in Calls, NEW r \in Roots, NEW out \in Evicted(r),
         cache' = [q \in Roots |-> IF q = r THEN c ELSE IF q \in out THEN None ELSE cache[q]]
  PROVE  IsFiniteSet(Held') /\ Cardinality(Held') <= MaxRoots
<1>1. IsFiniteSet(Held) /\ Cardinality(Held) <= MaxRoots /\ Cardinality(Held) \in Nat
  <2>1. IsFiniteSet(Held) /\ Cardinality(Held) <= MaxRoots
    BY DEF IInv, Types, TypeOK, Held
  <2>2. QED
    BY <2>1, FS_CardinalityType
<1>2. Held' = (Held \ out) \union {r}
  BY DEF Held
<1>3. CASE cache[r] = None /\ Cardinality(Held) >= MaxRoots
  <2>1. PICK q \in Held : out = {q}
    BY <1>3 DEF Evicted, Held
  <2>2. /\ IsFiniteSet(Held \ {q}) /\ Cardinality(Held \ {q}) = Cardinality(Held) - 1
    BY <1>1, <2>1, FS_RemoveElement
  <2>3. r \notin Held \ {q}
    BY <1>3 DEF Held
  <2>4. /\ IsFiniteSet((Held \ {q}) \union {r})
        /\ Cardinality((Held \ {q}) \union {r}) = Cardinality(Held \ {q}) + 1
    BY <2>2, <2>3, FS_AddElement
  <2>5. QED
    BY <1>1, <1>2, <2>1, <2>2, <2>4
<1>4. CASE ~(cache[r] = None /\ Cardinality(Held) >= MaxRoots)
  <2>1. out = {}
    BY <1>4 DEF Evicted, Held
  <2>2. Held' = Held \union {r}
    BY <1>2, <2>1
  <2>3. /\ IsFiniteSet(Held \union {r})
        /\ Cardinality(Held \union {r}) = IF r \in Held THEN Cardinality(Held) ELSE Cardinality(Held) + 1
    BY <1>1, FS_AddElement
  <2>4. r \notin Held => Cardinality(Held) + 1 <= MaxRoots
    BY <1>1, <1>4 DEF Held
  <2>5. QED
    BY <1>1, <2>2, <2>3, <2>4
<1>5. QED
  BY <1>3, <1>4

LEMMA ClaimInv == ASSUME IInv, NEW c \in Calls, Claim(c) PROVE IInv'
<1> DEFINE r == call[c].root
           key == call[c].before.content
           E == [key : Items, done : BOOLEAN, items : Items, ok : BOOLEAN]
<1>1. call[c].pc = "claim" /\ UNCHANGED <<content, stamp, now, writes, memo, seen, errors>>
  BY DEF Claim, world
<1>2. call[c] \in CallRec /\ CallOK(c) /\ cache \in [Roots -> Calls \union {None}]
      /\ entry \in [Calls -> E] /\ memo' \in [Roots -> Contents] /\ errors' \in 0..MaxErrors
      /\ seen' \in [Calls -> [Inputs -> SUBSET Values]]
  BY <1>1, CurrentItems DEF IInv, Types, TypeOK
<1>3. r \in Roots /\ key \in Items /\ key["doc"] \in seen[c]["doc"] /\ call[c].step = 1
      /\ ~call[c].leads /\ ~entry[c].ok
  BY <1>1, <1>2 DEF CallOK, Watched, Found, Leading, CallRec, Reading, Early
<1>4. CASE Shares(r, key) /\ call' = [call EXCEPT ![c].pc = "await", ![c].follows = cache[r]]
           /\ UNCHANGED <<cache, entry>>
  <2> DEFINE k1 == [call[c] EXCEPT !.pc = "await"]
             k == [k1 EXCEPT !.follows = cache[r]]
  <2>1. cache[r] \in Calls /\ cache[r] # None /\ entry[cache[r]].key = key /\ call[cache[r]].pc \notin Early
        /\ cache[r] # c
    BY <1>1, <1>2, <1>3, <1>4 DEF Shares, IInv, CacheOK, Early
  <2>2. call' = [call EXCEPT ![c] = k]
    BY <1>2, <1>4 DEF IInv, Types, CallRec
  <2>3. k1 \in CallRec /\ k1.pc = "await" /\ k1.root = r /\ k1.start = call[c].start
        /\ k1.before = call[c].before /\ k1.leads = call[c].leads
    BY <1>2 DEF CallRec, Pcs
  <2> HIDE DEF k1
  <2>4. k \in CallRec /\ k.pc = "await" /\ k.root = r /\ k.start = call[c].start
        /\ k.before = call[c].before /\ k.leads = call[c].leads /\ k.follows = cache[r]
    BY <2>1, <2>3 DEF CallRec
  <2> HIDE DEF k
  <2>5. call'[c] = k /\ \A d \in Calls : d # c => call'[d] = call[d]
    BY <2>2 DEF IInv, Types
  <2>6. Watched(c)'
    BY <1>1, <2>4, <2>5, WatchedKept DEF Ended
  <2>7. Found(c)' /\ Leading(c)'
    BY <1>1, <1>3, <1>4, <2>4, <2>5 DEF Found, Leading, Answered
  <2>8. Following(c)'
    BY <1>4, <2>1, <2>4, <2>5 DEF Following
  <2>9. CallOK(c)'
    BY <2>6, <2>7, <2>8 DEF CallOK
  <2>10. k.pc \notin Early
    BY <2>4 DEF Early
  <2>11. QED
    BY <1>1, <1>2, <1>4, <2>2, <2>4, <2>9, <2>10, MoveInv
<1>5. CASE /\ ~Shares(r, key)
           /\ \E out \in Evicted(r) :
                cache' = [q \in Roots |-> IF q = r THEN c ELSE IF q \in out THEN None ELSE cache[q]]
           /\ entry' = [entry EXCEPT ![c].key = key]
           /\ call' = [call EXCEPT ![c].pc = "reset", ![c].leads = TRUE]
  <2> DEFINE k1 == [call[c] EXCEPT !.pc = "reset"]
             k == [k1 EXCEPT !.leads = TRUE]
  <2>1. PICK out \in Evicted(r) :
          cache' = [q \in Roots |-> IF q = r THEN c ELSE IF q \in out THEN None ELSE cache[q]]
    BY <1>5
  <2>2. call' = [call EXCEPT ![c] = k]
    BY <1>2, <1>5 DEF IInv, Types, CallRec
  <2>3. k1 \in CallRec /\ k1.pc = "reset" /\ k1.root = r /\ k1.start = call[c].start
        /\ k1.before = call[c].before /\ k1.step = 1
    BY <1>2, <1>3 DEF CallRec, Pcs, Enumerating
  <2> HIDE DEF k1
  <2>4. k \in CallRec /\ k.pc = "reset" /\ k.root = r /\ k.start = call[c].start
        /\ k.before = call[c].before /\ k.leads /\ k.step = 1
    BY <2>3 DEF CallRec
  <2> HIDE DEF k
  <2>5. call'[c] = k
    BY <2>2 DEF IInv, Types
  <2>6. entry' \in [Calls -> E] /\ entry'[c].key = key /\ ~entry'[c].ok
        /\ \A d \in Calls : d # c => entry'[d] = entry[d]
    BY <1>2, <1>3, <1>5
  <2>7. IsFiniteSet(Held') /\ Cardinality(Held') <= MaxRoots
    BY <1>3, <2>1, EvictedOne
  <2>8. k.pc \notin Early /\ call[c].pc \in Early
    BY <1>1, <2>4 DEF Early
  <2>9. /\ cache' \in [Roots -> Calls \union {None}]
        /\ \A q \in Roots : cache'[q] \in {cache[q], None} \/ (cache'[q] = c /\ k.pc \notin Early)
    BY <1>2, <2>1, <2>8
  <2>10. Watched(c)'
    BY <1>1, <2>4, <2>5, WatchedKept DEF Ended
  <2>11. Found(c)'
    BY <1>1, <1>3, <2>4, <2>5 DEF Found, Answered
  <2>12. Leading(c)'
    BY <2>4, <2>5, <2>6, <2>8 DEF Leading, Ended
  <2>13. Following(c)'
    BY <2>4, <2>5 DEF Following
  <2>14. CallOK(c)'
    BY <2>10, <2>11, <2>12, <2>13 DEF CallOK
  <2>15. QED
    BY <1>1, <1>2, <2>2, <2>4, <2>6, <2>7, <2>8, <2>9, <2>14, StepInv
<1>6. QED
  BY <1>4, <1>5 DEF Claim

LEMMA StartInv ==
  ASSUME IInv, NEW c \in Calls, NEW r \in Roots, NEW page \in BOOLEAN, Start(c, r, page)
  PROVE  IInv'
<1> DEFINE p == IF page THEN "doc" ELSE "before"
           k1 == [call[c] EXCEPT !.pc = p]
           k2 == [k1 EXCEPT !.root = r]
           k3 == [k2 EXCEPT !.page = page]
           k == [k3 EXCEPT !.start = now]
           w == [i \in Inputs |-> {content[r][i]}]
<1>1. /\ call[c].pc = "idle" /\ UNCHANGED <<content, stamp, now, writes, memo, cache, entry, errors>>
      /\ seen' = [seen EXCEPT ![c] = w]
      /\ call' = [call EXCEPT ![c].pc = p, ![c].root = r, ![c].page = page, ![c].start = now]
  BY DEF Start, world
<1>2. /\ call[c] \in CallRec /\ CallOK(c) /\ now \in 0..MaxTime /\ call \in [Calls -> CallRec]
      /\ seen \in [Calls -> [Inputs -> SUBSET Values]] /\ content \in [Roots -> [Inputs -> Values]]
      /\ memo' \in [Roots -> Contents] /\ errors' \in 0..MaxErrors
      /\ entry' \in [Calls -> [key : Items, done : BOOLEAN, items : Items, ok : BOOLEAN]]
  BY <1>1, CurrentItems DEF IInv, Types, TypeOK
<1>3. p \in {"doc", "before"} /\ p \in Pcs
  BY DEF Pcs, Early, Enumerating
<1>4. w \in [Inputs -> SUBSET Values] /\ w["doc"] = {content[r]["doc"]}
  BY <1>2 DEF Inputs
<1> HIDE DEF p, w
<1>5. call' = [call EXCEPT ![c] = k]
  BY <1>1, <1>2 DEF CallRec
<1>6. k1 \in CallRec /\ k1.pc = p /\ k1.leads = call[c].leads /\ k1.step = call[c].step
  BY <1>2, <1>3 DEF CallRec
<1> HIDE DEF k1
<1>7. k2 \in CallRec /\ k2.pc = p /\ k2.leads = call[c].leads /\ k2.root = r
  BY <1>6 DEF CallRec
<1> HIDE DEF k2
<1>8. k3 \in CallRec /\ k3.pc = p /\ k3.leads = call[c].leads /\ k3.root = r
  BY <1>7 DEF CallRec
<1> HIDE DEF k3
<1>9. k \in CallRec /\ k.pc = p /\ k.leads = call[c].leads /\ k.root = r /\ k.start = now
  BY <1>2, <1>8 DEF CallRec
<1> HIDE DEF k
<1>10. call'[c] = k
  BY <1>2, <1>5
<1>11. seen' \in [Calls -> [Inputs -> SUBSET Values]] /\ seen'[c] = w
       /\ \A d \in Calls : d # c => seen'[d] = seen[d]
  BY <1>1, <1>2, <1>4
<1>12. ~call[c].leads /\ ~entry[c].ok
  BY <1>1, <1>2 DEF CallOK, Leading, Early
<1>13. Watched(c)'
  BY <1>1, <1>2, <1>3, <1>4, <1>9, <1>10, <1>11 DEF Watched
<1>14. Found(c)' /\ Leading(c)' /\ Following(c)'
  BY <1>1, <1>3, <1>9, <1>10, <1>12 DEF Found, Leading, Following, Answered
<1>15. CallOK(c)'
  BY <1>13, <1>14 DEF CallOK
<1>16. cache' \in [Roots -> Calls \union {None}] /\ (\A q \in Roots : cache'[q] \in {cache[q], None})
       /\ IsFiniteSet(Held') /\ Cardinality(Held') <= MaxRoots
  BY <1>1, CacheKept
<1>17. call[c].pc \in Early
  BY <1>1 DEF Early
<1>18. QED
  BY <1>1, <1>2, <1>5, <1>9, <1>11, <1>15, <1>16, <1>17, StepInv

(* A stamp is rounded down by less than a granule.                          *)
LEMMA Rounded ==
  ASSUME NEW n \in Nat, NEW g \in Nat \ {0}
  PROVE  (n \div g) * g \in Nat /\ (n \div g) * g <= n /\ (n \div g) * g > n - g
OBVIOUS

LEMMA TickInv == ASSUME IInv, Tick PROVE IInv'
<1>1. UNCHANGED <<content, stamp, writes, memo, cache, entry, call, seen, errors>>
      /\ now \in 0..MaxTime /\ now' = now + 1 /\ now' \in 0..MaxTime
  BY DEF Tick, IInv, Types, TypeOK
<1>2. ASSUME NEW c \in Calls
      PROVE  CallOK(c)'
  <2>1. CallOK(c) /\ call[c].start \in Nat
    BY CurrentItems DEF IInv, CallRec
  <2>2. Watched(c)'
    BY <1>1, <2>1 DEF CallOK, Watched
  <2>3. Found(c)' /\ Leading(c)' /\ Following(c)'
    BY <1>1, <2>1 DEF CallOK, Found, Leading, Following
  <2>4. QED
    BY <2>2, <2>3 DEF CallOK
<1>3. CacheOK' /\ IsFiniteSet(Held')
  BY <1>1 DEF IInv, CacheOK, Types, Held
<1>4. TypeOK'
  BY <1>1 DEF IInv, Types, TypeOK
<1>5. QED
  BY <1>1, <1>2, <1>3, <1>4 DEF IInv, Types

(* A write leaves a stamp no call can take for older than its start.        *)
LEMMA WriteInv ==
  ASSUME IInv, NEW r \in Roots, NEW i \in Inputs, NEW v \in Values, Write(r, i, v)
  PROVE  IInv'
<1> DEFINE s == (now \div Granule) * Granule
<1>1. /\ UNCHANGED <<now, memo, cache, entry, call, errors>>
      /\ content' = [content EXCEPT ![r][i] = v] /\ stamp' = [stamp EXCEPT ![r][i] = s]
      /\ writes < MaxWrites /\ writes' = writes + 1
      /\ seen' = [c \in Calls |-> IF call[c].root = r /\ call[c].pc \notin Ended
                                  THEN [seen[c] EXCEPT ![i] = @ \union {v}] ELSE seen[c]]
  BY DEF Write
<1>2. /\ content \in [Roots -> [Inputs -> Values]] /\ stamp \in [Roots -> [Inputs -> 0..MaxTime]]
      /\ now \in 0..MaxTime /\ seen \in [Calls -> [Inputs -> SUBSET Values]] /\ writes \in 0..MaxWrites
  BY DEF IInv, Types, TypeOK
<1>3. s \in 0..MaxTime /\ s > now - Granule
  <2>1. now \in Nat /\ Granule \in Nat \ {0}
    BY <1>2
  <2>2. s \in Nat /\ s <= now /\ s > now - Granule
    BY <2>1, Rounded
  <2>3. QED
    BY <1>2, <2>2
<1> HIDE DEF s
<1>4. content' \in [Roots -> [Inputs -> Values]] /\ stamp' \in [Roots -> [Inputs -> 0..MaxTime]]
      /\ seen' \in [Calls -> [Inputs -> SUBSET Values]] /\ writes' \in 0..MaxWrites
  <2>1. content' \in [Roots -> [Inputs -> Values]]
    BY <1>1, <1>2
  <2>2. stamp' \in [Roots -> [Inputs -> 0..MaxTime]]
    BY <1>1, <1>2, <1>3
  <2>3. seen' \in [Calls -> [Inputs -> SUBSET Values]]
    BY <1>1, <1>2
  <2>4. QED
    BY <1>1, <1>2, <2>1, <2>2, <2>3
<1>5. ASSUME NEW c \in Calls
      PROVE  CallOK(c)'
  <2>1. CallOK(c) /\ call[c].start \in Nat /\ "doc" \in Inputs
    BY CurrentItems DEF IInv, CallRec, Inputs
  <2>2. seen[c]["doc"] \subseteq seen'[c]["doc"]
    BY <1>1, <1>2, <2>1
  <2>3. Watched(c)'
    <3>1. CASE call[c].root # r \/ i # "doc" \/ call[c].pc \in Ended \union {"idle"}
      <4>1. CASE call[c].pc \in Ended \union {"idle"}
        BY <1>1, <2>1, <4>1 DEF CallOK, Watched
      <4>2. CASE call[c].pc \notin Ended \union {"idle"} /\ (call[c].root # r \/ i # "doc")
        <5>1. call[c].root \in Roots
          BY <2>1, <4>2 DEF CallOK, Watched
        <5>2. content'[call[c].root]["doc"] = content[call[c].root]["doc"]
              /\ stamp'[call[c].root]["doc"] = stamp[call[c].root]["doc"]
          BY <1>1, <1>2, <2>1, <4>2, <5>1
        <5>3. seen'[c]["doc"] = seen[c]["doc"]
          BY <1>1, <1>2, <2>1, <4>2
        <5>4. QED
          BY <1>1, <2>1, <5>2, <5>3 DEF CallOK, Watched
      <4>3. QED
        BY <3>1, <4>1, <4>2
    <3>2. CASE call[c].root = r /\ i = "doc" /\ call[c].pc \notin Ended \union {"idle"}
      <4>1. content'[r]["doc"] = v /\ stamp'[r]["doc"] = s /\ v \in seen'[c]["doc"]
        BY <1>1, <1>2, <3>2
      <4>2. call[c].start <= now
        BY <2>1, <3>2 DEF CallOK, Watched
      <4>3. s > call[c].start - Granule
        BY <1>2, <1>3, <2>1, <4>2
      <4>4. QED
        BY <1>1, <3>2, <4>1, <4>2, <4>3 DEF Watched
    <3>3. QED
      BY <3>1, <3>2
  <2>4. Found(c)'
    BY <1>1, <2>1, <2>2 DEF CallOK, Found
  <2>5. Leading(c)' /\ Following(c)'
    BY <1>1, <2>1 DEF CallOK, Leading, Following
  <2>6. QED
    BY <2>3, <2>4, <2>5 DEF CallOK
<1>6. CacheOK' /\ IsFiniteSet(Held')
  BY <1>1 DEF IInv, CacheOK, Types, Held
<1>7. TypeOK'
  BY <1>1, <1>2, <1>4 DEF IInv, Types, TypeOK
<1>8. QED
  BY <1>1, <1>5, <1>6, <1>7 DEF IInv, Types

LEMMA NextIInv == IInv /\ [Next]_vars => IInv'
<1> SUFFICES ASSUME IInv, [Next]_vars PROVE IInv'
  OBVIOUS
<1>1. ASSUME NEW c \in Calls, CacheStep(c)
      PROVE  IInv'
  BY <1>1, ReadBeforeInv, ReadAfterInv, ClaimInv, AwaitInv, EnumeratedInv, CompareInv, FinishInv, ReleaseInv
     DEF CacheStep
<1>2. ASSUME NEW c \in Calls, EnumerateStep(c)
      PROVE  IInv'
  BY <1>2, ResetInv, EnumerateInv, StoreMemoInv DEF EnumerateStep
<1>3. ASSUME NEW c \in Calls, FaultStep(c)
      PROVE  IInv'
  BY <1>3, UncomputableInv, RereadFailsInv, EnumerateFailsInv, CancelInv DEF FaultStep
<1>4. CASE UNCHANGED vars
  <2>1. UNCHANGED <<content, stamp, now, memo, cache, entry, call, seen, writes, errors>>
    BY <1>4 DEF vars
  <2>2. \A c \in Calls : CallOK(c)'
    BY <2>1 DEF IInv, CallOK, Watched, Found, Leading, Following
  <2>3. CacheOK' /\ Types'
    BY <2>1 DEF IInv, CacheOK, Types, TypeOK, Held
  <2>4. QED
    BY <2>2, <2>3 DEF IInv
<1>5. QED
  BY <1>1, <1>2, <1>3, <1>4, StartInv, WriteInv, TickInv DEF Next

Kept(r) ==
    cache[r] # None /\ entry[cache[r]].ok /\ cache'[r] # cache[r] =>
        \E q \in Roots : /\ cache'[q] \notin {None, cache[q]}
                         /\ q = r => entry'[cache'[q]].key # entry[cache[r]].key

LEMMA ReleaseKeeps == ASSUME IInv, NEW c \in Calls, Release(c), NEW r \in Roots PROVE Kept(r)
<1>1. ~entry[c].ok
  BY CurrentItems DEF Release
<1>2. cache \in [Roots -> Calls \union {None}]
  BY DEF IInv, Types, TypeOK
<1>3. cache'[r] # cache[r] => cache[r] = c
  BY <1>2 DEF Release
<1>4. QED
  BY <1>1, <1>3 DEF Kept

LEMMA ClaimKeeps == ASSUME IInv, NEW c \in Calls, Claim(c), NEW r \in Roots PROVE Kept(r)
<1> DEFINE q == call[c].root
<1>1. call[c].pc = "claim" /\ cache \in [Roots -> Calls \union {None}] /\ c # None
      /\ entry \in [Calls -> [key : Items, done : BOOLEAN, items : Items, ok : BOOLEAN]]
  BY CurrentItems DEF Claim, IInv, Types, TypeOK
<1>2. q \in Roots
  BY <1>1 DEF IInv, CallOK, Watched
<1>3. SUFFICES ASSUME cache[r] # None, cache'[r] # cache[r]
               PROVE  /\ cache'[q] \notin {None, cache[q]}
                      /\ q = r => entry'[cache'[q]].key # entry[cache[r]].key
  BY <1>2 DEF Kept
<1>4. PICK out \in Evicted(q) :
        /\ ~Shares(q, call[c].before.content)
        /\ cache' = [p \in Roots |-> IF p = q THEN c ELSE IF p \in out THEN None ELSE cache[p]]
        /\ entry' = [entry EXCEPT ![c].key = call[c].before.content]
  BY <1>3 DEF Claim
<1>5. cache'[q] = c
  BY <1>2, <1>4
<1>6. cache[q] # c
  BY <1>1, <1>2 DEF IInv, CacheOK, Early
<1>7. entry'[c].key = call[c].before.content
  BY <1>1, <1>4
<1>8. q = r => entry[cache[r]].key # call[c].before.content
  BY <1>3, <1>4 DEF Shares
<1>9. QED
  BY <1>1, <1>5, <1>6, <1>7, <1>8

LEMMA NextKeeps == IInv /\ Next => \A r \in Roots : Kept(r)
<1> SUFFICES ASSUME IInv, Next, NEW r \in Roots PROVE Kept(r)
  OBVIOUS
<1>1. cache' = cache \/ \E c \in Calls : Claim(c) \/ Release(c)
  <2>1. ASSUME NEW c \in Calls, CacheStep(c)
        PROVE  cache' = cache \/ Claim(c) \/ Release(c)
    BY <2>1 DEF CacheStep, Read, Await, Enumerated, Compare, Finish
  <2>2. ASSUME NEW c \in Calls, EnumerateStep(c)
        PROVE  cache' = cache
    BY <2>2 DEF EnumerateStep, Reset, ReadDoc, Load, Probe, StoreMemo
  <2>3. ASSUME NEW c \in Calls, FaultStep(c)
        PROVE  cache' = cache
    BY <2>3 DEF FaultStep, Uncomputable, RereadFails, EnumerateFails, Cancel
  <2>4. ASSUME NEW c \in Calls, NEW q \in Roots, NEW page \in BOOLEAN, Start(c, q, page)
        PROVE  cache' = cache
    BY <2>4 DEF Start
  <2>5. QED
    BY <2>1, <2>2, <2>3, <2>4 DEF Next, Write, Tick
<1>2. CASE cache' = cache
  BY <1>2 DEF Kept
<1>3. QED
  BY <1>1, <1>2, ClaimKeeps, ReleaseKeeps

(* The inductive invariant holds of every execution.                       *)
THEOREM Invariance == Spec => []IInv
BY InitIInv, NextIInv, PTL DEF Spec

(* The cache holds at most maxCachedRoots roots, and every variable has    *)
(* its type (cache.go putLocked).                                          *)
THEOREM TypeCorrect == Spec => []TypeOK
<1>1. IInv => TypeOK
  BY DEF IInv, Types
<1>2. QED
  BY <1>1, Invariance, PTL

(* Every count shows a document as it was at some moment of the call, also *)
(* when it was stored by another call (Cache.lint, lead, await).           *)
THEOREM Current == Spec => []ServedCurrent
<1>1. IInv => ServedCurrent
  BY DEF IInv, CallOK, Found, Answered, ServedCurrent
<1>2. QED
  BY <1>1, Invariance, PTL

(* A stored result leaves the cache only for a call that claims its root   *)
(* under another key or needs its place (Cache.release, claim, putLocked). *)
THEOREM Keeps == Spec => StoredKept
<1>1. IInv /\ [Next]_vars => [\A r \in Roots : Kept(r)]_vars
  BY NextKeeps
<1>2. QED
  BY <1>1, Invariance, PTL DEF Spec, StoredKept, Kept
=============================================================================
