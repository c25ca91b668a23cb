-------------------------- MODULE DisclosureCache --------------------------
(***************************************************************************)
(* The workbench's disclosure count and its cache                          *)
(* (internal/disclosureview/cache.go, cachekey.go) together with git's     *)
(* process-wide shallow memo (internal/gitx/reachable.go), which every     *)
(* enumeration reads and the cache key does not cover.                     *)
(*                                                                         *)
(* A call for the index's count reads every input of the lint run, claims  *)
(* the entry of its root and key, and either leads the enumeration or      *)
(* waits for the one that does.  A leader stores its result only when no   *)
(* input was written shortly before its first reading and a second reading *)
(* finds the same contents and the same stamps.  A call for the            *)
(* disclosures page enumerates and touches no entry.  People and git write *)
(* the inputs at any moment.                                               *)
(*                                                                         *)
(* Two inputs stand for the inventory of cachekey.go: "doc", a file of     *)
(* .verdi, stamped and then read, and "shallow", git's shallow file, read  *)
(* and then stamped.  Time is counted in ticks; a stamp is rounded down to *)
(* the file system's Granule, as the code's racyWindow supposes.           *)
(***************************************************************************)
EXTENDS Integers, Sequences, FiniteSets, FiniteSetsExt

CONSTANTS Calls,      \* requests; each is served once
          Roots,      \* checkouts the process serves
          Values,     \* contents an input can have
          MaxRoots,   \* maxCachedRoots
          Window,     \* racyWindow, in ticks
          Granule,    \* the coarsest timestamp granule, in ticks
          MaxTime,    \* bound on the clock
          MaxWrites,  \* bound on the writes of people and git
          MaxErrors,  \* bound on readings and enumerations that fail
          None

ASSUME CacheAssumption ==
    /\ None \notin Calls \union Values
    /\ MaxRoots \in Nat \ {0}
    /\ Granule \in Nat \ {0}
    /\ Window \in Nat
    /\ Window >= Granule
    /\ MaxTime \in Nat /\ MaxWrites \in Nat /\ MaxErrors \in Nat

VARIABLES
    content,   \* root -> input -> its contents
    stamp,     \* root -> input -> its modification and change time
    now,       \* the wall clock
    memo,      \* root -> shallowCache's answer, or None
    cache,     \* root -> the call whose entry Cache.entries holds, or None
    entry,     \* call -> the cacheEntry it leads
    call,      \* call -> its program counter and locals
    seen,      \* call -> input -> the contents it had while the call ran
    writes, errors

vars == <<content, stamp, now, memo, cache, entry, call, seen, writes, errors>>

Inputs == {"doc", "shallow"}

(* readInputs: git() reads the shallow file and then stamps it; verdiTree  *)
(* stamps a document and then reads it.                                    *)
Order == << <<"content", "shallow">>, <<"stamp", "shallow">>,
            <<"stamp", "doc">>, <<"content", "doc">> >>

NoReading == [content |-> [i \in Inputs |-> None],
              stamp |-> [i \in Inputs |-> 0]]
NoItems == [i \in Inputs |-> None]
NewEntry == [key |-> NoItems, done |-> FALSE, items |-> NoItems, ok |-> FALSE]
NewCall == [pc |-> "idle", root |-> None, page |-> FALSE, start |-> 0,
            step |-> 1, before |-> NoReading, after |-> NoReading,
            leads |-> FALSE, follows |-> None, items |-> NoItems]

Init ==
    /\ \E v \in Values : content = [r \in Roots |-> [i \in Inputs |-> v]]
    /\ stamp = [r \in Roots |-> [i \in Inputs |-> 0]]
    /\ now = 0
    /\ memo = [r \in Roots |-> None]
    /\ cache = [r \in Roots |-> None]
    /\ entry = [c \in Calls |-> NewEntry]
    /\ call = [c \in Calls |-> NewCall]
    /\ seen = [c \in Calls |-> [i \in Inputs |-> {}]]
    /\ writes = 0
    /\ errors = 0

world == <<content, stamp, now, writes>>

Ended == {"returned", "failed"}

(* A call that ends forgets its locals; only its answer is left.           *)
Step(c, pc, items) ==
    call' = [call EXCEPT ![c] =
        IF pc \in Ended
        THEN [NewCall EXCEPT !.pc = pc, !.root = call[c].root,
                             !.page = call[c].page,
                             !.items = IF pc = "failed" THEN NoItems ELSE items]
        ELSE [@ EXCEPT !.pc = pc, !.items = items]]

Goto(c, pc) == Step(c, pc, call[c].items)

----------------------------------------------------------------------------
(* The index's count: Cache.lint, lead, claim, await, release.             *)

(* A request arrives: the index asks for the count and takes its start     *)
(* time, or the disclosures page enumerates at once, without the reset.    *)
Start(c, r, page) ==
    /\ call[c].pc = "idle"
    /\ call' = [call EXCEPT ![c].pc = IF page THEN "doc" ELSE "before",
                            ![c].root = r, ![c].page = page,
                            ![c].start = now]
    /\ seen' = [seen EXCEPT ![c] = [i \in Inputs |-> {content[r][i]}]]
    /\ UNCHANGED <<world, memo, cache, entry, errors>>

(* One read or one stat of readInputs, into the reading named which.       *)
Read(c, which) ==
    LET o == Order[call[c].step]
        v == IF o[1] = "content" THEN content[call[c].root][o[2]]
                                 ELSE stamp[call[c].root][o[2]]
        done == call[c].step = Len(Order)
        rd == [call[c][which] EXCEPT ![o[1]][o[2]] = v]
        next == IF which = "before" THEN "claim" ELSE "compare"
    IN  /\ call[c].pc = which
        /\ call' = [call EXCEPT ![c].step = IF done THEN 1 ELSE @ + 1,
                                ![c].pc = IF done THEN next ELSE @,
                                ![c][which] = rd]
        /\ UNCHANGED <<world, memo, cache, entry, seen, errors>>

(* The first reading fails: the key is uncomputable, the call enumerates   *)
(* afresh and stores nothing.                                              *)
Uncomputable(c) ==
    /\ call[c].pc = "before"
    /\ errors < MaxErrors
    /\ errors' = errors + 1
    /\ Goto(c, "reset")
    /\ UNCHANGED <<world, memo, cache, entry, seen>>

(* An insertion that evicts nobody.                                        *)
EvictedNone(r) == {{}}

(* putLocked: the roots an insertion may evict, one at most.               *)
Evicted(r) ==
    LET held == {q \in Roots : cache[q] # None}
    IN  IF cache[r] = None /\ Cardinality(held) >= MaxRoots
        THEN {{q} : q \in held} ELSE {{}}

(* claim finds the root's entry under the same key, done or in flight.     *)
Shares(r, key) == cache[r] # None /\ entry[cache[r]].key = key

(* claim, under the mutex: share the entry, or install a new one.          *)
Claim(c) ==
    LET r == call[c].root
        key == call[c].before.content
    IN  /\ call[c].pc = "claim"
        /\ \/ /\ Shares(r, key)
              /\ call' = [call EXCEPT ![c].pc = "await",
                                      ![c].follows = cache[r]]
              /\ UNCHANGED <<cache, entry>>
           \/ /\ ~Shares(r, key)
              /\ \E out \in Evicted(r) :
                    cache' = [q \in Roots |-> IF q = r THEN c
                                         ELSE IF q \in out THEN None
                                         ELSE cache[q]]
              /\ entry' = [entry EXCEPT ![c].key = key]
              /\ call' = [call EXCEPT ![c].pc = "reset", ![c].leads = TRUE]
        /\ UNCHANGED <<world, memo, seen, errors>>

(* await: the leader's stored result, or a fresh enumeration when it       *)
(* stored none.                                                            *)
Await(c) ==
    LET e == entry[call[c].follows]
    IN  /\ call[c].pc = "await"
        /\ e.done
        /\ Step(c, IF e.ok THEN "returned" ELSE "reset", e.items)
        /\ UNCHANGED <<world, memo, cache, entry, seen, errors>>

(* The request's context ends while it waits.                              *)
Cancel(c) ==
    /\ call[c].pc = "await"
    /\ Goto(c, "failed")
    /\ UNCHANGED <<world, memo, cache, entry, seen, errors>>

(* inputs.same: the same contents with nothing written in between.         *)
Same(a, b) == a.content = b.content /\ a.stamp = b.stamp

(* The racy window is taken for nothing.                                   *)
SettledNow(c) == Max({call[c].before.stamp[i] : i \in Inputs}) < call[c].start

(* before.newest.Before(start.Add(-racyWindow))                            *)
Settled(c) ==
    Max({call[c].before.stamp[i] : i \in Inputs}) < call[c].start - Window

(* A leader that enumerated reads its inputs again if they were settled.   *)
Enumerated(c) ==
    /\ call[c].pc = "enumerated"
    /\ Goto(c, IF ~call[c].leads THEN "returned"
               ELSE IF Settled(c) THEN "after" ELSE "unstored")
    /\ UNCHANGED <<world, memo, cache, entry, seen, errors>>

(* The second reading fails: the result is returned and not stored.        *)
RereadFails(c) ==
    /\ call[c].pc = "after"
    /\ errors < MaxErrors
    /\ errors' = errors + 1
    /\ Goto(c, "unstored")
    /\ UNCHANGED <<world, memo, cache, entry, seen>>

(* The second reading decides; the deferred close publishes the entry.     *)
Compare(c) ==
    /\ call[c].pc = "compare"
    /\ IF Same(call[c].after, call[c].before)
       THEN /\ entry' = [entry EXCEPT ![c] = [@ EXCEPT !.ok = TRUE,
                                   !.items = call[c].items, !.done = TRUE]]
            /\ Goto(c, "returned")
            /\ UNCHANGED <<world, memo, cache, seen, errors>>
       ELSE /\ Goto(c, "unstored")
            /\ UNCHANGED <<world, memo, cache, entry, seen, errors>>

(* A leader that stored nothing leaves its waiters waiting.                *)
FinishUnclosed(c) ==
    /\ call[c].pc \in {"unstored", "panic"}
    /\ Goto(c, IF call[c].pc = "panic" THEN "drop" ELSE "release")
    /\ UNCHANGED <<world, memo, cache, entry, seen, errors>>

(* The deferred close of a leader that stored nothing.                     *)
Finish(c) ==
    /\ call[c].pc \in {"unstored", "panic"}
    /\ entry' = [entry EXCEPT ![c].done = TRUE]
    /\ Goto(c, IF call[c].pc = "panic" THEN "drop" ELSE "release")
    /\ UNCHANGED <<world, memo, cache, seen, errors>>

(* A release that does not ask whose entry the root holds.                 *)
ReleaseAny(c) ==
    /\ call[c].pc \in {"release", "drop"}
    /\ cache' = [cache EXCEPT ![call[c].root] = None]
    /\ Goto(c, IF call[c].pc = "drop" THEN "failed" ELSE "returned")
    /\ UNCHANGED <<world, memo, entry, seen, errors>>

(* release: the entry is dropped if it is still the root's.                *)
Release(c) ==
    /\ call[c].pc \in {"release", "drop"}
    /\ cache' = [cache EXCEPT ![call[c].root] = IF @ = c THEN None ELSE @]
    /\ Goto(c, IF call[c].pc = "drop" THEN "failed" ELSE "returned")
    /\ UNCHANGED <<world, memo, entry, seen, errors>>

----------------------------------------------------------------------------
(* The enumeration: enumerateFresh, the lint run and git's shallow memo.   *)

(* ResetShallowCache clears the memo of every checkout.                    *)
Reset(c) ==
    /\ call[c].pc = "reset"
    /\ memo' = [r \in Roots |-> None]
    /\ Goto(c, "doc")
    /\ UNCHANGED <<world, cache, entry, seen, errors>>

(* The lint run reads the documents.                                       *)
ReadDoc(c) ==
    /\ call[c].pc = "doc"
    /\ call' = [call EXCEPT ![c].pc = "load",
                            ![c].items["doc"] = content[call[c].root]["doc"]]
    /\ UNCHANGED <<world, memo, cache, entry, seen, errors>>

(* shallowRepository: a memoized answer is taken, otherwise git is asked.  *)
Load(c) ==
    LET m == memo[call[c].root]
    IN  /\ call[c].pc = "load"
        /\ call' = [call EXCEPT ![c].pc = IF m # None THEN "enumerated"
                                                       ELSE "probe",
                                ![c].items["shallow"] = m]
        /\ UNCHANGED <<world, memo, cache, entry, seen, errors>>

(* git rev-parse --is-shallow-repository reads the file.                   *)
Probe(c) ==
    /\ call[c].pc = "probe"
    /\ call' = [call EXCEPT ![c].pc = "store",
                    ![c].items["shallow"] = content[call[c].root]["shallow"]]
    /\ UNCHANGED <<world, memo, cache, entry, seen, errors>>

(* shallowCache.Store keeps the answer for the process.                    *)
StoreMemo(c) ==
    /\ call[c].pc = "store"
    /\ memo' = [memo EXCEPT ![call[c].root] = call[c].items["shallow"]]
    /\ Goto(c, "enumerated")
    /\ UNCHANGED <<world, cache, entry, seen, errors>>

(* The enumeration ends in an error or a panic.                            *)
EnumerateFails(c) ==
    /\ call[c].pc \in {"doc", "probe"}
    /\ errors < MaxErrors
    /\ errors' = errors + 1
    /\ Goto(c, IF call[c].leads THEN "panic" ELSE "failed")
    /\ UNCHANGED <<world, memo, cache, entry, seen>>

----------------------------------------------------------------------------
(* External: people and git write the inputs, and the clock runs.          *)

Write(r, i, v) ==
    /\ writes < MaxWrites
    /\ v # content[r][i]
    /\ content' = [content EXCEPT ![r][i] = v]
    /\ stamp' = [stamp EXCEPT ![r][i] = (now \div Granule) * Granule]
    /\ writes' = writes + 1
    /\ seen' = [c \in Calls |-> IF call[c].root = r /\ call[c].pc \notin Ended
                                THEN [seen[c] EXCEPT ![i] = @ \union {v}]
                                ELSE seen[c]]
    /\ UNCHANGED <<now, memo, cache, entry, call, errors>>

Tick ==
    /\ now < MaxTime
    /\ now' = now + 1
    /\ UNCHANGED <<content, stamp, writes, memo, cache, entry, call, seen, errors>>

----------------------------------------------------------------------------
CacheStep(c) ==
    \/ Read(c, "before") \/ Read(c, "after")
    \/ Claim(c) \/ Await(c)
    \/ Enumerated(c) \/ Compare(c) \/ Finish(c) \/ Release(c)

EnumerateStep(c) ==
    Reset(c) \/ ReadDoc(c) \/ Load(c) \/ Probe(c) \/ StoreMemo(c)

FaultStep(c) ==
    Uncomputable(c) \/ RereadFails(c) \/ EnumerateFails(c) \/ Cancel(c)

Next ==
    \/ \E c \in Calls : \/ \E r \in Roots, page \in BOOLEAN : Start(c, r, page)
                        \/ CacheStep(c) \/ EnumerateStep(c) \/ FaultStep(c)
    \/ \E r \in Roots, i \in Inputs, v \in Values : Write(r, i, v)
    \/ Tick

Spec == Init /\ [][Next]_vars

(* Goroutines are scheduled and an enumeration ends: a call that can move  *)
(* moves.  Nobody has to ask, write or cancel.                             *)
FairSpec ==
    Spec /\ \A c \in Calls : WF_vars(CacheStep(c) \/ EnumerateStep(c))

----------------------------------------------------------------------------
Contents == Values \union {None}
Items == [Inputs -> Contents]
Reading == [content : Items, stamp : [Inputs -> 0..MaxTime]]

(* Every variable has its type, and the cache holds no more roots than     *)
(* maxCachedRoots (cache.go putLocked).                                    *)
TypeOK ==
    /\ content \in [Roots -> [Inputs -> Values]]
    /\ stamp \in [Roots -> [Inputs -> 0..MaxTime]]
    /\ now \in 0..MaxTime
    /\ memo \in [Roots -> Contents]
    /\ cache \in [Roots -> Calls \union {None}]
    /\ Cardinality({r \in Roots : cache[r] # None}) <= MaxRoots
    /\ entry \in [Calls -> [key : Items, done : BOOLEAN, items : Items,
                            ok : BOOLEAN]]
    /\ \A c \in Calls : /\ call[c].before \in Reading
                        /\ call[c].after \in Reading
                        /\ call[c].follows \in Calls \union {None}
                        /\ call[c].items \in Items
    /\ seen \in [Calls -> [Inputs -> SUBSET Values]]
    /\ writes \in 0..MaxWrites /\ errors \in 0..MaxErrors

(* A count that is returned, from the cache or not, shows documents as     *)
(* they were at some moment of the call: no result outlives the contents   *)
(* it was computed from, even when a file changes and changes back under   *)
(* the enumeration within one timestamp granule (cache.go lint, lead).     *)
ServedCurrent ==
    \A c \in Calls : call[c].pc = "returned" /\ ~call[c].page =>
        call[c].items["doc"] \in seen[c]["doc"]

(* A stored result is never dropped for another call's failure: it leaves  *)
(* the cache only when a call claims the root under another key or a full  *)
(* cache takes a new root (cache.go release, claim, putLocked).            *)
StoredKept ==
    [][\A r \in Roots :
        cache[r] # None /\ entry[cache[r]].ok /\ cache'[r] # cache[r] =>
            \E q \in Roots : /\ cache'[q] \notin {None, cache[q]}
                             /\ q = r => entry'[cache'[q]].key # entry[cache[r]].key]_vars

(* Every call ends, whatever happens to the enumeration it waits for       *)
(* (cache.go lead's deferred close).                                       *)
CallsEnd ==
    \A c \in Calls : call[c].pc # "idle" ~> call[c].pc \in Ended

(* Refuted: what is stored for a key was computed from the shallow state   *)
(* that key names: "a cache miss clears it (gitx.ResetShallowCache) so the *)
(* enumeration reads the shallow state the key read" (cachekey.go).        *)
StoredShallowIsKeys ==
    \A c \in Calls : entry[c].ok =>
        entry[c].items["shallow"] = entry[c].key["shallow"]

(* Refuted: a page shows the shallow state of some moment of its request:  *)
(* "computed fresh on every call" (disclosureview.go Current).             *)
PageCurrent ==
    \A c \in Calls : call[c].pc = "returned" /\ call[c].page =>
        call[c].items["shallow"] \in seen[c]["shallow"]
=============================================================================
