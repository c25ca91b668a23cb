------------------------- MODULE DraftMutationProof -------------------------
(***************************************************************************)
(* Safety of DraftMutation for any number of clients, direct edits and     *)
(* faults, on both kinds of file system.  The invariant is stated of three *)
(* things: the files on disk (now), the states a power loss may bring back *)
(* (all), and the requests made so far (q); and of the place in the        *)
(* transaction that the holder of the writer lock has reached.             *)
(***************************************************************************)
EXTENDS DraftMutation, SequenceTheorems, FiniteSetTheorems, TLAPS

Staging == {"syncParents", "openJournal", "writeJournal", "syncJournal", "openSpecNew",
            "writeSpecNew", "openProvNew", "writeProvNew", "syncStages"}
Cleaning == {"rmSpecNew", "rmProvNew", "rmJournal"}
Cleaned == {"syncCleanup", "rmRoot", "syncRoot"}
Unheld == {"idle", "ready", "retained", "done"}

(* The requests made so far, with the text each was built on.               *)
Requests == {<<c, base[c]>> : c \in {x \in Clients : pc[x] # "idle"}}

ClientsIn(text) == {c \in Clients : \E k \in DOMAIN text : text[k] = c}

(* The request of c has taken effect in d.                                  *)
Has(c, d) == /\ c \in ClientsIn(d.spec)
             /\ \E k \in DOMAIN d.prov : Last(d.prov[k].result) = c

Covered(text, log) ==
  \A k \in DOMAIN text : text[k] \in Clients => Recorded(SubSeq(text, 1, k), log)

(* An entry records one of the requests, applied to the text it was built on. *)
Issued(log, q) ==
  \A k \in DOMAIN log : \E c \in Clients :
    <<c, log[k].prev>> \in q /\ log[k].result = Append(log[k].prev, c)

(* The transaction of a request of c, as Prepare builds it.                 *)
TxnOf(t, c, q) ==
  /\ t \in Txns /\ <<c, t.oldSpec>> \in q /\ t.newSpec = Append(t.oldSpec, c)
  /\ \E g \in BOOLEAN :
       t.newProv = Append(t.oldProv, [prev |-> t.oldSpec, result |-> t.newSpec, gap |-> g])
  /\ Issued(t.oldProv, q) /\ Covered(t.oldSpec, t.oldProv)

Complete(d) == d.specNew # Absent /\ d.provNew # Absent

(* With the destinations of f and the transaction root of x, recovery would *)
(* finish the transaction.                                                  *)
Forward(f, x) == Complete(x) \/ f.prov = x.journal.newProv

(* The log is one chain of growing texts, each entry's gap of direct edits. *)
Chain(log) ==
  /\ \A k \in DOMAIN log :
       LET before == IF k = 1 THEN <<>> ELSE log[k - 1].result
       IN  /\ IsPrefix(before, log[k].prev)
           /\ \A j \in Len(before) + 1 .. Len(log[k].prev) : log[k].prev[j] = Human
           /\ k > 1 => (log[k].gap <=> log[k].prev # before)
  /\ \A k \in DOMAIN log : IsPrefix(log[k].result, Tip(log))
  /\ \A j, k \in DOMAIN log : log[j].result = log[k].result => j = k

(* The spec's directory: the text is covered by its log, and behind what is *)
(* on disk.                                                                 *)
SpecDir(d, now, q) ==
  /\ Covered(d.spec, d.prov) /\ Issued(d.prov, q)
  /\ IsPrefix(d.prov, now.prov) /\ ClientsIn(d.spec) \subseteq ClientsIn(now.spec)

NoFiles(d) == d.journal = Absent /\ d.specNew = Absent /\ d.provNew = Absent

(* The transaction root: a journal is of a request.                         *)
TxDir(d, q) ==
  /\ d.journal \in Txns => \E c \in Clients : TxnOf(d.journal, c, q)
  /\ ~d.dir => NoFiles(d)

OneJournal(all) ==
  \A x, y \in all : x.journal \in Txns /\ y.journal \in Txns => x.journal = y.journal

(* A transaction that a power loss may bring back to where recovery would   *)
(* finish it is under way on disk, or its edit is in the text.              *)
Resumable(now, all) ==
  \A f, x \in all : x.journal \in Txns /\ Forward(f, x) =>
    \/ now.journal = x.journal /\ Forward(now, now)
    \/ Last(x.journal.newSpec) \in ClientsIn(now.spec)

(* What ordered metadata adds: no state mixes two moments.                  *)
Whole(d) ==
  /\ Chain(d.prov)
  /\ d.journal \in Txns => Chain(d.journal.newProv)
  /\ d.journal = Absent => IsPrefix(Tip(d.prov), d.spec)

Files(now, all, q, ord) ==
  /\ \A d \in all : SpecDir(d, now, q) /\ TxDir(d, q)
  /\ OneJournal(all) /\ Resumable(now, all)
  /\ ord = TRUE => \A d \in all : Whole(d)

(* What the holder c relies on at l, with the transaction t.                *)
Place(l, c, t, cm, lt, now, all, q, ord) ==
  /\ cm = TRUE => TxnOf(t, c, q) /\ (ord = TRUE => Chain(t.newProv))
  /\ l \in {"read", "compare", "mkRoot", "syncParents", "openJournal"} \cup Cleaned => NoFiles(now)
  /\ l \in {"syncParents", "openJournal", "writeJournal"} => now.dir
  /\ l \in {"openJournal", "writeJournal"} =>
       \A d \in all : d.journal \notin Txns /\ d.specNew = Absent /\ d.provNew = Absent
  /\ l \in {"mkRoot", "installProv"} \cup Staging => now.prov = t.oldProv
  /\ l \in {"mkRoot", "installProv", "syncProv", "installSpec"} \cup Staging =>
       /\ now.spec = t.oldSpec \/ lt = TRUE
       /\ ClientsIn(now.spec) = ClientsIn(t.oldSpec)
  /\ l \in {"syncJournal", "openSpecNew", "writeSpecNew", "openProvNew", "writeProvNew",
            "syncStages"} \cup Installing \cup Cleaning => now.journal = t /\ t \in Txns
  /\ l \in {"openProvNew", "writeProvNew", "syncStages", "installProv", "syncProv", "installSpec"} =>
       now.specNew = t.newSpec
  /\ l \in {"syncStages", "installProv"} => now.provNew = t.newProv
  /\ l \in {"syncProv", "installSpec", "syncSpec"} => now.prov = t.newProv
  /\ l = "syncSpec" => IsPrefix(t.newSpec, now.spec)
  /\ l \in Cleaning =>
       /\ \/ now.prov = t.oldProv /\ ~Complete(now)
          \/ now.prov = t.newProv /\ IsPrefix(t.newSpec, now.spec)
       /\ ord = TRUE => IsPrefix(Tip(now.prov), now.spec)
  /\ l \in {"rmProvNew", "rmJournal"} => now.specNew = Absent
  /\ l = "rmJournal" => now.provNew = Absent
  /\ l = "syncRoot" => ~now.dir
  /\ cm = TRUE /\ l \in Cleaning \cup Cleaned => \A d \in all : Has(c, d)

(* An answer stays true.                                                    *)
Answered(c, o, now, all) ==
  /\ o = "ok" => \A d \in all : Has(c, d)
  /\ o = "refused" =>
       /\ c \notin ClientsIn(now.spec)
       /\ now.journal \in Txns /\ Last(now.journal.newSpec) = c => ~Forward(now, now)

Control ==
  /\ \A c \in Clients : holder = c <=> pc[c] \notin Unheld
  /\ \A c \in Clients : outcome[c] \in {"ok", "refused"} => pc[c] = "done"
  /\ holder = NoClient => committing = FALSE
  /\ \A c \in Clients : pc[c] \in {"recover", "read"} => committing = FALSE
  /\ \A c \in Clients : pc[c] \in {"compare", "mkRoot"} \cup Staging => committing = TRUE

IInv ==
  /\ TypeOK /\ Control
  /\ Files(disk, recent, Requests, ordered)
  /\ \A c \in Clients : holder = c =>
       Place(pc[c], c, txn, committing, late, disk, recent, Requests, ordered)
  /\ \A c \in Clients : Answered(c, outcome[c], disk, recent)

USE DraftAssumption
-----------------------------------------------------------------------------
(* Sequences.                                                               *)
LEMMA PrefixIndex ==
  ASSUME NEW S, NEW s \in Seq(S), NEW t \in Seq(S)
  PROVE  IsPrefix(s, t) <=> Len(s) <= Len(t) /\ \A i \in 1 .. Len(s) : s[i] = t[i]
<1>1. ASSUME Len(s) <= Len(t)
      PROVE  SubSeq(s, 1, Len(s)) = SubSeq(t, 1, Len(s)) <=> \A i \in 1 .. Len(s) : s[i] = t[i]
  <2>1. Len(SubSeq(s, 1, Len(s))) = Len(s) /\ \A i \in 1 .. Len(s) : SubSeq(s, 1, Len(s))[i] = s[i]
    OBVIOUS
  <2>2. Len(SubSeq(t, 1, Len(s))) = Len(s) /\ \A i \in 1 .. Len(s) : SubSeq(t, 1, Len(s))[i] = t[i]
    BY <1>1
  <2>3. SubSeq(s, 1, Len(s)) \in Seq(S) /\ SubSeq(t, 1, Len(s)) \in Seq(S)
    BY <1>1
  <2>4. ASSUME \A i \in 1 .. Len(s) : s[i] = t[i]
        PROVE  SubSeq(s, 1, Len(s)) = SubSeq(t, 1, Len(s))
    BY <2>1, <2>2, <2>3, <2>4, SeqEqual
  <2>5. QED
    BY <2>1, <2>2, <2>4
<1>2. QED
  BY <1>1 DEF IsPrefix

LEMMA PrefixRefl ==
  ASSUME NEW S, NEW s \in Seq(S)
  PROVE  IsPrefix(s, s)
BY PrefixIndex

LEMMA PrefixTrans ==
  ASSUME NEW S, NEW s \in Seq(S), NEW t \in Seq(S), NEW u \in Seq(S), IsPrefix(s, t), IsPrefix(t, u)
  PROVE  IsPrefix(s, u)
<1>1. Len(s) <= Len(t) /\ Len(t) <= Len(u) /\ \A i \in 1 .. Len(s) : s[i] = t[i]
  BY PrefixIndex
<1>2. \A i \in 1 .. Len(t) : t[i] = u[i]
  BY PrefixIndex
<1>3. Len(s) \in Nat /\ Len(t) \in Nat /\ Len(u) \in Nat
  OBVIOUS
<1>4. Len(s) <= Len(u) /\ \A i \in 1 .. Len(s) : s[i] = u[i]
  BY <1>1, <1>2, <1>3
<1>5. QED
  BY <1>4, PrefixIndex

LEMMA PrefixAppend ==
  ASSUME NEW S, NEW s \in Seq(S), NEW e \in S
  PROVE  IsPrefix(s, Append(s, e))
<1>1. Append(s, e) \in Seq(S) /\ Len(Append(s, e)) = Len(s) + 1
      /\ (\A i \in 1 .. Len(s) : Append(s, e)[i] = s[i]) /\ Len(s) \in Nat
  OBVIOUS
<1>2. Len(s) <= Len(Append(s, e))
  BY <1>1
<1>3. QED
  BY <1>1, <1>2, PrefixIndex

LEMMA AppendEnds ==
  ASSUME NEW S, NEW s \in Seq(S), NEW e \in S
  PROVE  /\ Append(s, e) \in Seq(S) /\ Len(Append(s, e)) = Len(s) + 1
         /\ Last(Append(s, e)) = e /\ Front(Append(s, e)) = s /\ Append(s, e) # <<>>
         /\ DOMAIN Append(s, e) = 1 .. Len(s) + 1
         /\ Append(s, e)[Len(s) + 1] = e
         /\ \A i \in 1 .. Len(s) : Append(s, e)[i] = s[i]
<1>1. /\ Append(s, e) \in Seq(S) /\ Len(Append(s, e)) = Len(s) + 1 /\ Append(s, e)[Len(s) + 1] = e
      /\ \A i \in 1 .. Len(s) : Append(s, e)[i] = s[i]
      /\ DOMAIN Append(s, e) = 1 .. Len(s) + 1
  OBVIOUS
<1>2. Last(Append(s, e)) = e
  BY <1>1 DEF Last
<1>3. Front(Append(s, e)) = s
  <2>1. /\ SubSeq(Append(s, e), 1, Len(s)) \in Seq(S)
        /\ Len(SubSeq(Append(s, e), 1, Len(s))) = Len(s)
        /\ \A i \in 1 .. Len(s) : SubSeq(Append(s, e), 1, Len(s))[i] = s[i]
    BY <1>1
  <2>2. SubSeq(Append(s, e), 1, Len(s)) = s
    BY <2>1, SeqEqual
  <2>3. QED
    BY <1>1, <2>2 DEF Front
<1>4. Append(s, e) # <<>>
  BY <1>1
<1>5. QED
  BY <1>1, <1>2, <1>3, <1>4

(* Texts and logs.                                                          *)
LEMMA ClientsInAppend ==
  ASSUME NEW text \in Texts, NEW e \in Clients \cup {Human}
  PROVE  ClientsIn(Append(text, e)) = ClientsIn(text) \cup ({e} \cap Clients)
<1>1. DOMAIN Append(text, e) = 1 .. Len(text) + 1 /\ DOMAIN text = 1 .. Len(text)
      /\ Append(text, e)[Len(text) + 1] = e /\ \A i \in 1 .. Len(text) : Append(text, e)[i] = text[i]
  BY AppendEnds DEF Texts
<1>2. Len(text) \in Nat
  BY DEF Texts
<1>3. ASSUME NEW c \in Clients
      PROVE  (\E k \in DOMAIN Append(text, e) : Append(text, e)[k] = c)
             <=> (\E k \in DOMAIN text : text[k] = c) \/ c = e
  <2>1. ASSUME NEW k \in DOMAIN Append(text, e), Append(text, e)[k] = c
        PROVE  (\E i \in DOMAIN text : text[i] = c) \/ c = e
    <3>1. k \in 1 .. Len(text) \/ k = Len(text) + 1
      BY <1>1, <1>2
    <3>2. QED
      BY <1>1, <2>1, <3>1
  <2>2. ASSUME NEW k \in DOMAIN text, text[k] = c
        PROVE  \E i \in DOMAIN Append(text, e) : Append(text, e)[i] = c
    <3>1. k \in DOMAIN Append(text, e) /\ Append(text, e)[k] = c
      BY <1>1, <1>2, <2>2
    <3>2. QED
      BY <3>1
  <2>3. ASSUME c = e
        PROVE  \E i \in DOMAIN Append(text, e) : Append(text, e)[i] = c
    <3>1. Len(text) + 1 \in DOMAIN Append(text, e)
      BY <1>1, <1>2
    <3>2. QED
      BY <1>1, <2>3, <3>1
  <2>4. QED
    BY <2>1, <2>2, <2>3
<1>4. QED
  BY <1>3 DEF ClientsIn

LEMMA PrefixClients ==
  ASSUME NEW s \in Texts, NEW t \in Texts, IsPrefix(s, t)
  PROVE  ClientsIn(s) \subseteq ClientsIn(t)
<1>1. Len(s) <= Len(t) /\ \A i \in 1 .. Len(s) : s[i] = t[i]
  BY PrefixIndex DEF Texts
<1>2. DOMAIN s = 1 .. Len(s) /\ DOMAIN t = 1 .. Len(t) /\ Len(s) \in Nat /\ Len(t) \in Nat
  BY DEF Texts
<1>3. \A k \in DOMAIN s : k \in DOMAIN t /\ t[k] = s[k]
  BY <1>1, <1>2
<1>4. QED
  BY <1>3 DEF ClientsIn

LEMMA RecordedGrow ==
  ASSUME NEW log \in Seq(Entries), NEW more \in Seq(Entries), IsPrefix(log, more), NEW text,
         Recorded(text, log)
  PROVE  Recorded(text, more)
<1>1. Len(log) <= Len(more) /\ \A i \in 1 .. Len(log) : log[i] = more[i]
  BY PrefixIndex
<1>2. DOMAIN log = 1 .. Len(log) /\ DOMAIN more = 1 .. Len(more) /\ Len(log) \in Nat /\ Len(more) \in Nat
  OBVIOUS
<1>3. PICK k \in DOMAIN log : log[k].result = text
  BY DEF Recorded
<1>4. k \in DOMAIN more /\ more[k] = log[k]
  BY <1>1, <1>2
<1>5. QED
  BY <1>3, <1>4 DEF Recorded

LEMMA CoveredGrow ==
  ASSUME NEW log \in Seq(Entries), NEW more \in Seq(Entries), IsPrefix(log, more), NEW text,
         Covered(text, log)
  PROVE  Covered(text, more)
BY RecordedGrow DEF Covered

LEMMA CoveredAppend ==
  ASSUME NEW text \in Texts, NEW log \in Seq(Entries), Covered(text, log), NEW e \in Clients \cup {Human},
         e \in Clients => Recorded(Append(text, e), log)
  PROVE  Covered(Append(text, e), log)
<1> DEFINE new == Append(text, e)
<1>1. /\ DOMAIN new = 1 .. Len(text) + 1 /\ DOMAIN text = 1 .. Len(text) /\ Len(text) \in Nat
      /\ new[Len(text) + 1] = e /\ \A i \in 1 .. Len(text) : new[i] = text[i]
      /\ new \in Seq(Clients \cup {Human}) /\ Len(new) = Len(text) + 1
  BY AppendEnds DEF Texts
<1>2. ASSUME NEW k \in DOMAIN new, new[k] \in Clients
      PROVE  Recorded(SubSeq(new, 1, k), log)
  <2>1. CASE k \in 1 .. Len(text)
    <3>1. SubSeq(new, 1, k) = SubSeq(text, 1, k)
      <4>1. /\ SubSeq(new, 1, k) \in Seq(Clients \cup {Human}) /\ Len(SubSeq(new, 1, k)) = k
            /\ \A i \in 1 .. k : SubSeq(new, 1, k)[i] = new[i]
        BY <1>1, <2>1
      <4>2. /\ SubSeq(text, 1, k) \in Seq(Clients \cup {Human}) /\ Len(SubSeq(text, 1, k)) = k
            /\ \A i \in 1 .. k : SubSeq(text, 1, k)[i] = text[i]
        BY <1>1, <2>1 DEF Texts
      <4>3. \A i \in 1 .. k : new[i] = text[i]
        BY <1>1, <2>1
      <4>4. QED
        BY <4>1, <4>2, <4>3, SeqEqual
    <3>2. k \in DOMAIN text /\ text[k] \in Clients
      BY <1>1, <1>2, <2>1
    <3>3. QED
      BY <3>1, <3>2 DEF Covered
  <2>2. CASE k = Len(text) + 1
    <3>1. SubSeq(new, 1, k) = new
      BY <1>1, <2>2, SubSeqFull
    <3>2. e \in Clients
      BY <1>1, <1>2, <2>2
    <3>3. QED
      BY <3>1, <3>2
  <2>3. QED
    BY <1>1, <2>1, <2>2
<1>3. QED
  BY <1>2 DEF Covered

LEMMA IssuedAppend ==
  ASSUME NEW log \in Seq(Entries), NEW e \in Entries, NEW q, NEW c \in Clients, Issued(log, q),
         <<c, e.prev>> \in q, e.result = Append(e.prev, c)
  PROVE  Issued(Append(log, e), q)
<1>1. /\ DOMAIN Append(log, e) = 1 .. Len(log) + 1 /\ DOMAIN log = 1 .. Len(log) /\ Len(log) \in Nat
      /\ Append(log, e)[Len(log) + 1] = e /\ \A i \in 1 .. Len(log) : Append(log, e)[i] = log[i]
  BY AppendEnds
<1>2. ASSUME NEW k \in DOMAIN Append(log, e)
      PROVE  \E x \in Clients : /\ <<x, Append(log, e)[k].prev>> \in q
                                /\ Append(log, e)[k].result = Append(Append(log, e)[k].prev, x)
  <2>1. CASE k \in 1 .. Len(log)
    BY <1>1, <2>1 DEF Issued
  <2>2. CASE k = Len(log) + 1
    BY <1>1, <2>2
  <2>3. k \in 1 .. Len(log) \/ k = Len(log) + 1
    BY <1>1
  <2>4. QED
    BY <2>1, <2>2, <2>3
<1>3. QED
  BY <1>2 DEF Issued

LEMMA IssuedGrow ==
  ASSUME NEW log, NEW q, NEW r, q \subseteq r, Issued(log, q)
  PROVE  Issued(log, r)
BY DEF Issued

LEMMA TxnGrow ==
  ASSUME NEW t, NEW c, NEW q, NEW r, q \subseteq r, TxnOf(t, c, q)
  PROVE  TxnOf(t, c, r)
BY IssuedGrow DEF TxnOf

(* What recovery and installation need to know of a transaction.            *)
LEMMA TxnFacts ==
  ASSUME NEW t, NEW c \in Clients, NEW q, TxnOf(t, c, q)
  PROVE  /\ t.oldSpec \in Texts /\ t.newSpec \in Texts
         /\ t.oldProv \in Seq(Entries) /\ t.newProv \in Seq(Entries)
         /\ IsPrefix(t.oldProv, t.newProv) /\ Len(t.newProv) = Len(t.oldProv) + 1
         /\ Issued(t.newProv, q) /\ Covered(t.newSpec, t.newProv)
         /\ Tip(t.newProv) = t.newSpec /\ Last(t.newSpec) = c
         /\ ClientsIn(t.newSpec) = ClientsIn(t.oldSpec) \cup {c}
         /\ \E k \in DOMAIN t.newProv : Last(t.newProv[k].result) = c
         /\ t.oldSpec # t.newSpec /\ t.oldProv # t.newProv
<1>1. t.oldSpec \in Texts /\ t.newSpec \in Texts /\ t.oldProv \in Seq(Entries) /\ t.newProv \in Seq(Entries)
  BY DEF TxnOf, Txns
<1>2. PICK g \in BOOLEAN :
        t.newProv = Append(t.oldProv, [prev |-> t.oldSpec, result |-> t.newSpec, gap |-> g])
  BY DEF TxnOf
<1> DEFINE e == [prev |-> t.oldSpec, result |-> t.newSpec, gap |-> g]
<1>3. e \in Entries /\ e.prev = t.oldSpec /\ e.result = t.newSpec
  BY <1>1 DEF Entries
<1>4. t.newProv = Append(t.oldProv, e)
  BY <1>2
<1> HIDE DEF e
<1>5. /\ Len(t.newProv) = Len(t.oldProv) + 1 /\ Last(t.newProv) = e /\ t.newProv # <<>>
      /\ t.newProv[Len(t.oldProv) + 1] = e /\ DOMAIN t.newProv = 1 .. Len(t.oldProv) + 1
  BY <1>1, <1>3, <1>4, AppendEnds
<1>6. t.newSpec = Append(t.oldSpec, c) /\ t.oldSpec \in Seq(Clients \cup {Human})
  BY <1>1 DEF TxnOf, Texts
<1>7. Last(t.newSpec) = c /\ Len(t.newSpec) = Len(t.oldSpec) + 1
  BY <1>6, AppendEnds
<1>8. ClientsIn(t.newSpec) = ClientsIn(t.oldSpec) \cup {c}
  <2>1. ClientsIn(t.newSpec) = ClientsIn(t.oldSpec) \cup ({c} \cap Clients)
    BY <1>1, <1>6, ClientsInAppend
  <2>2. QED
    BY <2>1
<1>9. IsPrefix(t.oldProv, t.newProv)
  BY <1>1, <1>3, <1>4, PrefixAppend
<1>10. Issued(t.newProv, q)
  <2>1. Issued(t.oldProv, q) /\ <<c, e.prev>> \in q /\ e.result = Append(e.prev, c)
    BY <1>3, <1>6 DEF TxnOf
  <2>2. QED
    BY <1>1, <1>3, <1>4, <2>1, IssuedAppend
<1>11. Len(t.oldProv) + 1 \in DOMAIN t.newProv
  BY <1>1, <1>5
<1>12. Covered(t.newSpec, t.newProv)
  <2>1. Covered(t.oldSpec, t.newProv)
    <3>1. Covered(t.oldSpec, t.oldProv)
      BY DEF TxnOf
    <3>2. QED
      BY <1>1, <1>9, <3>1, CoveredGrow
  <2>2. Recorded(Append(t.oldSpec, c), t.newProv)
    BY <1>3, <1>5, <1>6, <1>11 DEF Recorded
  <2>3. QED
    BY <1>1, <1>6, <2>1, <2>2, CoveredAppend
<1>13. Tip(t.newProv) = t.newSpec
  BY <1>3, <1>5 DEF Tip
<1>14. \E k \in DOMAIN t.newProv : Last(t.newProv[k].result) = c
  BY <1>3, <1>5, <1>7, <1>11
<1>15. t.oldSpec # t.newSpec /\ t.oldProv # t.newProv
  <2>1. Len(t.oldSpec) \in Nat /\ Len(t.oldProv) \in Nat
    BY <1>1, <1>6
  <2>2. QED
    BY <1>5, <1>7, <2>1
<1>16. QED
  BY <1>1, <1>5, <1>7, <1>8, <1>9, <1>10, <1>12, <1>13, <1>14, <1>15

LEMMA TipText ==
  ASSUME NEW log \in Seq(Entries)
  PROVE  Tip(log) \in Texts
<1>1. CASE log = <<>>
  BY <1>1 DEF Tip, Texts
<1>2. CASE log # <<>>
  <2>1. Len(log) \in DOMAIN log
    BY <1>2
  <2>2. log[Len(log)] \in Entries
    BY <2>1
  <2>3. QED
    BY <1>2, <2>2 DEF Tip, Last, Entries
<1>3. QED
  BY <1>1, <1>2

(* A chain that ends with a transaction's entry continues the old tip.      *)
LEMMA ChainContinues ==
  ASSUME NEW t, NEW c \in Clients, NEW q, TxnOf(t, c, q), Chain(t.newProv)
  PROVE  IsPrefix(Tip(t.oldProv), t.oldSpec)
<1>1. t.oldSpec \in Texts /\ t.newSpec \in Texts /\ t.oldProv \in Seq(Entries)
  BY TxnFacts
<1>2. PICK g \in BOOLEAN :
        t.newProv = Append(t.oldProv, [prev |-> t.oldSpec, result |-> t.newSpec, gap |-> g])
  BY DEF TxnOf
<1> DEFINE e == [prev |-> t.oldSpec, result |-> t.newSpec, gap |-> g]
           n == Len(t.oldProv) + 1
<1>3. e \in Entries /\ e.prev = t.oldSpec
  BY <1>1 DEF Entries
<1>4. t.newProv = Append(t.oldProv, e)
  BY <1>2
<1> HIDE DEF e
<1>5. /\ t.newProv[n] = e /\ DOMAIN t.newProv = 1 .. n
      /\ \A i \in 1 .. Len(t.oldProv) : t.newProv[i] = t.oldProv[i]
  BY <1>1, <1>3, <1>4, AppendEnds
<1>6. Len(t.oldProv) \in Nat /\ n \in DOMAIN t.newProv
  BY <1>1, <1>5
<1>7. IsPrefix(IF n = 1 THEN <<>> ELSE t.newProv[n - 1].result, t.oldSpec)
  BY <1>3, <1>5, <1>6 DEF Chain
<1>8. CASE t.oldProv = <<>>
  BY <1>7, <1>8 DEF Tip
<1>9. CASE t.oldProv # <<>>
  <2>1. n # 1 /\ n - 1 = Len(t.oldProv) /\ Len(t.oldProv) \in 1 .. Len(t.oldProv)
    BY <1>1, <1>9
  <2>2. t.newProv[n - 1] = t.oldProv[Len(t.oldProv)]
    BY <1>5, <2>1
  <2>3. QED
    BY <1>7, <1>9, <2>1, <2>2 DEF Tip, Last
<1>10. QED
  BY <1>8, <1>9

(* The entry of a request made on a text that the log accounts for.         *)
LEMMA ChainAppend ==
  ASSUME NEW log \in Seq(Entries), NEW text \in Texts, NEW c \in Clients, NEW e \in Entries,
         Chain(log), Covered(text, log), IsPrefix(Tip(log), text),
         e.prev = text, e.result = Append(text, c),
         e.gap <=> log # <<>> /\ Tip(log) # text
  PROVE  Chain(Append(log, e))
<1> DEFINE new == Append(log, e)
           n == Len(log) + 1
<1>1. /\ new \in Seq(Entries) /\ DOMAIN new = 1 .. n /\ DOMAIN log = 1 .. Len(log) /\ Len(log) \in Nat
      /\ new[n] = e /\ (\A i \in 1 .. Len(log) : new[i] = log[i]) /\ Tip(new) = Append(text, c)
  BY AppendEnds DEF Tip
<1>2. Tip(log) \in Texts /\ Append(text, c) \in Texts /\ IsPrefix(text, Append(text, c))
      /\ Len(text) \in Nat /\ Len(Append(text, c)) = Len(text) + 1
  BY TipText, PrefixAppend, AppendEnds DEF Texts
<1>3. Len(Tip(log)) \in Nat /\ Len(Tip(log)) <= Len(text)
  BY <1>2, PrefixIndex DEF Texts
<1> HIDE DEF new
<1>4. ASSUME NEW k \in DOMAIN new, k # n
      PROVE  k \in DOMAIN log /\ new[k] = log[k]
  BY <1>1, <1>4
<1>5. ASSUME NEW k \in DOMAIN log
      PROVE  /\ log[k].result \in Texts /\ IsPrefix(log[k].result, text)
             /\ Len(log[k].result) \in Nat /\ Len(log[k].result) <= Len(Tip(log))
  <2>1. log[k].result \in Texts /\ IsPrefix(log[k].result, Tip(log))
    <3>1. log[k] \in Entries
      BY <1>1
    <3>2. log[k].result \in Texts
      BY <3>1 DEF Entries
    <3>3. IsPrefix(log[k].result, Tip(log))
      BY DEF Chain
    <3>4. QED
      BY <3>2, <3>3
  <2>2. IsPrefix(log[k].result, text)
    BY <1>2, <2>1, PrefixTrans DEF Texts
  <2>3. Len(log[k].result) <= Len(Tip(log)) /\ Len(log[k].result) \in Nat
    BY <1>2, <2>1, PrefixIndex DEF Texts
  <2>4. QED
    BY <2>1, <2>2, <2>3
<1>6. (IF n = 1 THEN <<>> ELSE new[n - 1].result) = Tip(log)
  <2>1. CASE log = <<>>
    <3>1. n = 1
      BY <2>1
    <3>2. QED
      BY <2>1, <3>1 DEF Tip
  <2>2. CASE log # <<>>
    <3>1. n # 1 /\ n - 1 = Len(log) /\ Len(log) \in 1 .. Len(log)
      BY <1>1, <2>2
    <3>2. new[n - 1] = log[Len(log)]
      BY <1>1, <3>1
    <3>3. QED
      BY <2>2, <3>1, <3>2 DEF Tip, Last
  <2>3. QED
    BY <2>1, <2>2
<1>7. ASSUME NEW j \in Len(Tip(log)) + 1 .. Len(text)
      PROVE  text[j] = Human
  <2>1. j \in 1 .. Len(text)
    BY <1>2, <1>3
  <2>2. SUFFICES ASSUME text[j] \in Clients PROVE FALSE
    BY <2>1 DEF Texts
  <2>3. j \in DOMAIN text /\ Len(SubSeq(text, 1, j)) = j
    BY <2>1 DEF Texts
  <2>4. PICK i \in DOMAIN log : log[i].result = SubSeq(text, 1, j)
    BY <2>2, <2>3 DEF Covered, Recorded
  <2>5. j <= Len(Tip(log))
    BY <1>5, <2>3, <2>4
  <2>6. QED
    BY <1>2, <1>3, <2>5
<1>8. ASSUME NEW k \in DOMAIN new
      PROVE  LET before == IF k = 1 THEN <<>> ELSE new[k - 1].result
             IN  /\ IsPrefix(before, new[k].prev)
                 /\ \A j \in Len(before) + 1 .. Len(new[k].prev) : new[k].prev[j] = Human
                 /\ k > 1 => (new[k].gap <=> new[k].prev # before)
  <2>1. CASE k = n
    <3>1. k > 1 => log # <<>>
      BY <1>1, <2>1
    <3>2. k > 1 => (e.gap <=> e.prev # Tip(log))
      BY <3>1
    <3>3. QED
      BY <1>1, <1>6, <1>7, <2>1, <3>2
  <2>2. CASE k # n
    <3>1. k \in DOMAIN log /\ new[k] = log[k] /\ k \in 1 .. Len(log)
      BY <1>1, <1>4, <2>2
    <3>2. k # 1 => new[k - 1] = log[k - 1]
      BY <1>1, <3>1
    <3>3. QED
      BY <3>1, <3>2 DEF Chain
  <2>3. QED
    BY <2>1, <2>2
<1>9. ASSUME NEW k \in DOMAIN new
      PROVE  IsPrefix(new[k].result, Tip(new))
  <2>1. CASE k = n
    BY <1>1, <1>2, <2>1, PrefixRefl DEF Texts
  <2>2. CASE k # n
    <3>1. k \in DOMAIN log /\ new[k] = log[k]
      BY <1>4, <2>2
    <3>2. log[k].result \in Texts /\ IsPrefix(log[k].result, text)
      BY <1>5, <3>1
    <3>3. IsPrefix(log[k].result, Append(text, c))
      BY <1>2, <3>2, PrefixTrans DEF Texts
    <3>4. QED
      BY <1>1, <3>1, <3>3
  <2>3. QED
    BY <2>1, <2>2
<1>10. ASSUME NEW k \in DOMAIN log
       PROVE  log[k].result # Append(text, c)
  BY <1>2, <1>3, <1>5
<1>11. ASSUME NEW j \in DOMAIN new, NEW k \in DOMAIN new, new[j].result = new[k].result
       PROVE  j = k
  <2>1. CASE j # n /\ k # n
    <3>1. j \in DOMAIN log /\ k \in DOMAIN log /\ new[j] = log[j] /\ new[k] = log[k]
      BY <1>4, <2>1
    <3>2. QED
      BY <1>11, <3>1 DEF Chain
  <2>2. CASE j = n /\ k # n
    BY <1>1, <1>4, <1>10, <1>11, <2>2
  <2>3. CASE j # n /\ k = n
    BY <1>1, <1>4, <1>10, <1>11, <2>3
  <2>4. QED
    BY <2>1, <2>2, <2>3
<1>12. Chain(new)
  BY <1>8, <1>9, <1>11 DEF Chain
<1>13. QED
  BY <1>12 DEF new

-----------------------------------------------------------------------------
(* What a change or an fsync leaves for a power loss: each directory as in  *)
(* one of the states of all, both as in the same one if ordered.            *)
Mixed(some, all, ord) ==
  /\ some \subseteq Disks
  /\ \A e \in some : \E f, x \in all :
       /\ e.spec = f.spec /\ e.prov = f.prov
       /\ e.dir = x.dir /\ e.journal = x.journal /\ e.specNew = x.specNew /\ e.provNew = x.provNew
       /\ ord = TRUE => e = f /\ e = x

LEMMA MergeFields ==
  ASSUME NEW f \in Disks, NEW x \in Disks
  PROVE  /\ Merge(f, x) \in Disks /\ Merge(f, x).spec = f.spec /\ Merge(f, x).prov = f.prov
         /\ Merge(f, x).dir = x.dir /\ Merge(f, x).journal = x.journal
         /\ Merge(f, x).specNew = x.specNew /\ Merge(f, x).provNew = x.provNew
<1> DEFINE y == [x EXCEPT !.spec = f.spec]
           z == [y EXCEPT !.prov = f.prov]
<1>1. /\ y \in Disks /\ y.spec = f.spec /\ y.dir = x.dir /\ y.journal = x.journal
      /\ y.specNew = x.specNew /\ y.provNew = x.provNew
  BY DEF Disks
<1> HIDE DEF y
<1>2. /\ z \in Disks /\ z.spec = f.spec /\ z.prov = f.prov /\ z.dir = x.dir /\ z.journal = x.journal
      /\ z.specNew = x.specNew /\ z.provNew = x.provNew
  BY <1>1 DEF Disks
<1>3. Merge(f, x) = z
  BY DEF Merge, y, z, Disks
<1>4. QED
  BY <1>2, <1>3

LEMMA MergeSame ==
  ASSUME NEW x \in Disks
  PROVE  Merge(x, x) = x
BY DEF Merge, Disks

LEMMA PutMixed ==
  ASSUME NEW d \in Disks, recent \in SUBSET Disks, disk \in recent, ordered \in BOOLEAN, Put(d)
  PROVE  disk' = d /\ d \in recent' /\ Mixed(recent', recent \cup {d}, ordered)
<1>1. disk' = d /\ recent' = IF ordered THEN recent \cup {d}
                             ELSE {Merge(f, x) : f \in recent \cup {d}, x \in recent \cup {d}}
  BY DEF Put
<1>2. CASE ordered = TRUE
  BY <1>1, <1>2 DEF Mixed
<1>3. CASE ordered = FALSE
  <2>1. recent' = {Merge(f, x) : f \in recent \cup {d}, x \in recent \cup {d}}
    BY <1>1, <1>3
  <2>2. ASSUME NEW e \in recent'
        PROVE  /\ e \in Disks
               /\ \E f, x \in recent \cup {d} :
                    /\ e.spec = f.spec /\ e.prov = f.prov
                    /\ e.dir = x.dir /\ e.journal = x.journal /\ e.specNew = x.specNew
                    /\ e.provNew = x.provNew
    <3>1. PICK f \in recent \cup {d}, x \in recent \cup {d} : e = Merge(f, x)
      BY <2>1
    <3>2. f \in Disks /\ x \in Disks
      OBVIOUS
    <3>3. QED
      BY <3>1, <3>2, MergeFields
  <2>3. d = Merge(d, d)
    BY MergeSame
  <2>4. d \in recent'
    BY <2>1, <2>3
  <2>5. QED
    BY <1>1, <1>3, <2>2, <2>4 DEF Mixed
<1>4. QED
  BY <1>2, <1>3

LEMMA FsyncMixed ==
  ASSUME recent \in SUBSET Disks, disk \in recent, ordered \in BOOLEAN, FsyncSpecDir \/ FsyncTxDir
  PROVE  /\ disk' = disk /\ disk \in recent' /\ Mixed(recent', recent, ordered)
         /\ FsyncTxDir => \A e \in recent' : /\ e.dir = disk.dir /\ e.journal = disk.journal
                                             /\ e.specNew = disk.specNew /\ e.provNew = disk.provNew
         /\ FsyncSpecDir => \A e \in recent' : e.spec = disk.spec /\ e.prov = disk.prov
<1>1. disk' = disk /\ disk \in Disks
  BY DEF FsyncSpecDir, FsyncTxDir
<1>2. CASE ordered = TRUE
  <2>1. recent' = {disk}
    BY <1>2 DEF FsyncSpecDir, FsyncTxDir
  <2>2. QED
    BY <1>1, <1>2, <2>1 DEF Mixed
<1>3. CASE ordered = FALSE /\ FsyncSpecDir
  <2>1. recent' = {Merge(disk, x) : x \in recent}
    BY <1>3 DEF FsyncSpecDir
  <2>2. ASSUME NEW e \in recent'
        PROVE  /\ e \in Disks /\ e.spec = disk.spec /\ e.prov = disk.prov
               /\ \E x \in recent : /\ e.dir = x.dir /\ e.journal = x.journal
                                    /\ e.specNew = x.specNew /\ e.provNew = x.provNew
    <3>1. PICK x \in recent : e = Merge(disk, x)
      BY <2>1
    <3>2. QED
      BY <1>1, <3>1, MergeFields
  <2>3. disk \in recent'
    BY <1>1, <2>1, MergeSame
  <2>4. FsyncTxDir => recent' = {Merge(f, disk) : f \in recent}
    BY <1>3 DEF FsyncTxDir
  <2>5. FsyncTxDir => \A e \in recent' : /\ e.dir = disk.dir /\ e.journal = disk.journal
                                         /\ e.specNew = disk.specNew /\ e.provNew = disk.provNew
    BY <1>1, <2>4, MergeFields
  <2>6. QED
    BY <1>1, <1>3, <2>2, <2>3, <2>5 DEF Mixed
<1>4. CASE ordered = FALSE /\ FsyncTxDir
  <2>1. recent' = {Merge(f, disk) : f \in recent}
    BY <1>4 DEF FsyncTxDir
  <2>2. ASSUME NEW e \in recent'
        PROVE  /\ e \in Disks /\ e.dir = disk.dir /\ e.journal = disk.journal
               /\ e.specNew = disk.specNew /\ e.provNew = disk.provNew
               /\ \E f \in recent : e.spec = f.spec /\ e.prov = f.prov
    <3>1. PICK f \in recent : e = Merge(f, disk)
      BY <2>1
    <3>2. QED
      BY <1>1, <3>1, MergeFields
  <2>3. disk \in recent'
    BY <1>1, <2>1, MergeSame
  <2>4. FsyncSpecDir => recent' = {Merge(disk, x) : x \in recent}
    BY <1>4 DEF FsyncSpecDir
  <2>5. FsyncSpecDir => \A e \in recent' : e.spec = disk.spec /\ e.prov = disk.prov
    BY <1>1, <2>4, MergeFields
  <2>6. QED
    BY <1>1, <1>4, <2>2, <2>3, <2>5 DEF Mixed
<1>5. QED
  BY <1>2, <1>3, <1>4

(* The next state d of the files keeps what Files says of them.             *)
Follows(d, now, all, q, ord) ==
  /\ Covered(d.spec, d.prov) /\ Issued(d.prov, q) /\ IsPrefix(now.prov, d.prov)
  /\ ClientsIn(now.spec) \subseteq ClientsIn(d.spec)
  /\ TxDir(d, q) /\ OneJournal(all \cup {d}) /\ Resumable(d, all \cup {d})
  /\ ord = TRUE => Whole(d)

LEMMA FilesFollow ==
  ASSUME NEW now \in Disks, NEW all \in SUBSET Disks, now \in all, NEW q, NEW ord, NEW d \in Disks,
         NEW some, Files(now, all, q, ord), Follows(d, now, all, q, ord),
         Mixed(some, all \cup {d}, ord)
  PROVE  Files(d, some, q, ord)
<1>1. \A x \in all \cup {d} : SpecDir(x, d, q) /\ TxDir(x, q)
  <2>1. d.prov \in Seq(Entries) /\ now.prov \in Seq(Entries)
    BY DEF Disks
  <2>2. SpecDir(d, d, q)
    BY <2>1, PrefixRefl DEF Follows, SpecDir
  <2>3. ASSUME NEW x \in all PROVE SpecDir(x, d, q)
    <3>1. x.prov \in Seq(Entries) /\ SpecDir(x, now, q)
      BY DEF Disks, Files
    <3>2. IsPrefix(x.prov, d.prov)
      BY <2>1, <3>1, PrefixTrans DEF SpecDir, Follows
    <3>3. QED
      BY <3>1, <3>2 DEF SpecDir, Follows
  <2>4. QED
    BY <2>2, <2>3 DEF Files, Follows
<1>2. ASSUME NEW e \in some
      PROVE  /\ SpecDir(e, d, q) /\ TxDir(e, q)
             /\ ord = TRUE => Whole(e)
  <2>1. PICK f \in all \cup {d}, x \in all \cup {d} :
             /\ e.spec = f.spec /\ e.prov = f.prov
             /\ e.dir = x.dir /\ e.journal = x.journal /\ e.specNew = x.specNew /\ e.provNew = x.provNew
             /\ ord = TRUE => e = f /\ e = x
    BY DEF Mixed
  <2>2. SpecDir(f, d, q) /\ TxDir(x, q)
    BY <1>1
  <2>3. SpecDir(e, d, q)
    BY <2>1, <2>2 DEF SpecDir
  <2>4. TxDir(e, q)
    BY <2>1, <2>2 DEF TxDir, NoFiles
  <2>5. ord = TRUE => Whole(e)
    BY <2>1 DEF Files, Follows
  <2>6. QED
    BY <2>3, <2>4, <2>5
<1>3. OneJournal(some)
  <2>1. OneJournal(all \cup {d}) /\ \A e \in some : \E x \in all \cup {d} : e.journal = x.journal
    BY DEF Follows, Mixed
  <2>2. QED
    BY <2>1 DEF OneJournal
<1>4. Resumable(d, some)
  <2>1. SUFFICES ASSUME NEW u \in some, NEW v \in some, v.journal \in Txns, Forward(u, v)
                 PROVE  \/ d.journal = v.journal /\ Forward(d, d)
                        \/ Last(v.journal.newSpec) \in ClientsIn(d.spec)
    BY DEF Resumable
  <2>2. PICK f \in all \cup {d} : u.prov = f.prov
    BY DEF Mixed
  <2>3. PICK x \in all \cup {d} : v.journal = x.journal /\ v.specNew = x.specNew /\ v.provNew = x.provNew
    BY DEF Mixed
  <2>4. x.journal \in Txns /\ Forward(f, x)
    BY <2>1, <2>2, <2>3 DEF Forward, Complete
  <2>5. QED
    BY <2>3, <2>4 DEF Follows, Resumable
<1>5. QED
  BY <1>2, <1>3, <1>4 DEF Files

LEMMA FilesGrow ==
  ASSUME NEW now, NEW all, NEW q, NEW r, NEW ord, q \subseteq r, Files(now, all, q, ord)
  PROVE  Files(now, all, r, ord)
<1>1. ASSUME NEW d \in all PROVE SpecDir(d, now, r) /\ TxDir(d, r)
  <2>1. SpecDir(d, now, q) /\ TxDir(d, q)
    BY DEF Files
  <2>2. SpecDir(d, now, r)
    BY <2>1, IssuedGrow DEF SpecDir
  <2>3. TxDir(d, r)
    BY <2>1, TxnGrow DEF TxDir
  <2>4. QED
    BY <2>2, <2>3
<1>2. QED
  BY <1>1 DEF Files

(* The files as they are follow themselves.                                 *)
LEMMA FollowsSame ==
  ASSUME NEW now \in Disks, NEW all, now \in all, NEW q, NEW ord, Files(now, all, q, ord)
  PROVE  Follows(now, now, all, q, ord)
<1>1. all \cup {now} = all
  OBVIOUS
<1>2. QED
  BY <1>1 DEF Files, Follows, SpecDir

LEMMA HasGrow ==
  ASSUME NEW d \in Disks, NEW e \in Disks, NEW c \in Clients, Has(c, d), IsPrefix(d.prov, e.prov),
         ClientsIn(d.spec) \subseteq ClientsIn(e.spec)
  PROVE  Has(c, e)
<1>1. d.prov \in Seq(Entries) /\ e.prov \in Seq(Entries)
  BY DEF Disks
<1>2. Len(d.prov) <= Len(e.prov) /\ \A i \in 1 .. Len(d.prov) : d.prov[i] = e.prov[i]
  BY <1>1, PrefixIndex
<1>3. \A k \in DOMAIN d.prov : k \in DOMAIN e.prov /\ e.prov[k] = d.prov[k]
  BY <1>1, <1>2
<1>4. QED
  BY <1>3 DEF Has

(* Answers stay true while the files go on to d.                            *)
LEMMA AnsweredFollow ==
  ASSUME NEW now \in Disks, NEW all \in SUBSET Disks, now \in all, NEW q, NEW ord, NEW d \in Disks,
         NEW some, Follows(d, now, all, q, ord), Mixed(some, all \cup {d}, ord),
         NEW c \in Clients, NEW o, Answered(c, o, now, all),
         o = "refused" => /\ c \notin ClientsIn(d.spec)
                          /\ d.journal \in Txns /\ Last(d.journal.newSpec) = c => ~Forward(d, d)
  PROVE  Answered(c, o, d, some)
<1>1. ASSUME o = "ok", NEW e \in some PROVE Has(c, e)
  <2>1. PICK f \in all \cup {d} : e.spec = f.spec /\ e.prov = f.prov
    BY DEF Mixed
  <2>2. \A x \in all : Has(c, x)
    BY <1>1 DEF Answered
  <2>3. Has(c, d)
    BY <2>2, HasGrow DEF Follows
  <2>4. Has(c, f)
    BY <2>2, <2>3
  <2>5. QED
    BY <2>1, <2>4 DEF Has
<1>2. QED
  BY <1>1 DEF Answered

LEMMA PlaceGrow ==
  ASSUME NEW l, NEW c, NEW t, NEW cm, NEW lt, NEW now, NEW all, NEW q, NEW r, NEW ord, q \subseteq r,
         Place(l, c, t, cm, lt, now, all, q, ord)
  PROVE  Place(l, c, t, cm, lt, now, all, r, ord)
<1>1. cm = TRUE => TxnOf(t, c, r) /\ (ord = TRUE => Chain(t.newProv))
  BY TxnGrow DEF Place
<1>2. QED
  BY <1>1 DEF Place

(* A step of the holder within its transaction.                             *)
LEMMA Advances ==
  ASSUME IInv, NEW c \in Clients, NEW to \in Locations \ Unheld, pc[c] \notin Unheld, Goto(c, to),
         UNCHANGED <<holder, base, outcome, edits, faults, ordered>>,
         txn' \in Txns, committing' \in BOOLEAN, late' \in BOOLEAN,
         to \in {"recover", "read"} => committing' = FALSE,
         to \in {"compare", "mkRoot"} \cup Staging => committing' = TRUE,
         NEW d \in Disks, disk' = d, d \in recent', Mixed(recent', recent \cup {d}, ordered),
         Follows(d, disk, recent, Requests, ordered),
         Place(to, c, txn', committing', late', d, recent', Requests, ordered),
         \A x \in Clients : outcome[x] = "refused" =>
           /\ x \notin ClientsIn(d.spec)
           /\ d.journal \in Txns /\ Last(d.journal.newSpec) = x => ~Forward(d, d)
  PROVE  IInv'
<1>1. /\ pc \in [Clients -> Locations] /\ base \in [Clients -> Texts] /\ disk \in Disks
      /\ recent \in SUBSET Disks /\ disk \in recent
  BY DEF IInv, TypeOK
<1>2. pc' = [pc EXCEPT ![c] = to] /\ pc' \in [Clients -> Locations]
  BY <1>1 DEF Goto
<1>3. pc'[c] = to /\ \A x \in Clients : x # c => pc'[x] = pc[x]
  BY <1>1, <1>2
<1>4. Requests' = Requests
  <2>1. \A x \in Clients : pc'[x] # "idle" <=> pc[x] # "idle"
    BY <1>3 DEF Unheld
  <2>2. base' = base
    OBVIOUS
  <2>3. QED
    BY <2>1, <2>2 DEF Requests
<1>5. TypeOK'
  <2>1. recent' \in SUBSET Disks
    BY DEF Mixed
  <2>2. QED
    BY <1>2, <2>1 DEF IInv, TypeOK
<1>6. holder = c /\ holder' = c /\ c # NoClient
  BY DEF IInv, Control
<1>7. Control'
  <2>1. \A x \in Clients : holder' = x <=> pc'[x] \notin Unheld
    BY <1>3, <1>6 DEF IInv, Control
  <2>2. \A x \in Clients : outcome'[x] \in {"ok", "refused"} => pc'[x] = "done"
    BY <1>3 DEF IInv, Control, Unheld
  <2>3. \A x \in Clients : x # c => pc'[x] \in Unheld
    BY <2>1, <1>6
  <2>4. \A x \in Clients : pc'[x] \in {"recover", "read"} => committing' = FALSE
    BY <1>3, <2>3 DEF Unheld
  <2>5. \A x \in Clients : pc'[x] \in {"compare", "mkRoot"} \cup Staging => committing' = TRUE
    BY <1>3, <2>3 DEF Unheld, Staging
  <2>6. QED
    BY <1>6, <2>1, <2>2, <2>4, <2>5 DEF Control
<1>8. Files(disk', recent', Requests', ordered')
  <2>1. Files(d, recent', Requests, ordered)
    BY <1>1, FilesFollow DEF IInv
  <2>2. QED
    BY <1>4, <2>1
<1>9. ASSUME NEW x \in Clients, holder' = x
      PROVE  Place(pc'[x], x, txn', committing', late', disk', recent', Requests', ordered')
  <2>1. x = c
    BY <1>6, <1>9
  <2>2. QED
    BY <1>3, <1>4, <2>1
<1>10. ASSUME NEW x \in Clients PROVE Answered(x, outcome'[x], disk', recent')
  <2>1. Answered(x, outcome[x], disk, recent)
    BY DEF IInv
  <2>2. Answered(x, outcome[x], d, recent')
    BY <1>1, <2>1, AnsweredFollow
  <2>3. QED
    BY <2>2
<1>11. QED
  BY <1>5, <1>7, <1>8, <1>9, <1>10 DEF IInv

(* An answer, or an interruption, frees the lock.                           *)
LEMMA Leaves ==
  ASSUME IInv, NEW c \in Clients, pc[c] \notin Unheld,
         NEW l \in {"ready", "retained", "done"}, NEW o \in {"failed", "retained", "stale", "refused", "ok"},
         o \in {"ok", "refused"} => l = "done", Answer(c, l, o),
         UNCHANGED <<base, edits, ordered>>, faults' \in 0 .. MaxFaults, late' \in BOOLEAN,
         disk' = disk, disk \in recent', Mixed(recent', recent, ordered),
         Answered(c, o, disk, recent')
  PROVE  IInv'
<1>1. /\ pc \in [Clients -> Locations] /\ base \in [Clients -> Texts] /\ disk \in Disks
      /\ recent \in SUBSET Disks /\ disk \in recent
      /\ outcome \in [Clients -> {"none", "failed", "retained", "stale", "refused", "ok"}]
  BY DEF IInv, TypeOK
<1>2. /\ pc' = [pc EXCEPT ![c] = l] /\ outcome' = [outcome EXCEPT ![c] = o]
      /\ holder' = NoClient /\ txn' = NoTxn /\ committing' = FALSE
  BY DEF Answer, Goto
<1>3. pc' \in [Clients -> Locations] /\ pc'[c] = l /\ \A x \in Clients : x # c => pc'[x] = pc[x]
  BY <1>1, <1>2 DEF Locations
<1>4. /\ outcome' \in [Clients -> {"none", "failed", "retained", "stale", "refused", "ok"}]
      /\ outcome'[c] = o /\ \A x \in Clients : x # c => outcome'[x] = outcome[x]
  BY <1>1, <1>2
<1>5. Requests' = Requests
  <2>1. \A x \in Clients : pc'[x] # "idle" <=> pc[x] # "idle"
    BY <1>3 DEF Unheld
  <2>2. base' = base
    OBVIOUS
  <2>3. QED
    BY <2>1, <2>2 DEF Requests
<1>6. TypeOK'
  <2>1. recent' \in SUBSET Disks
    BY DEF Mixed
  <2>2. NoTxn \in Txns
    BY DEF NoTxn, Txns, Texts
  <2>3. QED
    BY <1>2, <1>3, <1>4, <2>1, <2>2 DEF IInv, TypeOK
<1>7. holder = c
  BY DEF IInv, Control
<1>8. \A x \in Clients : pc'[x] \in Unheld
  BY <1>3, <1>7 DEF IInv, Control, Unheld
<1>9. Control'
  <2>1. \A x \in Clients : holder' = x <=> pc'[x] \notin Unheld
    BY <1>2, <1>8
  <2>2. \A x \in Clients : outcome'[x] \in {"ok", "refused"} => pc'[x] = "done"
    BY <1>3, <1>4 DEF IInv, Control
  <2>3. \A x \in Clients : pc'[x] \notin {"compare", "mkRoot"} \cup Staging
    BY <1>8 DEF Unheld, Staging
  <2>4. QED
    BY <1>2, <2>1, <2>2, <2>3 DEF Control
<1>10. recent \cup {disk} = recent
  BY <1>1
<1>11. Follows(disk, disk, recent, Requests, ordered)
  BY <1>1, FollowsSame DEF IInv
<1>12. Files(disk', recent', Requests', ordered')
  <2>1. Files(disk, recent', Requests, ordered)
    BY <1>1, <1>10, <1>11, FilesFollow DEF IInv
  <2>2. QED
    BY <1>5, <2>1
<1>13. ASSUME NEW x \in Clients PROVE Answered(x, outcome'[x], disk', recent')
  <2>1. CASE x = c
    BY <1>4, <2>1
  <2>2. CASE x # c
    <3>1. Answered(x, outcome[x], disk, recent)
      BY DEF IInv
    <3>2. Answered(x, outcome[x], disk, recent')
      <4>1. outcome[x] = "refused" =>
              /\ x \notin ClientsIn(disk.spec)
              /\ disk.journal \in Txns /\ Last(disk.journal.newSpec) = x => ~Forward(disk, disk)
        BY <3>1 DEF Answered
      <4>2. QED
        BY <1>1, <1>10, <1>11, <3>1, <4>1, AnsweredFollow
    <3>3. QED
      BY <1>4, <2>2, <3>2
  <2>3. QED
    BY <2>1, <2>2
<1>14. \A x \in Clients : holder' # x
  BY <1>2
<1>15. QED
  BY <1>6, <1>9, <1>12, <1>13, <1>14 DEF IInv

LEMMA Holds ==
  ASSUME IInv, NEW c \in Clients, pc[c] \notin Unheld
  PROVE  /\ holder = c /\ Place(pc[c], c, txn, committing, late, disk, recent, Requests, ordered)
         /\ disk \in Disks /\ recent \in SUBSET Disks /\ disk \in recent /\ ordered \in BOOLEAN
         /\ txn \in Txns /\ committing \in BOOLEAN /\ late \in BOOLEAN
         /\ SpecDir(disk, disk, Requests) /\ TxDir(disk, Requests)
         /\ ordered = TRUE => Whole(disk)
         /\ recent \cup {disk} = recent /\ Mixed(recent, recent, ordered)
<1>1. holder = c
  BY DEF IInv, Control
<1>2. /\ disk \in Disks /\ recent \in SUBSET Disks /\ disk \in recent /\ ordered \in BOOLEAN
      /\ txn \in Txns /\ committing \in BOOLEAN /\ late \in BOOLEAN
  BY DEF IInv, TypeOK
<1>3. SpecDir(disk, disk, Requests) /\ TxDir(disk, Requests) /\ (ordered = TRUE => Whole(disk))
  BY <1>2 DEF IInv, Files
<1>4. Mixed(recent, recent, ordered)
  BY <1>2 DEF Mixed
<1>5. recent \cup {disk} = recent
  BY <1>2
<1>6. Place(pc[c], c, txn, committing, late, disk, recent, Requests, ordered)
  BY <1>1 DEF IInv
<1>7. QED
  BY <1>1, <1>2, <1>3, <1>4, <1>5, <1>6

LEMMA RefusedNow ==
  ASSUME IInv
  PROVE  \A x \in Clients : outcome[x] = "refused" =>
           /\ x \notin ClientsIn(disk.spec)
           /\ disk.journal \in Txns /\ Last(disk.journal.newSpec) = x => ~Forward(disk, disk)
BY DEF IInv, Answered

(* The holder goes on without changing a file.                              *)
LEMMA Moves ==
  ASSUME IInv, NEW c \in Clients, NEW to \in Locations \ Unheld, pc[c] \notin Unheld, Goto(c, to),
         UNCHANGED <<disk, recent, holder, base, outcome, edits, faults, ordered>>,
         txn' \in Txns, committing' \in BOOLEAN, late' \in BOOLEAN,
         to \in {"recover", "read"} => committing' = FALSE,
         to \in {"compare", "mkRoot"} \cup Staging => committing' = TRUE,
         Place(to, c, txn', committing', late', disk, recent, Requests, ordered)
  PROVE  IInv'
<1>1. /\ disk \in Disks /\ recent \cup {disk} = recent /\ Mixed(recent, recent, ordered)
      /\ disk \in recent
  BY Holds
<1>2. Follows(disk, disk, recent, Requests, ordered)
  BY <1>1, FollowsSame DEF IInv
<1>3. disk' = disk /\ disk \in recent' /\ Mixed(recent', recent \cup {disk}, ordered)
  BY <1>1
<1>4. UNCHANGED <<holder, base, outcome, edits, faults, ordered>> /\ recent' = recent
  OBVIOUS
<1>5. QED
  BY <1>1, <1>2, <1>3, <1>4, RefusedNow, Advances

(* ... or with an fsync.                                                    *)
LEMMA Syncs ==
  ASSUME IInv, NEW c \in Clients, NEW to \in Locations \ Unheld, pc[c] \notin Unheld, Goto(c, to),
         FsyncSpecDir \/ FsyncTxDir, txn' \in Txns, UNCHANGED committing,
         UNCHANGED <<holder, base, outcome, edits, late, faults, ordered>>,
         to \in {"recover", "read"} => committing = FALSE,
         to \in {"compare", "mkRoot"} \cup Staging => committing = TRUE,
         Place(to, c, txn', committing, late, disk, recent', Requests, ordered)
  PROVE  IInv'
<1>1. /\ disk \in Disks /\ recent \cup {disk} = recent /\ recent \in SUBSET Disks
      /\ disk \in recent /\ ordered \in BOOLEAN /\ late \in BOOLEAN /\ committing \in BOOLEAN
  BY Holds
<1>2. Follows(disk, disk, recent, Requests, ordered)
  BY <1>1, FollowsSame DEF IInv
<1>3. disk' = disk /\ disk \in recent' /\ Mixed(recent', recent \cup {disk}, ordered)
  BY <1>1, FsyncMixed
<1>4. /\ UNCHANGED <<holder, base, outcome, edits, faults, ordered>>
      /\ late' = late /\ late' \in BOOLEAN /\ committing' = committing /\ committing' \in BOOLEAN
  BY <1>1
<1>5. Place(to, c, txn', committing', late', disk, recent', Requests, ordered)
  BY <1>4
<1>6. QED
  BY <1>1, <1>2, <1>3, <1>4, <1>5, RefusedNow, Advances

(* ... or by changing them to d.                                            *)
LEMMA Puts ==
  ASSUME IInv, NEW c \in Clients, NEW from, from \notin Unheld, NEW to \in Locations \ Unheld,
         NEW d \in Disks, Advance(c, from, d, to), UNCHANGED ordered, to \notin {"recover", "read"},
         to \in {"compare", "mkRoot"} \cup Staging => committing = TRUE,
         Follows(d, disk, recent, Requests, ordered),
         Place(to, c, txn, committing, late, d, recent', Requests, ordered),
         \A x \in Clients : outcome[x] = "refused" =>
           /\ x \notin ClientsIn(d.spec)
           /\ d.journal \in Txns /\ Last(d.journal.newSpec) = x => ~Forward(d, d)
  PROVE  IInv'
<1>1. /\ pc[c] \notin Unheld /\ Goto(c, to) /\ Put(d)
      /\ UNCHANGED <<holder, base, txn, committing, outcome, edits, late, faults, ordered>>
  BY DEF Advance
<1>2. /\ recent \in SUBSET Disks /\ disk \in recent /\ ordered \in BOOLEAN /\ late \in BOOLEAN
      /\ committing \in BOOLEAN /\ txn \in Txns
  BY <1>1, Holds
<1>3. disk' = d /\ d \in recent' /\ Mixed(recent', recent \cup {d}, ordered)
  BY <1>1, <1>2, PutMixed
<1>4. /\ txn' = txn /\ committing' = committing /\ late' = late
      /\ txn' \in Txns /\ committing' \in BOOLEAN /\ late' \in BOOLEAN
      /\ UNCHANGED <<holder, base, outcome, edits, faults, ordered>>
  BY <1>1, <1>2
<1>5. Place(to, c, txn', committing', late', d, recent', Requests, ordered)
  BY <1>4
<1>6. QED
  BY <1>1, <1>3, <1>4, <1>5, Advances

-----------------------------------------------------------------------------
LEMMA InitIInv == Init => IInv
<1> SUFFICES ASSUME Init PROVE IInv
  OBVIOUS
<1>1. /\ disk.dir = FALSE /\ NoFiles(disk) /\ disk.spec = <<>> /\ disk.prov = <<>>
      /\ recent = {disk}
  BY DEF Init, NoFiles
<1>2. disk \in Disks
  BY DEF Init, Disks, Texts
<1>3. TypeOK
  <2>1. txn \in Txns
    BY DEF Init, NoTxn, Txns, Texts
  <2>2. base \in [Clients -> Texts] /\ pc \in [Clients -> Locations]
    BY DEF Init, Texts, Locations
  <2>3. edits \in 0 .. MaxEdits /\ faults \in 0 .. MaxFaults
    BY DEF Init
  <2>4. outcome \in [Clients -> {"none", "failed", "retained", "stale", "refused", "ok"}]
    BY DEF Init
  <2>5. /\ holder \in Clients \cup {NoClient} /\ committing \in BOOLEAN /\ late \in BOOLEAN
        /\ ordered \in BOOLEAN /\ disk \in recent /\ \A d \in recent : d \in Disks
    BY <1>1, <1>2 DEF Init
  <2>6. QED
    BY <1>2, <2>1, <2>2, <2>3, <2>4, <2>5 DEF TypeOK
<1>4. Control
  BY DEF Init, Control, Unheld, Staging
<1>5. Files(disk, recent, Requests, ordered)
  <2>1. SpecDir(disk, disk, Requests)
    <3>1. Covered(disk.spec, disk.prov) /\ Issued(disk.prov, Requests)
      BY <1>1 DEF Covered, Issued
    <3>2. IsPrefix(disk.prov, disk.prov)
      BY <1>2, PrefixRefl DEF Disks
    <3>3. QED
      BY <3>1, <3>2 DEF SpecDir
  <2>2. disk.journal \notin Txns
    BY <1>1 DEF NoFiles
  <2>3. TxDir(disk, Requests) /\ OneJournal(recent) /\ Resumable(disk, recent)
    BY <1>1, <2>2 DEF TxDir, OneJournal, Resumable
  <2>4. Whole(disk)
    <3>1. Chain(disk.prov)
      BY <1>1 DEF Chain
    <3>2. IsPrefix(Tip(disk.prov), disk.spec)
      <4>1. <<>> \in Seq(Clients)
        OBVIOUS
      <4>2. QED
        BY <1>1, <4>1, PrefixRefl DEF Tip
    <3>3. QED
      BY <2>2, <3>1, <3>2 DEF Whole
  <2>5. QED
    BY <1>1, <2>1, <2>3, <2>4 DEF Files
<1>6. \A c \in Clients : holder # c /\ Answered(c, outcome[c], disk, recent)
  BY DEF Init, Answered
<1>7. QED
  BY <1>3, <1>4, <1>5, <1>6 DEF IInv

LEMMA StutterIInv ==
  ASSUME IInv, UNCHANGED vars
  PROVE  IInv'
<1>1. /\ disk' = disk /\ recent' = recent /\ holder' = holder /\ pc' = pc /\ base' = base /\ txn' = txn
      /\ committing' = committing /\ outcome' = outcome /\ edits' = edits /\ late' = late
      /\ ordered' = ordered /\ faults' = faults
  BY DEF vars
<1>2. Requests' = Requests /\ TypeOK' /\ Control'
  BY <1>1 DEF IInv, Requests, TypeOK, Control
<1>3. QED
  BY <1>1, <1>2 DEF IInv

(* A client makes its request.                                              *)
LEMMA RequestInv ==
  ASSUME IInv, NEW c \in Clients, Request(c), UNCHANGED ordered
  PROVE  IInv'
<1>1. /\ pc \in [Clients -> Locations] /\ base \in [Clients -> Texts] /\ disk \in Disks
  BY DEF IInv, TypeOK
<1>2. /\ pc[c] = "idle" /\ pc' = [pc EXCEPT ![c] = "ready"] /\ base' = [base EXCEPT ![c] = disk.spec]
      /\ disk' = disk /\ recent' = recent /\ holder' = holder /\ txn' = txn
      /\ committing' = committing /\ outcome' = outcome /\ edits' = edits /\ late' = late
      /\ faults' = faults /\ ordered' = ordered
  BY DEF Request, Goto
<1>3. /\ pc'[c] = "ready" /\ pc' \in [Clients -> Locations]
      /\ \A x \in Clients : x # c => pc'[x] = pc[x] /\ base'[x] = base[x]
  BY <1>1, <1>2 DEF Locations
<1>4. base' \in [Clients -> Texts]
  BY <1>1, <1>2 DEF Disks
<1>5. Requests \subseteq Requests'
  <2>1. \A x \in Clients : pc[x] # "idle" => pc'[x] # "idle" /\ base'[x] = base[x]
    BY <1>2, <1>3
  <2>2. QED
    BY <2>1 DEF Requests
<1>6. TypeOK'
  BY <1>2, <1>3, <1>4 DEF IInv, TypeOK
<1>7. Control'
  BY <1>2, <1>3 DEF IInv, Control, Unheld, Staging
<1>8. Files(disk', recent', Requests', ordered')
  <2>1. Files(disk, recent, Requests', ordered)
    BY <1>5, FilesGrow DEF IInv
  <2>2. QED
    BY <1>2, <2>1
<1>9. ASSUME NEW x \in Clients, holder' = x
      PROVE  Place(pc'[x], x, txn', committing', late', disk', recent', Requests', ordered')
  <2>1. holder = x /\ x # c
    BY <1>2, <1>9 DEF IInv, Control, Unheld
  <2>2. Place(pc[x], x, txn, committing, late, disk, recent, Requests', ordered)
    BY <1>5, <2>1, PlaceGrow DEF IInv
  <2>3. QED
    BY <1>2, <1>3, <2>1, <2>2
<1>10. \A x \in Clients : Answered(x, outcome'[x], disk', recent')
  BY <1>2 DEF IInv
<1>11. QED
  BY <1>6, <1>7, <1>8, <1>9, <1>10 DEF IInv

(* A client takes the writer lock.                                          *)
LEMMA WithWriterLockInv ==
  ASSUME IInv, NEW c \in Clients, WithWriterLock(c), UNCHANGED ordered
  PROVE  IInv'
<1>1. pc \in [Clients -> Locations]
  BY DEF IInv, TypeOK
<1>2. /\ pc[c] = "ready" /\ holder = NoClient /\ holder' = c /\ pc' = [pc EXCEPT ![c] = "recover"]
      /\ disk' = disk /\ recent' = recent /\ base' = base /\ txn' = txn
      /\ committing' = committing /\ outcome' = outcome /\ edits' = edits /\ late' = late
      /\ faults' = faults /\ ordered' = ordered
  BY DEF WithWriterLock, Goto
<1>3. /\ pc'[c] = "recover" /\ pc' \in [Clients -> Locations]
      /\ \A x \in Clients : x # c => pc'[x] = pc[x]
  BY <1>1, <1>2 DEF Locations
<1>4. Requests' = Requests
  <2>1. \A x \in Clients : pc[x] # "idle" <=> pc'[x] # "idle"
    BY <1>2, <1>3
  <2>2. QED
    BY <1>2, <2>1 DEF Requests
<1>5. TypeOK'
  BY <1>2, <1>3 DEF IInv, TypeOK
<1>6. committing = FALSE /\ \A x \in Clients : pc[x] \in Unheld
  BY <1>2 DEF IInv, Control
<1>7. Control'
  <2>1. \A x \in Clients : holder' = x <=> pc'[x] \notin Unheld
    BY <1>2, <1>3, <1>6 DEF Unheld
  <2>2. \A x \in Clients : outcome'[x] \in {"ok", "refused"} => pc'[x] = "done"
    BY <1>2, <1>3 DEF IInv, Control
  <2>3. \A x \in Clients : pc'[x] \notin {"compare", "mkRoot"} \cup Staging
    BY <1>3, <1>6 DEF Unheld, Staging
  <2>4. QED
    BY <1>2, <1>6, <2>1, <2>2, <2>3 DEF Control
<1>8. Place("recover", c, txn, FALSE, late, disk, recent, Requests, ordered)
  BY DEF Place, Staging, Cleaning, Cleaned, Installing
<1>9. ASSUME NEW x \in Clients, holder' = x
      PROVE  Place(pc'[x], x, txn', committing', late', disk', recent', Requests', ordered')
  BY <1>2, <1>3, <1>4, <1>6, <1>8, <1>9
<1>10. QED
  BY <1>2, <1>4, <1>5, <1>7, <1>9 DEF IInv

-----------------------------------------------------------------------------
(* Recover.                                                                 *)
LEMMA NothingToRecoverInv ==
  ASSUME IInv, NEW c \in Clients, NothingToRecover(c), UNCHANGED ordered
  PROVE  IInv'
<1>1. /\ pc[c] = "recover" /\ pc[c] \notin Unheld /\ ~disk.dir /\ Goto(c, "read")
      /\ UNCHANGED <<disk, recent, holder, base, txn, committing, outcome, edits, late, faults>>
  BY DEF NothingToRecover, Unheld
<1>2. committing = FALSE
  BY <1>1 DEF IInv, Control
<1>3. NoFiles(disk)
  BY <1>1, Holds DEF TxDir
<1>4. Place("read", c, txn, committing, late, disk, recent, Requests, ordered)
  BY <1>2, <1>3 DEF Place, Staging, Cleaning, Cleaned, Installing
<1>5. "read" \in Locations \ Unheld /\ txn \in Txns /\ committing \in BOOLEAN /\ late \in BOOLEAN
  BY <1>1, Holds DEF Locations, Unheld
<1>6. QED
  BY <1>1, <1>2, <1>4, <1>5, Moves DEF Staging

LEMMA RecoverEmptyRootInv ==
  ASSUME IInv, NEW c \in Clients, RecoverEmptyRoot(c), UNCHANGED ordered
  PROVE  IInv'
<1>1. /\ pc[c] = "recover" /\ pc[c] \notin Unheld /\ NoFiles(disk) /\ Goto(c, "rmRoot")
      /\ UNCHANGED <<disk, recent, holder, base, txn, committing, outcome, edits, late, faults>>
  BY DEF RecoverEmptyRoot, Unheld, NoFiles
<1>2. committing = FALSE
  BY <1>1 DEF IInv, Control
<1>3. Place("rmRoot", c, txn, committing, late, disk, recent, Requests, ordered)
  BY <1>1, <1>2 DEF Place, Staging, Cleaning, Cleaned, Installing
<1>4. "rmRoot" \in Locations \ Unheld /\ txn \in Txns /\ committing \in BOOLEAN /\ late \in BOOLEAN
  BY <1>1, Holds DEF Locations, Unheld
<1>5. QED
  BY <1>1, <1>2, <1>3, <1>4, Moves DEF Staging

LEMMA RecoverJournalInv ==
  ASSUME IInv, NEW c \in Clients, RecoverJournal(c), UNCHANGED ordered
  PROVE  IInv'
<1> DEFINE j == disk.journal
<1>1. /\ pc[c] = "recover" /\ pc[c] \notin Unheld /\ Recognized /\ txn' = j /\ late' = FALSE
      /\ UNCHANGED <<disk, recent, holder, base, committing, outcome, edits, faults>>
  BY DEF RecoverJournal, Unheld
<1>2. committing = FALSE /\ committing' = FALSE
  BY <1>1 DEF IInv, Control
<1>3. /\ disk \in Disks /\ TxDir(disk, Requests) /\ (ordered = TRUE => Whole(disk))
  BY <1>1, Holds
<1>4. j \in Txns
  BY <1>1, <1>3 DEF Recognized, Journalled, Disks
<1>5. PICK x \in Clients : TxnOf(j, x, Requests)
  BY <1>3, <1>4 DEF TxDir
<1>6. /\ j.oldSpec \in Texts /\ j.newSpec \in Texts /\ j.oldProv # j.newProv /\ j.oldSpec # j.newSpec
      /\ Tip(j.newProv) = j.newSpec
  BY <1>5, TxnFacts
<1>7. /\ disk.spec = j.oldSpec \/ disk.spec = j.newSpec
      /\ disk.prov = j.oldProv \/ disk.prov = j.newProv
      /\ disk.spec = j.newSpec => disk.prov = j.newProv
      /\ disk.specNew \in {Absent, j.newSpec} /\ disk.provNew \in {Absent, j.newProv}
  BY <1>1 DEF Recognized, SpecOld, SpecNew, ProvOld, ProvNew, StagesValid
<1>8. txn' \in Txns /\ committing' \in BOOLEAN /\ late' \in BOOLEAN
  BY <1>1, <1>2, <1>4
<1>9. ordered = TRUE => Chain(j.newProv)
  BY <1>3, <1>4 DEF Whole
<1> HIDE DEF j
<1>10. ASSUME NEW to \in {"rmSpecNew", "installSpec", "installProv"}, Goto(c, to),
              Place(to, c, j, FALSE, FALSE, disk, recent, Requests, ordered)
       PROVE  IInv'
  <2>1. to \in Locations \ Unheld /\ to \notin {"recover", "read"} /\ to \notin {"compare", "mkRoot"} \cup Staging
    BY <1>10 DEF Locations, Unheld, Installing, Staging
  <2>2. Place(to, c, txn', committing', late', disk, recent, Requests, ordered)
    BY <1>1, <1>2, <1>10
  <2>3. QED
    BY <1>1, <1>8, <1>10, <2>1, <2>2, Moves
<1>11. CASE ProvNew /\ SpecNew /\ Goto(c, "rmSpecNew")
  <2>1. disk.prov = j.newProv /\ disk.spec = j.newSpec
    BY <1>11 DEF ProvNew, SpecNew, j
  <2>2. IsPrefix(j.newSpec, disk.spec) /\ IsPrefix(Tip(disk.prov), disk.spec)
    BY <1>6, <2>1, PrefixRefl DEF Texts
  <2>3. Place("rmSpecNew", c, j, FALSE, FALSE, disk, recent, Requests, ordered)
    BY <1>4, <2>1, <2>2 DEF Place, Staging, Cleaning, Cleaned, Installing, j
  <2>4. QED
    BY <1>10, <1>11, <2>3
<1>12. CASE ProvNew /\ ~SpecNew /\ disk.specNew # Absent /\ Goto(c, "installSpec")
  <2>1. disk.prov = j.newProv /\ disk.spec = j.oldSpec /\ disk.specNew = j.newSpec
    BY <1>7, <1>12 DEF ProvNew, SpecNew, j
  <2>2. Place("installSpec", c, j, FALSE, FALSE, disk, recent, Requests, ordered)
    BY <1>4, <2>1 DEF Place, Staging, Cleaning, Cleaned, Installing, j
  <2>3. QED
    BY <1>10, <1>12, <2>2
<1>13. CASE ~ProvNew /\ StagesComplete /\ Goto(c, "installProv")
  <2>1. /\ disk.prov = j.oldProv /\ disk.spec = j.oldSpec
        /\ disk.specNew = j.newSpec /\ disk.provNew = j.newProv
    BY <1>7, <1>13 DEF ProvNew, StagesComplete, j
  <2>2. Place("installProv", c, j, FALSE, FALSE, disk, recent, Requests, ordered)
    BY <1>4, <2>1 DEF Place, Staging, Cleaning, Cleaned, Installing, j
  <2>3. QED
    BY <1>10, <1>13, <2>2
<1>14. CASE ~ProvNew /\ ~StagesComplete /\ Goto(c, "rmSpecNew")
  <2>1. disk.prov = j.oldProv /\ disk.spec = j.oldSpec /\ ~Complete(disk)
    BY <1>7, <1>14 DEF ProvNew, StagesComplete, Complete, j
  <2>2. ordered = TRUE => IsPrefix(Tip(disk.prov), disk.spec)
    BY <1>5, <1>9, <2>1, ChainContinues
  <2>3. Place("rmSpecNew", c, j, FALSE, FALSE, disk, recent, Requests, ordered)
    BY <1>4, <2>1, <2>2 DEF Place, Staging, Cleaning, Cleaned, Installing, j
  <2>4. QED
    BY <1>10, <1>14, <2>3
<1>15. QED
  BY <1>11, <1>12, <1>13, <1>14 DEF RecoverJournal

(* An answer that leaves the files alone.                                   *)
LEMMA Stops ==
  ASSUME IInv, NEW c \in Clients, pc[c] \notin Unheld,
         NEW l \in {"ready", "retained", "done"}, NEW o \in {"failed", "retained", "stale"},
         Answer(c, l, o), UNCHANGED <<disk, recent, base, edits, late, ordered>>, faults' \in 0 .. MaxFaults
  PROVE  IInv'
<1>1. disk \in recent /\ Mixed(recent, recent, ordered) /\ late \in BOOLEAN
  BY Holds
<1>2. /\ disk' = disk /\ disk \in recent' /\ Mixed(recent', recent, ordered) /\ late' \in BOOLEAN
      /\ UNCHANGED <<base, edits, ordered>>
  BY <1>1
<1>3. o \notin {"ok", "refused"} /\ Answered(c, o, disk, recent')
  BY DEF Answered
<1>4. QED
  BY <1>2, <1>3, Leaves

LEMMA RecoverRetainsInv ==
  ASSUME IInv, NEW c \in Clients, RecoverRetains(c), UNCHANGED ordered
  PROVE  IInv'
<1>1. pc[c] \notin Unheld /\ Answer(c, "retained", "retained")
  BY DEF RecoverRetains, Unheld
<1>2. faults' \in 0 .. MaxFaults /\ UNCHANGED <<disk, recent, base, edits, late, ordered>>
  BY DEF RecoverRetains, IInv, TypeOK
<1>3. QED
  BY <1>1, <1>2, Stops

LEMMA InterruptInv ==
  ASSUME IInv, NEW c \in Clients, Interrupt(c), UNCHANGED ordered
  PROVE  IInv'
<1>1. pc[c] \notin Unheld /\ Answer(c, "ready", "failed")
  BY DEF Interrupt, IInv, Control
<1>2. faults' \in 0 .. MaxFaults
  BY DEF Interrupt, IInv, TypeOK
<1>3. UNCHANGED <<disk, recent, base, edits, late, ordered>>
  BY DEF Interrupt
<1>4. QED
  BY <1>1, <1>2, <1>3, Stops

(* Mutate under the lock.                                                   *)
LEMMA RefuseStaleInv ==
  ASSUME IInv, NEW c \in Clients, RefuseStale(c), UNCHANGED ordered
  PROVE  IInv'
<1>1. pc[c] \notin Unheld /\ Answer(c, "done", "stale")
  BY DEF RefuseStale, Unheld
<1>2. faults' \in 0 .. MaxFaults /\ UNCHANGED <<disk, recent, base, edits, late, ordered>>
  BY DEF RefuseStale, IInv, TypeOK
<1>3. QED
  BY <1>1, <1>2, Stops

(* A text without the edit of its own author: what a request was built on.  *)
LEMMA BaseBefore ==
  ASSUME NEW text \in Texts, NEW log \in Seq(Entries), Covered(text, log), Issued(log, Requests),
         NEW c \in Clients, c \in ClientsIn(text)
  PROVE  text # base[c]
<1>1. PICK k \in DOMAIN text : text[k] = c
  BY DEF ClientsIn
<1>2. /\ k \in 1 .. Len(text) /\ Len(text) \in Nat
      /\ SubSeq(text, 1, k) \in Seq(Clients \cup {Human}) /\ Len(SubSeq(text, 1, k)) = k
      /\ SubSeq(text, 1, k)[k] = c
  BY <1>1 DEF Texts
<1>3. PICK i \in DOMAIN log : log[i].result = SubSeq(text, 1, k)
  BY <1>1 DEF Covered, Recorded
<1>4. PICK x \in Clients : <<x, log[i].prev>> \in Requests /\ log[i].result = Append(log[i].prev, x)
  BY DEF Issued
<1>5. log[i].prev \in Texts
  <2>1. log[i] \in Entries
    OBVIOUS
  <2>2. QED
    BY <2>1 DEF Entries
<1>6. Len(log[i].result) = Len(log[i].prev) + 1 /\ log[i].result[Len(log[i].prev) + 1] = x
      /\ Len(log[i].prev) \in Nat
  BY <1>4, <1>5, AppendEnds DEF Texts
<1>7. Len(log[i].prev) = k - 1 /\ x = c
  BY <1>2, <1>3, <1>6
<1>8. log[i].prev = base[c]
  BY <1>4, <1>7 DEF Requests
<1>9. QED
  BY <1>2, <1>7, <1>8

LEMMA RefuseRequestInv ==
  ASSUME IInv, NEW c \in Clients, RefuseRequest(c), UNCHANGED ordered
  PROVE  IInv'
<1>1. /\ pc[c] = "read" /\ pc[c] \notin Unheld /\ disk.spec = base[c] /\ Answer(c, "done", "refused")
      /\ UNCHANGED <<disk, recent, base, edits, late, faults, ordered>>
  BY DEF RefuseRequest, Unheld
<1>2. /\ disk \in Disks /\ disk \in recent /\ Mixed(recent, recent, ordered) /\ late \in BOOLEAN
      /\ SpecDir(disk, disk, Requests)
  BY <1>1, Holds
<1>3. NoFiles(disk)
  BY <1>1, Holds DEF Place
<1>4. c \notin ClientsIn(disk.spec)
  <2>1. disk.spec \in Texts /\ disk.prov \in Seq(Entries)
    BY <1>2 DEF Disks
  <2>2. QED
    BY <1>1, <1>2, <2>1, BaseBefore DEF SpecDir
<1>5. disk.journal \notin Txns
  BY <1>3 DEF NoFiles
<1>6. Answered(c, "refused", disk, recent')
  BY <1>4, <1>5 DEF Answered
<1>7. /\ disk' = disk /\ disk \in recent' /\ Mixed(recent', recent, ordered) /\ late' \in BOOLEAN
      /\ UNCHANGED <<base, edits, ordered>> /\ faults' \in 0 .. MaxFaults
  BY <1>1, <1>2 DEF IInv, TypeOK
<1>8. QED
  BY <1>1, <1>6, <1>7, Leaves

LEMMA PrepareInv ==
  ASSUME IInv, NEW c \in Clients, Prepare(c), UNCHANGED ordered
  PROVE  IInv'
<1>1. /\ pc[c] = "read" /\ pc[c] \notin Unheld /\ disk.spec = base[c] /\ Goto(c, "compare")
      /\ committing' = TRUE /\ UNCHANGED <<disk, recent, holder, base, outcome, edits, late, faults, ordered>>
      /\ txn' = [oldSpec |-> disk.spec, newSpec |-> Apply(c),
                 oldProv |-> disk.prov, newProv |-> Append(disk.prov, NewEntry(c))]
  BY DEF Prepare, Unheld
<1> DEFINE t == [oldSpec |-> disk.spec, newSpec |-> Apply(c),
                 oldProv |-> disk.prov, newProv |-> Append(disk.prov, NewEntry(c))]
           e == NewEntry(c)
<1>2. /\ disk \in Disks /\ SpecDir(disk, disk, Requests) /\ (ordered = TRUE => Whole(disk))
      /\ late \in BOOLEAN
  BY <1>1, Holds
<1>3. disk.spec \in Texts /\ disk.prov \in Seq(Entries)
  BY <1>2 DEF Disks
<1>4. NoFiles(disk)
  BY <1>1, Holds DEF Place
<1>5. Apply(c) = Append(disk.spec, c) /\ Apply(c) \in Texts
  BY <1>3, AppendEnds DEF Apply, Texts
<1>6. PICK g \in BOOLEAN : /\ g <=> disk.prov # <<>> /\ Tip(disk.prov) # disk.spec
                           /\ e = [prev |-> disk.spec, result |-> Apply(c), gap |-> g]
  <2>1. (disk.prov # <<>> /\ Tip(disk.prov) # disk.spec) \in BOOLEAN
    OBVIOUS
  <2>2. QED
    BY <2>1 DEF NewEntry
<1>7. e \in Entries /\ e.prev = disk.spec /\ e.result = Append(disk.spec, c) /\ e.gap = g
  BY <1>3, <1>5, <1>6 DEF Entries
<1> HIDE DEF e
<1>8. Append(disk.prov, e) \in Seq(Entries)
  BY <1>3, <1>7
<1>9. t \in Txns /\ t.oldSpec = disk.spec /\ t.newSpec = Apply(c) /\ t.oldProv = disk.prov
      /\ t.newProv = Append(disk.prov, e)
  BY <1>3, <1>5, <1>8 DEF Txns, e
<1>10. txn' = t
  BY <1>1
<1> HIDE DEF t
<1>11. <<c, t.oldSpec>> \in Requests
  BY <1>1, <1>9 DEF Requests
<1>12. TxnOf(t, c, Requests)
  <2>1. Issued(t.oldProv, Requests) /\ Covered(t.oldSpec, t.oldProv)
    BY <1>2, <1>9 DEF SpecDir
  <2>2. \E h \in BOOLEAN :
          t.newProv = Append(t.oldProv, [prev |-> t.oldSpec, result |-> t.newSpec, gap |-> h])
    BY <1>6, <1>9
  <2>3. QED
    BY <1>5, <1>9, <1>11, <2>1, <2>2 DEF TxnOf
<1>13. ordered = TRUE => Chain(t.newProv)
  <2>1. SUFFICES ASSUME ordered = TRUE PROVE Chain(Append(disk.prov, e))
    BY <1>9
  <2>2. Chain(disk.prov) /\ IsPrefix(Tip(disk.prov), disk.spec)
    BY <1>2, <1>4, <2>1 DEF Whole, NoFiles
  <2>3. Covered(disk.spec, disk.prov)
    BY <1>2 DEF SpecDir
  <2>4. e.gap <=> disk.prov # <<>> /\ Tip(disk.prov) # disk.spec
    BY <1>6, <1>7
  <2>5. QED
    BY <1>3, <1>7, <2>2, <2>3, <2>4, ChainAppend
<1>14. Place("compare", c, txn', TRUE, late, disk, recent, Requests, ordered)
  BY <1>4, <1>10, <1>12, <1>13 DEF Place, Staging, Cleaning, Cleaned, Installing
<1>15. Place("compare", c, txn', committing', late', disk, recent, Requests, ordered)
  BY <1>1, <1>14
<1>16. "compare" \in Locations \ Unheld /\ "compare" \notin {"recover", "read"}
  BY DEF Locations, Unheld
<1>17. /\ txn' \in Txns /\ committing' \in BOOLEAN /\ committing' = TRUE /\ late' \in BOOLEAN
       /\ UNCHANGED <<disk, recent, holder, base, outcome, edits, faults, ordered>>
  BY <1>1, <1>2, <1>9, <1>10
<1>18. QED
  BY <1>1, <1>15, <1>16, <1>17, Moves

LEMMA CompareInv ==
  ASSUME IInv, NEW c \in Clients, Compare(c), UNCHANGED ordered
  PROVE  IInv'
<1>1. /\ pc[c] = "compare" /\ pc[c] \notin Unheld /\ UNCHANGED <<disk, recent, base, edits, faults, ordered>>
  BY DEF Compare, Unheld
<1>2. committing = TRUE /\ txn \in Txns
  BY <1>1, Holds DEF IInv, Control
<1>3. CASE /\ disk.spec = txn.oldSpec /\ disk.prov = txn.oldProv /\ late' = FALSE
           /\ Goto(c, "mkRoot") /\ UNCHANGED <<holder, txn, committing, outcome>>
  <2>1. Place("compare", c, txn, TRUE, late, disk, recent, Requests, ordered)
    BY <1>1, <1>2, Holds
  <2>2. TxnOf(txn, c, Requests) /\ (ordered = TRUE => Chain(txn.newProv)) /\ NoFiles(disk)
    BY <2>1 DEF Place
  <2>3. Place("mkRoot", c, txn, TRUE, FALSE, disk, recent, Requests, ordered)
    BY <1>3, <2>2 DEF Place, Staging, Cleaning, Cleaned, Installing
  <2>4. "mkRoot" \in Locations \ Unheld /\ "mkRoot" \notin {"recover", "read"}
    BY DEF Locations, Unheld
  <2>5. /\ txn' \in Txns /\ committing' \in BOOLEAN /\ committing' = TRUE /\ late' \in BOOLEAN
        /\ UNCHANGED <<disk, recent, holder, base, outcome, edits, faults, ordered>>
        /\ txn' = txn /\ late' = FALSE
    BY <1>1, <1>2, <1>3
  <2>6. QED
    BY <1>1, <1>3, <2>3, <2>4, <2>5, Moves
<1>4. CASE Answer(c, "ready", "failed") /\ UNCHANGED late
  <2>1. /\ UNCHANGED <<disk, recent, base, edits, late, ordered>> /\ faults' \in 0 .. MaxFaults
    BY <1>1, <1>4 DEF IInv, TypeOK
  <2>2. QED
    BY <1>1, <1>4, <2>1, Stops
<1>5. QED
  BY <1>3, <1>4 DEF Compare

-----------------------------------------------------------------------------
(* The transaction's fsyncs.                                                *)
LEMMA JournalTxn ==
  ASSUME IInv, NEW c \in Clients, pc[c] \in {"syncJournal", "openSpecNew", "writeSpecNew", "openProvNew",
                                             "writeProvNew", "syncStages"} \cup Installing \cup Cleaning
  PROVE  /\ disk.journal = txn /\ txn \in Txns /\ \E x \in Clients : TxnOf(txn, x, Requests)
         /\ committing = TRUE => TxnOf(txn, c, Requests)
<1>1. pc[c] \notin Unheld
  BY DEF Unheld, Installing, Cleaning
<1>2. Place(pc[c], c, txn, committing, late, disk, recent, Requests, ordered) /\ TxDir(disk, Requests)
  BY <1>1, Holds
<1>3. disk.journal = txn /\ txn \in Txns
  BY <1>2 DEF Place
<1>4. QED
  BY <1>2, <1>3 DEF Place, TxDir

LEMMA SyncStep ==
  ASSUME IInv, NEW c \in Clients, NEW from, NEW to \in Locations \ Unheld, from \notin Unheld,
         NEW fsync \in {"spec", "tx"}, AdvanceFsync(c, from, IF fsync = "spec" THEN FsyncSpecDir ELSE FsyncTxDir, to),
         to \notin {"recover", "read"},
         to \in {"compare", "mkRoot"} \cup Staging => committing = TRUE, UNCHANGED ordered,
         Place(to, c, txn, committing, late, disk, recent', Requests, ordered)
  PROVE  IInv'
<1>1. /\ pc[c] \notin Unheld /\ Goto(c, to) /\ (FsyncSpecDir \/ FsyncTxDir)
      /\ UNCHANGED <<holder, base, txn, committing, outcome, edits, late, faults>>
  BY DEF AdvanceFsync
<1>2. txn' = txn /\ txn \in Txns
  BY <1>1 DEF IInv, TypeOK
<1>3. Place(to, c, txn', committing, late, disk, recent', Requests, ordered)
  BY <1>2
<1>4. /\ UNCHANGED <<holder, base, outcome, edits, late, faults, ordered>>
      /\ UNCHANGED committing /\ txn' \in Txns
  BY <1>1, <1>2
<1>5. QED
  BY <1>1, <1>3, <1>4, Syncs

LEMMA SyncParentsInv ==
  ASSUME IInv, NEW c \in Clients, SyncParents(c), UNCHANGED ordered
  PROVE  IInv'
<1>1. pc[c] = "syncParents" /\ pc[c] \notin Unheld /\ FsyncTxDir
  BY DEF SyncParents, AdvanceFsync, Unheld
<1>2. committing = TRUE
  BY <1>1 DEF IInv, Control, Staging
<1>3. Place("syncParents", c, txn, committing, late, disk, recent, Requests, ordered)
  BY <1>1, Holds
<1>4. \A e \in recent' : NoFiles(e)
  <2>1. NoFiles(disk)
    BY <1>3 DEF Place
  <2>2. QED
    BY <1>1, <2>1, Holds, FsyncMixed DEF NoFiles
<1>5. Place("openJournal", c, txn, committing, late, disk, recent', Requests, ordered)
  BY <1>3, <1>4 DEF Place, NoFiles, Staging, Cleaning, Cleaned, Installing
<1>6. "openJournal" \in Locations \ Unheld /\ "openJournal" \notin {"recover", "read"} /\ "syncParents" \notin Unheld
  BY DEF Locations, Unheld
<1>7. AdvanceFsync(c, "syncParents", IF "tx" = "spec" THEN FsyncSpecDir ELSE FsyncTxDir, "openJournal")
  BY DEF SyncParents
<1>8. QED
  BY <1>2, <1>5, <1>6, <1>7, SyncStep

LEMMA SyncJournalInv ==
  ASSUME IInv, NEW c \in Clients, SyncJournal(c), UNCHANGED ordered
  PROVE  IInv'
<1>1. pc[c] = "syncJournal" /\ pc[c] \notin Unheld
  BY DEF SyncJournal, AdvanceFsync, Unheld
<1>2. committing = TRUE
  BY <1>1 DEF IInv, Control, Staging
<1>3. Place("syncJournal", c, txn, committing, late, disk, recent, Requests, ordered)
  BY <1>1, Holds
<1>4. Place("openSpecNew", c, txn, committing, late, disk, recent', Requests, ordered)
  BY <1>3 DEF Place, Staging, Cleaning, Cleaned, Installing
<1>5. "openSpecNew" \in Locations \ Unheld /\ "openSpecNew" \notin {"recover", "read"} /\ "syncJournal" \notin Unheld
  BY DEF Locations, Unheld
<1>6. AdvanceFsync(c, "syncJournal", IF "tx" = "spec" THEN FsyncSpecDir ELSE FsyncTxDir, "openSpecNew")
  BY DEF SyncJournal
<1>7. QED
  BY <1>2, <1>4, <1>5, <1>6, SyncStep

LEMMA SyncStagesInv ==
  ASSUME IInv, NEW c \in Clients, SyncStages(c), UNCHANGED ordered
  PROVE  IInv'
<1>1. pc[c] = "syncStages" /\ pc[c] \notin Unheld
  BY DEF SyncStages, AdvanceFsync, Unheld
<1>2. Place("syncStages", c, txn, committing, late, disk, recent, Requests, ordered)
  BY <1>1, Holds
<1>3. Place("installProv", c, txn, committing, late, disk, recent', Requests, ordered)
  BY <1>2 DEF Place, Staging, Cleaning, Cleaned, Installing
<1>4. /\ "installProv" \in Locations \ Unheld /\ "installProv" \notin {"recover", "read"} /\ "syncStages" \notin Unheld
      /\ "installProv" \notin {"compare", "mkRoot"} \cup Staging
  BY DEF Locations, Installing, Unheld, Staging
<1>5. AdvanceFsync(c, "syncStages", IF "tx" = "spec" THEN FsyncSpecDir ELSE FsyncTxDir, "installProv")
  BY DEF SyncStages
<1>6. QED
  BY <1>3, <1>4, <1>5, SyncStep

LEMMA SyncProvInv ==
  ASSUME IInv, NEW c \in Clients, SyncProv(c), UNCHANGED ordered
  PROVE  IInv'
<1>1. pc[c] = "syncProv" /\ pc[c] \notin Unheld
  BY DEF SyncProv, AdvanceFsync, Unheld
<1>2. Place("syncProv", c, txn, committing, late, disk, recent, Requests, ordered)
  BY <1>1, Holds
<1>3. Place("installSpec", c, txn, committing, late, disk, recent', Requests, ordered)
  BY <1>2 DEF Place, Staging, Cleaning, Cleaned, Installing
<1>4. /\ "installSpec" \in Locations \ Unheld /\ "installSpec" \notin {"recover", "read"} /\ "syncProv" \notin Unheld
      /\ "installSpec" \notin {"compare", "mkRoot"} \cup Staging
  BY DEF Locations, Installing, Unheld, Staging
<1>5. AdvanceFsync(c, "syncProv", IF "spec" = "spec" THEN FsyncSpecDir ELSE FsyncTxDir, "installSpec")
  BY DEF SyncProv
<1>6. QED
  BY <1>3, <1>4, <1>5, SyncStep

(* The fsync that makes the installed spec durable, and with it success.    *)
LEMMA SyncSpecInv ==
  ASSUME IInv, NEW c \in Clients, SyncSpec(c), UNCHANGED ordered
  PROVE  IInv'
<1>1. pc[c] = "syncSpec" /\ pc[c] \notin Unheld /\ FsyncSpecDir
  BY DEF SyncSpec, AdvanceFsync, Unheld
<1>2. Place("syncSpec", c, txn, committing, late, disk, recent, Requests, ordered) /\ disk \in Disks
  BY <1>1, Holds
<1>3. PICK x \in Clients : TxnOf(txn, x, Requests)
  BY <1>1, JournalTxn DEF Installing
<1>4. disk.prov = txn.newProv /\ IsPrefix(txn.newSpec, disk.spec) /\ disk.journal = txn /\ txn \in Txns
  BY <1>2 DEF Place, Installing
<1>5. Tip(disk.prov) = txn.newSpec /\ txn.newSpec \in Texts /\ disk.spec \in Texts
  BY <1>2, <1>3, <1>4, TxnFacts DEF Disks
<1>6. ASSUME committing = TRUE PROVE Has(c, disk)
  <2>1. TxnOf(txn, c, Requests)
    BY <1>2, <1>6 DEF Place
  <2>2. c \in ClientsIn(txn.newSpec) /\ \E k \in DOMAIN txn.newProv : Last(txn.newProv[k].result) = c
    BY <2>1, TxnFacts
  <2>3. ClientsIn(txn.newSpec) \subseteq ClientsIn(disk.spec)
    BY <1>4, <1>5, PrefixClients
  <2>4. QED
    BY <1>4, <2>2, <2>3 DEF Has
<1>7. committing = TRUE => \A e \in recent' : Has(c, e)
  <2>1. \A e \in recent' : e.spec = disk.spec /\ e.prov = disk.prov
    BY <1>1, Holds, FsyncMixed
  <2>2. QED
    BY <1>6, <2>1 DEF Has
<1>8. committing = TRUE => TxnOf(txn, c, Requests) /\ (ordered = TRUE => Chain(txn.newProv))
  BY <1>2 DEF Place
<1>9. Place("rmSpecNew", c, txn, committing, late, disk, recent', Requests, ordered)
  BY <1>4, <1>5, <1>7, <1>8 DEF Place, Staging, Cleaning, Cleaned, Installing
<1>10. /\ "rmSpecNew" \in Locations \ Unheld /\ "rmSpecNew" \notin {"recover", "read"} /\ "syncSpec" \notin Unheld
       /\ "rmSpecNew" \notin {"compare", "mkRoot"} \cup Staging
  BY DEF Locations, Unheld, Staging
<1>11. AdvanceFsync(c, "syncSpec", IF "spec" = "spec" THEN FsyncSpecDir ELSE FsyncTxDir, "rmSpecNew")
  BY DEF SyncSpec
<1>12. QED
  BY <1>9, <1>10, <1>11, SyncStep

LEMMA HasSynced ==
  ASSUME IInv, NEW c \in Clients, pc[c] \in Cleaned, FsyncTxDir, committing = TRUE
  PROVE  \A e \in recent' : Has(c, e)
<1>1. pc[c] \notin Unheld
  BY DEF Cleaned, Unheld
<1>2. /\ Place(pc[c], c, txn, committing, late, disk, recent, Requests, ordered)
      /\ Mixed(recent', recent, ordered)
  BY <1>1, Holds, FsyncMixed
<1>3. \A d \in recent : Has(c, d)
  BY <1>2 DEF Place
<1>4. QED
  BY <1>2, <1>3 DEF Mixed, Has

LEMMA SyncCleanupInv ==
  ASSUME IInv, NEW c \in Clients, SyncCleanup(c), UNCHANGED ordered
  PROVE  IInv'
<1>1. pc[c] = "syncCleanup" /\ pc[c] \notin Unheld /\ FsyncTxDir
  BY DEF SyncCleanup, AdvanceFsync, Unheld
<1>2. Place("syncCleanup", c, txn, committing, late, disk, recent, Requests, ordered)
  BY <1>1, Holds
<1>3. committing = TRUE => \A e \in recent' : Has(c, e)
  BY <1>1, HasSynced DEF Cleaned
<1>4. Place("rmRoot", c, txn, committing, late, disk, recent', Requests, ordered)
  BY <1>2, <1>3 DEF Place, Staging, Cleaning, Cleaned, Installing
<1>5. /\ "rmRoot" \in Locations \ Unheld /\ "rmRoot" \notin {"recover", "read"} /\ "syncCleanup" \notin Unheld
      /\ "rmRoot" \notin {"compare", "mkRoot"} \cup Staging
  BY DEF Locations, Unheld, Staging
<1>6. AdvanceFsync(c, "syncCleanup", IF "tx" = "spec" THEN FsyncSpecDir ELSE FsyncTxDir, "rmRoot")
  BY DEF SyncCleanup
<1>7. QED
  BY <1>4, <1>5, <1>6, SyncStep

LEMMA SyncRootInv ==
  ASSUME IInv, NEW c \in Clients, SyncRoot(c), UNCHANGED ordered
  PROVE  IInv'
<1>1. /\ pc[c] = "syncRoot" /\ pc[c] \notin Unheld /\ FsyncTxDir
      /\ UNCHANGED <<base, edits, late, faults, ordered>>
  BY DEF SyncRoot, Unheld
<1>2. /\ Place("syncRoot", c, txn, committing, late, disk, recent, Requests, ordered)
      /\ committing \in BOOLEAN /\ late \in BOOLEAN /\ disk' = disk /\ disk \in recent'
      /\ Mixed(recent', recent, ordered)
  BY <1>1, Holds, FsyncMixed
<1>3. NoFiles(disk)
  BY <1>2 DEF Place, Cleaned
<1>4. CASE committing = TRUE /\ Answer(c, "done", "ok")
  <2>1. Answered(c, "ok", disk, recent')
    BY <1>1, <1>4, HasSynced DEF Answered, Cleaned
  <2>2. late' \in BOOLEAN /\ faults' \in 0 .. MaxFaults
    BY <1>1, <1>2 DEF IInv, TypeOK
  <2>3. UNCHANGED <<base, edits, ordered>>
    BY <1>1
  <2>4. QED
    BY <1>1, <1>2, <1>4, <2>1, <2>2, <2>3, Leaves
<1>5. CASE committing = FALSE /\ Goto(c, "read") /\ txn' = NoTxn /\ UNCHANGED <<holder, committing, outcome>>
  <2>1. Place("read", c, txn', committing, late, disk, recent', Requests, ordered)
    BY <1>3, <1>5 DEF Place, Staging, Cleaning, Cleaned, Installing
  <2>2. "read" \in Locations \ Unheld /\ "read" \notin {"compare", "mkRoot"} \cup Staging
    BY DEF Locations, Unheld, Staging
  <2>3. txn' \in Txns
    BY <1>5 DEF NoTxn, Txns, Texts
  <2>4. UNCHANGED <<holder, base, outcome, edits, late, faults, ordered>> /\ UNCHANGED committing
    BY <1>1, <1>5
  <2>5. QED
    BY <1>1, <1>5, <2>1, <2>2, <2>3, <2>4, Syncs
<1>6. QED
  BY <1>2, <1>4, <1>5 DEF SyncRoot

-----------------------------------------------------------------------------
(* Changes of the transaction root that leave the journal alone.            *)
LEMMA FollowsRoot ==
  ASSUME NEW now \in Disks, NEW d \in Disks, NEW all \in SUBSET Disks, now \in all, NEW q, NEW ord,
         Files(now, all, q, ord), d.spec = now.spec, d.prov = now.prov, d.journal = now.journal,
         ~d.dir => NoFiles(d), now.journal \in Txns /\ Forward(now, now) => Forward(d, d)
  PROVE  Follows(d, now, all, q, ord)
<1>1. SpecDir(now, now, q) /\ TxDir(now, q) /\ OneJournal(all) /\ Resumable(now, all)
      /\ (ord = TRUE => Whole(now))
  BY DEF Files
<1>2. Covered(d.spec, d.prov) /\ Issued(d.prov, q) /\ IsPrefix(now.prov, d.prov)
      /\ ClientsIn(now.spec) \subseteq ClientsIn(d.spec)
  BY <1>1 DEF SpecDir
<1>3. TxDir(d, q)
  BY <1>1 DEF TxDir
<1>4. OneJournal(all \cup {d})
  BY <1>1 DEF OneJournal
<1>5. ord = TRUE => Whole(d)
  BY <1>1 DEF Whole
<1>6. Resumable(d, all \cup {d})
  <2>1. SUFFICES ASSUME NEW f \in all \cup {d}, NEW x \in all \cup {d}, x.journal \in Txns, Forward(f, x)
                 PROVE  \/ d.journal = x.journal /\ Forward(d, d)
                        \/ Last(x.journal.newSpec) \in ClientsIn(d.spec)
    BY DEF Resumable
  <2>2. PICK g \in all : g.prov = f.prov
    BY <2>1
  <2>3. CASE x \in all
    <3>1. Forward(g, x)
      BY <2>1, <2>2 DEF Forward
    <3>2. \/ now.journal = x.journal /\ Forward(now, now)
          \/ Last(x.journal.newSpec) \in ClientsIn(now.spec)
      BY <1>1, <2>1, <2>3, <3>1 DEF Resumable
    <3>3. QED
      BY <2>1, <3>2
  <2>4. CASE x = d /\ Complete(d)
    BY <2>4 DEF Forward
  <2>5. CASE x = d /\ ~Complete(d)
    <3>1. f.prov = now.journal.newProv
      BY <2>1, <2>5 DEF Forward
    <3>2. now.journal \in Txns /\ Forward(g, now)
      BY <2>1, <2>2, <2>5, <3>1 DEF Forward
    <3>3. \/ Forward(now, now)
          \/ Last(now.journal.newSpec) \in ClientsIn(now.spec)
      BY <1>1, <3>2 DEF Resumable
    <3>4. QED
      BY <2>5, <3>2, <3>3
  <2>6. QED
    BY <2>1, <2>3, <2>4, <2>5
<1>7. QED
  BY <1>2, <1>3, <1>4, <1>5, <1>6 DEF Follows

LEMMA HasPut ==
  ASSUME NEW c, NEW all, NEW now \in all, NEW d, d.spec = now.spec, d.prov = now.prov, NEW some, NEW ord,
         Mixed(some, all \cup {d}, ord), \A f \in all : Has(c, f)
  PROVE  \A e \in some : Has(c, e)
<1>1. \A f \in all \cup {d} : Has(c, f)
  BY DEF Has
<1>2. QED
  BY <1>1 DEF Mixed, Has

(* The holder's own request has no answer yet.                              *)
LEMMA HolderUnanswered ==
  ASSUME IInv, NEW c \in Clients, pc[c] \notin Unheld
  PROVE  outcome[c] \notin {"ok", "refused"}
BY DEF IInv, Control, Unheld

LEMMA NotAbsent ==
  ASSUME NEW t \in Txns
  PROVE  t # Absent /\ t.newSpec # Absent /\ t.newProv # Absent
BY DEF Txns

LEMMA MakeRootInv ==
  ASSUME IInv, NEW c \in Clients, MakeRoot(c), UNCHANGED ordered
  PROVE  IInv'
<1> DEFINE d == [disk EXCEPT !.dir = TRUE]
<1>1. Advance(c, "mkRoot", d, "syncParents") /\ pc[c] = "mkRoot" /\ pc[c] \notin Unheld /\ Put(d)
  BY DEF MakeRoot, Advance, Unheld
<1>2. /\ disk \in Disks /\ recent \in SUBSET Disks /\ disk \in recent /\ ordered \in BOOLEAN
      /\ Place("mkRoot", c, txn, committing, late, disk, recent, Requests, ordered)
  BY <1>1, Holds
<1>3. /\ d \in Disks /\ d.dir = TRUE /\ d.journal = disk.journal /\ d.specNew = disk.specNew
      /\ d.provNew = disk.provNew /\ d.spec = disk.spec /\ d.prov = disk.prov
  BY <1>2 DEF Disks
<1> HIDE DEF d
<1>4. committing = TRUE
  BY <1>1 DEF IInv, Control
<1>5. NoFiles(disk) /\ NoFiles(d)
  BY <1>2, <1>3 DEF Place, NoFiles
<1>6. disk.journal \notin Txns /\ d.journal \notin Txns
  BY <1>5 DEF NoFiles
<1>7. Follows(d, disk, recent, Requests, ordered)
  BY <1>2, <1>3, <1>6, FollowsRoot DEF IInv
<1>8. Place("syncParents", c, txn, committing, late, d, recent', Requests, ordered)
  BY <1>2, <1>3, <1>5 DEF Place, Staging, Cleaning, Cleaned, Installing
<1>9. "syncParents" \in Locations \ Unheld /\ "syncParents" \notin {"recover", "read"} /\ "mkRoot" \notin Unheld
  BY DEF Locations, Unheld
<1>10. \A x \in Clients : outcome[x] = "refused" =>
         /\ x \notin ClientsIn(d.spec)
         /\ d.journal \in Txns /\ Last(d.journal.newSpec) = x => ~Forward(d, d)
  BY <1>3, <1>6, RefusedNow
<1>11. QED
  BY <1>1, <1>3, <1>4, <1>7, <1>8, <1>9, <1>10, Puts

LEMMA OpenJournalInv ==
  ASSUME IInv, NEW c \in Clients, OpenJournal(c), UNCHANGED ordered
  PROVE  IInv'
<1> DEFINE d == [disk EXCEPT !.journal = Torn]
<1>1. Advance(c, "openJournal", d, "writeJournal") /\ pc[c] = "openJournal" /\ pc[c] \notin Unheld /\ Put(d)
  BY DEF OpenJournal, Advance, Unheld
<1>2. /\ disk \in Disks /\ recent \in SUBSET Disks /\ disk \in recent /\ ordered \in BOOLEAN
      /\ Place("openJournal", c, txn, committing, late, disk, recent, Requests, ordered)
      /\ SpecDir(disk, disk, Requests) /\ (ordered = TRUE => Whole(disk))
  BY <1>1, Holds
<1>3. /\ d \in Disks /\ d.dir = disk.dir /\ d.journal = Torn /\ d.specNew = disk.specNew
      /\ d.provNew = disk.provNew /\ d.spec = disk.spec /\ d.prov = disk.prov
  BY <1>2 DEF Disks
<1> HIDE DEF d
<1>4. committing = TRUE
  BY <1>1 DEF IInv, Control, Staging
<1>5. \A x \in recent \cup {d} : x.journal \notin Txns /\ x.specNew = Absent /\ x.provNew = Absent
  BY <1>2, <1>3 DEF Place
<1>6. disk.dir /\ NoFiles(disk) /\ disk.prov = txn.oldProv
      /\ (disk.spec = txn.oldSpec \/ late = TRUE) /\ ClientsIn(disk.spec) = ClientsIn(txn.oldSpec)
      /\ (committing = TRUE => TxnOf(txn, c, Requests) /\ (ordered = TRUE => Chain(txn.newProv)))
  BY <1>2 DEF Place, Staging
<1>7. Follows(d, disk, recent, Requests, ordered)
  <2>1. Covered(d.spec, d.prov) /\ Issued(d.prov, Requests) /\ IsPrefix(disk.prov, d.prov)
        /\ ClientsIn(disk.spec) \subseteq ClientsIn(d.spec)
    BY <1>2, <1>3 DEF SpecDir
  <2>2. TxDir(d, Requests)
    BY <1>3, <1>5, <1>6 DEF TxDir
  <2>3. OneJournal(recent \cup {d}) /\ Resumable(d, recent \cup {d})
    BY <1>5 DEF OneJournal, Resumable
  <2>4. ordered = TRUE => Whole(d)
    <3>1. d.journal # Absent
      BY <1>3
    <3>2. QED
      BY <1>2, <1>3, <1>5, <3>1 DEF Whole
  <2>5. QED
    BY <2>1, <2>2, <2>3, <2>4 DEF Follows
<1>8. \A e \in recent' : e.journal \notin Txns /\ e.specNew = Absent /\ e.provNew = Absent
  <2>1. Mixed(recent', recent \cup {d}, ordered)
    BY <1>1, <1>2, <1>3, PutMixed
  <2>2. QED
    BY <1>5, <2>1 DEF Mixed
<1>9. Place("writeJournal", c, txn, committing, late, d, recent', Requests, ordered)
  BY <1>3, <1>6, <1>8 DEF Place, Staging, Cleaning, Cleaned, Installing
<1>10. "writeJournal" \in Locations \ Unheld /\ "writeJournal" \notin {"recover", "read"} /\ "openJournal" \notin Unheld
  BY DEF Locations, Unheld
<1>11. \A x \in Clients : outcome[x] = "refused" =>
         /\ x \notin ClientsIn(d.spec)
         /\ d.journal \in Txns /\ Last(d.journal.newSpec) = x => ~Forward(d, d)
  BY <1>3, <1>5, RefusedNow
<1>12. QED
  BY <1>1, <1>3, <1>4, <1>7, <1>9, <1>10, <1>11, Puts

LEMMA WriteJournalInv ==
  ASSUME IInv, NEW c \in Clients, WriteJournal(c), UNCHANGED ordered
  PROVE  IInv'
<1> DEFINE d == [disk EXCEPT !.journal = txn]
<1>1. Advance(c, "writeJournal", d, "syncJournal") /\ pc[c] = "writeJournal" /\ pc[c] \notin Unheld /\ Put(d)
  BY DEF WriteJournal, Advance, Unheld
<1>2. /\ disk \in Disks /\ recent \in SUBSET Disks /\ disk \in recent /\ ordered \in BOOLEAN /\ txn \in Txns
      /\ Place("writeJournal", c, txn, committing, late, disk, recent, Requests, ordered)
      /\ SpecDir(disk, disk, Requests) /\ (ordered = TRUE => Whole(disk))
  BY <1>1, Holds
<1>3. /\ d \in Disks /\ d.dir = disk.dir /\ d.journal = txn /\ d.specNew = disk.specNew
      /\ d.provNew = disk.provNew /\ d.spec = disk.spec /\ d.prov = disk.prov
  BY <1>2 DEF Disks
<1> HIDE DEF d
<1>4. committing = TRUE
  BY <1>1 DEF IInv, Control, Staging
<1>5. \A x \in recent : x.journal \notin Txns /\ x.specNew = Absent /\ x.provNew = Absent
  BY <1>2 DEF Place
<1>6. disk.dir /\ disk.prov = txn.oldProv
      /\ (disk.spec = txn.oldSpec \/ late = TRUE) /\ ClientsIn(disk.spec) = ClientsIn(txn.oldSpec)
      /\ TxnOf(txn, c, Requests) /\ (ordered = TRUE => Chain(txn.newProv))
  BY <1>2, <1>4 DEF Place, Staging
<1>7. ~Complete(d)
  BY <1>2, <1>3, <1>5 DEF Complete
<1>8. ASSUME NEW f \in recent \cup {d} PROVE f.prov # txn.newProv
  <2>1. /\ txn.oldProv \in Seq(Entries) /\ txn.newProv \in Seq(Entries)
        /\ Len(txn.newProv) = Len(txn.oldProv) + 1
    BY <1>6, TxnFacts
  <2>2. IsPrefix(f.prov, disk.prov) /\ f.prov \in Seq(Entries)
    <3>1. CASE f \in recent
      BY <1>2, <3>1 DEF IInv, Files, SpecDir, Disks
    <3>2. CASE f = d
      BY <1>2, <1>3, <3>2 DEF SpecDir, Disks
    <3>3. QED
      BY <3>1, <3>2
  <2>3. Len(f.prov) <= Len(txn.oldProv)
    BY <1>6, <2>1, <2>2, PrefixIndex
  <2>4. QED
    BY <2>1, <2>3
<1>9. ~Forward(d, d)
  BY <1>3, <1>7, <1>8 DEF Forward
<1>10. Follows(d, disk, recent, Requests, ordered)
  <2>1. Covered(d.spec, d.prov) /\ Issued(d.prov, Requests) /\ IsPrefix(disk.prov, d.prov)
        /\ ClientsIn(disk.spec) \subseteq ClientsIn(d.spec)
    BY <1>2, <1>3 DEF SpecDir
  <2>2. TxDir(d, Requests)
    BY <1>3, <1>6 DEF TxDir
  <2>3. OneJournal(recent \cup {d})
    BY <1>5 DEF OneJournal
  <2>4. Resumable(d, recent \cup {d})
    <3>1. SUFFICES ASSUME NEW f \in recent \cup {d}, NEW x \in recent \cup {d}, x.journal \in Txns, Forward(f, x)
                   PROVE  FALSE
      BY DEF Resumable
    <3>2. x = d
      BY <1>5, <3>1
    <3>3. QED
      BY <1>3, <1>7, <1>8, <3>1, <3>2 DEF Forward
  <2>5. ordered = TRUE => Whole(d)
    <3>1. d.journal # Absent
      BY <1>2, <1>3, NotAbsent
    <3>2. QED
      BY <1>2, <1>3, <1>6, <3>1 DEF Whole
  <2>6. QED
    BY <2>1, <2>2, <2>3, <2>4, <2>5 DEF Follows
<1>11. Place("syncJournal", c, txn, committing, late, d, recent', Requests, ordered)
  BY <1>2, <1>3, <1>4, <1>6 DEF Place, Staging, Cleaning, Cleaned, Installing
<1>12. "syncJournal" \in Locations \ Unheld /\ "syncJournal" \notin {"recover", "read"} /\ "writeJournal" \notin Unheld
  BY DEF Locations, Unheld
<1>13. \A x \in Clients : outcome[x] = "refused" =>
         /\ x \notin ClientsIn(d.spec)
         /\ d.journal \in Txns /\ Last(d.journal.newSpec) = x => ~Forward(d, d)
  BY <1>3, <1>9, RefusedNow
<1>14. QED
  BY <1>1, <1>3, <1>4, <1>10, <1>11, <1>12, <1>13, Puts

(* The stages are written one after the other under the journal.            *)
LEMMA StagePuts ==
  ASSUME IInv, NEW c \in Clients, UNCHANGED ordered,
         NEW from \in {"openSpecNew", "writeSpecNew", "openProvNew", "writeProvNew"},
         NEW to \in {"writeSpecNew", "openProvNew", "writeProvNew", "syncStages"},
         NEW d \in Disks, Advance(c, from, d, to),
         d.dir = disk.dir, d.journal = disk.journal, d.spec = disk.spec, d.prov = disk.prov,
         Complete(disk) => Complete(d),
         Place(to, c, txn, committing, late, d, recent', Requests, ordered)
  PROVE  IInv'
<1>1. pc[c] = from /\ pc[c] \notin Unheld /\ from \notin Unheld
  BY DEF Advance, Unheld
<1>2. /\ disk \in Disks /\ recent \in SUBSET Disks /\ disk \in recent /\ ordered \in BOOLEAN
      /\ TxDir(disk, Requests)
  BY <1>1, Holds
<1>3. disk.journal = txn /\ txn \in Txns /\ (committing = TRUE => TxnOf(txn, c, Requests))
  BY <1>1, JournalTxn
<1>4. committing = TRUE
  BY <1>1 DEF IInv, Control, Staging
<1>5. Last(txn.newSpec) = c
  BY <1>3, <1>4, TxnFacts
<1>6. ~d.dir => NoFiles(d)
  BY <1>2, <1>3, NotAbsent DEF TxDir, NoFiles
<1>7. disk.journal \in Txns /\ Forward(disk, disk) => Forward(d, d)
  BY DEF Forward
<1>8. Follows(d, disk, recent, Requests, ordered)
  BY <1>2, <1>6, <1>7, FollowsRoot DEF IInv
<1>9. \A x \in Clients : outcome[x] = "refused" =>
        /\ x \notin ClientsIn(d.spec)
        /\ d.journal \in Txns /\ Last(d.journal.newSpec) = x => ~Forward(d, d)
  BY <1>1, <1>3, <1>5, RefusedNow, HolderUnanswered
<1>10. to \in Locations \ Unheld /\ to \notin {"recover", "read"}
  BY DEF Locations, Unheld
<1>11. QED
  BY <1>1, <1>4, <1>8, <1>9, <1>10, Puts

LEMMA OpenSpecNewInv ==
  ASSUME IInv, NEW c \in Clients, OpenSpecNew(c), UNCHANGED ordered
  PROVE  IInv'
<1> DEFINE d == [disk EXCEPT !.specNew = Torn]
<1>1. Advance(c, "openSpecNew", d, "writeSpecNew") /\ pc[c] = "openSpecNew" /\ pc[c] \notin Unheld
  BY DEF OpenSpecNew, Advance, Unheld
<1>2. disk \in Disks /\ Place("openSpecNew", c, txn, committing, late, disk, recent, Requests, ordered)
  BY <1>1, Holds
<1>3. /\ d \in Disks /\ d.dir = disk.dir /\ d.journal = disk.journal /\ d.specNew = Torn
      /\ d.provNew = disk.provNew /\ d.spec = disk.spec /\ d.prov = disk.prov
  BY <1>2 DEF Disks
<1> HIDE DEF d
<1>4. Place("writeSpecNew", c, txn, committing, late, d, recent', Requests, ordered)
  BY <1>2, <1>3 DEF Place, Staging, Cleaning, Cleaned, Installing
<1>5. Complete(disk) => Complete(d)
  BY <1>3 DEF Complete
<1>6. QED
  BY <1>1, <1>3, <1>4, <1>5, StagePuts

LEMMA WriteSpecNewInv ==
  ASSUME IInv, NEW c \in Clients, WriteSpecNew(c), UNCHANGED ordered
  PROVE  IInv'
<1> DEFINE d == [disk EXCEPT !.specNew = txn.newSpec]
<1>1. Advance(c, "writeSpecNew", d, "openProvNew") /\ pc[c] = "writeSpecNew" /\ pc[c] \notin Unheld
  BY DEF WriteSpecNew, Advance, Unheld
<1>2. /\ disk \in Disks /\ txn \in Txns
      /\ Place("writeSpecNew", c, txn, committing, late, disk, recent, Requests, ordered)
  BY <1>1, Holds
<1>3. /\ d \in Disks /\ d.dir = disk.dir /\ d.journal = disk.journal /\ d.specNew = txn.newSpec
      /\ d.provNew = disk.provNew /\ d.spec = disk.spec /\ d.prov = disk.prov
  BY <1>2 DEF Disks, Txns
<1> HIDE DEF d
<1>4. Place("openProvNew", c, txn, committing, late, d, recent', Requests, ordered)
  BY <1>2, <1>3 DEF Place, Staging, Cleaning, Cleaned, Installing
<1>5. Complete(disk) => Complete(d)
  BY <1>2, <1>3, NotAbsent DEF Complete
<1>6. QED
  BY <1>1, <1>3, <1>4, <1>5, StagePuts

LEMMA OpenProvNewInv ==
  ASSUME IInv, NEW c \in Clients, OpenProvNew(c), UNCHANGED ordered
  PROVE  IInv'
<1> DEFINE d == [disk EXCEPT !.provNew = Torn]
<1>1. Advance(c, "openProvNew", d, "writeProvNew") /\ pc[c] = "openProvNew" /\ pc[c] \notin Unheld
  BY DEF OpenProvNew, Advance, Unheld
<1>2. disk \in Disks /\ Place("openProvNew", c, txn, committing, late, disk, recent, Requests, ordered)
  BY <1>1, Holds
<1>3. /\ d \in Disks /\ d.dir = disk.dir /\ d.journal = disk.journal /\ d.specNew = disk.specNew
      /\ d.provNew = Torn /\ d.spec = disk.spec /\ d.prov = disk.prov
  BY <1>2 DEF Disks
<1> HIDE DEF d
<1>4. Place("writeProvNew", c, txn, committing, late, d, recent', Requests, ordered)
  BY <1>2, <1>3 DEF Place, Staging, Cleaning, Cleaned, Installing
<1>5. Complete(disk) => Complete(d)
  BY <1>3 DEF Complete
<1>6. QED
  BY <1>1, <1>3, <1>4, <1>5, StagePuts

LEMMA WriteProvNewInv ==
  ASSUME IInv, NEW c \in Clients, WriteProvNew(c), UNCHANGED ordered
  PROVE  IInv'
<1> DEFINE d == [disk EXCEPT !.provNew = txn.newProv]
<1>1. Advance(c, "writeProvNew", d, "syncStages") /\ pc[c] = "writeProvNew" /\ pc[c] \notin Unheld
  BY DEF WriteProvNew, Advance, Unheld
<1>2. /\ disk \in Disks /\ txn \in Txns
      /\ Place("writeProvNew", c, txn, committing, late, disk, recent, Requests, ordered)
  BY <1>1, Holds
<1>3. /\ d \in Disks /\ d.dir = disk.dir /\ d.journal = disk.journal /\ d.specNew = disk.specNew
      /\ d.provNew = txn.newProv /\ d.spec = disk.spec /\ d.prov = disk.prov
  BY <1>2 DEF Disks, Txns
<1> HIDE DEF d
<1>4. Place("syncStages", c, txn, committing, late, d, recent', Requests, ordered)
  BY <1>2, <1>3 DEF Place, Staging, Cleaning, Cleaned, Installing
<1>5. Complete(disk) => Complete(d)
  BY <1>2, <1>3, NotAbsent DEF Complete
<1>6. QED
  BY <1>1, <1>3, <1>4, <1>5, StagePuts

-----------------------------------------------------------------------------
(* The installation of the provenance, and then of the spec.                *)
LEMMA FollowsInstall ==
  ASSUME IInv, NEW c \in Clients, pc[c] \in {"installProv", "installSpec"}, NEW d \in Disks,
         d.dir = disk.dir, d.journal = disk.journal, d.prov = txn.newProv,
         IsPrefix(disk.prov, d.prov), Covered(d.spec, d.prov), ClientsIn(disk.spec) \subseteq ClientsIn(d.spec)
  PROVE  Follows(d, disk, recent, Requests, ordered)
<1>1. pc[c] \notin Unheld
  BY DEF Unheld
<1>2. /\ disk.journal = txn /\ txn \in Txns
      /\ disk \in recent /\ TxDir(disk, Requests) /\ (ordered = TRUE => Whole(disk))
      /\ OneJournal(recent)
  BY <1>1, JournalTxn, Holds DEF Installing, IInv, Files
<1>3. PICK y \in Clients : TxnOf(txn, y, Requests)
  BY <1>1, JournalTxn DEF Installing
<1>4. Issued(d.prov, Requests)
  BY <1>3, TxnFacts
<1>5. txn # Absent
  BY <1>2, NotAbsent
<1>6. TxDir(d, Requests)
  BY <1>2, <1>3, <1>5 DEF TxDir, NoFiles
<1>7. OneJournal(recent \cup {d})
  BY <1>2 DEF OneJournal
<1>8. d.journal \in Txns /\ Forward(d, d)
  BY <1>2 DEF Forward
<1>9. Resumable(d, recent \cup {d})
  <2>1. \A x \in recent \cup {d} : x.journal \in Txns => d.journal = x.journal
    BY <1>7, <1>8 DEF OneJournal
  <2>2. QED
    BY <1>8, <2>1 DEF Resumable
<1>10. ordered = TRUE => Whole(d)
  BY <1>2, <1>5 DEF Whole
<1>11. QED
  BY <1>4, <1>6, <1>7, <1>9, <1>10 DEF Follows

LEMMA InstallProvInv ==
  ASSUME IInv, NEW c \in Clients, InstallProv(c), UNCHANGED ordered
  PROVE  IInv'
<1> DEFINE e == [disk EXCEPT !.prov = disk.provNew]
           d == [e EXCEPT !.provNew = Absent]
<1>1. pc[c] = "installProv" /\ pc[c] \notin Unheld
  BY DEF InstallProv, Advance, Unheld
<1>2. /\ disk \in Disks /\ txn \in Txns /\ SpecDir(disk, disk, Requests)
      /\ Place("installProv", c, txn, committing, late, disk, recent, Requests, ordered)
  BY <1>1, Holds
<1>3. /\ disk.provNew = txn.newProv /\ disk.prov = txn.oldProv /\ disk.specNew = txn.newSpec
      /\ disk.journal = txn
  BY <1>2 DEF Place, Installing
<1>4. PICK y \in Clients : TxnOf(txn, y, Requests)
  BY <1>1, JournalTxn DEF Installing
<1>5. txn.oldProv \in Seq(Entries) /\ txn.newProv \in Seq(Entries) /\ IsPrefix(txn.oldProv, txn.newProv)
  BY <1>4, TxnFacts
<1>6. Advance(c, "installProv", d, "syncProv")
  <2>1. d = [disk EXCEPT !.prov = disk.provNew, !.provNew = Absent]
    BY <1>2 DEF d, e, Disks
  <2>2. QED
    BY <2>1 DEF InstallProv
<1>7. /\ e \in Disks /\ e.dir = disk.dir /\ e.journal = disk.journal /\ e.specNew = disk.specNew
      /\ e.spec = disk.spec /\ e.prov = txn.newProv
  BY <1>2, <1>3, <1>5 DEF Disks
<1> HIDE DEF e
<1>8. /\ d \in Disks /\ d.dir = disk.dir /\ d.journal = disk.journal /\ d.specNew = disk.specNew
      /\ d.spec = disk.spec /\ d.prov = txn.newProv /\ d.provNew = Absent
  BY <1>7 DEF Disks
<1> HIDE DEF d
<1>9. Covered(d.spec, d.prov) /\ IsPrefix(disk.prov, d.prov)
  BY <1>2, <1>3, <1>5, <1>8, CoveredGrow DEF SpecDir
<1>10. Follows(d, disk, recent, Requests, ordered)
  BY <1>1, <1>8, <1>9, FollowsInstall
<1>11. Place("syncProv", c, txn, committing, late, d, recent', Requests, ordered)
  BY <1>2, <1>3, <1>8 DEF Place, Staging, Cleaning, Cleaned, Installing
<1>12. Forward(disk, disk)
  BY <1>2, <1>3, NotAbsent DEF Forward, Complete
<1>13. \A x \in Clients : outcome[x] = "refused" =>
         /\ x \notin ClientsIn(d.spec)
         /\ d.journal \in Txns /\ Last(d.journal.newSpec) = x => ~Forward(d, d)
  BY <1>8, <1>12, RefusedNow
<1>14. /\ "syncProv" \in Locations \ Unheld /\ "syncProv" \notin {"recover", "read"} /\ "installProv" \notin Unheld
       /\ "syncProv" \notin {"compare", "mkRoot"} \cup Staging
  BY DEF Locations, Installing, Unheld, Staging
<1>15. QED
  BY <1>6, <1>8, <1>10, <1>11, <1>13, <1>14, Puts

LEMMA InstallSpecInv ==
  ASSUME IInv, NEW c \in Clients, InstallSpec(c), UNCHANGED ordered
  PROVE  IInv'
<1> DEFINE e == [disk EXCEPT !.spec = disk.specNew]
           d == [e EXCEPT !.specNew = Absent]
<1>1. pc[c] = "installSpec" /\ pc[c] \notin Unheld
  BY DEF InstallSpec, Advance, Unheld
<1>2. /\ disk \in Disks /\ txn \in Txns
      /\ Place("installSpec", c, txn, committing, late, disk, recent, Requests, ordered)
  BY <1>1, Holds
<1>3. /\ disk.specNew = txn.newSpec /\ disk.prov = txn.newProv /\ disk.journal = txn
      /\ ClientsIn(disk.spec) = ClientsIn(txn.oldSpec)
      /\ (committing = TRUE => TxnOf(txn, c, Requests) /\ (ordered = TRUE => Chain(txn.newProv)))
  BY <1>2 DEF Place, Installing
<1>4. PICK y \in Clients : TxnOf(txn, y, Requests)
  BY <1>1, JournalTxn DEF Installing
<1>5. /\ txn.newSpec \in Texts /\ txn.newProv \in Seq(Entries) /\ Covered(txn.newSpec, txn.newProv)
      /\ ClientsIn(txn.newSpec) = ClientsIn(txn.oldSpec) \cup {y} /\ Last(txn.newSpec) = y
  BY <1>4, TxnFacts
<1>6. Advance(c, "installSpec", d, "syncSpec")
  <2>1. d = [disk EXCEPT !.spec = disk.specNew, !.specNew = Absent]
    BY <1>2 DEF d, e, Disks
  <2>2. QED
    BY <2>1 DEF InstallSpec
<1>7. /\ e \in Disks /\ e.dir = disk.dir /\ e.journal = disk.journal /\ e.provNew = disk.provNew
      /\ e.spec = txn.newSpec /\ e.prov = disk.prov
  BY <1>2, <1>3, <1>5 DEF Disks
<1> HIDE DEF e
<1>8. /\ d \in Disks /\ d.dir = disk.dir /\ d.journal = disk.journal /\ d.provNew = disk.provNew
      /\ d.spec = txn.newSpec /\ d.prov = disk.prov /\ d.specNew = Absent
  BY <1>7 DEF Disks
<1> HIDE DEF d
<1>9. Covered(d.spec, d.prov) /\ IsPrefix(disk.prov, d.prov) /\ ClientsIn(disk.spec) \subseteq ClientsIn(d.spec)
  BY <1>3, <1>5, <1>8, PrefixRefl
<1>10. Follows(d, disk, recent, Requests, ordered)
  BY <1>1, <1>3, <1>8, <1>9, FollowsInstall
<1>11. IsPrefix(txn.newSpec, d.spec)
  BY <1>5, <1>8, PrefixRefl DEF Texts
<1>12. Place("syncSpec", c, txn, committing, late, d, recent', Requests, ordered)
  BY <1>2, <1>3, <1>8, <1>11 DEF Place, Staging, Cleaning, Cleaned, Installing
<1>13. Forward(disk, disk)
  BY <1>3 DEF Forward
<1>14. \A x \in Clients : outcome[x] = "refused" =>
         /\ x \notin ClientsIn(d.spec)
         /\ d.journal \in Txns /\ Last(d.journal.newSpec) = x => ~Forward(d, d)
  BY <1>2, <1>3, <1>5, <1>8, <1>13, RefusedNow
<1>15. /\ "syncSpec" \in Locations \ Unheld /\ "syncSpec" \notin {"recover", "read"} /\ "installSpec" \notin Unheld
       /\ "syncSpec" \notin {"compare", "mkRoot"} \cup Staging
  BY DEF Locations, Installing, Unheld, Staging
<1>16. QED
  BY <1>6, <1>8, <1>10, <1>12, <1>14, <1>15, Puts

-----------------------------------------------------------------------------
(* cleanup.  A stage is removed only when recovery no longer needs it.      *)
LEMMA CleanPuts ==
  ASSUME IInv, NEW c \in Clients, UNCHANGED ordered, NEW from \in {"rmSpecNew", "rmProvNew"},
         NEW to \in {"rmProvNew", "rmJournal"}, NEW d \in Disks, Advance(c, from, d, to),
         d.dir = disk.dir, d.journal = disk.journal, d.spec = disk.spec, d.prov = disk.prov,
         Complete(d) => Complete(disk), to \in {"rmProvNew", "rmJournal"} => d.specNew = Absent,
         to = "rmJournal" => d.provNew = Absent
  PROVE  IInv'
<1>1. pc[c] = from /\ pc[c] \notin Unheld /\ from \notin Unheld /\ Put(d)
  BY DEF Advance, Unheld
<1>2. /\ disk \in Disks /\ recent \in SUBSET Disks /\ disk \in recent /\ ordered \in BOOLEAN
      /\ TxDir(disk, Requests) /\ Place(from, c, txn, committing, late, disk, recent, Requests, ordered)
  BY <1>1, Holds
<1>3. disk.journal = txn /\ txn \in Txns
  BY <1>1, JournalTxn DEF Cleaning
<1>4. PICK y \in Clients : TxnOf(txn, y, Requests)
  BY <1>1, JournalTxn DEF Cleaning
<1>5. txn.oldProv # txn.newProv
  BY <1>4, TxnFacts
<1>6. /\ \/ disk.prov = txn.oldProv /\ ~Complete(disk)
         \/ disk.prov = txn.newProv /\ IsPrefix(txn.newSpec, disk.spec)
      /\ ordered = TRUE => IsPrefix(Tip(disk.prov), disk.spec)
      /\ committing = TRUE => TxnOf(txn, c, Requests) /\ (ordered = TRUE => Chain(txn.newProv))
      /\ committing = TRUE => \A e \in recent : Has(c, e)
  BY <1>2 DEF Place, Cleaning
<1>7. Forward(disk, disk) <=> Forward(d, d)
  BY <1>3, <1>5, <1>6 DEF Forward
<1>8. ~d.dir => NoFiles(d)
  BY <1>2, <1>3, NotAbsent DEF TxDir, NoFiles
<1>9. Follows(d, disk, recent, Requests, ordered)
  BY <1>2, <1>7, <1>8, FollowsRoot DEF IInv
<1>10. committing = TRUE => \A e \in recent' : Has(c, e)
  <2>1. Mixed(recent', recent \cup {d}, ordered)
    BY <1>1, <1>2, PutMixed
  <2>2. QED
    BY <1>2, <1>6, <2>1, HasPut
<1>11. \/ d.prov = txn.oldProv /\ ~Complete(d)
       \/ d.prov = txn.newProv /\ IsPrefix(txn.newSpec, d.spec)
  BY <1>6
<1>12. Place(to, c, txn, committing, late, d, recent', Requests, ordered)
  BY <1>3, <1>6, <1>10, <1>11 DEF Place, Staging, Cleaning, Cleaned, Installing
<1>13. \A x \in Clients : outcome[x] = "refused" =>
         /\ x \notin ClientsIn(d.spec)
         /\ d.journal \in Txns /\ Last(d.journal.newSpec) = x => ~Forward(d, d)
  BY <1>7, RefusedNow
<1>14. /\ to \in Locations \ Unheld /\ to \notin {"recover", "read"}
       /\ to \notin {"compare", "mkRoot"} \cup Staging
  BY DEF Locations, Unheld, Staging
<1>15. QED
  BY <1>1, <1>9, <1>12, <1>13, <1>14, Puts

LEMMA RemoveSpecNewInv ==
  ASSUME IInv, NEW c \in Clients, RemoveSpecNew(c), UNCHANGED ordered
  PROVE  IInv'
<1> DEFINE d == [disk EXCEPT !.specNew = Absent]
<1>1. Advance(c, "rmSpecNew", d, "rmProvNew") /\ pc[c] = "rmSpecNew" /\ pc[c] \notin Unheld
  BY DEF RemoveSpecNew, Advance, Unheld
<1>2. disk \in Disks
  BY <1>1, Holds
<1>3. /\ d \in Disks /\ d.dir = disk.dir /\ d.journal = disk.journal /\ d.specNew = Absent
      /\ d.provNew = disk.provNew /\ d.spec = disk.spec /\ d.prov = disk.prov
  BY <1>2 DEF Disks
<1> HIDE DEF d
<1>4. Complete(d) => Complete(disk)
  BY <1>3 DEF Complete
<1>5. QED
  BY <1>1, <1>3, <1>4, CleanPuts

LEMMA RemoveProvNewInv ==
  ASSUME IInv, NEW c \in Clients, RemoveProvNew(c), UNCHANGED ordered
  PROVE  IInv'
<1> DEFINE d == [disk EXCEPT !.provNew = Absent]
<1>1. Advance(c, "rmProvNew", d, "rmJournal") /\ pc[c] = "rmProvNew" /\ pc[c] \notin Unheld
  BY DEF RemoveProvNew, Advance, Unheld
<1>2. disk \in Disks /\ Place("rmProvNew", c, txn, committing, late, disk, recent, Requests, ordered)
  BY <1>1, Holds
<1>3. /\ d \in Disks /\ d.dir = disk.dir /\ d.journal = disk.journal /\ d.specNew = disk.specNew
      /\ d.provNew = Absent /\ d.spec = disk.spec /\ d.prov = disk.prov
  BY <1>2 DEF Disks
<1> HIDE DEF d
<1>4. Complete(d) => Complete(disk)
  BY <1>3 DEF Complete
<1>5. d.specNew = Absent
  BY <1>2, <1>3 DEF Place
<1>6. QED
  BY <1>1, <1>3, <1>4, <1>5, CleanPuts

(* The journal goes last: what it describes is done, or undone for good.    *)
LEMMA RemoveJournalInv ==
  ASSUME IInv, NEW c \in Clients, RemoveJournal(c), UNCHANGED ordered
  PROVE  IInv'
<1> DEFINE d == [disk EXCEPT !.journal = Absent]
<1>1. Advance(c, "rmJournal", d, "syncCleanup") /\ pc[c] = "rmJournal" /\ pc[c] \notin Unheld /\ Put(d)
  BY DEF RemoveJournal, Advance, Unheld
<1>2. /\ disk \in Disks /\ recent \in SUBSET Disks /\ disk \in recent /\ ordered \in BOOLEAN
      /\ SpecDir(disk, disk, Requests) /\ (ordered = TRUE => Whole(disk))
      /\ Place("rmJournal", c, txn, committing, late, disk, recent, Requests, ordered)
  BY <1>1, Holds
<1>3. /\ d \in Disks /\ d.dir = disk.dir /\ d.journal = Absent /\ d.specNew = disk.specNew
      /\ d.provNew = disk.provNew /\ d.spec = disk.spec /\ d.prov = disk.prov
  BY <1>2 DEF Disks
<1> HIDE DEF d
<1>4. disk.journal = txn /\ txn \in Txns
  BY <1>1, JournalTxn DEF Cleaning
<1>5. PICK y \in Clients : TxnOf(txn, y, Requests)
  BY <1>1, JournalTxn DEF Cleaning
<1>6. /\ txn.oldProv # txn.newProv /\ txn.newSpec \in Texts /\ Last(txn.newSpec) = y
      /\ y \in ClientsIn(txn.newSpec)
  BY <1>5, TxnFacts
<1>7. /\ \/ disk.prov = txn.oldProv /\ ~Complete(disk)
         \/ disk.prov = txn.newProv /\ IsPrefix(txn.newSpec, disk.spec)
      /\ ordered = TRUE => IsPrefix(Tip(disk.prov), disk.spec)
      /\ disk.specNew = Absent /\ disk.provNew = Absent
      /\ committing = TRUE => TxnOf(txn, c, Requests) /\ (ordered = TRUE => Chain(txn.newProv))
      /\ committing = TRUE => \A e \in recent : Has(c, e)
  BY <1>2 DEF Place, Cleaning
<1>8. NoFiles(d)
  BY <1>3, <1>7 DEF NoFiles
<1>9. Forward(disk, disk) => y \in ClientsIn(disk.spec)
  <2>1. SUFFICES ASSUME Forward(disk, disk) PROVE y \in ClientsIn(disk.spec)
    OBVIOUS
  <2>2. IsPrefix(txn.newSpec, disk.spec)
    BY <1>4, <1>6, <1>7, <2>1 DEF Forward
  <2>3. disk.spec \in Texts
    BY <1>2 DEF Disks
  <2>4. QED
    BY <1>6, <2>2, <2>3, PrefixClients
<1>10. Resumable(d, recent \cup {d})
  <2>1. SUFFICES ASSUME NEW f \in recent \cup {d}, NEW x \in recent \cup {d}, x.journal \in Txns, Forward(f, x)
                 PROVE  Last(x.journal.newSpec) \in ClientsIn(d.spec)
    BY DEF Resumable
  <2>2. x \in recent
    BY <1>3, <2>1
  <2>3. PICK g \in recent : g.prov = f.prov
    BY <1>2, <1>3
  <2>4. Forward(g, x)
    BY <2>1, <2>3 DEF Forward
  <2>5. x.journal = txn
    BY <1>2, <1>4, <2>1, <2>2 DEF IInv, Files, OneJournal
  <2>6. \/ Forward(disk, disk)
        \/ Last(x.journal.newSpec) \in ClientsIn(disk.spec)
    BY <2>1, <2>2, <2>4 DEF IInv, Files, Resumable
  <2>7. QED
    BY <1>3, <1>6, <1>9, <2>5, <2>6
<1>11. Follows(d, disk, recent, Requests, ordered)
  <2>1. Covered(d.spec, d.prov) /\ Issued(d.prov, Requests) /\ IsPrefix(disk.prov, d.prov)
        /\ ClientsIn(disk.spec) \subseteq ClientsIn(d.spec)
    BY <1>2, <1>3 DEF SpecDir
  <2>2. TxDir(d, Requests)
    BY <1>3, <1>8 DEF TxDir
  <2>3. OneJournal(recent \cup {d})
    BY <1>3 DEF IInv, Files, OneJournal
  <2>4. ordered = TRUE => Whole(d)
    BY <1>2, <1>3, <1>7 DEF Whole
  <2>5. QED
    BY <1>10, <2>1, <2>2, <2>3, <2>4 DEF Follows
<1>12. committing = TRUE => \A e \in recent' : Has(c, e)
  <2>1. Mixed(recent', recent \cup {d}, ordered)
    BY <1>1, <1>2, <1>3, PutMixed
  <2>2. QED
    BY <1>2, <1>3, <1>7, <2>1, HasPut
<1>13. Place("syncCleanup", c, txn, committing, late, d, recent', Requests, ordered)
  BY <1>7, <1>8, <1>12 DEF Place, Staging, Cleaning, Cleaned, Installing
<1>14. \A x \in Clients : outcome[x] = "refused" =>
         /\ x \notin ClientsIn(d.spec)
         /\ d.journal \in Txns /\ Last(d.journal.newSpec) = x => ~Forward(d, d)
  BY <1>3, RefusedNow
<1>15. /\ "syncCleanup" \in Locations \ Unheld /\ "syncCleanup" \notin {"recover", "read"} /\ "rmJournal" \notin Unheld
       /\ "syncCleanup" \notin {"compare", "mkRoot"} \cup Staging
  BY DEF Locations, Unheld, Staging
<1>16. QED
  BY <1>1, <1>3, <1>11, <1>13, <1>14, <1>15, Puts

LEMMA RemoveRootInv ==
  ASSUME IInv, NEW c \in Clients, RemoveRoot(c), UNCHANGED ordered
  PROVE  IInv'
<1> DEFINE d == [disk EXCEPT !.dir = FALSE]
<1>1. Advance(c, "rmRoot", d, "syncRoot") /\ pc[c] = "rmRoot" /\ pc[c] \notin Unheld /\ Put(d)
  BY DEF RemoveRoot, Advance, Unheld
<1>2. /\ disk \in Disks /\ recent \in SUBSET Disks /\ disk \in recent /\ ordered \in BOOLEAN
      /\ Place("rmRoot", c, txn, committing, late, disk, recent, Requests, ordered)
  BY <1>1, Holds
<1>3. /\ d \in Disks /\ d.dir = FALSE /\ d.journal = disk.journal /\ d.specNew = disk.specNew
      /\ d.provNew = disk.provNew /\ d.spec = disk.spec /\ d.prov = disk.prov
  BY <1>2 DEF Disks
<1> HIDE DEF d
<1>4. /\ NoFiles(disk)
      /\ committing = TRUE => TxnOf(txn, c, Requests) /\ (ordered = TRUE => Chain(txn.newProv))
      /\ committing = TRUE => \A e \in recent : Has(c, e)
  BY <1>2 DEF Place, Cleaned
<1>5. NoFiles(d) /\ disk.journal \notin Txns /\ d.journal \notin Txns
  BY <1>3, <1>4 DEF NoFiles
<1>6. Follows(d, disk, recent, Requests, ordered)
  BY <1>2, <1>3, <1>5, FollowsRoot DEF IInv
<1>7. committing = TRUE => \A e \in recent' : Has(c, e)
  <2>1. Mixed(recent', recent \cup {d}, ordered)
    BY <1>1, <1>2, <1>3, PutMixed
  <2>2. QED
    BY <1>2, <1>3, <1>4, <2>1, HasPut
<1>8. Place("syncRoot", c, txn, committing, late, d, recent', Requests, ordered)
  BY <1>3, <1>4, <1>5, <1>7 DEF Place, Staging, Cleaning, Cleaned, Installing
<1>9. \A x \in Clients : outcome[x] = "refused" =>
        /\ x \notin ClientsIn(d.spec)
        /\ d.journal \in Txns /\ Last(d.journal.newSpec) = x => ~Forward(d, d)
  BY <1>3, <1>5, RefusedNow
<1>10. /\ "syncRoot" \in Locations \ Unheld /\ "syncRoot" \notin {"recover", "read"} /\ "rmRoot" \notin Unheld
       /\ "syncRoot" \notin {"compare", "mkRoot"} \cup Staging
  BY DEF Locations, Unheld, Staging
<1>11. QED
  BY <1>1, <1>3, <1>6, <1>8, <1>9, <1>10, Puts

-----------------------------------------------------------------------------
(* The environment.  A power loss leaves one of the states of recent: what  *)
(* it brings back, Resumable had already promised to finish or to forget.   *)
LEMMA PowerLossInv ==
  ASSUME IInv, PowerLoss, UNCHANGED ordered
  PROVE  IInv'
<1>1. /\ pc \in [Clients -> Locations] /\ base \in [Clients -> Texts] /\ disk \in Disks
      /\ recent \in SUBSET Disks /\ disk \in recent
      /\ outcome \in [Clients -> {"none", "failed", "retained", "stale", "refused", "ok"}]
  BY DEF IInv, TypeOK
<1>2. /\ disk' \in recent /\ recent' = {disk'} /\ holder' = NoClient /\ txn' = NoTxn
      /\ committing' = FALSE /\ base' = base /\ edits' = edits /\ late' = late /\ ordered' = ordered
      /\ faults' \in 0 .. MaxFaults
      /\ pc' = [x \in Clients |-> IF x = holder THEN "ready" ELSE pc[x]]
      /\ outcome' = [x \in Clients |-> IF x = holder THEN "failed" ELSE outcome[x]]
  BY DEF PowerLoss, IInv, TypeOK
<1> DEFINE d == disk'
<1>3. d \in recent /\ d \in Disks /\ recent' = {d}
  BY <1>1, <1>2
<1> HIDE DEF d
<1>4. ASSUME NEW x \in Clients
      PROVE  /\ pc'[x] = IF x = holder THEN "ready" ELSE pc[x]
             /\ outcome'[x] = IF x = holder THEN "failed" ELSE outcome[x]
  BY <1>2
<1>5. pc' \in [Clients -> Locations]
  BY <1>1, <1>2 DEF Locations
<1>6. outcome' \in [Clients -> {"none", "failed", "retained", "stale", "refused", "ok"}]
  BY <1>1, <1>2
<1>7. TypeOK'
  <2>1. NoTxn \in Txns
    BY DEF NoTxn, Txns, Texts
  <2>2. QED
    BY <1>2, <1>3, <1>5, <1>6, <2>1 DEF IInv, TypeOK, d
<1>8. \A x \in Clients : x = holder <=> pc[x] \notin Unheld
  BY DEF IInv, Control
<1>9. \A x \in Clients : pc'[x] \in Unheld
  BY <1>4, <1>8 DEF Unheld
<1>10. Control'
  <2>1. \A x \in Clients : holder' = x <=> pc'[x] \notin Unheld
    BY <1>2, <1>9
  <2>2. \A x \in Clients : outcome'[x] \in {"ok", "refused"} => pc'[x] = "done"
    BY <1>4 DEF IInv, Control
  <2>3. \A x \in Clients : pc'[x] \notin {"compare", "mkRoot"} \cup Staging
    BY <1>9 DEF Unheld, Staging
  <2>4. QED
    BY <1>2, <2>1, <2>2, <2>3 DEF Control
<1>11. Requests' = Requests
  <2>1. \A x \in Clients : pc'[x] # "idle" <=> pc[x] # "idle"
    BY <1>4, <1>8 DEF Unheld
  <2>2. QED
    BY <1>2, <2>1 DEF Requests
<1>12. /\ SpecDir(d, disk, Requests) /\ TxDir(d, Requests) /\ Resumable(disk, recent)
       /\ ordered = TRUE => Whole(d)
  BY <1>3 DEF IInv, Files
<1>13. Files(d, {d}, Requests, ordered)
  <2>1. d.prov \in Seq(Entries)
    BY <1>3 DEF Disks
  <2>2. SpecDir(d, d, Requests)
    BY <1>12, <2>1, PrefixRefl DEF SpecDir
  <2>3. OneJournal({d}) /\ Resumable(d, {d})
    BY DEF OneJournal, Resumable
  <2>4. QED
    BY <1>12, <2>2, <2>3 DEF Files
<1>14. ASSUME NEW x \in Clients PROVE Answered(x, outcome'[x], d, {d})
  <2>1. CASE x = holder
    BY <1>4, <2>1 DEF Answered
  <2>2. CASE x # holder
    <3>1. outcome'[x] = outcome[x] /\ Answered(x, outcome[x], disk, recent)
      BY <1>4, <2>2 DEF IInv
    <3>2. outcome[x] = "ok" => \A e \in {d} : Has(x, e)
      BY <1>3, <3>1 DEF Answered
    <3>3. ASSUME outcome[x] = "refused"
          PROVE  /\ x \notin ClientsIn(d.spec)
                 /\ d.journal \in Txns /\ Last(d.journal.newSpec) = x => ~Forward(d, d)
      <4>1. /\ x \notin ClientsIn(disk.spec)
            /\ disk.journal \in Txns /\ Last(disk.journal.newSpec) = x => ~Forward(disk, disk)
        BY <3>1, <3>3 DEF Answered
      <4>2. x \notin ClientsIn(d.spec)
        BY <1>12, <4>1 DEF SpecDir
      <4>3. d.journal \in Txns /\ Forward(d, d) =>
              \/ disk.journal = d.journal /\ Forward(disk, disk)
              \/ Last(d.journal.newSpec) \in ClientsIn(disk.spec)
        BY <1>3, <1>12 DEF Resumable
      <4>4. QED
        BY <4>1, <4>2, <4>3
    <3>4. QED
      BY <3>1, <3>2, <3>3 DEF Answered
  <2>3. QED
    BY <2>1, <2>2
<1>15. Files(disk', recent', Requests', ordered')
  BY <1>2, <1>11, <1>13 DEF d
<1>16. \A x \in Clients : Answered(x, outcome'[x], disk', recent')
  BY <1>2, <1>14 DEF d
<1>17. \A x \in Clients : holder' # x
  BY <1>2
<1>18. QED
  BY <1>7, <1>10, <1>15, <1>16, <1>17 DEF IInv

(* A human's edit, at any moment, adds no typed edit to the text.           *)
LEMMA PlaceEdited ==
  ASSUME NEW l, NEW c \in Clients, NEW t, NEW cm, NEW lt, NEW lt2, NEW now \in Disks, NEW all, now \in all,
         NEW q, NEW ord, NEW d \in Disks, NEW some, Mixed(some, all \cup {d}, ord),
         Place(l, c, t, cm, lt, now, all, q, ord),
         d.dir = now.dir, d.journal = now.journal, d.specNew = now.specNew, d.provNew = now.provNew,
         d.prov = now.prov, IsPrefix(now.spec, d.spec), ClientsIn(d.spec) = ClientsIn(now.spec),
         l \notin Comparing => lt2 = TRUE
  PROVE  Place(l, c, t, cm, lt2, d, some, q, ord)
<1>1. NoFiles(d) <=> NoFiles(now)
  BY DEF NoFiles
<1>2. Complete(d) <=> Complete(now)
  BY DEF Complete
<1>3. ASSUME NEW s \in Texts, IsPrefix(s, now.spec) PROVE IsPrefix(s, d.spec)
  BY <1>3, PrefixTrans DEF Disks, Texts
<1>4. l \in {"openJournal", "writeJournal"} =>
        \A e \in some : e.journal \notin Txns /\ e.specNew = Absent /\ e.provNew = Absent
  <2>1. SUFFICES ASSUME l \in {"openJournal", "writeJournal"}
                 PROVE  \A e \in some : e.journal \notin Txns /\ e.specNew = Absent /\ e.provNew = Absent
    OBVIOUS
  <2>2. \A e \in all : e.journal \notin Txns /\ e.specNew = Absent /\ e.provNew = Absent
    BY <2>1 DEF Place
  <2>3. \A e \in all \cup {d} : e.journal \notin Txns /\ e.specNew = Absent /\ e.provNew = Absent
    BY <2>2
  <2>4. QED
    BY <2>3 DEF Mixed
<1>5. cm = TRUE /\ l \in Cleaning \cup Cleaned => \A e \in some : Has(c, e)
  <2>1. SUFFICES ASSUME cm = TRUE, l \in Cleaning \cup Cleaned PROVE \A e \in some : Has(c, e)
    OBVIOUS
  <2>2. \A e \in all : Has(c, e)
    BY <2>1 DEF Place
  <2>3. Has(c, d)
    BY <2>2 DEF Has
  <2>4. \A e \in all \cup {d} : Has(c, e)
    BY <2>2, <2>3
  <2>5. QED
    BY <2>4 DEF Mixed, Has
<1>6. l = "syncSpec" => IsPrefix(t.newSpec, d.spec)
  <2>1. l = "syncSpec" => t.newSpec \in Texts /\ IsPrefix(t.newSpec, now.spec)
    BY DEF Place, Installing, Txns
  <2>2. QED
    BY <1>3, <2>1
<1>7. l \in Cleaning =>
        /\ \/ d.prov = t.oldProv /\ ~Complete(d)
           \/ d.prov = t.newProv /\ IsPrefix(t.newSpec, d.spec)
        /\ ord = TRUE => IsPrefix(Tip(d.prov), d.spec)
  <2>1. SUFFICES ASSUME l \in Cleaning
                 PROVE  /\ \/ d.prov = t.oldProv /\ ~Complete(d)
                           \/ d.prov = t.newProv /\ IsPrefix(t.newSpec, d.spec)
                        /\ ord = TRUE => IsPrefix(Tip(d.prov), d.spec)
    OBVIOUS
  <2>2. /\ \/ now.prov = t.oldProv /\ ~Complete(now)
           \/ now.prov = t.newProv /\ IsPrefix(t.newSpec, now.spec)
        /\ ord = TRUE => IsPrefix(Tip(now.prov), now.spec)
        /\ t \in Txns
    BY <2>1 DEF Place
  <2>3. t.newSpec \in Texts /\ Tip(now.prov) \in Texts
    BY <2>2, TipText DEF Txns, Disks
  <2>4. QED
    BY <1>2, <1>3, <2>2, <2>3
<1>8. l \in {"mkRoot", "installProv", "syncProv", "installSpec"} \cup Staging =>
        /\ d.spec = t.oldSpec \/ lt2 = TRUE
        /\ ClientsIn(d.spec) = ClientsIn(t.oldSpec)
  BY DEF Place, Comparing, Staging
<1>9. QED
  BY <1>1, <1>4, <1>5, <1>6, <1>7, <1>8 DEF Place

LEMMA FollowsEdited ==
  ASSUME NEW now \in Disks, NEW d \in Disks, NEW all \in SUBSET Disks, now \in all, NEW q, NEW ord,
         Files(now, all, q, ord),
         d.dir = now.dir, d.journal = now.journal, d.specNew = now.specNew, d.provNew = now.provNew,
         d.prov = now.prov, d.spec = Append(now.spec, Human)
  PROVE  Follows(d, now, all, q, ord) /\ IsPrefix(now.spec, d.spec) /\ ClientsIn(d.spec) = ClientsIn(now.spec)
<1>1. SpecDir(now, now, q) /\ TxDir(now, q) /\ OneJournal(all) /\ Resumable(now, all)
      /\ (ord = TRUE => Whole(now)) /\ now.spec \in Texts /\ now.prov \in Seq(Entries)
  BY DEF Files, Disks
<1>2. IsPrefix(now.spec, d.spec)
  BY <1>1, PrefixAppend DEF Texts
<1>3. ClientsIn(d.spec) = ClientsIn(now.spec)
  <2>1. ClientsIn(d.spec) = ClientsIn(now.spec) \cup ({Human} \cap Clients)
    BY <1>1, ClientsInAppend
  <2>2. {Human} \cap Clients = {}
    OBVIOUS
  <2>3. QED
    BY <2>1, <2>2
<1>4. Covered(d.spec, d.prov)
  BY <1>1, CoveredAppend DEF SpecDir
<1>5. Issued(d.prov, q) /\ IsPrefix(now.prov, d.prov)
  BY <1>1 DEF SpecDir
<1>6. TxDir(d, q)
  BY <1>1 DEF TxDir, NoFiles
<1>7. OneJournal(all \cup {d})
  BY <1>1 DEF OneJournal
<1>8. Forward(d, d) <=> Forward(now, now)
  BY DEF Forward, Complete
<1>9. Resumable(d, all \cup {d})
  <2>1. SUFFICES ASSUME NEW f \in all \cup {d}, NEW x \in all \cup {d}, x.journal \in Txns, Forward(f, x)
                 PROVE  \/ d.journal = x.journal /\ Forward(d, d)
                        \/ Last(x.journal.newSpec) \in ClientsIn(d.spec)
    BY DEF Resumable
  <2>2. PICK g \in all : g.prov = f.prov
    BY <2>1
  <2>3. PICK y \in all : y.journal = x.journal /\ y.specNew = x.specNew /\ y.provNew = x.provNew
    BY <2>1
  <2>4. y.journal \in Txns /\ Forward(g, y)
    BY <2>1, <2>2, <2>3 DEF Forward, Complete
  <2>5. QED
    BY <1>1, <1>3, <1>8, <2>3, <2>4 DEF Resumable
<1>10. ord = TRUE => Whole(d)
  <2>1. IsPrefix(Tip(now.prov), now.spec) => IsPrefix(Tip(now.prov), d.spec)
    BY <1>1, <1>2, PrefixTrans, TipText DEF Texts, Disks
  <2>2. QED
    BY <1>1, <2>1 DEF Whole
<1>11. QED
  BY <1>2, <1>3, <1>4, <1>5, <1>6, <1>7, <1>9, <1>10 DEF Follows

LEMMA DirectEditInv ==
  ASSUME IInv, DirectEdit, UNCHANGED ordered
  PROVE  IInv'
<1>1. /\ disk \in Disks /\ recent \in SUBSET Disks /\ disk \in recent /\ ordered \in BOOLEAN
      /\ late \in BOOLEAN
  BY DEF IInv, TypeOK
<1> DEFINE d == [disk EXCEPT !.spec = Append(disk.spec, Human)]
<1>2. /\ Put(d) /\ edits' \in 0 .. MaxEdits
      /\ late' = (late \/ \E c \in Clients : holder = c /\ pc[c] \notin Comparing)
      /\ holder' = holder /\ pc' = pc /\ base' = base /\ txn' = txn /\ committing' = committing
      /\ outcome' = outcome /\ faults' = faults /\ ordered' = ordered
  BY DEF DirectEdit, IInv, TypeOK
<1>3. /\ d \in Disks /\ d.dir = disk.dir /\ d.journal = disk.journal /\ d.specNew = disk.specNew
      /\ d.provNew = disk.provNew /\ d.spec = Append(disk.spec, Human) /\ d.prov = disk.prov
  <2>1. Append(disk.spec, Human) \in Texts
    BY <1>1 DEF Disks, Texts
  <2>2. QED
    BY <1>1, <2>1 DEF Disks
<1> HIDE DEF d
<1>4. disk' = d /\ d \in recent' /\ Mixed(recent', recent \cup {d}, ordered)
  BY <1>1, <1>2, <1>3, PutMixed
<1>5. recent' \in SUBSET Disks
  BY <1>4 DEF Mixed
<1>6. /\ Follows(d, disk, recent, Requests, ordered)
      /\ IsPrefix(disk.spec, d.spec) /\ ClientsIn(d.spec) = ClientsIn(disk.spec)
  BY <1>1, <1>3, FollowsEdited DEF IInv
<1>7. late' \in BOOLEAN
  BY <1>1, <1>2
<1>8. ASSUME NEW x \in Clients, holder = x, pc[x] \notin Comparing PROVE late' = TRUE
  BY <1>2, <1>8
<1>9. Requests' = Requests
  BY <1>2 DEF Requests
<1>10. TypeOK'
  BY <1>2, <1>3, <1>4, <1>5, <1>7 DEF IInv, TypeOK
<1>11. Control'
  BY <1>2 DEF IInv, Control
<1>12. Files(d, recent', Requests, ordered)
  BY <1>1, <1>3, <1>4, <1>6, FilesFollow DEF IInv
<1>13. ASSUME NEW x \in Clients, holder = x
       PROVE  Place(pc[x], x, txn, committing, late', d, recent', Requests, ordered)
  <2>1. Place(pc[x], x, txn, committing, late, disk, recent, Requests, ordered)
    BY <1>13 DEF IInv
  <2>2. pc[x] \notin Comparing => late' = TRUE
    BY <1>8, <1>13
  <2>3. QED
    BY <1>1, <1>3, <1>4, <1>6, <2>1, <2>2, PlaceEdited
<1>14. Forward(d, d) <=> Forward(disk, disk)
  BY <1>3 DEF Forward, Complete
<1>15. ASSUME NEW x \in Clients PROVE Answered(x, outcome[x], d, recent')
  <2>1. Answered(x, outcome[x], disk, recent)
    BY DEF IInv
  <2>2. outcome[x] = "refused" =>
          /\ x \notin ClientsIn(d.spec)
          /\ d.journal \in Txns /\ Last(d.journal.newSpec) = x => ~Forward(d, d)
    BY <1>3, <1>6, <1>14, RefusedNow
  <2>3. QED
    BY <1>1, <1>3, <1>4, <1>6, <2>1, <2>2, AnsweredFollow
<1>16. QED
  BY <1>2, <1>4, <1>9, <1>10, <1>11, <1>12, <1>13, <1>15 DEF IInv

-----------------------------------------------------------------------------
LEMMA TransactionInv ==
  ASSUME IInv, NEW c \in Clients, Transaction(c), UNCHANGED ordered
  PROVE  IInv'
<1>1. CASE MakeRoot(c) BY <1>1, MakeRootInv
<1>2. CASE SyncParents(c) BY <1>2, SyncParentsInv
<1>3. CASE OpenJournal(c) BY <1>3, OpenJournalInv
<1>4. CASE WriteJournal(c) BY <1>4, WriteJournalInv
<1>5. CASE SyncJournal(c) BY <1>5, SyncJournalInv
<1>6. CASE OpenSpecNew(c) BY <1>6, OpenSpecNewInv
<1>7. CASE WriteSpecNew(c) BY <1>7, WriteSpecNewInv
<1>8. CASE OpenProvNew(c) BY <1>8, OpenProvNewInv
<1>9. CASE WriteProvNew(c) BY <1>9, WriteProvNewInv
<1>10. CASE SyncStages(c) BY <1>10, SyncStagesInv
<1>11. CASE InstallProv(c) BY <1>11, InstallProvInv
<1>12. CASE SyncProv(c) BY <1>12, SyncProvInv
<1>13. CASE InstallSpec(c) BY <1>13, InstallSpecInv
<1>14. CASE SyncSpec(c) BY <1>14, SyncSpecInv
<1>15. CASE RemoveSpecNew(c) BY <1>15, RemoveSpecNewInv
<1>16. CASE RemoveProvNew(c) BY <1>16, RemoveProvNewInv
<1>17. CASE RemoveJournal(c) BY <1>17, RemoveJournalInv
<1>18. CASE SyncCleanup(c) BY <1>18, SyncCleanupInv
<1>19. CASE RemoveRoot(c) BY <1>19, RemoveRootInv
<1>20. CASE SyncRoot(c) BY <1>20, SyncRootInv
<1>21. QED
  BY <1>1, <1>2, <1>3, <1>4, <1>5, <1>6, <1>7, <1>8, <1>9, <1>10, <1>11, <1>12, <1>13, <1>14,
     <1>15, <1>16, <1>17, <1>18, <1>19, <1>20 DEF Transaction

LEMMA NextIInv == IInv /\ [Next]_vars => IInv'
<1> SUFFICES ASSUME IInv, [Next]_vars PROVE IInv'
  OBVIOUS
<1>1. CASE UNCHANGED vars
  BY <1>1, StutterIInv
<1>2. CASE Next
  <2>1. UNCHANGED ordered
    BY <1>2 DEF Next
  <2>2. ASSUME NEW c \in Clients, Mutate(c) PROVE IInv'
    <3>1. CASE Request(c) BY <2>1, <3>1, RequestInv
    <3>2. CASE WithWriterLock(c) BY <2>1, <3>2, WithWriterLockInv
    <3>3. CASE NothingToRecover(c) BY <2>1, <3>3, NothingToRecoverInv
    <3>4. CASE RecoverEmptyRoot(c) BY <2>1, <3>4, RecoverEmptyRootInv
    <3>5. CASE RecoverJournal(c) BY <2>1, <3>5, RecoverJournalInv
    <3>6. CASE RecoverRetains(c) BY <2>1, <3>6, RecoverRetainsInv
    <3>7. CASE RefuseStale(c) BY <2>1, <3>7, RefuseStaleInv
    <3>8. CASE RefuseRequest(c) BY <2>1, <3>8, RefuseRequestInv
    <3>9. CASE Prepare(c) BY <2>1, <3>9, PrepareInv
    <3>10. CASE Compare(c) BY <2>1, <3>10, CompareInv
    <3>11. CASE Transaction(c) BY <2>1, <3>11, TransactionInv
    <3>12. QED
      BY <2>2, <3>1, <3>2, <3>3, <3>4, <3>5, <3>6, <3>7, <3>8, <3>9, <3>10, <3>11 DEF Mutate
  <2>3. ASSUME NEW c \in Clients, Interrupt(c) PROVE IInv'
    BY <2>1, <2>3, InterruptInv
  <2>4. CASE PowerLoss
    BY <2>1, <2>4, PowerLossInv
  <2>5. CASE DirectEdit
    BY <2>1, <2>5, DirectEditInv
  <2>6. QED
    BY <1>2, <2>2, <2>3, <2>4, <2>5 DEF Next
<1>3. QED
  BY <1>1, <1>2

-----------------------------------------------------------------------------
(* The inductive invariant.                                                 *)
THEOREM Invariance == Spec => []IInv
<1>1. QED
  BY InitIInv, NextIInv, PTL DEF Spec

(* Every file holds what a writer put there, and never a stage that is      *)
(* Absent or Torn: what installSpec and installProv rename is whole.        *)
THEOREM TypeCorrect == Spec => []TypeOK
<1>1. IInv => TypeOK
  BY DEF IInv
<1>2. QED
  BY <1>1, Invariance, PTL

(* No typed edit is in the text without its provenance entry, on disk and   *)
(* in whatever a power loss brings back: provenance is installed, and its   *)
(* directory fsynced, first.                                                *)
THEOREM SpecNeverAhead == Spec => []NeverSpecAhead
<1>1. IInv => NeverSpecAhead
  BY DEF IInv, Files, SpecDir, Covered, NeverSpecAhead
<1>2. QED
  BY <1>1, Invariance, PTL

(* Where metadata operations are ordered, a log without a journal describes *)
(* no edit that the text does not contain.                                  *)
THEOREM ProvenanceNeverAhead == Spec => []NeverProvenanceAhead
<1>1. IInv => NeverProvenanceAhead
  <2>1. SUFFICES ASSUME IInv, ordered, NEW d \in recent, d.journal = Absent
                 PROVE  IsPrefix(Tip(d.prov), d.spec)
    BY DEF NeverProvenanceAhead
  <2>2. ordered = TRUE
    BY <2>1 DEF IInv, TypeOK
  <2>3. QED
    BY <2>1, <2>2 DEF IInv, Files, Whole
<1>2. QED
  BY <1>1, Invariance, PTL

(* The log is the chain of the typed edits in the text's history.           *)
LEMMA Gaps == IInv => GapsDisclosed
<1>1. SUFFICES ASSUME IInv, ordered, NEW k \in DOMAIN disk.prov
               PROVE  LET entry  == disk.prov[k]
                          before == IF k = 1 THEN <<>> ELSE disk.prov[k - 1].result
                      IN  /\ Last(entry.result) \in Clients /\ Front(entry.result) = entry.prev
                          /\ IsPrefix(before, entry.prev)
                          /\ \A j \in Len(before) + 1 .. Len(entry.prev) : entry.prev[j] = Human
                          /\ k > 1 => (entry.gap <=> entry.prev # before)
  BY DEF GapsDisclosed
<1>2. disk \in recent /\ disk.prov \in Seq(Entries) /\ ordered = TRUE
  BY <1>1 DEF IInv, TypeOK, Disks
<1>3. Issued(disk.prov, Requests) /\ Chain(disk.prov)
  BY <1>1, <1>2 DEF IInv, Files, SpecDir, Whole
<1>4. PICK c \in Clients : disk.prov[k].result = Append(disk.prov[k].prev, c)
  BY <1>3 DEF Issued
<1>5. disk.prov[k].prev \in Seq(Clients \cup {Human})
  <2>1. disk.prov[k] \in Entries
    BY <1>1, <1>2
  <2>2. QED
    BY <2>1 DEF Entries, Texts
<1>6. Last(disk.prov[k].result) \in Clients /\ Front(disk.prov[k].result) = disk.prov[k].prev
  BY <1>4, <1>5, AppendEnds
<1>7. QED
  BY <1>3, <1>6 DEF Chain

(* One request, one entry: entries of the same request would be of the same *)
(* text, and no two of the chain are.                                       *)
LEMMA Once == IInv => AppliedOnce
<1>1. SUFFICES ASSUME IInv, ordered, NEW c \in Clients
               PROVE  Cardinality({k \in DOMAIN disk.prov : Last(disk.prov[k].result) = c}) <= 1
  BY DEF AppliedOnce
<1>2. disk \in recent /\ disk.prov \in Seq(Entries) /\ ordered = TRUE
  BY <1>1 DEF IInv, TypeOK, Disks
<1>3. Issued(disk.prov, Requests) /\ Chain(disk.prov)
  BY <1>1, <1>2 DEF IInv, Files, SpecDir, Whole
<1> DEFINE S == {k \in DOMAIN disk.prov : Last(disk.prov[k].result) = c}
<1>4. ASSUME NEW k \in S PROVE disk.prov[k].result = Append(base[c], c)
  <2>1. PICK x \in Clients : /\ <<x, disk.prov[k].prev>> \in Requests
                             /\ disk.prov[k].result = Append(disk.prov[k].prev, x)
    BY <1>3 DEF Issued
  <2>2. disk.prov[k].prev \in Seq(Clients \cup {Human})
    <3>1. disk.prov[k] \in Entries
      BY <1>2
    <3>2. QED
      BY <3>1 DEF Entries, Texts
  <2>3. x = c
    <3>1. Last(Append(disk.prov[k].prev, x)) = x
      BY <2>2, AppendEnds
    <3>2. Last(disk.prov[k].result) = c
      OBVIOUS
    <3>3. QED
      BY <2>1, <3>1, <3>2
  <2>4. disk.prov[k].prev = base[c]
    BY <2>1, <2>3 DEF Requests
  <2>5. QED
    BY <2>1, <2>3, <2>4
<1>5. \A j, k \in S : j = k
  BY <1>3, <1>4 DEF Chain
<1> HIDE DEF S
<1>6. Cardinality(S) <= 1
  <2>1. CASE S = {}
    <3>1. Cardinality(S) = 0
      BY <2>1, FS_EmptySet
    <3>2. QED
      BY <3>1
  <2>2. CASE S # {}
    <3>1. PICK k \in S : TRUE
      BY <2>2
    <3>2. S = {k}
      BY <1>5, <3>1
    <3>3. Cardinality(S) = 1
      BY <3>2, FS_Singleton
    <3>4. QED
      BY <3>3
  <2>3. QED
    BY <2>1, <2>2
<1>7. QED
  BY <1>6 DEF S

(* What is left of a refused request can only be undone.                    *)
LEMMA Refused == IInv => RefusalFinal
<1>1. SUFFICES ASSUME IInv, NEW c \in Clients, outcome[c] = "refused", NEW d \in recent
               PROVE  /\ \A k \in DOMAIN d.spec : d.spec[k] # c
                      /\ d.journal \in Txns /\ Last(d.journal.newSpec) = c =>
                           /\ d.specNew = Absent \/ d.provNew = Absent
                           /\ d.prov # d.journal.newProv
  BY DEF RefusalFinal
<1>2. /\ c \notin ClientsIn(disk.spec)
      /\ disk.journal \in Txns /\ Last(disk.journal.newSpec) = c => ~Forward(disk, disk)
  BY <1>1, RefusedNow
<1>3. SpecDir(d, disk, Requests) /\ Resumable(disk, recent)
  BY <1>1 DEF IInv, Files
<1>4. c \notin ClientsIn(d.spec)
  BY <1>2, <1>3 DEF SpecDir
<1>5. d.journal \in Txns /\ Forward(d, d) =>
        \/ disk.journal = d.journal /\ Forward(disk, disk)
        \/ Last(d.journal.newSpec) \in ClientsIn(disk.spec)
  BY <1>3 DEF Resumable
<1>6. d.journal \in Txns /\ Last(d.journal.newSpec) = c => ~Forward(d, d)
  BY <1>2, <1>5
<1>7. QED
  BY <1>4, <1>6 DEF ClientsIn, Forward, Complete

(* The log tells what was asked and answered, whatever was interrupted,     *)
(* retried or lost on the way.                                              *)
THEOREM LogTold == Spec => []LogFaithful
<1>1. IInv => LogFaithful
  BY Gaps, Once, Refused DEF LogFaithful
<1>2. QED
  BY <1>1, Invariance, PTL

(* A request answered with success is in the text and in the log that a     *)
(* power loss leaves, ever after.                                           *)
THEOREM Durable == Spec => []SuccessDurable
<1>1. IInv => SuccessDurable
  BY DEF IInv, Answered, Has, ClientsIn, SuccessDurable
<1>2. QED
  BY <1>1, Invariance, PTL

(* InstallSpec overwrites only the text its transaction was computed from,  *)
(* unless a direct edit came after the comparison.                          *)
THEOREM RacingOnly == Spec => OnlyRacingEditsLost
<1> DEFINE Step == \A c \in Clients :
             pc[c] = "installSpec" /\ pc'[c] = "syncSpec" => disk.spec = txn.oldSpec \/ late
<1>1. IInv => Step
  <2>1. SUFFICES ASSUME IInv, NEW c \in Clients, pc[c] = "installSpec"
                 PROVE  disk.spec = txn.oldSpec \/ late
    OBVIOUS
  <2>2. Place("installSpec", c, txn, committing, late, disk, recent, Requests, ordered)
    BY <2>1, Holds DEF Unheld
  <2>3. disk.spec = txn.oldSpec \/ late = TRUE
    BY <2>2 DEF Place
  <2>4. QED
    BY <2>3
<1>2. IInv => [Step]_vars
  BY <1>1
<1>3. QED
  BY <1>2, Invariance, PTL DEF OnlyRacingEditsLost
=============================================================================
