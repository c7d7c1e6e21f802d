----------------------------- MODULE HybridQuery ------------------------------
(***************************************************************************)
(* What a query finds: the nearest vectors of the index the server has     *)
(* loaded, merged with those of the documents written since, while         *)
(* documents are written, the indexer builds and the server reloads.       *)
(*                                                                         *)
(* The documents are the replay of the log (WritePath); an entry is one    *)
(* operation on one document.  The index is SPFresh as one thread uses it: its postings    *)
(* together are a set of entries, copies of which a split may move on to   *)
(* their next version or drop when they are superseded.  It has at most    *)
(* num_search_heads heads, so that a query reads every posting.            *)
(*                                                                         *)
(* One indexer runs and does not fail, a reload takes manifest, centroids  *)
(* and version map at once, and postings are read from the store: races    *)
(* of indexers and torn reloads are IndexStore's and HotReload's, a cache  *)
(* that kept older postings is HotReload's too.                            *)
(***************************************************************************)
EXTENDS WalReplay, VectorSearch

CONSTANTS
    Writes,     \* the operations a request may carry; contents are vectors
    NsMetric,   \* metadata.distance_metric
    MaxWal,     \* bound: length of the log
    MaxTopK,    \* bound: top_k of a query
    MaxMoves    \* bound: copies that the splits of one insert move

\* Ids are machine integers, and a vector is its one coordinate.
ASSUME IdsAssumption == IsFiniteSet(Ids)
ASSUME VectorsAssumption == {c \in Contents : Dim[c] # NoDim} \subseteq Int

\* One document an operation.
ASSUME WritesAssumption ==
    Writes \subseteq [req : Reqs, ids : {{id} : id \in Ids}, doc : Contents \cup {Absent}]
ASSUME MetricAssumption == NsMetric \in Metrics
ASSUME BoundsAssumption == MaxWal \in Nat /\ MaxTopK \in Nat /\ MaxMoves \in Nat

VARIABLES
    wal, documents, docSequences,
    postings,   \* in the store: the entries, and the position they were built for
    stored,     \* in the store: manifest and version map
    building,   \* the indexer's run
    view        \* the index the server has, as loaded from stored

serverVars == <<wal, documents, docSequences, view>>
vars == <<serverVars, postings, stored, building>>

VersionMask == 127

Unknown == [ver |-> 0, del |-> FALSE]

\* seq is the manifest's wal_sequence, 0 without an index, and tells builds
\* apart; count is num_vectors (below zero: wrapped).
NoIndex == [seq |-> 0, count |-> 0, map |-> [id \in Ids |-> Unknown]]
NoRun == [at |-> "idle", upTo |-> 0, ix |-> NoIndex, entries |-> {}]

Init ==
    /\ wal = <<>>
    /\ documents = NoDocs /\ docSequences = NoSeqs
    /\ postings = [seq |-> 0, entries |-> {}]
    /\ stored = NoIndex
    /\ building = NoRun
    /\ view = NoIndex

\* The vector of a payload that has one.
HasVec(doc) == doc # Absent /\ Dim[doc] # NoDim

-----------------------------------------------------------------------------
\* flush_batcher logs the operation and applies it; the index stays as it is.
WriteEntry(op) ==
    /\ Len(wal) < MaxWal
    /\ wal' = Append(wal, <<op>>)
    /\ documents' = ApplyDocs(documents, <<op>>)
    /\ docSequences' = ApplySeqs(docSequences, <<op>>, Len(wal'))
    /\ UNCHANGED <<view, postings, stored, building>>

-----------------------------------------------------------------------------
(***************************************************************************)
(* The indexer.                                                            *)
(***************************************************************************)

\* run_indexer: there must be a vector and an entry beyond the manifest.
StartRun ==
    /\ building.at = "idle"
    /\ Len(wal) > stored.seq
    /\ \E s \in DOMAIN wal : VectorDims(wal[s]) # {}
    /\ building' = [at |-> "replay", upTo |-> Len(wal), ix |-> stored,
                    entries |-> postings.entries]
    /\ UNCHANGED <<serverVars, postings, stored>>

Current(map, e) == ~map[e.id].del /\ map[e.id].ver = e.ver

NextVersion(v) == IF v = VersionMask THEN 1 ELSE v + 1

\* A split moves a copy to another head, under the next version.
Moved(run, e) ==
    LET v == NextVersion(run.ix.map[e.id].ver) IN
    [run EXCEPT !.ix.map[e.id].ver = v, !.entries = @ \cup {[e EXCEPT !.ver = v]}]

\* ... one copy of s after the other.
MovedAll(run, s) ==
    LET after[n \in 0 .. Len(s)] == IF n = 0 THEN run ELSE Moved(after[n - 1], s[n])
    IN  after[Len(s)]

\* The splits an insert brings about: some current copies move, one after the
\* other, then some superseded ones are dropped.
Splits(run) ==
    LET current(r) == {e \in r.entries : Current(r.ix.map, e)}
        chosen == {C \in SUBSET current(run) : Cardinality(C) <= MaxMoves}
        moved == {MovedAll(run, s) : s \in UNION {SetToSeqs(C) : C \in chosen}}
    IN  UNION {{[r EXCEPT !.entries = current(r) \cup kept] :
                   kept \in SUBSET (r.entries \ current(r))} : r \in moved}

\* Mutant: only an id without a version is counted.
InsertedCountingNew(run, id, vec) ==
    [run EXCEPT !.ix.count = IF run.ix.map[id].ver = 0 THEN @ + 1 ELSE @,
                !.ix.map[id] = [ver |-> 1, del |-> FALSE],
                !.entries = @ \cup {[id |-> id, ver |-> 1, vec |-> vec]}]

\* SPFreshIndex::insert up to the splits: the version starts again at 1.
Inserted(run, id, vec) ==
    [run EXCEPT !.ix.count = @ + 1,
                !.ix.map[id] = [ver |-> 1, del |-> FALSE],
                !.entries = @ \cup {[id |-> id, ver |-> 1, vec |-> vec]}]

\* SPFreshIndex::delete: the count goes down whatever the id is.
Deleted(run, id) == [run EXCEPT !.ix.count = @ - 1, !.ix.map[id].del = TRUE]

\* Mutant: a document without a vector is inserted too.
IndexedAll(run, op) ==
    LET id == CHOOSE i \in Ids : op.ids = {i} IN
    IF op.doc = Absent THEN {Deleted(run, id)}
    ELSE Splits(Inserted(run, id, op.doc))

\* replay_into_index: a document without a vector is passed over.
Indexed(run, op) ==
    LET id == CHOOSE i \in Ids : op.ids = {i} IN
    IF op.doc = Absent THEN {Deleted(run, id)}
    ELSE IF HasVec(op.doc) THEN Splits(Inserted(run, id, op.doc))
    ELSE {run}

IndexEntry ==
    /\ building.at = "replay"
    /\ building.ix.seq < building.upTo
    /\ LET s == building.ix.seq + 1 IN
         \E r \in Indexed(building, wal[s][1]) : building' = [r EXCEPT !.ix.seq = s]
    /\ UNCHANGED <<serverVars, postings, stored>>

\* persist_index overwrites the postings ...
PutPostings ==
    /\ building.at = "replay"
    /\ building.ix.seq = building.upTo
    /\ postings' = [seq |-> building.upTo, entries |-> building.entries]
    /\ building' = [building EXCEPT !.at = "manifest"]
    /\ UNCHANGED <<serverVars, stored>>

\* ... and then names them with their version map.
PutManifest ==
    /\ building.at = "manifest"
    /\ stored' = building.ix
    /\ building' = NoRun
    /\ UNCHANGED <<serverVars, postings>>

\* try_reload_index; a start loads the index in the same way.
Reload ==
    /\ view.seq # stored.seq
    /\ view' = stored
    /\ UNCHANGED <<wal, documents, docSequences, postings, stored, building>>

\* Everything is written, indexed and loaded.
Finished == Len(wal) = MaxWal /\ building.at = "idle" /\ UNCHANGED vars

Next ==
    \/ \E op \in Writes : WriteEntry(op)
    \/ StartRun \/ IndexEntry \/ PutPostings \/ PutManifest
    \/ Reload
    \/ Finished

Spec == Init /\ [][Next]_vars

-----------------------------------------------------------------------------
(***************************************************************************)
(* query: under the namespace's read lock, which excludes flushes and      *)
(* reloads but not the indexer.                                            *)
(***************************************************************************)

GetDocument(id) == documents[id]

WithVector(ids) ==
    {[id |-> id, vec |-> documents[id]] : id \in {i \in ids : HasVec(documents[i])}}

\* Mutant: the tail begins one entry late.
UnindexedLate == WithVector({id \in Ids : docSequences[id] > view.seq + 1})

\* The tail: documents with a vector that were written since the index was built.
Unindexed == WithVector({id \in Ids : docSequences[id] > view.seq})

IdsOf(vectors) == {v.id : v \in vectors}

\* The index is skipped if it counts no vectors; it has its own metric, that
\* of the namespace when it was first built.
FromIndex(q, k) ==
    IF view.count = 0 THEN {<<>>}
    ELSE SearchPostings(q, postings.entries, view.map, NsMetric, k)

Without(results, ids) ==
    LET kept == {i \in DOMAIN results : results[i].id \notin ids}
    IN  Ordered(results, kept, {p \in kept \X kept : p[1] < p[2]})

\* Mutant: the index's result for an id wins over the tail's.
MergedIndexFirst(q, metric, k) ==
    {MergeTopK(a, Without(b, {a[i].id : i \in DOMAIN a}), k) :
        a \in FromIndex(q, k), b \in BruteForceKnn(q, Unindexed, metric, k)}

\* Mutant: the tail's ids stay in the index's results.
MergedTwice(q, metric, k) ==
    {MergeTopK(a, b, k) :
        a \in FromIndex(q, k), b \in BruteForceKnn(q, Unindexed, metric, k)}

\* The index's results, less the ids of the tail, with those of the tail.
Merged(q, metric, k) ==
    {MergeTopK(Without(a, IdsOf(Unindexed)), b, k) :
        a \in FromIndex(q, k), b \in BruteForceKnn(q, Unindexed, metric, k)}

\* The answers a query may get: brute force without an index, and in any case
\* only ids that are documents.
Query(q, metric, k) ==
    LET scored == IF view.seq = 0 THEN BruteForceKnn(q, WithVector(Ids), metric, k)
                  ELSE IF Unindexed = {} THEN FromIndex(q, k)
                  ELSE Merged(q, metric, k)
    IN  {Without(s, {id \in Ids : documents[id] = Absent}) : s \in scored}

-----------------------------------------------------------------------------
(***************************************************************************)
(* Properties.                                                             *)
(***************************************************************************)

Vectors == {c \in Contents : Dim[c] # NoDim}
TopKs == 1 .. MaxTopK

Index == [seq : 0 .. MaxWal, count : -MaxWal .. MaxWal,
          map : [Ids -> [ver : 0 .. VersionMask, del : BOOLEAN]]]
IndexEntries == SUBSET [id : Ids, ver : 1 .. VersionMask, vec : Vectors]

\* Every variable has its type.
QueryTypeOK ==
    /\ wal \in Seq({<<op>> : op \in Writes})
    /\ documents \in [Ids -> Contents \cup {Absent}]
    /\ docSequences \in [Ids -> 0 .. MaxWal]
    /\ postings.seq \in 0 .. MaxWal /\ postings.entries \in IndexEntries
    /\ stored \in Index /\ view \in Index
    /\ building.at \in {"idle", "replay", "manifest"} /\ building.upTo \in 0 .. Len(wal)
    /\ building.ix \in Index /\ building.entries \in IndexEntries

\* Whatever the indexer is doing to the postings, whatever metric is asked
\* for: an answer has at most top_k ids, none twice, in order of distance, and
\* each is a document that GET finds, also if it was deleted from a namespace
\* whose index still has it.
AnswersWellFormed ==
    \A q \in Vectors, m \in Metrics, k \in TopKs : \A r \in Query(q, m, k) :
        /\ Len(r) <= k
        /\ Sorted(r)
        /\ \A i, j \in DOMAIN r : r[i].id = r[j].id => i = j
        /\ \A i \in DOMAIN r : GetDocument(r[i].id) # Absent

\* A document whose vector the index does not have yet is found under this
\* vector, never under one that the index still has for it.
FreshVectorWins ==
    \A q \in Vectors, m \in Metrics, k \in TopKs : \A r \in Query(q, m, k) :
        \A i \in DOMAIN r : LET id == r[i].id IN
            docSequences[id] > view.seq /\ HasVec(documents[id]) =>
                r[i].dist = Distance(q, documents[id], m)

\* The postings are those the server's version map is for.
Settled == postings.seq = view.seq

Named(s, id) == id \in wal[s][1].ids

WrittenOnce ==
    /\ \A s \in DOMAIN wal : wal[s][1].doc # Absent
    /\ \A s, t \in DOMAIN wal, id \in Ids : Named(s, id) /\ Named(t, id) => s = t

\* As long as no document is rewritten or deleted, index and tail together are
\* the log, each entry in one of them: a query in the namespace's metric finds
\* the nearest documents exactly, however far the index is behind.
ExactWhenWrittenOnce ==
    Settled /\ WrittenOnce =>
        \A q \in Vectors, k \in TopKs :
            Query(q, NsMetric, k) \subseteq BruteForceKnn(q, WithVector(Ids), NsMetric, k)

\* Every deletion is of a document with a vector, that was a document with a
\* vector all its life.
OrderlyDeletes ==
    \A s \in DOMAIN wal : wal[s][1].doc = Absent =>
        \A id \in wal[s][1].ids :
            \E t \in 1 .. s - 1 :
                /\ Named(t, id) /\ HasVec(wal[t][1].doc)
                /\ \A u \in t + 1 .. s - 1 : ~Named(u, id)

\* The index is asked for top_k before the ids of the tail and the deleted ones
\* are taken out of its results.  An answer is short by no more than those: by
\* the documents rewritten or deleted since the index was built.  (The count,
\* on which the search of the index depends, is right if only documents with
\* a vector are deleted.)
ShortfallBounded ==
    Settled /\ OrderlyDeletes =>
        LET n == Cardinality(WithVector(Ids))
            changed == {id \in Ids : /\ \E s \in 1 .. view.seq : Named(s, id)
                                     /\ \E s \in view.seq + 1 .. Len(wal) : Named(s, id)}
        IN  \A q \in Vectors, m \in Metrics, k \in TopKs : \A r \in Query(q, m, k) :
                Len(r) >= (IF n < k THEN n ELSE k) - Cardinality(changed)

\* "If a document is updated after the index was built, the ANN result for the
\* old vector is filtered out": an id is found under the vector it has.
CurrentVectorsOnly ==
    Settled =>
        \A q \in Vectors, k \in TopKs : \A r \in Query(q, NsMetric, k) :
            \A i \in DOMAIN r : LET doc == documents[r[i].id] IN
                HasVec(doc) /\ r[i].dist = Distance(q, doc, NsMetric)
=============================================================================
