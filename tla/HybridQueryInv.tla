---------------------------- MODULE HybridQueryInv ----------------------------
(***************************************************************************)
(* The inductive invariant behind the safety properties of HybridQuery.    *)
(***************************************************************************)
EXTENDS HybridQuery

Entry == [id : Ids, ver : 1 .. VersionMask, vec : Vectors]
Entries == {E \in SUBSET Entry : IsFiniteSet(E)}
VersionMap == [Ids -> [ver : 0 .. VersionMask, del : BOOLEAN]]
Indexes == [seq : Nat, count : Int, map : VersionMap]
Runs == [at : {"idle", "replay", "manifest"}, upTo : Nat, ix : Indexes, entries : Entries]

\* Every operation counts one vector more or less, or none.
Counted(ix) == -ix.seq <= ix.count /\ ix.count <= ix.seq

\* Records have their fields, sets of entries are finite, and nothing is ahead
\* of the log.
Shapes ==
    /\ wal \in Seq({<<op>> : op \in Writes}) /\ Len(wal) <= MaxWal
    /\ documents \in [Ids -> Contents \cup {Absent}]
    /\ docSequences \in [Ids -> Nat] /\ \A id \in Ids : docSequences[id] <= Len(wal)
    /\ postings \in [seq : Nat, entries : Entries] /\ postings.seq <= Len(wal)
    /\ stored \in Indexes /\ stored.seq <= Len(wal) /\ Counted(stored)
    /\ view \in Indexes /\ view.seq <= Len(wal) /\ Counted(view)
    /\ building \in Runs /\ building.upTo <= Len(wal)
    /\ building.ix.seq <= building.upTo /\ Counted(building.ix)

\* The server's index is the store's or an older one; a run goes beyond the
\* manifest; the postings are the manifest's until the run has put its own.
Order ==
    /\ view.seq <= stored.seq /\ (view.seq = stored.seq => view = stored)
    /\ building.at # "idle" => stored.seq < building.upTo
    /\ IF building.at = "manifest"
         THEN /\ postings = [seq |-> building.upTo, entries |-> building.entries]
              /\ building.ix.seq = building.upTo
         ELSE postings.seq = stored.seq

\* E, a version map and a count have the vectors, docs' own, of the documents
\* that entries 1 .. n of the log have written.
Reflects(docs, seqs, map, count, E, n) ==
    /\ \A e \in E : HasVec(docs[e.id]) /\ e.vec = docs[e.id] /\ seqs[e.id] <= n
    /\ \A id \in Ids : HasVec(docs[id]) /\ seqs[id] <= n =>
          \E e \in E : e.id = id /\ Current(map, e)
    /\ count >= 0 /\ (count = 0 => E = {})

\* The documents are what the entries that name them say.
Logged ==
    /\ \A s \in DOMAIN wal, id \in Ids : Named(s, id) =>
          documents[id] = wal[s][1].doc /\ docSequences[id] = s
    /\ \A id \in Ids : documents[id] # Absent => \E s \in DOMAIN wal : Named(s, id)

ReflectsIndex(ix, E) == Reflects(documents, docSequences, ix.map, ix.count, E, ix.seq)

\* As long as no document is written twice, the index and the copy of it that a
\* run works on have all vectors up to their positions, and nothing else.
Once ==
    WrittenOnce =>
        /\ Logged
        /\ building.at # "idle" => ReflectsIndex(building.ix, building.entries)
        /\ building.at # "manifest" => ReflectsIndex(stored, postings.entries)

ExactInv == Shapes /\ Order /\ Once
-----------------------------------------------------------------------------
(***************************************************************************)
(* ShortfallBounded: what the index has of documents that are rewritten    *)
(* and deleted.                                                            *)
(***************************************************************************)

\* Entry s of the log w is the last of 1 .. n that names id.
LastWrite(w, n, id, s) ==
    /\ s \in 1 .. n /\ id \in w[s][1].ids
    /\ \A t \in s + 1 .. n : id \notin w[t][1].ids

\* The documents with a vector once 1 .. n are applied, and all documents.
VectorsAt(w, n) ==
    {id \in Ids : \E s \in 1 .. n : LastWrite(w, n, id, s) /\ HasVec(w[s][1].doc)}
KeptAt(w, n) ==
    {id \in Ids : \E s \in 1 .. n : LastWrite(w, n, id, s) /\ w[s][1].doc # Absent}

\* The index has every vector, perhaps some that a document had before, and
\* none of what is deleted.
Keeps(w, n, map, E) ==
    /\ \A id \in VectorsAt(w, n) : \E e \in E : e.id = id /\ Current(map, e)
    /\ \A e \in E : ~map[e.id].del => e.id \in KeptAt(w, n)

\* The documents are the replay of the log.
Replayed == ReplayOf(wal, Len(wal), documents, docSequences)

\* Its count is no less than its vectors: a rewritten one counts twice.
KeepsIndex(ix, E) ==
    /\ Keeps(wal, ix.seq, ix.map, E)
    /\ OrderlyDeletes => Cardinality(VectorsAt(wal, ix.seq)) <= ix.count

Kept ==
    /\ building.at # "idle" => KeepsIndex(building.ix, building.entries)
    /\ building.at # "manifest" => KeepsIndex(stored, postings.entries)

ShortInv == Shapes /\ Order /\ Replayed /\ Kept
=============================================================================
