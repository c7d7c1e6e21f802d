------------------------------ MODULE WalReplay ------------------------------
(***************************************************************************)
(* The contents of a write-ahead-log entry and what applying one does to   *)
(* the in-memory documents of a namespace: apply_wal_entry, which the      *)
(* write path and start-up share.                                          *)
(*                                                                         *)
(* A document's payload (vector and attributes) is a value of Contents; of *)
(* its vector only the length is kept (Dim, NoDim without a vector).  An   *)
(* operation is one submitted WriteOp: it gives every id of a set the same *)
(* payload, or removes them (doc = Absent).  A document sequence of 0 stands *)
(* for "the map has no entry": the first WAL sequence is 1.                *)
(***************************************************************************)
EXTENDS Naturals, Sequences, FiniteSets

CONSTANTS
    Reqs,      \* upsert / delete requests, each sent at most once
    Ids,       \* document ids
    Contents,  \* payloads of documents
    Absent,    \* "the map has no such document"
    Dim        \* the length of a payload's vector, 0 when it has none

NoDim == 0

ASSUME AbsentAssumption == Absent \notin Contents
ASSUME DimAssumption == Dim \in [Contents -> Nat]

Write == [ids : (SUBSET Ids) \ {{}}, doc : Contents \cup {Absent}]
Op    == [req : Reqs, ids : (SUBSET Ids) \ {{}}, doc : Contents \cup {Absent}]

Touches(ops, id) == \E i \in DOMAIN ops : id \in ops[i].ids

\* The operations of an entry run in order: the last that names id decides.
Deciding(ops, id) ==
    CHOOSE i \in DOMAIN ops :
        /\ id \in ops[i].ids
        /\ \A j \in DOMAIN ops : id \in ops[j].ids => j <= i

Effect(ops, id) == ops[Deciding(ops, id)].doc

NoDocs == [id \in Ids |-> Absent]
NoSeqs == [id \in Ids |-> 0]

ApplyDocs(docs, ops) ==
    [id \in Ids |-> IF Touches(ops, id) THEN Effect(ops, id) ELSE docs[id]]

ApplySeqs(seqs, ops, s) ==
    [id \in Ids |-> IF ~Touches(ops, id) THEN seqs[id]
                    ELSE IF Effect(ops, id) = Absent THEN 0 ELSE s]

\* The lengths of the vectors an entry carries.
VectorDims(ops) ==
    {Dim[ops[i].doc] : i \in {k \in DOMAIN ops : ops[k].doc # Absent}} \ {NoDim}

\* The dimension check of flush_batcher adopts the first vector's length
\* when the namespace has none yet.
HasVector(ops, i) == ops[i].doc # Absent /\ Dim[ops[i].doc] # NoDim

AdoptedDim(current, ops) ==
    IF current # NoDim \/ VectorDims(ops) = {} THEN current
    ELSE Dim[ops[CHOOSE i \in DOMAIN ops :
                   /\ HasVector(ops, i)
                   /\ \A j \in DOMAIN ops : HasVector(ops, j) => i <= j].doc]

(***************************************************************************)
(* docs and seqs are what entries 1 .. n of the log w leave behind: a      *)
(* statement about the last entry that names each id, not a second         *)
(* definition of how entries are applied.                                  *)
(***************************************************************************)
ReplayOf(w, n, docs, seqs) ==
    \A id \in Ids :
        \/ /\ \A s \in 1 .. n : ~Touches(w[s], id)
           /\ docs[id] = Absent
           /\ seqs[id] = 0
        \/ \E s \in 1 .. n :
              /\ Touches(w[s], id)
              /\ \A t \in s + 1 .. n : ~Touches(w[t], id)
              /\ docs[id] = Effect(w[s], id)
              /\ seqs[id] = IF docs[id] = Absent THEN 0 ELSE s
=============================================================================
