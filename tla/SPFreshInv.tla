----------------------------- MODULE SPFreshInv ------------------------------
(***************************************************************************)
(* The inductive invariant behind Coverage, Alignment,                     *)
(* DeletionComplete and HeadGrowthBounded of SPFresh.                      *)
(***************************************************************************)
EXTENDS SPFresh

\* A thread inside insert works on one id and one vector.
Inserting == {"init", "head", "place", "append", "measure", "oversized", "split", "reassign"}
JobHeld == \A t \in Threads :
    pc[t] \in Inserting => job[t] \in [id : Ids, vec : 1 .. MaxInserts]

\* Only SPFreshIndex's locks order the threads: splits exclude each other and
\* the appends of others.
LocksExclude == \A t, u \in Threads :
    Splitting(t) /\ t # u => ~Splitting(u) /\ ~Reading(u)

\* The heads an insert was given stay active until it has appended to them.
TargetsActive == \A t \in Threads :
    /\ Reading(t) => targets[t] \subseteq heads
    /\ pc[t] = "append" => targets[t] # {}

\* What a thread has in hand when it measures a posting or ends a split.
WorkHeld == \A t \in Threads :
    /\ pc[t] \in {"measure", "reassign"} => work[t] # <<>>
    /\ IsFiniteSet(newHeads[t])

\* While a head has no posting it is the only one, the first.
FirstHeadPending ==
    heads \subseteq DOMAIN postings \/
        /\ \E h \in heads : heads = {h}
        /\ \E t \in Threads : pc[t] \in {"place", "append"}

\* A removed id is marked, and nothing is about to clear the mark.
RemovedMarked ==
    /\ \A id \in removed : del[id]
    /\ \A t \in Threads : pc[t] = "init" => job[t].id \notin removed
    /\ \A t \in Threads : gone[t] \subseteq removed

\* The heads that the split of a head at depth d can make in the end.
Growth(d) == 2 * (2^(MaxSplitDepth - d) - 1)

\* The splits of w make at most n heads: some left[i] is enough for those from
\* the i-th on.
Promised(w, n) ==
    \E left \in [1 .. Len(w) + 1 -> Nat] :
        /\ left[1] <= n
        /\ \A i \in DOMAIN w : /\ w[i][2] < MaxSplitDepth
                               /\ left[i] >= Growth(w[i][2]) + left[i + 1]

\* How many heads the splits under way may still make.
Room == ReplicaCount * Growth(0) - (nextHead - base)

\* An insert hands at most replica_count heads to its splits, and these make no
\* more than there is room for.
GrowthOf(t) ==
    /\ pc[t] \notin {"append", "measure", "oversized", "split", "reassign"} => work[t] = <<>>
    /\ pc[t] \in {"append", "measure", "oversized"} =>
         /\ IsFiniteSet(targets[t])
         /\ Len(work[t]) + Cardinality(targets[t]) <= ReplicaCount
         /\ \A i \in DOMAIN work[t] : work[t][i][2] = 0
    /\ pc[t] = "split" => Room \in Nat /\ Promised(work[t], Room)
    /\ pc[t] = "reassign" =>
         /\ Cardinality(newHeads[t]) <= 2
         /\ Head(work[t])[2] < MaxSplitDepth
         /\ LET rest == Room - 2 * Growth(Head(work[t])[2] + 1)
            IN  rest \in Nat /\ Promised(Tail(work[t]), rest)

GrowthShape == \A t \in Threads : GrowthOf(t)

IInv == /\ TypeOK /\ JobHeld /\ LocksExclude /\ TargetsActive /\ WorkHeld
        /\ Coverage
        /\ DOMAIN postings \subseteq heads /\ FirstHeadPending
        /\ RemovedMarked
        /\ GrowthShape
-----------------------------------------------------------------------------
(***************************************************************************)
(* AtMostReplicas, as long as no version wraps.                            *)
(***************************************************************************)

Unwrapped == \A id \in Ids : ver[id] < VersionMask

Inserted == {id \in Ids : ver[id] # 0 \/ \E t \in Threads : job[t].id = id /\ pc[t] = "init"}

\* The entries of the postings and of the reassignments under way.
Held == {e \in Entry : \/ \E h \in DOMAIN postings : e \in postings[h]
                       \/ \E t \in Threads : \E c \in cands[t] : c[2] = e}

\* The heads with a copy of the version that the id has.
Copies(id) == {h \in DOMAIN postings : \E e \in postings[h] : e.id = id /\ e.ver = ver[id]}

\* No more ids than calls have been inserted, and entries are of these ids.
InsertedShape ==
    /\ IsFiniteSet(Inserted) /\ Cardinality(Inserted) <= calls.inserts
    /\ \A e \in Held : ver[e.id] # 0
    /\ \A t \in Threads : pc[t] \in Inserting \ {"init"} => ver[job[t].id] # 0

\* An id has one vector, of one insert, which has written no entry before it
\* places it; no entry is ahead of its id's version.
OneVector ==
    /\ \A t, u \in Threads :
         t # u /\ pc[t] \in Inserting /\ pc[u] \in Inserting => job[t].id # job[u].id
    /\ \A e \in Held : e.ver <= ver[e.id]
    /\ \A e, f \in Held : e.id = f.id => e.vec = f.vec
    /\ \A t \in Threads : pc[t] \in {"init", "head", "place"} =>
         \A e \in Held : e.id # job[t].id
    /\ \A t \in Threads : Reading(t) =>
         /\ stamp[t] = ver[job[t].id]
         /\ \A e \in Held : e.id = job[t].id => e.vec = job[t].vec

\* The copies there are and those that an insert has still to append.
FewCopies ==
    /\ \A id \in Ids : Cardinality(Copies(id)) <= ReplicaCount
    /\ \A t \in Threads : Reading(t) =>
         Cardinality(Copies(job[t].id)) + Cardinality(targets[t]) <= ReplicaCount

CopyShape == InsertedShape /\ (Once => OneVector /\ FewCopies)
=============================================================================
