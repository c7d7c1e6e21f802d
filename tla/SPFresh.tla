------------------------------- MODULE SPFresh -------------------------------
(***************************************************************************)
(* SPFreshIndex: inserts, deletes and searches of several threads over     *)
(* the heads (centroids), their postings and the version map, with the     *)
(* splits and reassignments an insert triggers.                            *)
(*                                                                         *)
(* Geometry is abstract: the nearest heads of a vector are any heads, the  *)
(* two clusters of k-means any two, the vectors a new head attracts any.   *)
(* A vector is the number of the insert call that brought it.  A posting   *)
(* is a set: entries equal in id, version and vector count once.           *)
(*                                                                         *)
(* Locks: an insert appends under a read lock of the heads, splits run     *)
(* under their write lock; both read the version map, whose entries are    *)
(* atomics that initialize, mark_deleted and increment_version change at   *)
(* any time.  Only ensure_capacity excludes readers of the map; capacity   *)
(* itself is left out (an entry beyond it reads as version 0, never        *)
(* inserted).                                                              *)
(*                                                                         *)
(* One posting is filtered in one step, the puts of one split are one step *)
(* and so are those of one moved entry.  Only a search can read postings   *)
(* in between; it then misses entries and finds no others.                 *)
(***************************************************************************)
EXTENDS Integers, FiniteSets, SequencesExt

CONSTANTS
    Threads,
    Ids,            \* vector ids
    None,           \* no id
    MaxPosting,     \* config.max_posting_size
    ReplicaCount,   \* config.replica_count
    MaxSplitDepth,  \* MAX_SPLIT_DEPTH
    VersionMask,    \* VERSION_MASK, the largest version
    MaxInserts,     \* bound: number of insert calls
    MaxDeletes,     \* bound: number of delete calls
    MaxSearches     \* bound: number of search calls

ASSUME NoneAssumption == None \notin Ids
ASSUME PostingAssumption == MaxPosting \in Nat \ {0}
ASSUME ReplicaAssumption == ReplicaCount \in Nat \ {0}
ASSUME DepthAssumption == MaxSplitDepth \in Nat \ {0}
ASSUME MaskAssumption == VersionMask \in Nat \ {0}
ASSUME BoundsAssumption == MaxInserts \in Nat /\ MaxDeletes \in Nat /\ MaxSearches \in Nat

VARIABLES
    heads,      \* active heads
    nextHead,   \* HeadIndex.next_id
    postings,   \* MemoryPostingStore.data
    ver, del,   \* the version byte of each id: version and deleted bit
    count,      \* vector_count; below zero it stands for the wrapped value
    pc,         \* each thread's position
    job,        \* the id and vector of the insert it executes
    targets,    \* heads an insert has still to append to
    stamp,      \* the version the insert gives its entry
    work,       \* heads to split, with depth, next first
    newHeads,   \* heads made by the split under way
    cands,      \* entries to reassign after it
    seen,       \* postings a search has read
    calls,      \* number of insert, delete and search calls so far
    removed,    \* history: ids whose last delete came after their last insert
    gone,       \* history: those of them removed before the thread's search began
    base        \* history: nextHead when the splits under way began

index   == <<heads, nextHead, postings>>
version == <<ver, del>>
insertVars == <<targets, stamp>>
splitVars  == <<work, newHeads, cands, base>>
searchVars == <<seen, removed, gone>>
vars == <<index, version, count, pc, job, insertVars, splitVars, searchVars, calls>>

Versions == 0 .. VersionMask
Entry == [id : Ids, ver : Versions, vec : 1 .. MaxInserts]

Live(id) == ver[id] # 0 /\ ~del[id]

\* The filter of search_postings, split_posting and reassign_after_split.
Current(e) == ~del[e.id] /\ ver[e.id] = e.ver

\* The lock of the head index.
Reading(t) == pc[t] \in {"append", "measure"}
Splitting(t) == pc[t] \in {"split", "reassign"}
HeadsReadable == \A t \in Threads : ~Splitting(t)
HeadsWritable == \A t \in Threads : ~Splitting(t) /\ ~Reading(t)
VersionMapWritable == HeadsWritable

\* What HeadIndex::search and rng_filter may select: the nearest head, if
\* there is one, and further ones up to replica_count.
Placements(hs) == {S \in SUBSET hs : Cardinality(S) \in 1 .. ReplicaCount}

Size(ps, h) == IF h \in DOMAIN ps THEN Cardinality(ps[h]) ELSE 0

\* MemoryPostingStore::append for every head of S.
Appended(ps, S, e) ==
    [h \in DOMAIN ps \cup S |->
        (IF h \in DOMAIN ps THEN ps[h] ELSE {}) \cup (IF h \in S THEN {e} ELSE {})]

NoJob == [id |-> None, vec |-> 0]

Goto(t, label) == pc' = [pc EXCEPT ![t] = label]

\* An index of these contents (new, from_parts) before any call.
Holding(hs, n, ps, v, d, inserted) ==
    /\ heads = hs /\ nextHead = n
    /\ postings = ps
    /\ ver = v /\ del = d
    /\ count = inserted
    /\ pc = [t \in Threads |-> "idle"]
    /\ job = [t \in Threads |-> NoJob]
    /\ targets = [t \in Threads |-> {}]
    /\ stamp = [t \in Threads |-> 0]
    /\ work = [t \in Threads |-> <<>>]
    /\ newHeads = [t \in Threads |-> {}]
    /\ cands = [t \in Threads |-> {}]
    /\ seen = [t \in Threads |-> {}]
    /\ removed = {} /\ gone = [t \in Threads |-> {}] /\ base = 0
    /\ calls = [inserts |-> inserted, deletes |-> 0, searches |-> 0]

\* A new index is empty.
Init ==
    Holding({}, 0, [h \in {} |-> {}], [id \in Ids |-> 0], [id \in Ids |-> FALSE], 0)

-----------------------------------------------------------------------------
(***************************************************************************)
(* insert                                                                  *)
(***************************************************************************)

\* The call, and ensure_capacity under the write lock of the version map.
Insert(t, id) ==
    /\ pc[t] = "idle"
    /\ calls.inserts < MaxInserts
    /\ VersionMapWritable
    /\ calls' = [calls EXCEPT !.inserts = @ + 1]
    /\ job' = [job EXCEPT ![t] = [id |-> id, vec |-> calls'.inserts]]
    /\ removed' = removed \ {id}
    /\ gone' = [u \in Threads |-> gone[u] \ {id}]
    /\ Goto(t, "init")
    /\ UNCHANGED <<index, version, count, insertVars, splitVars, seen>>

\* VersionMap::initialize: version 1, not deleted, whatever was there.
Initialize(t) ==
    /\ pc[t] = "init"
    /\ ver' = [ver EXCEPT ![job[t].id] = 1]
    /\ del' = [del EXCEPT ![job[t].id] = FALSE]
    /\ Goto(t, IF heads = {} THEN "head" ELSE "place")
    /\ UNCHANGED <<index, count, job, insertVars, splitVars, searchVars, calls>>

\* The first vector becomes the first head, unless another thread made one.
FirstHead(t) ==
    /\ pc[t] = "head"
    /\ HeadsWritable
    /\ IF heads # {} THEN UNCHANGED <<heads, nextHead>>
       ELSE heads' = {nextHead} /\ nextHead' = nextHead + 1
    /\ Goto(t, "place")
    /\ UNCHANGED <<postings, version, count, job, insertVars, splitVars, searchVars, calls>>

\* insert_vector selects heads and reads the version, both locks held.
Place(t) ==
    /\ pc[t] = "place"
    /\ HeadsReadable
    /\ \E S \in Placements(heads) : targets' = [targets EXCEPT ![t] = S]
    /\ stamp' = [stamp EXCEPT ![t] = ver[job[t].id]]
    /\ Goto(t, "append")
    /\ UNCHANGED <<index, version, count, job, splitVars, searchVars, calls>>

\* The last step: vector_count.
EndInsert(t) ==
    /\ count' = count + 1
    /\ job' = [job EXCEPT ![t] = NoJob]
    /\ stamp' = [stamp EXCEPT ![t] = 0]
    /\ Goto(t, "idle")

\* ... and appends to one head after the other.
AppendTo(t, h) ==
    /\ pc[t] = "append"
    /\ h \in targets[t]
    /\ postings' = Appended(postings, {h},
                            [id |-> job[t].id, ver |-> stamp[t], vec |-> job[t].vec])
    /\ targets' = [targets EXCEPT ![t] = @ \ {h}]
    /\ work' = [work EXCEPT ![t] = Append(@, <<h, 0>>)]
    /\ Goto(t, "measure")
    /\ UNCHANGED <<heads, nextHead, version, count, job, stamp, newHeads, cands,
                   base, searchVars, calls>>

\* get_size, a read of its own, decides whether the head is oversized.
Measure(t) ==
    /\ pc[t] = "measure"
    /\ LET h == Last(work[t])[1] IN
         work' = [work EXCEPT ![t] = IF Size(postings, h) > MaxPosting THEN @ ELSE Front(@)]
    /\ \/ targets[t] # {} /\ Goto(t, "append") /\ UNCHANGED <<count, job, stamp>>
       \/ targets[t] = {} /\ work'[t] = <<>> /\ EndInsert(t)
       \/ targets[t] = {} /\ work'[t] # <<>> /\ Goto(t, "oversized")
          /\ UNCHANGED <<count, job, stamp>>
    /\ UNCHANGED <<index, version, targets, newHeads, cands, base, searchVars, calls>>

\* Mutant: the write lock does not wait for readers.
StartSplitsUnlocked(t) ==
    /\ pc[t] = "oversized"
    /\ HeadsReadable
    /\ base' = nextHead
    /\ Goto(t, "split")
    /\ UNCHANGED <<index, version, count, job, insertVars, work, newHeads, cands,
                   searchVars, calls>>

\* process_pending_splits takes the write lock of the heads.
StartSplits(t) ==
    /\ pc[t] = "oversized"
    /\ HeadsWritable
    /\ base' = nextHead
    /\ Goto(t, "split")
    /\ UNCHANGED <<index, version, count, job, insertVars, work, newHeads, cands,
                   searchVars, calls>>

-----------------------------------------------------------------------------
(***************************************************************************)
(* process_splits_recursive: a depth-first walk, one head at a time.       *)
(***************************************************************************)

Drop(t) == work' = [work EXCEPT ![t] = Tail(@)]

Clean(h) == {e \in postings[h] : Current(e)}

\* Nothing to do for this head, or collecting garbage is enough.
SkipHead(t) ==
    /\ pc[t] = "split"
    /\ work[t] # <<>>
    /\ LET h == Head(work[t])[1] IN
         \/ /\ Size(postings, h) <= MaxPosting \/ h \notin heads
            /\ UNCHANGED postings
         \/ /\ Size(postings, h) > MaxPosting /\ h \in heads
            /\ Cardinality(Clean(h)) <= MaxPosting
            /\ postings' = [postings EXCEPT ![h] = Clean(h)]
    /\ Drop(t)
    /\ UNCHANGED <<heads, nextHead, version, count, pc, job, insertVars, newHeads, cands,
                   base, searchVars, calls>>

\* Mutant: the posting of a head that is removed stays.
SplitOrphaning(t, h, A, B, keep) ==
    LET a == IF keep THEN h ELSE nextHead
        b == IF keep THEN nextHead ELSE nextHead + 1
    IN  /\ heads' = (heads \ {h}) \cup {a, b}
        /\ nextHead' = b + 1
        /\ postings' = [x \in DOMAIN postings \cup {a, b} |->
                          CASE x = a -> A [] x = b -> B [] OTHER -> postings[x]]
        /\ newHeads' = [newHeads EXCEPT ![t] = {a, b} \ {h}]

\* The two clusters go to head h itself and a new head, if h's centroid is
\* that of a cluster, else to two new heads in place of h.
SplitInto(t, h, A, B, keep) ==
    LET a == IF keep THEN h ELSE nextHead
        b == IF keep THEN nextHead ELSE nextHead + 1
    IN  /\ heads' = (heads \ {h}) \cup {a, b}
        /\ nextHead' = b + 1
        /\ postings' = [x \in (DOMAIN postings \ {h}) \cup {a, b} |->
                          CASE x = a -> A [] x = b -> B [] OTHER -> postings[x]]
        /\ newHeads' = [newHeads EXCEPT ![t] = {a, b} \ {h}]

\* The entries in the heads hs of the vectors in V.
Candidates(V, hs) ==
    {c \in UNION {{h} \X postings'[h] : h \in hs \cap DOMAIN postings'} :
        Current(c[2]) /\ c[2].vec \in V}

\* split_posting, then the scan of reassign_after_split for the vectors the
\* new heads attract.  It looks at the nearest of the other heads only.
Split(t) ==
    /\ pc[t] = "split"
    /\ work[t] # <<>>
    /\ LET h == Head(work[t])[1] IN
         /\ h \in heads
         /\ Size(postings, h) > MaxPosting
         /\ Cardinality(Clean(h)) > MaxPosting
         /\ \E A \in (SUBSET Clean(h)) \ {{}, Clean(h)}, keep \in BOOLEAN :
              SplitInto(t, h, A, Clean(h) \ A, keep)
    /\ \E V \in SUBSET (1 .. calls.inserts), near \in SUBSET (heads' \ newHeads'[t]) :
         cands' = [cands EXCEPT ![t] = Candidates(V, near)]
    /\ Goto(t, "reassign")
    /\ UNCHANGED <<version, count, job, insertVars, work, base, searchVars, calls>>

\* Mutant: the version does not wrap.
NextUnwrapped(id) == ver[id] + 1

NextVersion(id) == IF ver[id] = VersionMask THEN 1 ELSE ver[id] + 1

\* Mutant: the copy keeps its version.
MoveUnversioned(e, hs) ==
    /\ UNCHANGED version
    /\ postings' = Appended(postings, hs, e)

\* A copy with the next version goes to hs.
MoveTo(e, hs) ==
    /\ ver' = [ver EXCEPT ![e.id] = NextVersion(e.id)]
    /\ del' = [del EXCEPT ![e.id] = FALSE]
    /\ postings' = Appended(postings, hs, [e EXCEPT !.ver = NextVersion(e.id)])

Considered(t, c) ==
    /\ pc[t] = "reassign"
    /\ c \in cands[t]
    /\ cands' = [cands EXCEPT ![t] = @ \ {c}]
    /\ UNCHANGED <<heads, nextHead, count, pc, job, insertVars, work, newHeads,
                   base, searchVars, calls>>

\* Mutant: increment_version ignores the deleted bit.
ReassignDeleted(t, c) ==
    /\ Considered(t, c)
    /\ \E S \in Placements(heads) : MoveTo(c[2], S)

\* increment_version, unless the id is deleted, and the append of the copy.
Reassign(t, c) ==
    /\ Considered(t, c)
    /\ IF del[c[2].id] THEN UNCHANGED <<version, postings>>
       ELSE \E S \in Placements(heads) : MoveTo(c[2], S)

\* Mutant: the recursion does not count its depth.
Endless(t) ==
    LET depth == Head(work[t])[2]
        over == {h \in newHeads[t] : Size(postings, h) > MaxPosting}
    IN  {s \in [1 .. Cardinality(over) -> over \X {depth}] :
            \A i, j \in DOMAIN s : i < j => s[i][1] < s[j][1]}

\* New heads that are still too large are next, one level deeper.
Deeper(t) ==
    LET depth == Head(work[t])[2] + 1
        over == {h \in newHeads[t] : Size(postings, h) > MaxPosting}
    IN  IF depth >= MaxSplitDepth THEN {<<>>}
        ELSE {s \in [1 .. Cardinality(over) -> over \X {depth}] :
                \A i, j \in DOMAIN s : i < j => s[i][1] < s[j][1]}

EndReassign(t) ==
    /\ pc[t] = "reassign"
    /\ cands[t] = {}
    /\ \E s \in Deeper(t) : work' = [work EXCEPT ![t] = s \o Tail(@)]
    /\ newHeads' = [newHeads EXCEPT ![t] = {}]
    /\ Goto(t, "split")
    /\ UNCHANGED <<index, version, count, job, insertVars, cands, base, searchVars, calls>>

\* The lock is released.
EndSplits(t) ==
    /\ pc[t] = "split"
    /\ work[t] = <<>>
    /\ EndInsert(t)
    /\ base' = 0
    /\ UNCHANGED <<index, version, targets, work, newHeads, cands, searchVars, calls>>

-----------------------------------------------------------------------------
(***************************************************************************)
(* delete and search                                                       *)
(***************************************************************************)

\* mark_deleted, and the count whatever the id was before.
Delete(t, id) ==
    /\ pc[t] = "idle"
    /\ calls.deletes < MaxDeletes
    /\ calls' = [calls EXCEPT !.deletes = @ + 1]
    /\ del' = [del EXCEPT ![id] = TRUE]
    /\ count' = count - 1
    /\ removed' = removed \cup
         {i \in {id} : \A u \in Threads : job[u].id = i => pc[u] # "init"}
    /\ UNCHANGED <<index, ver, pc, job, insertVars, splitVars, seen, gone>>

\* The heads are chosen (here: all, when there are at most num_search_heads)
\* and their postings read in one step; the heads may be outdated by then.
Search(t) ==
    /\ pc[t] = "idle"
    /\ calls.searches < MaxSearches
    /\ HeadsReadable
    /\ calls' = [calls EXCEPT !.searches = @ + 1]
    /\ targets' = [targets EXCEPT ![t] = heads]
    /\ gone' = [gone EXCEPT ![t] = removed]
    /\ Goto(t, "read")
    /\ UNCHANGED <<index, version, count, job, stamp, splitVars, seen, removed>>

SearchRead(t) ==
    /\ pc[t] = "read"
    /\ seen' = [seen EXCEPT ![t] = UNION {postings[h] : h \in targets[t] \cap DOMAIN postings}]
    /\ targets' = [targets EXCEPT ![t] = {}]
    /\ Goto(t, "filter")
    /\ UNCHANGED <<index, version, count, job, stamp, splitVars, removed, gone, calls>>

\* search_postings
Result(t) == {e.id : e \in {x \in seen[t] : Current(x)}}

SearchReturn(t) ==
    /\ pc[t] = "filter"
    /\ seen' = [seen EXCEPT ![t] = {}]
    /\ gone' = [gone EXCEPT ![t] = {}]
    /\ Goto(t, "idle")
    /\ UNCHANGED <<index, version, count, job, insertVars, splitVars, removed, calls>>

\* All calls have returned.
Finished ==
    /\ \A t \in Threads : pc[t] = "idle"
    /\ calls = [inserts |-> MaxInserts, deletes |-> MaxDeletes, searches |-> MaxSearches]
    /\ UNCHANGED vars

Next ==
    \/ \E t \in Threads :
         \/ \E id \in Ids : Insert(t, id) \/ Delete(t, id)
         \/ Initialize(t) \/ FirstHead(t) \/ Place(t)
         \/ \E h \in targets[t] : AppendTo(t, h)
         \/ Measure(t) \/ StartSplits(t) \/ SkipHead(t) \/ Split(t)
         \/ \E c \in cands[t] : Reassign(t, c)
         \/ EndReassign(t) \/ EndSplits(t)
         \/ Search(t) \/ SearchRead(t) \/ SearchReturn(t)
    \/ Finished

Spec == Init /\ [][Next]_vars

-----------------------------------------------------------------------------
(***************************************************************************)
(* Properties.                                                             *)
(***************************************************************************)

\* Every variable has its type.
TypeOK ==
    /\ heads \subseteq 0 .. nextHead - 1
    /\ nextHead \in Nat
    /\ DOMAIN postings \subseteq Nat
    /\ postings \in [DOMAIN postings -> SUBSET Entry]
    /\ ver \in [Ids -> Versions]
    /\ del \in [Ids -> BOOLEAN]
    /\ count \in Int
    /\ pc \in [Threads -> {"idle", "init", "head", "place", "append", "measure",
                           "oversized", "split", "reassign", "read", "filter"}]
    /\ job \in [Threads -> [id : Ids \cup {None}, vec : 0 .. MaxInserts]]
    /\ targets \in [Threads -> SUBSET Nat]
    /\ stamp \in [Threads -> Versions]
    /\ work \in [Threads -> Seq(Nat \X Nat)]
    /\ newHeads \in [Threads -> SUBSET Nat]
    /\ cands \in [Threads -> SUBSET (Nat \X Entry)]
    /\ seen \in [Threads -> SUBSET Entry]
    /\ removed \subseteq Ids
    /\ gone \in [Threads -> SUBSET Ids]
    /\ base \in Nat
    /\ calls \in [inserts : 0 .. MaxInserts, deletes : 0 .. MaxDeletes,
                  searches : 0 .. MaxSearches]

Covered(id) ==
    \E h \in heads \cap DOMAIN postings : \E e \in postings[h] :
        e.id = id /\ e.ver = ver[id]

WillCover(t, id) ==
    /\ job[t].id = id
    /\ \/ pc[t] \in {"head", "place"}
       \/ pc[t] = "append" /\ stamp[t] = ver[id]

\* INV-1 of the wiring plan: every vector that is not deleted is in a posting
\* of an active head with its current version, or its insert has still to
\* append it, whatever splits, reassignments, deletes and other inserts of
\* the same id go on.
Coverage ==
    \A id \in Ids : Live(id) =>
        Covered(id) \/ \E t \in Threads : WillCover(t, id)

\* INV-4: postings exist for active heads only, and for every active head
\* unless the insert that made the first head has not appended yet.
Alignment ==
    /\ DOMAIN postings \subseteq heads
    /\ heads \subseteq DOMAIN postings \/
       \E t \in Threads : pc[t] \in {"place", "append"}

\* INV-5: a search never returns an id whose delete was over before it began,
\* unless the id is inserted again meanwhile.
DeletionComplete == \A t \in Threads : pc[t] = "filter" => Result(t) \cap gone[t] = {}

\* The splits of one insert make a bounded number of heads: their recursion
\* stops although a reassignment may fill a new head over the limit again.
HeadGrowthBounded ==
    (\E t \in Threads : Splitting(t)) =>
        nextHead - base <= 2 * ReplicaCount * (2^MaxSplitDepth - 1)

Once == calls.inserts =
    Cardinality({id \in Ids : ver[id] # 0 \/ \E t \in Threads : job[t].id = id /\ pc[t] = "init"})

\* A superseded copy is garbage for good: as long as no id is inserted twice,
\* at most replica_count heads hold a current copy of it, however often it is
\* reassigned (fewer than VERSION_MASK times, after which the version wraps).
AtMostReplicas ==
    Once => \A id \in Ids :
        Cardinality({h \in DOMAIN postings : \E e \in postings[h] : e.id = id /\ Current(e)})
            <= ReplicaCount
=============================================================================
