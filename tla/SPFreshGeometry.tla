--------------------------- MODULE SPFreshGeometry ----------------------------
(***************************************************************************)
(* SPFreshIndex as the indexer's one thread drives it, with the geometry   *)
(* that SPFresh leaves open: nearest heads, the RNG filter, the two        *)
(* clusters of k-means, the entries that a split makes others reassign.    *)
(*                                                                         *)
(* A vector is a multiple of Unit on a line (see VectorSearch).  Unit is   *)
(* divisible by the size of every cluster, so that centroids are integers  *)
(* and "closer than the tolerance" means "equal".  The steps are those of  *)
(* SPFresh, which this module is shown to implement; here a posting is the *)
(* list it is in the code, whose order k-means depends on.                 *)
(*                                                                         *)
(* reassign_range and num_search_heads are taken to exceed the number of   *)
(* heads; a search changes nothing and is left to SPFresh and HybridQuery. *)
(***************************************************************************)
EXTENDS VectorSearch, FiniteSets, TLC

CONSTANTS
    Ids, None,
    Unit, Points,   \* the vectors are Unit * p for p in Points
    Metric,         \* config.distance_metric
    RngFactor,      \* config.rng_factor
    MaxPosting, ReplicaCount, MaxSplitDepth, VersionMask,   \* as in SPFresh
    MaxIters,       \* max_iters of k-means
    MaxInserts,     \* bound: number of insert calls
    MaxDeletes      \* bound: number of delete calls

ASSUME PointsAssumption == Points \subseteq Int /\ Metric \in Metrics /\ RngFactor \in Nat
ASSUME UnitAssumption == \A n \in 1 .. MaxInserts : Unit % n = 0
ASSUME ItersAssumption == MaxIters \in Nat

VARIABLES
    centroids,   \* HeadIndex: the centroids of the active heads
    nextHead, postings, ver, del, count,   \* as in SPFresh
    vectors,     \* the vector of each insert call
    pc, id, targets, work, newHeads, cands,   \* what the call in progress works on
    base, deletes, removed                 \* as in SPFresh

headVars == <<centroids, nextHead>>
version == <<ver, del>>
splitVars == <<work, newHeads, cands, base>>
historyVars == <<deletes, removed>>
vars == <<headVars, postings, version, count, vectors, pc, id, targets, splitVars, historyVars>>

-----------------------------------------------------------------------------
(***************************************************************************)
(* binary_kmeans of a list of vectors.                                     *)
(***************************************************************************)

\* compute_centroid
Mean(vs, I) ==
    IF I = {} THEN 0 ELSE FoldSet(LAMBDA i, sum : vs[i] + sum, 0, I) \div Cardinality(I)

SquareDist(a, b) == Distance(a, b, "euclidean_squared")

\* The vectors nearer to a than to b, or as near.
NearA(vs, a, b) == {i \in DOMAIN vs : SquareDist(vs[i], a) <= SquareDist(vs[i], b)}

\* The last of those farthest from c.
Farthest(vs, c) ==
    CHOOSE i \in DOMAIN vs : \A j \in DOMAIN vs :
        \/ SquareDist(vs[j], c) < SquareDist(vs[i], c)
        \/ SquareDist(vs[j], c) = SquareDist(vs[i], c) /\ j <= i

\* Mutant: an empty cluster stays empty.
AssignedEmpty(vs, a, b) == NearA(vs, a, b)

\* Cluster a; if one of the two is empty it is given the farthest vector of the other.
Assigned(vs, a, b) ==
    LET A == NearA(vs, a, b) IN
    CASE A = {}        -> {Farthest(vs, b)}
      [] A = DOMAIN vs -> A \ {Farthest(vs, a)}
      [] OTHER         -> A

Clusters(vs, A, a, b) == [A |-> A, a |-> a, b |-> b]

\* Mutant: stops after one round.
KMeansOnce(vs) ==
    LET A == Assigned(vs, vs[1], Last(vs)) IN
    Clusters(vs, A, Mean(vs, A), Mean(vs, DOMAIN vs \ A))

\* Rounds of assignment and new centroids from the first and the last vector,
\* until no centroid moves; after MaxIters a last assignment as it comes.
KMeans(vs) ==
    LET round[n \in Nat, a \in Int, b \in Int] ==
            LET A == Assigned(vs, a, b)
                newA == Mean(vs, A)
                newB == Mean(vs, DOMAIN vs \ A)
            IN  IF n = 0 THEN Clusters(vs, NearA(vs, a, b), a, b)
                ELSE IF newA = a /\ newB = b THEN Clusters(vs, A, a, b)
                ELSE round[n - 1, newA, newB]
    IN  round[MaxIters, vs[1], Last(vs)]

-----------------------------------------------------------------------------
(***************************************************************************)
(* HeadIndex and rng_filter.                                               *)
(***************************************************************************)

\* HeadIndex::search over the centroids cs: the k nearest heads, a tie to the older one.
SearchHeads(cs, v, k) ==
    LET dist(h) == Distance(v, cs[h], Metric)
        before(g, h) == dist(g) < dist(h) \/ (dist(g) = dist(h) /\ g < h)
    IN  Truncate(SetToSortSeq(DOMAIN cs, before), k)

\* From the nearest on, the heads to which none already chosen is nearer than
\* RngFactor times the vector; at most ReplicaCount.
RngFilter(hs, v) ==
    LET dominated(h, chosen) == \E i \in DOMAIN chosen :
            Distance(centroids[h], centroids[chosen[i]], Metric)
                < RngFactor * Distance(v, centroids[h], Metric)
        choose(chosen, h) ==
            IF chosen # <<>> /\ (Len(chosen) >= ReplicaCount \/ dominated(h, chosen))
            THEN chosen ELSE Append(chosen, h)
    IN  FoldLeft(choose, <<>>, hs)

\* The heads a vector is appended to.
Placement(v) == RngFilter(SearchHeads(centroids, v, 2 * ReplicaCount), v)

-----------------------------------------------------------------------------
(***************************************************************************)
(* insert and delete.                                                      *)
(***************************************************************************)

Init ==
    /\ centroids = [h \in {} |-> 0] /\ nextHead = 0
    /\ postings = [h \in {} |-> <<>>]
    /\ ver = [i \in Ids |-> 0] /\ del = [i \in Ids |-> FALSE]
    /\ count = 0
    /\ vectors = <<>>
    /\ pc = "idle" /\ id = None
    /\ targets = <<>> /\ work = <<>> /\ newHeads = <<>> /\ cands = <<>>
    /\ base = 0 /\ deletes = 0 /\ removed = {}

Insert(i, p) ==
    /\ pc = "idle"
    /\ Len(vectors) < MaxInserts
    /\ pc' = "init"
    /\ id' = i
    /\ vectors' = Append(vectors, Unit * p)
    /\ removed' = removed \ {i}
    /\ UNCHANGED <<headVars, postings, version, count, targets, splitVars, deletes>>

Initialize ==
    /\ pc = "init"
    /\ ver' = [ver EXCEPT ![id] = 1]
    /\ del' = [del EXCEPT ![id] = FALSE]
    /\ pc' = IF DOMAIN centroids = {} THEN "head" ELSE "place"
    /\ UNCHANGED <<headVars, postings, count, vectors, id, targets, splitVars, historyVars>>

\* The vector itself is the first centroid.
FirstHead ==
    /\ pc = "head"
    /\ centroids' = [h \in {nextHead} |-> Last(vectors)]
    /\ nextHead' = nextHead + 1
    /\ pc' = "place"
    /\ UNCHANGED <<postings, version, count, vectors, id, targets, splitVars, historyVars>>

Place ==
    /\ pc = "place"
    /\ targets' = Placement(Last(vectors))
    /\ pc' = "append"
    /\ UNCHANGED <<headVars, postings, version, count, vectors, id, splitVars, historyVars>>

PostingOf(h) == IF h \in DOMAIN postings THEN postings[h] ELSE <<>>

\* MemoryPostingStore::append for the heads hs.
Appended(hs, e) ==
    [h \in DOMAIN postings \cup hs |->
        IF h \in hs THEN Append(PostingOf(h), e) ELSE postings[h]]

AppendTo ==
    /\ pc = "append"
    /\ postings' = Appended({Head(targets)}, [id |-> id, ver |-> ver[id], vec |-> Len(vectors)])
    /\ work' = Append(work, <<Head(targets), 0>>)
    /\ targets' = Tail(targets)
    /\ pc' = "measure"
    /\ UNCHANGED <<headVars, version, count, vectors, id, newHeads, cands, base, historyVars>>

Oversized(h) == Len(PostingOf(h)) > MaxPosting

\* The insert is over.
EndInsert == count' = count + 1 /\ id' = None /\ pc' = "idle"

Measure ==
    /\ pc = "measure"
    /\ work' = IF Oversized(Last(work)[1]) THEN work ELSE Front(work)
    /\ \/ targets # <<>> /\ pc' = "append" /\ UNCHANGED <<count, id>>
       \/ targets = <<>> /\ work' # <<>> /\ pc' = "oversized" /\ UNCHANGED <<count, id>>
       \/ targets = <<>> /\ work' = <<>> /\ EndInsert
    /\ UNCHANGED <<headVars, postings, version, vectors, targets, newHeads, cands, base,
                   historyVars>>

StartSplits ==
    /\ pc = "oversized"
    /\ base' = nextHead
    /\ pc' = "split"
    /\ UNCHANGED <<headVars, postings, version, count, vectors, id, targets, work, newHeads,
                   cands, historyVars>>

Delete(i) ==
    /\ pc = "idle"
    /\ deletes < MaxDeletes
    /\ deletes' = deletes + 1
    /\ del' = [del EXCEPT ![i] = TRUE]
    /\ count' = count - 1
    /\ removed' = removed \cup {i}
    /\ UNCHANGED <<headVars, postings, ver, vectors, pc, id, targets, splitVars>>

-----------------------------------------------------------------------------
(***************************************************************************)
(* process_splits_recursive.                                               *)
(***************************************************************************)

Current(e) == ~del[e.id] /\ ver[e.id] = e.ver

Clean(h) == SelectSeq(PostingOf(h), Current)

SkipHead ==
    /\ pc = "split"
    /\ work # <<>>
    /\ LET h == Head(work)[1] IN
         \/ /\ Oversized(h) => h \notin DOMAIN centroids
            /\ UNCHANGED postings
         \/ /\ Oversized(h) /\ h \in DOMAIN centroids
            /\ Len(Clean(h)) <= MaxPosting
            /\ postings' = [postings EXCEPT ![h] = Clean(h)]
    /\ work' = Tail(work)
    /\ UNCHANGED <<headVars, version, count, vectors, pc, id, targets, newHeads, cands, base,
                   historyVars>>

\* The members of a list at the positions I.
Picked(s, I) == LET order == SetToSortSeq(I, <) IN [n \in DOMAIN order |-> s[order[n]]]

\* split_posting: a cluster whose centroid is that of h keeps the head, the
\* other, or both, get new ones.
SplitInto(h, clean, k) ==
    LET keepA == k.a = centroids[h]
        keepB == ~keepA /\ k.b = centroids[h]
        a == IF keepA THEN h ELSE nextHead
        b == IF keepB THEN h ELSE IF keepA THEN nextHead ELSE nextHead + 1
        lists == (a :> Picked(clean, k.A)) @@ (b :> Picked(clean, DOMAIN clean \ k.A))
    IN  /\ centroids' = (a :> k.a) @@ (b :> k.b) @@ Restrict(centroids, DOMAIN centroids \ {h})
        /\ postings' = lists @@ Restrict(postings, DOMAIN postings \ {h})
        /\ nextHead' = nextHead + Cardinality({a, b} \ {h})
        /\ newHeads' = SelectSeq(<<a, b>>, LAMBDA x : x # h)

\* The scan of reassign_after_split: the current entries of other heads to which
\* a new head is as near as the old centroid was.
Attracted(old) ==
    LET near(e) == LET v == vectors[e.vec] IN
            \E i \in DOMAIN newHeads' :
                Distance(v, centroids'[newHeads'[i]], Metric) <= Distance(v, old, Metric)
        neighbours == SelectSeq(SearchHeads(centroids', old, nextHead'),
                                LAMBDA h : h \notin ToSet(newHeads') /\ h \in DOMAIN postings')
        found(h) == SelectSeq(postings'[h], LAMBDA e : Current(e) /\ near(e))
        tagged(h) == [i \in DOMAIN found(h) |-> <<h, found(h)[i]>>]
    IN  FlattenSeq([i \in DOMAIN neighbours |-> tagged(neighbours[i])])

Split ==
    /\ pc = "split"
    /\ work # <<>>
    /\ LET h == Head(work)[1]
           clean == Clean(h)
       IN  /\ h \in DOMAIN centroids
           /\ Oversized(h)
           /\ Len(clean) > MaxPosting
           /\ SplitInto(h, clean, KMeans([i \in DOMAIN clean |-> vectors[clean[i].vec]]))
           /\ cands' = Attracted(centroids[h])
    /\ pc' = "reassign"
    /\ UNCHANGED <<version, count, vectors, id, targets, work, base, historyVars>>

NextVersion(i) == IF ver[i] = VersionMask THEN 1 ELSE ver[i] + 1

Reassign ==
    /\ pc = "reassign"
    /\ cands # <<>>
    /\ LET e == Head(cands)[2] IN
         IF del[e.id] THEN UNCHANGED <<ver, postings>>
         ELSE /\ ver' = [ver EXCEPT ![e.id] = NextVersion(e.id)]
              /\ postings' = Appended(ToSet(Placement(vectors[e.vec])),
                                      [e EXCEPT !.ver = NextVersion(e.id)])
    /\ cands' = Tail(cands)
    /\ UNCHANGED <<headVars, del, count, vectors, pc, id, targets, work, newHeads, base,
                   historyVars>>

EndReassign ==
    /\ pc = "reassign"
    /\ cands = <<>>
    /\ LET depth == Head(work)[2] + 1
           over == IF depth >= MaxSplitDepth THEN <<>> ELSE SelectSeq(newHeads, Oversized)
       IN  work' = [i \in DOMAIN over |-> <<over[i], depth>>] \o Tail(work)
    /\ newHeads' = <<>>
    /\ pc' = "split"
    /\ UNCHANGED <<headVars, postings, version, count, vectors, id, targets, cands, base,
                   historyVars>>

EndSplits ==
    /\ pc = "split"
    /\ work = <<>>
    /\ EndInsert
    /\ base' = 0
    /\ UNCHANGED <<headVars, postings, version, vectors, targets, work, newHeads, cands,
                   historyVars>>

\* All calls have returned.
Finished == pc = "idle" /\ Len(vectors) = MaxInserts /\ deletes = MaxDeletes /\ UNCHANGED vars

Next ==
    \/ \E i \in Ids : Delete(i) \/ \E p \in Points : Insert(i, p)
    \/ Initialize \/ FirstHead \/ Place \/ AppendTo \/ Measure \/ StartSplits
    \/ SkipHead \/ Split \/ Reassign \/ EndReassign \/ EndSplits
    \/ Finished

Spec == Init /\ [][Next]_vars

-----------------------------------------------------------------------------
(***************************************************************************)
(* Properties.                                                             *)
(***************************************************************************)

Alone(value) == [t \in {"indexer"} |-> value]

Abstract == INSTANCE SPFresh WITH
    Threads <- {"indexer"}, MaxSearches <- 0,
    heads <- DOMAIN centroids,
    postings <- [h \in DOMAIN postings |-> ToSet(postings[h])],
    pc <- Alone(pc),
    job <- Alone([id |-> id, vec |-> IF id = None THEN 0 ELSE Len(vectors)]),
    targets <- Alone(ToSet(targets)),
    stamp <- Alone(IF pc \in {"idle", "init", "head", "place"} THEN 0 ELSE 1),
    work <- Alone(work),
    newHeads <- Alone(ToSet(newHeads)),
    cands <- Alone(ToSet(cands)),
    seen <- Alone({}), gone <- Alone({}),
    calls <- [inserts |-> Len(vectors), deletes |-> deletes, searches |-> 0]

\* What the code computes with centroids and distances is among the choices
\* that SPFresh leaves open: k-means makes two clusters and loses no entry,
\* the RNG filter chooses between one and ReplicaCount heads, a posting has no
\* two equal entries.  What is proved of SPFresh is therefore true of it, as long
\* as no id is inserted twice: then an old copy may be given a version a second
\* time, and the list has two entries that the set of SPFresh has once.
ImplementsSPFresh ==
    Abstract!Init /\ [][Abstract!Once' => [Abstract!Next]_(Abstract!vars)]_vars

\* A split leaves every vector with the nearer one of the two new centroids,
\* although the clusters k-means returns were made before the centroids.
SplitsSeparate ==
    [][pc = "split" /\ pc' = "reassign" =>
         LET own(h) == {vectors[e.vec] : e \in ToSet(postings'[h])}
             made == ToSet(newHeads') \cup ({Head(work)[1]} \cap DOMAIN centroids')
         IN  \A g, h \in made : \A v \in own(g) :
                 SquareDist(v, centroids'[g]) <= SquareDist(v, centroids'[h])]_vars
=============================================================================
