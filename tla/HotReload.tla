------------------------------ MODULE HotReload -------------------------------
(***************************************************************************)
(* The server's side of IndexStore: the task that polls the manifest and   *)
(* swaps in a new index, and the posting cache through which queries read. *)
(*                                                                         *)
(* The server keeps the centroids and the version map it loaded; postings  *)
(* it reads when a query needs them, from the cache or else from the       *)
(* store.  A start loads the index like a first reload, and finds on disk  *)
(* the postings that the last process left there.  A reload that meets an  *)
(* error changes nothing and is left out.                                  *)
(***************************************************************************)
EXTENDS IndexStore

CONSTANTS
    CacheCapacity, \* postings the cache holds before it evicts
    MaxRestarts    \* bound: number of restarts of the server

ASSUME CacheAssumption == CacheCapacity \in Nat /\ MaxRestarts \in Nat

VARIABLES
    view,    \* the index the server has: manifest_etag, indexed_up_to_seq, objects
    reload,  \* the reload under way
    cache,   \* by head: the build of the cached posting, 0 if there is none
    restarts \* number of restarts

serverVars == <<view, reload, cache, restarts>>
vars == <<storeVars, serverVars>>

NoView == [etag |-> 0, seq |-> 0, cent |-> 0, vmap |-> 0]
NoReload == [at |-> "idle", new |-> NoView]

InitServer ==
    /\ Init
    /\ view = NoView
    /\ reload = NoReload
    /\ cache = [h \in Heads |-> 0]
    /\ restarts = 0

-----------------------------------------------------------------------------
\* try_reload_index: is there a manifest with another etag than the index's?
Poll ==
    /\ reload.at = "idle"
    /\ manifest.build # 0
    /\ manifest.build # view.etag
    /\ reload' = [NoReload EXCEPT !.at = "stat"]
    /\ UNCHANGED <<storeVars, view, cache, restarts>>

\* try_load_index_from_s3: the manifest's etag and, by another request, its
\* contents, then the centroids and the version map.
ReloadStat ==
    /\ reload.at = "stat"
    /\ reload' = [reload EXCEPT !.at = "manifest", !.new.etag = manifest.build]
    /\ UNCHANGED <<storeVars, view, cache, restarts>>

ReloadManifest ==
    /\ reload.at = "manifest"
    /\ reload' = [reload EXCEPT !.at = "centroids", !.new.seq = manifest.seq]
    /\ UNCHANGED <<storeVars, view, cache, restarts>>

ReloadCentroids ==
    /\ reload.at = "centroids"
    /\ reload' = IF centroids = 0 THEN NoReload
                 ELSE [reload EXCEPT !.at = "versionMap", !.new.cent = centroids]
    /\ UNCHANGED <<storeVars, view, cache, restarts>>

ReloadVersionMap ==
    /\ reload.at = "versionMap"
    /\ reload' = IF versionMap = 0 THEN NoReload
                 ELSE [reload EXCEPT !.at = "swap", !.new.vmap = versionMap]
    /\ UNCHANGED <<storeVars, view, cache, restarts>>

\* Mutant: the etag is that of the manifest in the store by now.
SwapRestat ==
    /\ reload.at = "swap"
    /\ view' = [reload.new EXCEPT !.etag = manifest.build]
    /\ reload' = NoReload
    /\ UNCHANGED <<storeVars, cache, restarts>>

\* Mutant: indexed_up_to_seq is the store's by now.
SwapNewest ==
    /\ reload.at = "swap"
    /\ view' = [reload.new EXCEPT !.seq = manifest.seq]
    /\ reload' = NoReload
    /\ UNCHANGED <<storeVars, cache, restarts>>

\* Mutant: indexed_up_to_seq is the next sequence.
SwapNext ==
    /\ reload.at = "swap"
    /\ view' = [reload.new EXCEPT !.seq = @ + 1]
    /\ reload' = NoReload
    /\ UNCHANGED <<storeVars, cache, restarts>>

\* Under the namespace's write lock.
Swap ==
    /\ reload.at = "swap"
    /\ view' = reload.new
    /\ reload' = NoReload
    /\ UNCHANGED <<storeVars, cache, restarts>>

Cached == {h \in Heads : cache[h] # 0}

\* get_or_fetch for a head of the index that a query has chosen.
Fetch(h) ==
    /\ h \in HeadsOf(view.cent)
    /\ cache[h] = 0
    /\ postings[h] # 0
    /\ Cardinality(Cached) < CacheCapacity
    /\ cache' = [cache EXCEPT ![h] = postings[h]]
    /\ UNCHANGED <<storeVars, view, reload, restarts>>

\* The cache drops what it likes.
Evict(h) ==
    /\ cache[h] # 0
    /\ cache' = [cache EXCEPT ![h] = 0]
    /\ UNCHANGED <<storeVars, view, reload, restarts>>

\* The process ends and starts anew; of the cached postings those remain that
\* were written to its disk tier.
Restart ==
    /\ restarts < MaxRestarts
    /\ restarts' = restarts + 1
    /\ view' = NoView
    /\ reload' = NoReload
    /\ \E kept \in SUBSET Cached : cache' = [h \in Heads |-> IF h \in kept THEN cache[h] ELSE 0]
    /\ UNCHANGED storeVars

Reload == Poll \/ ReloadStat \/ ReloadManifest \/ ReloadCentroids \/ ReloadVersionMap \/ Swap

Next ==
    \/ StoreNext /\ UNCHANGED serverVars
    \/ Reload
    \/ \E h \in Heads : Fetch(h) \/ Evict(h)
    \/ Restart
    \/ Finished /\ UNCHANGED serverVars

SpecServer == InitServer /\ [][Next]_vars

\* The reload task runs every 30 s; each of its reloads ends.
FairServer == SpecServer /\ WF_vars(Reload)

-----------------------------------------------------------------------------
(***************************************************************************)
(* Properties.                                                             *)
(***************************************************************************)

View == [etag : 0 .. Len(builds), seq : 0 .. MaxWal,
         cent : 0 .. Len(builds), vmap : 0 .. Len(builds)]

\* Every variable has its type, those of IndexStore among them.
ServerTypeOK ==
    /\ StoreTypeOK
    /\ view \in View
    /\ reload \in [at : {"idle", "stat", "manifest", "centroids", "versionMap", "swap"},
                   new : View]
    /\ cache \in [Heads -> 0 .. Len(builds)]
    /\ restarts \in 0 .. MaxRestarts

Holds(b, s) == b # 0 /\ builds[b].whole /\ builds[b].seq >= s

\* The tail a query scans begins right after indexed_up_to_seq, so the index
\* must reach that far: centroids, version map and the postings a query finds
\* in the store do, even if the index was read while it was being replaced, as
\* long as one indexer runs at a time and none fails.  (An entry may be missed
\* still when a later build has moved it to another head, until the next reload.)
ViewCovers ==
    Disciplined /\ view.etag # 0 =>
        /\ Holds(view.cent, view.seq) /\ Holds(view.vmap, view.seq)
        /\ \A h \in HeadsOf(view.cent) : Holds(postings[h], view.seq)

\* A reload that overlaps a run may mix objects of two builds.  The next poll
\* repairs it: with no run under way and the manifest's etag in hand the server
\* has exactly the manifest's index.
SettledView ==
    Disciplined /\ Quiet /\ view.etag = manifest.build =>
        view = [etag |-> manifest.build, seq |-> manifest.seq,
                cent |-> manifest.build, vmap |-> manifest.build]

\* A reload never goes back to an earlier index.
ReloadMonotone == [][restarts' = restarts => view'.seq >= view.seq]_vars

\* Every published index, or a later one, is eventually in use.
IndexBecomesVisible ==
    \A s \in 1 .. MaxWal : manifest.seq = s ~> view.seq >= s

\* What a query reads: "on hot-reload we create a fresh cache or let stale
\* entries age out", so that an index in use has all of its postings.
QueryCovers ==
    \A h \in HeadsOf(view.cent) :
        LET b == IF cache[h] # 0 THEN cache[h] ELSE postings[h]
        IN  b # 0 /\ builds[b].seq >= view.seq
=============================================================================
