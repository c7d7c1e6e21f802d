# open-turbopuffer in TLA+

Specifications, TLC models and TLAPS proofs for open-turbopuffer: a vector
database whose only durable state is an object store.

## The system

| Part | Source (`src/crates/...`) | State | Operations |
|---|---|---|---|
| Group commit | `tpuf-server/src/engine/batcher.rs` | operations waiting, start of the window | `submit`, `flush` |
| Namespace engine | `tpuf-server/src/engine/namespace.rs` | per namespace: metadata (`wal_sequence`, `dimensions`), documents, sequence of each document, loaded index, manifest etag | `upsert`, `delete_docs`, `flush_batcher`, `create_namespace`, `delete_namespace`, `init`/`load_namespace`, `query`, `reload_indexes_if_changed` |
| Object store | `tpuf-server/src/storage/mod.rs` | `meta.bin`, `wal/<seq>.wal`, `index/manifest.bin`, centroids, version map, postings | PUT, conditional PUT, GET, LIST, DELETE |
| Posting cache | `tpuf-server/src/storage/cache.rs` | postings by namespace and head | `get`, `get_multi`, `insert`, `invalidate_namespace` |
| Indexer | `tpuf-indexer/src/{main,indexer}.rs` | none between runs | `run_indexer`: load, replay the new WAL entries, persist |
| SPFresh index | `tpuf-server/src/engine/index/spfresh/` | heads, postings, version map, vector count | `insert`, `delete`, `search`, splits and reassignments |
| Search algorithms | `tpuf-server/src/engine/search.rs`, `spfresh/search.rs`, `spfresh/kmeans.rs` | none | `brute_force_knn`, `merge_top_k`, `search_postings`, `binary_kmeans` |
| HTTP API, server main | `tpuf-server/src/api/mod.rs`, `main.rs` | none | handlers; start-up; 30 s reload task |
| CLI | `tpuf-cli/src/main.rs` | none | HTTP client |

How they interact. A handler's task submits its operations to the namespace's
batcher, sleeps through the batch window and flushes; whichever task wakes
first takes everybody's operations, checks vector lengths, writes one WAL object
with `If-None-Match: *`, applies it to the in-memory documents and overwrites
`meta.bin`, holding the namespace's write lock across both PUTs. A restarted
server lists and replays the WAL. The indexer is a separate process that shares
only the object store: it reads the manifest, replays the WAL entries the
manifest does not cover into a copy of the index and writes postings,
centroids, version map and, last and conditionally, the manifest. The server
polls the manifest and swaps the new index in; a query merges what the index
finds with a brute-force search of the documents newer than the index.

What is hard. Tasks interleave at every await; a PUT may be stored although its
caller saw an error or is gone; the group commit answers one task with the
result of another's flush, or before it; index objects are overwritten in place
while readers load them; versions are 7 bits wide; posting copies become stale.

Correctness, component by component:

- *Write path and replay*: memory equals the replay of the log; the log has no
  hole, is append-only, holds every operation at most once and in real-time
  order; nothing visible is lost by a restart; an error that promises "not
  written" keeps the promise; nobody waits for ever.
- *Namespace lifecycle*: whatever generation of a name a request has found, it
  never damages the log that all generations share; no acknowledged write is
  left in a dead batcher; the two maps of the process agree; nested locks never
  block for ever.
- *Indexer and reload*: a manifest only names objects of its own build; the
  manifest's WAL position never goes back; an index the server has loaded
  agrees with the WAL up to its position.
- *SPFresh*: no live vector is lost by splits and reassignments, no deleted or
  superseded copy is returned.
- *Query*: index and tail together are the log, each entry in one of them; no
  id twice, no deleted document, an updated one under its new vector.

`PROJECT.json` lists every component with its status and every hazard with its
line.

## Modules

| Module | What it is |
|---|---|
| `WalReplay` | contents of a WAL entry, `apply_wal_entry`, the dimension check; pure operators |
| `WritePath` | the write path of one namespace: requests, batcher, lock, PUTs, store, crash, start-up |
| `CommitLog` | the abstract promise: an append-only log of batches and a growing view of it |
| `Namespaces` | the life of a namespace name: creations, deletions, writes, reads and reloads at once, crash and start |
| `FairRwLock` | tokio's `RwLock` as a queue; pure operators |
| `VectorSearch` | distances, `brute_force_knn`, `merge_top_k`, `search_postings`; pure operators |
| `HybridQuery` | what a query finds in index and tail while documents are written, indexed and reloaded |
| `SPFresh` | one `SPFreshIndex`: inserts, deletes and searches of several threads, splits, reassignments, versions |
| `SPFreshGeometry` | the index of one thread with its centroids, distances and k-means; implements `SPFresh` |
| `IndexStore` | the index objects of a namespace and the runs of several indexers that build them |
| `HotReload` | `IndexStore` composed with the server that polls, loads and swaps in the index, its posting cache and its restarts |
| `WritePathInv`, `NamespacesInv`, `HybridQueryInv`, `SPFreshInv`, `IndexStoreInv`, `HotReloadInv` | the inductive invariants |
| `WalReplay_proofs` | lemmas about `WalReplay` that the write path, the namespaces and the query share |
| `WritePath_proofs`, `CommitLog_proofs`, `Namespaces_proofs`, `HybridQuery_proofs`, `SPFresh_proofs`, `IndexStore_proofs`, `HotReload_proofs` | the theorems, proved with TLAPS |
| `MCWritePath`, `MCNamespaces`, `MCHybridQuery`, `MCSPFresh`, `MCSPFreshGeometry`, `MCIndexStore`, `MCHotReload` | instances for TLC |

How they fit together. `Namespaces` and `HybridQuery` use the operators of
`WalReplay`, the one for the states of all generations, the other for the
documents a query sees. `HotReload` extends `IndexStore` by the server.
`SPFreshGeometry` is mapped onto `SPFresh` by an `INSTANCE`, `WritePath` onto
`CommitLog`. What one module leaves open another one settles: late PUTs and
vector lengths are `WritePath`'s, racing indexers and torn reloads
`IndexStore`'s and `HotReload`'s, distances `SPFreshGeometry`'s and
`VectorSearch`'s.

### WritePath and the code

A request `r` is the task of one HTTP handler and runs through `pc[r]`:
`idle`, `window` (submitted, in `WriteBatcher::flush`), `taken` (it holds the
batch `batch[r]` and waits for the namespace lock), `wal` (lock held, WAL PUT
sent), `meta` (applied, metadata PUT sent), then an outcome: `ok`, `mismatch`,
`conflict`, `walError`, `metaError`, or `gone` (its future was dropped or the
server crashed).

| Action | Code |
|---|---|
| `Submit` | `upsert` / `delete_docs` up to `batcher.submit` |
| `TakeBatch`, `FindNothing` | end of `WriteBatcher::flush`, `ops.is_empty()` |
| `RejectBatch` | write lock granted, dimension check fails |
| `SendWalPut` | write lock granted, check passes, `write_wal` sent |
| `WalPutOk` | `apply_wal_entry`, `wal_sequence`, `doc_count`, `write_metadata` sent |
| `WalPutConflict`, `WalPutError`, `MetaPutOk`, `MetaPutError` | the replies of the two PUTs |
| `Cancel` | the client disconnects, axum drops the handler's future at an await |
| `StoreWalPut`, `StoreMetaPut` | the store processes a PUT, whether or not its sender still waits |
| `Crash`, `LoadMetadata`, `ListWal`, `ReplayEntry`, `PublishNamespace` | process death and `load_namespace` |
| `AllAnswered` | nothing is left to do; keeps the deadlock check meaningful |

A PUT is a message on its way (`walPut`, `metaPut`): an error reply or a crash
does not take it back, so it may be stored at any later time or never. The
batch window is not timed: `flush` may end at any moment after `submit`, which
includes every order in which sleeping tasks wake. The steps of a task that
touch no shared state between two awaits are one action.

Data. A payload is a member of `Contents`, of a vector only its length
matters (`Dim`). A request carries one operation of `Writes`: one payload, or a
deletion, for a set of ids. An operation names its request, which is how the
properties tell operations apart; the code's entries carry no such name.

Not part of the model: the fallback of `write_wal` for stores without
conditional PUT (S3, R2 and MinIO have it), failed GETs during start-up
(`init` then fails and the process starts over: the same as staying `down`),
timestamps, encoding, several namespaces (they share the map and the process,
see `Namespaces`).

### Namespaces and the code

A name is looked up in two maps, `namespaces` and `batchers`. Each creation and
each start makes a new `NamespaceState` and a new `WriteBatcher`: the next
*generation*. A task keeps what it found (`mine`), whatever the maps name by
now. The store knows only the name, so that all generations write to the same
keys. Tasks interleave at awaits: the fair lock around the map, the lock around
each state, the batch window and the requests to the store. At each of them the
handler may be dropped, and each request to `meta.bin` may fail.

| Action | Code (`namespace.rs`) |
|---|---|
| `Arrive` | a request, or a round of the reload task, begins; all but writes ask for the map |
| `Check`, `PutNewMeta`, `InsertState`, `InsertBatcher` | `create_namespace` |
| `Check`, `EraseListed`, `EraseMeta`, `RemoveState`, `RemoveBatcher` | `delete_namespace` with `ObjectStore::delete_namespace` |
| `WriteNothing`, `LookupBatcher`, `Submit`, `TakeBatch` | `upsert`, `delete_docs`, `WriteBatcher::flush` |
| `FindState`, `PutWal`, `ApplyEntry`, `PutMeta` | `flush_batcher`: the name is looked up again |
| `Enter`, `Read` | `query`, `get_document`, `index_len`, `list_namespaces`: they keep the map locked while they wait for the state |
| `Enter`, `ReadEtag`, `EnterAgain`, `Swap` | `try_reload_index`, which takes both locks twice |
| `Cancel` | the client disconnects, axum drops the handler's future at an await |
| `Land` | the store processes a request to `meta.bin` whose task has ended |
| `Crash`, `Start` | process death and `NamespaceManager::init` |

`ObjectStore::delete_namespace` lists the prefix one level deep. Of the
subdirectories `wal/` and `index/` it sees the names, and deleting those deletes
no object; only `meta.bin` goes, first as a name of the listing (`EraseListed`)
and then by itself (`EraseMeta`). The log of a deleted namespace therefore
remains, and `Init` starts from an empty store, from the store of a namespace,
and from what a deletion left.

Each of these requests ends with `?`: an error in the listing, in a deletion or
in a creation's `write_metadata` is answered 500 before either map is touched,
with `meta.bin` there or not. Of a request that failed, or whose handler was
dropped, the outcome is unknown: `late` holds the tasks whose request to
`meta.bin` may still arrive, and `Land` is its arrival, or it never comes.
(`late` is generous: it also holds tasks that failed before they sent the
deletion.) `overlapped` and `parted` are history variables, read by properties
only: a creation has met a deletion; a handler was dropped between its changes
of the two maps.

`FairRwLock` is tokio's lock: those who ask form a queue, a reader that comes
after a waiting writer waits too. This is what makes the nesting of the two
locks worth checking.

Left out: the outcome of a WAL PUT is known at once (unknown ones are
`WritePath`'s), and the dropped flush has either put its entry or not; vector
lengths and their mismatch (`WritePath`'s); `join_all` in the listing and the
contents of a reload (`HotReload`'s). `batchers` has a lock of its own, which no
task keeps across an await, so that asking for it is not a step.

### HybridQuery, VectorSearch and the code

Documents are the replay of the log, `postings` the entries of all postings in
the store, `stored` the manifest with its version map, `view` the index the
server has loaded.

| Action or operator | Code |
|---|---|
| `WriteEntry` | `flush_batcher`, one operation on one document |
| `StartRun`, `IndexEntry`, `PutPostings`, `PutManifest` | `run_indexer` with `replay_into_index` and `persist_index` |
| `Inserted`, `Deleted`, `Splits` | `SPFreshIndex::insert`, `delete`; the copies a split moves and drops |
| `Reload` | `try_reload_index` |
| `Unindexed`, `FromIndex`, `Merged`, `Query` | `NamespaceManager::query` |
| `Distance`, `BruteForceKnn`, `MergeTopK`, `SearchPostings` | `search.rs`, `spfresh/search.rs` |

A query changes nothing, so it is an operator, and the properties quantify over
all queries in every reachable state; its answers are a *set*, because equal
distances come in the order of a `HashMap`. It holds the namespace's read lock,
which excludes flushes and reloads but not the indexer: it may read postings
that were just overwritten with the version map of the build before.

A vector is one integer coordinate. On such vectors all three metrics are exact,
and they order them in three different ways. Which copies the splits of an
insert move or drop is open. The index is taken to have at most
`num_search_heads` heads (64 by default), so that a query reads every posting:
beyond that an answer is approximate and exactness is not promised.

### SPFresh and the code

`SPFreshIndex` takes `&self` everywhere and protects itself with three locks:
the head index (`RwLock`), the version map (`RwLock` around a vector of
atomics) and the posting store. A thread `t` executes one call at a time and
`pc[t]` says how far it is: `init`, `head`, `place`, `append`, `measure`,
`oversized` inside `insert`; `split`, `reassign` inside
`process_pending_splits`; `read`, `filter` inside `search`; else `idle`.

| Action | Code (`spfresh/`) |
|---|---|
| `Insert` | `mod.rs` `insert` up to `ensure_capacity`, which needs the version map's write lock |
| `Initialize` | `VersionMap::initialize`: version 1, not deleted, whatever was there |
| `FirstHead` | the first vector becomes a head, under the write lock of the heads |
| `Place`, `AppendTo`, `Measure` | `updater.rs` `insert_vector`: choose heads and read the version; then, head after head, append and read the size |
| `StartSplits`, `EndSplits` | `process_pending_splits` takes and releases the write lock of the heads; `vector_count` |
| `SkipHead`, `Split` | `rebuilder.rs` `split_posting`: nothing to do, garbage collection only, or two clusters; with the scan of `reassign_after_split` |
| `Reassign` | `increment_version` and the append of one candidate's new copy |
| `EndReassign` | the recursion of `process_splits_recursive`, flattened into the list `work` of heads with their depths |
| `Delete` | `mark_deleted`, `vector_count` |
| `Search`, `SearchRead`, `SearchReturn` | choice of heads under the read lock; `get_multi`; filter and result of `search_postings` |

Locks appear as guards on the stages of the other threads: `HeadsReadable`,
`HeadsWritable`. `Initialize`, `Delete` and the increments in `Reassign` have
no guard: they change atomics and interleave with everything. A delete between
the scan for candidates and the increment, an insert of the same id between
another insert's `place` and `append`, and a search whose heads were split
before it reads the postings are all behaviours of the model.

Geometry is abstract. The heads a vector is placed in are any at most
`ReplicaCount` heads, the clusters any two non-empty parts, the vectors a new
head attracts any, and so are the other heads that are looked through for them
(the `reassign_range` nearest in the code). This covers every set of vectors, so what holds in the model
holds for all distances; that the code's choices are among these is what
`SPFreshGeometry` shows. A vector is the number of the `insert` call that
brought it, which is what tells two vectors of one id apart. A posting is a set:
entries equal in id, version and vector count once.

Coarser than the code, with the reason: the puts of one split, and the
increment of one candidate together with the puts of its copies, are one step
each. Both run under the write lock of the heads, so only `get_multi` of a
search that chose its heads before can read in between, and it then misses
entries and finds none that it would not have found before or after. A posting
is filtered in one step. `search` reads all heads (there are at most
`num_search_heads`, and reading fewer only removes results); top-k and ranking
belong to the search algorithms. The capacity of the version map is left out:
`ensure_capacity` runs before `initialize`, and an entry beyond it reads as
version 0. A delete of an id that was never inserted is in the model: it marks
the id and lowers the count. Conversions to and from the files of the index
belong to the indexer.

`removed`, `gone` and `base` are history variables, read by properties only.

### SPFreshGeometry and the code

The same calls of one thread, which is how `run_indexer` uses the index, with
what `SPFresh` leaves open: centroids (`centroids`), `HeadIndex::search`
(`SearchHeads`), `rng_filter` (`RngFilter`), `binary_kmeans` (`KMeans`, with the
repair of an empty cluster and the unrepaired assignment after `max_iters`), the
two clusters with a kept head (`SplitInto`) and the scan of
`reassign_after_split` (`Attracted`). Postings are the lists they are in the
code: k-means starts from the first and the last vector. `Attracted` looks through all
heads: the instance has fewer of them than `reassign_range` (64 by default).

A vector is a multiple of `Unit` on a line, and `Unit` is divisible by the size
of every cluster, so that means are integers and "closer than the tolerance" is
"equal". `f32` rounding is therefore outside the model.

`ImplementsSPFresh` maps a list to the set of its entries. It is claimed as long
as no id is inserted twice: then a version may be given out a second time, and a
list can hold two equal entries.

### IndexStore, HotReload and the code

An indexer shares nothing with the server but the object store. What matters
is which build an object is of, so an object is the number of the build that
wrote it; `builds` remembers for each build how far into the log it reaches,
its heads, and whether it was made from one whole earlier build (`whole`).
Objects are overwritten in place under fixed keys, manifest last.

| Action | Code |
|---|---|
| `WriteWal` | a WAL PUT of the server; the log is contiguous and append-only, as `WritePath` shows, so its length is enough |
| `StatManifest`, `ReadManifest` | `read_index_manifest_with_etag` of `run_indexer`: a stat for the etag, then a read |
| `ListWal` | the listing and the early return when nothing is new; without a manifest the index starts empty |
| `LoadCentroids`, `LoadVersionMap`, `LoadPosting`, `EndLoad` | `load_index_from_s3`, one request each |
| `Replay` | `read_wal` and `replay_into_index` of the new entries |
| `PutPosting`, `PutCentroids`, `PutVersionMap` | `persist_index` up to the version map |
| `PutManifest` | `write_index_manifest_cas`: `If-Match` with the etag of the stat, or `If-None-Match` |
| `Abort` | the process dies, or a request fails and `?` ends the run |
| `Poll` | `try_reload_index` compares etags |
| `ReloadStat`, `ReloadManifest`, `ReloadCentroids`, `ReloadVersionMap` | `try_load_index_from_s3` |
| `Swap` | the index, etag and `indexed_up_to_seq` are replaced under the write lock |
| `Fetch`, `Evict` | `get` of the posting cache within a query, which holds the read lock; the cache evicts as it likes |
| `Restart` | the server ends and starts: the index is loaded as in a first reload; cached postings survive in the disk tier, any of them |

Abstractions. The etag is the build number: two manifests differ in their WAL
position, so in their contents. The heads of a build are any set of head ids,
each with a posting (`Alignment`); in the code ids grow with `next_id`, which
only restricts the choice. Postings are read and written in any order. A PUT
takes effect at once or not at all: a late one is a run that ends later. The
entries of the log are immutable, so their reads are part of `Replay`. A
reload that meets an error changes nothing and is left out, as are stores
without conditional PUT and `persist_index` of the server, which only its tests
call. `builds` and `overlapped` are history variables: no guard reads them but
the bounds.

What the properties do not say: that an object reaches a position means that
all entries up to it went into the build, not that a reader with an older
version map or older centroids finds each of them. An entry that a later build
moved to another head may be missed until the next reload.

## Runs

| Run | Bounds | What it shows |
|---|---|---|
| `write_path` | 3 requests, 2 ids, 3 writes (two vector lengths and a delete), 1 crash | type and 8 safety invariants, refinement of `CommitLog` |
| `write_path_live` | 2 requests, 1 crash, fairness | every request is answered; group commit completes |
| `namespaces` | 3 requests of any kind at once, 1 id, 1 crash, 1 client that goes away, any number of failing and late requests to `meta.bin`, fairness; initial store empty, of a namespace new or written to, or left by a deletion | shared log never damaged, states are replays, acknowledged writes accounted for, no failure parts the maps, every request answered |
| `query` | 3 ids, log of 3, vectors -1 and 2 and a payload without, top_k up to 2, 3 metrics, 1 moved copy per insert | answers well formed, new vectors win, exact while nothing is rewritten, bounded shortfall |
| `spfresh` | 2 threads, 2 ids, 3 inserts, 1 delete, 1 search, postings of 1, split depth 1, 1 replica, versions 0 .. 3 | type, coverage, alignment, complete deletion, bounded growth of heads, at most so many current copies as replicas |
| `spfresh_geometry` | 4 ids, 4 points, 4 inserts, 1 delete, postings of 2, 2 replicas, the code's depth, versions and iterations | refinement of `SPFresh`, clusters separated by their centroids |
| `hot_reload` | 2 indexers, 2 heads, log of 2, 2 builds, 1 abort, 1 restart, cache of 1, fairness | nothing missing, monotone manifest, coverage of the log, one build between runs; the same for the loaded index, repair of torn loads, every index comes into use |
| `ack_without_wal` | 2 requests | violation, see below |
| `conflict_after_error` | 2 requests, no crash | violation, see below |
| `index_crash` | 1 indexer, 2 heads, log of 2, 3 builds, 1 abort | violation, see below |
| `stale_cache` | 1 indexer, 1 head, log of 2, 2 builds, no abort, no restart, cache of 1 | violation, see below |
| `stale_vector` | 2 ids, log of 3 | violation, see below |

`write_path`: three requests are the least with which a task can take the
operations of another while a third holds the lock with a PUT of unknown
outcome; two sequences in flight, a hole, an overtaking batch and a repeated
sequence all need no more. One crash suffices to separate a PUT from its sender
and to compare memory before and after a replay; the proofs hold for any number.
Two ids let one entry partly overwrite another. `Reqs` is a symmetry set of the
safety run only.

`namespaces`: every race found is between three parties: a flush of one
generation, a deletion, a creation; two creations and a writer between them; a
reader, a flush and a reload for the locks. What earlier requests left is in the
initial stores. One id and one payload are enough, since an operation names its
request (0 wrote what was there before). `MaxDrops` bounds the clients that go
away: none does once so many requests went unanswered, by a crash or by a client
before. One is enough to leave a batch, a lock or a half-made change behind for
two others to meet; the proofs hold for any number.

`query`: three documents let an answer of two be wrong by one; a log of three
gives an entry that is indexed, one that is indexed again or deleted, and one in
the tail. From -1 and from 2 the metrics rank -1 and 2 differently. `Ids` is a
symmetry set.

`spfresh`: a posting of one entry makes the second insert split, so three inserts
reach splits of split heads, reassignments between them, garbage in both and an
insert of an id that was moved before. Two threads are the least for every race
named above; a third could only wait for the same locks. `VersionMask` 3 lets
versions wrap within three inserts. Depth 2 with two threads, or two replicas,
has tens of millions of states; both are in `spfresh_geometry`, which follows one
thread.

`spfresh_geometry`: four points at distances 1, 2 and 1 give equal vectors, lopsided
clusters, kept heads and ties; postings of two are what k-means can divide in
more than one way; four inserts make a split of a split. `Ids` is a symmetry set.

`hot_reload`: two indexers are the least that race for the manifest, with two
heads a build can add a head, drop one or be written in part. Two positions
of the log give the manifest that a reload finds and the one that overtakes it
between any two of its requests. The abort may come between any two requests of
a run, the restart between any two of a reload. With three builds and one head
the same properties hold too (2.1 million states, not among the runs).

Deadlock is checked in every run.

### Fairness

`FairSpec` assumes weak fairness of each task's own steps and of the loading
steps (the runtime schedules ready tasks, a supervisor restarts the process),
of the replies (the HTTP client ends each PUT with a reply or an error: it is
not assumed that a PUT succeeds or is ever stored), and strong fairness of
`Acquire`: tokio's `RwLock` queues waiters in order, so a waiter is not
overtaken for ever.

`FairSpec` of `Namespaces` assumes weak fairness of each task's steps: the
executor runs every task that can go on, and the store answers each request. The
locks need no assumption: their queues are part of the state. Nothing is assumed
of arrivals, of crashes, of clients that go away or of a start. Requests are
finitely many, so "all of them end" is stated as "again and again none is in
progress" (`EveryRequestAnswered`).

`FairServer` assumes weak fairness of the server's `Reload` steps alone: the
30 s task of `main.rs` polls for ever, and each of its requests ends. It assumes
nothing of the indexers: a run may stop anywhere for good, and a manifest that
was published must still come into use. That no reload fails for ever is part of the
assumption.

`SPFresh` states no fairness: its locks are `std::sync::RwLock`, which promises
none. That a split cascade ends is stated as a safety property instead:
`HeadGrowthBounded` bounds the heads one insert can make, and with them the
splits.

### Where code and documents disagree

- `AcknowledgedIsDurable`: `flush_batcher` returns `Ok` when it finds the
  batcher empty (`namespace.rs:290`). The operations of that request are then
  in the hands of another task which has not written them yet and may fail.
  The documents promise "Inserts go to WAL + index before response"
  (`docs/high-level-summaries/2026-03-17-gap-analysis.md:49`) and "ACK to client
  after WAL write" (`docs/2026-02-19-22-09-25-spfresh-s3-redesign.md:206`).
  `FlushedIsDurable` is what holds instead, for the task that flushes, and
  `AcknowledgedAccounted` for the others: such an operation is in the hands of a
  task that was not answered Ok.
- `NoWriteConflict`: "With this constraint, no write conflicts occur"
  (`docs/2026-02-12-18-58-08-s3-conditional-writes.md:12`). After a WAL PUT of
  unknown outcome `wal_sequence` stays behind and every further write conflicts
  until the next start (`namespace.rs:333`). `AtMostOneAhead` is what holds.
- `CurrentVectorsOnly`: "If a document is updated after the index was built, the
  ANN result for the old vector is filtered out"
  (`docs/high-level-summaries/2026-03-17-hybrid-query-and-indexer.md:45`). Only
  ids with a vector in the tail are filtered out (`namespace.rs:464`): a document updated to have
  none is found under its old vector. Indexing the update does not help, as
  `replay_into_index` passes over it; and a second vector for an id is given
  version 1 again (`version_map.rs:36`), so that the first one's copy stays
  current. `FreshVectorWins` is what holds: as long as the new vector is in the
  tail, it is the one that counts.
- `CrashSafe`: "If crash before manifest write, startup ignores partial data"
  (`docs/2026-03-17-09-23-51-spfresh-s3-persistence.md:68`), "Manifest-last
  protocol — crash between writes is safe"
  (`docs/high-level-summaries/2026-03-17-project-status.md:81`). It is, for the
  first build. Every further one overwrites the objects the manifest points to
  (`indexer.rs:121`), and after a crash a start loads centroids of one build
  with postings of another: entries that moved to heads the old centroids do not have, or
  carry versions the old version map does not know, are not found. `AllPresent`
  is what holds: nothing is missing altogether.
- `QueryCovers`: "On hot-reload we create a fresh cache or let stale entries age
  out" (`cache.rs:123`). No fresh cache is made, `invalidate_namespace` is
  empty (`cache.rs:120`) and posting keys are the same for every build. A
  posting cached before a reload ends before the new `indexed_up_to_seq`; what
  the reload took out of the tail is then in neither part of a query, against
  "everything ≤ this sequence is in the index"
  (`docs/high-level-summaries/2026-03-17-hybrid-query-and-indexer.md:43`).
  `ViewCovers` is what holds for the postings in the store.

What the models showed besides, where no document says otherwise or the
statement is a plan's, and no run stands for it:

- `docs/2026-02-26-14-32-07-spfresh-wiring-and-s3-centroids.md:66` plans "No
  posting entry has version > version_map.get_version(vid)", which a second
  insert of an id breaks by resetting its version, and at `:69` "After all
  splits resolve, no posting list exceeds max_posting_size", which superseded
  copies and entries reassigned to a kept head break after a few inserts.
- A creation that overlaps a deletion of the same name can leave the name in
  `namespaces` but not in `batchers`: reads succeed, writes are answered 404,
  creation 409, until the next deletion or start. A client that disconnects
  between the two changes (`namespace.rs:215`, `:240`) does the same without an
  overlap, or leaves it in `batchers` only, where writes are taken and then
  answered 404.
- A deletion that fails after `meta.bin` is gone (`storage/mod.rs:293`) is
  answered 500 and leaves the namespace in both maps. It is served on, and is
  gone after the next start unless a write has put `meta.bin` back. A deletion
  whose answer was lost may take `meta.bin` at any later time, from a namespace
  that was created since.
- `MapsAgree` is what holds as long as no creation meets a deletion: an error never
  parts the maps, a handler dropped between its two changes does, until the next
  creation or deletion succeeds or the server starts; and a namespace they name
  has its `meta.bin` unless a deletion of it did not succeed.
- Two creations at once may both be answered 201; writes acknowledged through
  the first are invisible until a restart, and writes through the second are
  refused with 500 as soon as their sequence meets one of the first's
  (`StateIsReplay` and `LogNeverOverwritten` hold all the same).
- A flush in flight during a deletion writes `meta.bin` again: the namespace is
  back after a restart. A name that was deleted and created again replays the
  old log at the next start.
- A request may be answered 404 or 500 although its operation was logged by
  another's flush; an empty upsert to a missing namespace is answered 200.
- An index whose count is 0 is skipped by queries even if it has entries: deletes
  of ids that were never indexed lower the count. A query's index part is ranked
  by the index's metric, its tail by the request's.
- Cached postings survive restarts, and the deletion and re-creation of a
  namespace.

## Proofs

`WritePath_proofs` and `CommitLog_proofs` prove, for every set of requests, ids,
payloads and writes and any number of crashes, that `Spec` implies each of the
properties of the run `write_path`, the refinement of `CommitLog` included: see
"theorems" in `PROJECT.json`. Three more, which no run repeats, say that the log
is at most one entry ahead of a running server (`AtMostOneAhead`), that
metadata trails the log (`MetadataTrailsLog`) and that the log is append-only
(`LogAppendOnly`). The assumptions are those of the modules:
`AbsentAssumption`, `DimAssumption`, `WritesAssumption`, `MaxCrashesAssumption`;
no set is assumed finite.

The argument. None of the properties is inductive by itself. `IInv` adds:

- `LogShape`: the log is `1 .. n` with `n` at most one past `shown`, the
  largest sequence readers have ever seen. Every sequence given to a PUT is
  `walSeq + 1`, so a late PUT either fills that one place or is refused.
- `TaskShape`: what a task's stage implies for lock, batch and PUT; a task
  waiting for a WAL reply holds the lock and `putSeq = walSeq + 1`, hence
  `walSeq` cannot move under it.
- `PutShape`: a stored WAL PUT is in the log with its batch, a refused one met
  an entry that was already there, of another task.
- `OnePlace`: an operation is in the buffer or in one batch, never both, never
  twice. `LogSource`: each entry is the batch of the task that wrote it.
- `SeqOrder`: what a request saw acknowledged when it was submitted has a
  sequence that is visible already, so its own will be larger.
- `MetaShape`, `ServerShape`, `MemoryShape`: metadata trails the log; the
  stages of start-up; `MemoryIsReplay` for the entries applied so far.

Each action is shown to preserve each conjunct it can disturb; lemmas on
`ReplayOf` (in `WalReplay_proofs`) say that applying entry `n + 1` extends the
replay by one. `IInv` is also checked by TLC on the instances of `MCWritePath`.

`CommitLog_proofs` builds on that invariant.

- `DimensionsUniform` needs `DimShape`: before the first crash every batch that
  passed the dimension check has vectors of the length in `dims` only. `dims`
  changes once, from `NoDim`, and batches that passed before then carry no
  vector. It ends at a crash because start-up takes the length from a `meta.bin`
  that may not have been written.
- `ImplementsCommitLog`: the accepted WAL PUT is `Commit`, its application by the
  flush `Show`, a refusal `RejectSome`, a crash `Stop`, the last step of a
  start-up `Resume`; every other step changes nothing `CommitLog` speaks of.
  `Commit` may add no request twice and none that was rejected, which is
  `OnePlace` and `LogSource`; `Resume` must show a replay that covers what was
  visible, which is `ServerShape` and `MemoryShape`.

Only model-checked: both liveness properties (liveness under fairness is outside
what TLAPS proves here).

### Namespaces

`Namespaces_proofs` proves each safety property of the run `namespaces` for any
requests, ids, payloads, requests at once, crashes and clients that go away,
hence any number of generations, from `ReqsAssumption`, `WritesAssumption`, `BoundsAssumption` and
the assumptions of `WalReplay`. `NsInv` adds:

- `MapQueue`, `StateQueues`: a task is in a lock's queue at just the points of
  its handler at which it should be, once, and as a writer unless it reads.
  `HeldProps` turns the guard of a flush, "it is my turn", into "I am at the
  front"; asking adds at the end and leaving takes one out (`AskProps`,
  `LeaveProps`), so a task at the front stays there until it leaves. Hence two
  flushes that have put their batches hold the locks of two *different* states.
- `LogShape`: the entries are `1 .. n` although several generations append. A
  state's `walSeq` is at most `n`, so a PUT that meets no entry can only be for
  `n + 1`: generations that count from the same number do not both extend the log.
- `ReplayShape`: every state ever made, reachable or not, is the replay of the
  log up to its `walSeq`, and a batch that is put but not yet applied is the
  entry after it. When it is applied, nobody else's is waiting for the same
  state, by the queues. `StateIsReplay` follows; so does `LogNeverOverwritten`,
  as entries are added only.
- `AckShape`: the operation of a write waits in the batcher the write has found,
  until a flush takes it; from then on it is in the log or in a batch whose task
  has not been told Ok. A batcher that no map names any more keeps what it has,
  and the writes that wait in it flush it. At the end this is
  `AcknowledgedAccounted`.
- `LateShape`: a request to `meta.bin` outlives its task only if the task has
  ended, and a deletion's only if it was not answered 204: what arrives late and
  takes `meta.bin` away is a deletion that did not succeed.
- `LifeShape`: without overlaps those that change the maps all create or all
  delete, at any number at once, and the point of each tells what it may rely on
  (`Stage`): a creation about to enter the map has put `meta.bin`, or a deletion
  has not succeeded since; between its two changes the map names the namespace.
  `MapsAgree` is part of it. A dropped handler leaves no point behind, which is
  why `parted` has to remember where it was.

A start reads the log through `Loaded`, a recursive function. That it *is* the
function its equation describes needs a solution of the equation to exist, which
`Iteration` of `WalReplay_proofs` provides for any step function, by induction
over a set of numbers (`SetInduction`); `LoadedProps` then shows that start-up
yields the replay of the whole log.

`NsInv` was checked by TLC on the instance of `MCNamespaces`. Only
model-checked: `EveryRequestAnswered`, a liveness property.

### HybridQuery

`HybridQuery_proofs` proves `QueryTypeOK`, `AnswersWellFormed`,
`FreshVectorWins`, `ExactWhenWrittenOnce` and `ShortfallBounded` for any finite
set of ids, any one-coordinate integer vectors, any length of the log, top_k and
number of moved copies, from the assumptions of the module and of `WalReplay`. The log,
the indexer and the reloads move as they like; the query is an operator, so
most of the work is in lemmas about `VectorSearch`.

- `Shapes` is the type invariant: finite sets of entries, versions within their
  width through every move of a copy, nothing ahead of the log. It is all that
  the answers' form needs: `SearchListed` and `BruteListed` say that both parts
  list each id once and in order, `WithoutListed` and `MergeListed` that taking
  ids out and merging keep that. The merge is a stable sort; that it *is* one,
  and loses no result, is `OrderedPlaces`: counting the elements before each one
  is a bijection onto `1 .. n`.
- `FreshVectorWins` holds since the two parts share no id: what the tail has is
  taken out of the index's results before the merge (`QueryProps`).
- `ExactWhenWrittenOnce` needs `Order` and `Once`. `Order` ties the positions
  together: the server's index is the manifest's or an older one, and while a
  run is between its postings and its manifest the store has postings of one
  position and a manifest of another, the state in which a query is *not*
  promised to be exact. `Once` says that entries, version map and count reflect
  the documents up to a position (`Reflects`): each vector has a current copy,
  and no entry has another vector. It is not implied for the store alone: the
  run works on a copy, through `insert`, moves and drops (`IndexedReflects`,
  `SplitsReflect`), and only its last step makes that copy the index.
- For the answer, `Leads` characterises the nearest k of a set without naming an
  order: a list leads a set if it lists elements of it, all or k of them, and
  none of those left out is nearer. `NearestLeads` and `LeadsNearest` say that
  this is what `Nearest` means, `MergeLeads`, by counting places, that merging
  what leads two sets leads their union. `FoundIsScores` says that the index's
  candidates are the brute-force scores of the documents it covers, and
  `IndexAndTail` that those and the tail are all documents.

- `ShortfallBounded` is about documents that are rewritten and deleted, of which
  `Once` says nothing: the index may have a vector that a document had before,
  beside the one it has. What it has is therefore said of the log, not of the
  documents (`LastWrite`, `VectorsAt`, `KeptAt`). `Replayed` says that the
  documents are the replay of the log, and `Kept` that the store's index, and
  the copy of a run, have a current entry of every vector that the log has up to
  their positions, and no undeleted entry of a document that is gone by then
  (`Keeps`). The count is no less than the number of those vectors, which is all
  that a query asks of it; a delete of what has no vector would break this,
  hence `OrderlyDeletes` in the property. `IndexedKeeps` has one case for each
  of an upsert with a vector, one without, and a delete.
- The bound then is counting. The search of the index gives top_k ids, or one
  for each vector it has to have (`FromIndexSize`); the tail has all others
  (`DocumentsCounted`). A query takes out ids of the tail (`Stale`) and ids
  without a document (`Dropped`). These sets share nothing, and each id in them
  was written before the index was built and again after (`StaleChanged`), so
  that together they count no more than `Changed`; and taking ids out of a list
  shortens it by those that it has and no more (`WithoutShort`).

Two operators have the form they have for the proofs: `Ordered` ranks by
counting and `MovedAll` is a recursive function.

`Shapes`, `Order` and `Once` were checked by TLC on the instance of
`MCHybridQuery`, `Replayed` and `Kept` on one of two ids and a log of four.

### SPFresh

`SPFresh_proofs` proves, for any number of threads, ids, calls and replicas, any
posting size, split depth and largest version, that `Spec` implies `TypeOK`,
`Coverage`, `Alignment`, `DeletionComplete` and `HeadGrowthBounded`, and
`AtMostReplicas` for as long as no version wraps. It uses the assumptions of
`SPFresh`; neither `Threads` nor `Ids` is assumed finite.

- `Coverage` fails by itself at a split: the insert that will still append
  (`WillCover`) may lose the head it chose. `LocksExclude` says that no thread
  appends while another splits, and `TargetsActive` that chosen heads are still
  active. The case distinction in a split is on the cluster of the covering
  entry; in a reassignment on whether the covered id is the one moved; at
  `Initialize` the id is at version 1 and its own insert will append.
- `Alignment` allows heads without a posting only for the first head;
  `FirstHeadPending` says that it is then the only one and that a thread still
  has to append, which must be to it.
- `DeletionComplete` needs that a removed id stays marked (`RemovedMarked`):
  only `initialize` clears the mark, since a reassignment of a deleted id does
  nothing.
- `JobHeld` and `WorkHeld` are the facts about a thread's own variables that
  each step needs.

- `HeadGrowthBounded` needs that every head in `work` has its share of the heads
  still to be made. `Growth(d)` is what a split at depth d can lead to: two heads,
  and those of two splits one level deeper. `Promised` says that there are numbers
  `left`, one for each place of `work`, that grow from the end by at least the
  growth of each head: a ledger in place of a sum over the list, which would
  need an induction. The doubling of 2^n is `TwoExp`; since no prover here knows
  powers, it counts the subsets of a set of n + 1 elements.
- `AtMostReplicas` is `ReplicasBounded`, which assumes `[]Unwrapped`: no version
  has reached its largest value, after which an old copy would be current again.
  Since it is a safety property, it holds in every behaviour up to the first
  state whose versions are not `Unwrapped`. `CopyShape` is the invariant: while
  no id is inserted twice (`Once`), an id has one vector, no entry is ahead of
  its version (`OneVector`), and the current copies with the heads an insert has
  still to append to are no more than replica_count (`FewCopies`). An append
  turns one into the other; a split puts the one copy in the head into one of
  the clusters; a reassignment makes all copies garbage and at most replica_count
  new ones. `InsertedShape` says what `Once` counts, and that a call which keeps
  the count right must be for a new id.

`IInv` and `CopyShape` were checked by TLC on the instance of `MCSPFresh`.

### IndexStore

`IndexStore_proofs` proves type correctness, `AllPresent`, `CoversManifest`,
`OneBuild` and `ManifestMonotone` for any indexers, heads, length of the log,
number of builds and of aborts, from `BoundsAssumption` alone; `Indexers` and
`Heads` are not assumed finite.

- `ManifestMonotone` rests on `Extends`: while the etag a run holds is that of
  the manifest, the position it read is the manifest's too, although the read
  came after the stat. Had the manifest changed in between, the etag would be
  of an older build and the conditional PUT would fail. That no later manifest
  can have the same etag is `Fresh`: a build belongs to one run.
- `AllPresent` rests on `Written`: by the time the manifest or the centroids
  are written, everything they point to has been, by whichever run.
- `CoversManifest` and `OneBuild` rest on `Undisturbed`: as long as runs do not
  overlap or fail (`Alone`), the one run there is has loaded exactly the
  manifest's build, and the objects are of that build or of the run's own, of
  which it says how far the run has come.

### HotReload

`HotReload_proofs` proves each safety property of the run `hot_reload`, for any
number of restarts and any capacity of the cache, from `CacheAssumption` and the
assumptions of `IndexStore`. A step moves the store or the server and leaves the
other alone, so the invariant of `IndexStore` carries over, and `ServerInv` adds
what relates the two:

- `Forward`: the positions of the index and of the reload under way are the
  manifest's, now or once, and a reload that has read the manifest is at least
  where the index is. With `ManifestGrows` this gives `ReloadMonotone`.
- `Covered`: what a reload has read, and its postings in the store, reach the
  position it began with. A later step replaces an object by one of a build that
  reaches beyond the manifest (`ReachesOn`), and whatever is read next reaches
  the manifest (`StoreReaches`). At `Swap` this is `ViewCovers`.
- `Published`: no etag the server has is that of a build still to be published;
  so a manifest that changes gets an etag that the server does not have.
- `Matching`: as long as the server's etag is the manifest's, what it read is of
  the manifest's build or of the one that is about to replace it. Without a run
  under way there is no such other build: `SettledView`.

Both invariants are also checked by TLC on the instance of `hot_reload`. Only
model-checked: `IndexBecomesVisible`, a liveness property.

Nothing is proved about `SPFreshGeometry`: its properties, the refinement of
`SPFresh` among them, rest on what recursive definitions (k-means, the filter of
heads, nested splits) compute.

## Not modelled

The CLI (an HTTP client without state); encodings (JSON, bincode, the files of
the index) and attributes; stores without conditional PUT, and the fallback for
them; `f32` rounding; timestamps; configuration. The posting cache's `insert` and
the server's own `persist_index` are called by tests only.

## Plan

Done: every component but the CLI has a module, and the invariants that runs
check are proved, `AtMostReplicas` up to the first version that wraps. What would
add most next:

1. Bounds of postings in `SPFreshGeometry`, for the plan's "no posting list
   exceeds max_posting_size".
