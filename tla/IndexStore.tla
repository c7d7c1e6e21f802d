------------------------------ MODULE IndexStore ------------------------------
(***************************************************************************)
(* The index of a namespace in the object store and the runs of            *)
(* tpuf-indexer that build it: read the manifest, load the index it names, *)
(* replay the new WAL entries, write postings, centroids and version map   *)
(* in place and at last, if nobody changed it meanwhile, the manifest.     *)
(*                                                                         *)
(* An object is the number of the build that wrote it, 0 if there is none. *)
(* The manifest's etag is the number of its build: manifests differ in     *)
(* their WAL position.  The log is contiguous and only grows (WritePath),  *)
(* so its length stands for it.  The heads of a build are any set of head  *)
(* ids; each has a posting (Alignment of SPFresh).  Postings are read and  *)
(* written in any order.                                                   *)
(*                                                                         *)
(* A request takes effect at once or not at all; one that takes effect     *)
(* after its run is gone is a run that ends later.  A run that meets an    *)
(* error ends like one that crashes: nothing of it remains but what it has *)
(* written.                                                                *)
(***************************************************************************)
EXTENDS Naturals, Sequences, FiniteSets

CONSTANTS
    Indexers,   \* processes that run tpuf-indexer, one run after the other
    Heads,      \* head ids
    MaxWal,     \* bound: length of the log
    MaxBuilds,  \* bound: number of builds
    MaxAborts   \* bound: number of runs that crash or fail

ASSUME HeadsAssumption == Heads \subseteq Nat
ASSUME BoundsAssumption == MaxWal \in Nat /\ MaxBuilds \in Nat /\ MaxAborts \in Nat

VARIABLES
    wal,         \* the last sequence in the log
    manifest,    \* manifest.bin: its build and wal_sequence
    centroids, versionMap, postings,  \* the build each object is of
    builds,      \* history: what each build was made from
    run,         \* the state of each indexer's run
    overlapped,  \* history: two runs have overlapped
    aborts       \* number of aborted runs

objects == <<centroids, versionMap, postings>>
storeVars == <<wal, manifest, objects, builds, run, overlapped, aborts>>

\* A run: its position; etag and wal_sequence of the manifest it read; the
\* end of the log it lists; the centroids it loaded and all builds it loaded
\* objects of; heads whose posting it has still to read or write; its build.
NoRun == [at |-> "idle", etag |-> 0, base |-> 0, upTo |-> 0, cent |-> 0,
          sources |-> {}, todo |-> {}, build |-> 0]

HeadsOf(b) == IF b = 0 THEN {} ELSE builds[b].heads

Running(i) == run[i].at # "idle"
Quiet == \A i \in Indexers : ~Running(i)

Init ==
    /\ wal = 0
    /\ manifest = [build |-> 0, seq |-> 0]
    /\ centroids = 0 /\ versionMap = 0
    /\ postings = [h \in Heads |-> 0]
    /\ builds = <<>>
    /\ run = [i \in Indexers |-> NoRun]
    /\ overlapped = FALSE
    /\ aborts = 0

-----------------------------------------------------------------------------
\* The server writes a WAL entry.
WriteWal ==
    /\ wal < MaxWal
    /\ wal' = wal + 1
    /\ UNCHANGED <<manifest, objects, builds, run, overlapped, aborts>>

Continue(i, fields) == run' = [run EXCEPT ![i] = fields]

\* A run begins; the stat of read_index_manifest_with_etag.
StatManifest(i) ==
    /\ ~Running(i)
    /\ Len(builds) + Cardinality({j \in Indexers : Running(j)}) < MaxBuilds
    /\ Continue(i, [NoRun EXCEPT !.at = "read", !.etag = manifest.build])
    /\ overlapped' = (overlapped \/ ~Quiet)
    /\ UNCHANGED <<wal, manifest, objects, builds, aborts>>

\* ... and its read, which may already find a later manifest.
ReadManifest(i) ==
    /\ run[i].at = "read"
    /\ Continue(i, [run[i] EXCEPT !.at = "list",
                                  !.base = IF run[i].etag = 0 THEN 0 ELSE manifest.seq])
    /\ UNCHANGED <<wal, manifest, objects, builds, overlapped, aborts>>

\* Mutant: the etag is read after the contents.
ListWalRestat(i) ==
    /\ run[i].at = "list"
    /\ IF wal <= run[i].base THEN Continue(i, NoRun)
       ELSE Continue(i, [run[i] EXCEPT !.at = IF run[i].etag = 0 THEN "replay" ELSE "centroids",
                                       !.upTo = wal, !.etag = manifest.build])
    /\ UNCHANGED <<wal, manifest, objects, builds, overlapped, aborts>>

\* list_wal_sequences: nothing new ends the run; without a manifest the index
\* starts empty.
ListWal(i) ==
    /\ run[i].at = "list"
    /\ IF wal <= run[i].base THEN Continue(i, NoRun)
       ELSE Continue(i, [run[i] EXCEPT !.at = IF run[i].etag = 0 THEN "replay" ELSE "centroids",
                                       !.upTo = wal])
    /\ UNCHANGED <<wal, manifest, objects, builds, overlapped, aborts>>

\* load_index_from_s3: three kinds of objects, one request after the other.
LoadCentroids(i) ==
    /\ run[i].at = "centroids"
    /\ Continue(i, [run[i] EXCEPT !.at = "versionMap", !.cent = centroids,
                                  !.sources = {centroids}])
    /\ UNCHANGED <<wal, manifest, objects, builds, overlapped, aborts>>

LoadVersionMap(i) ==
    /\ run[i].at = "versionMap"
    /\ Continue(i, [run[i] EXCEPT !.at = "load", !.sources = @ \cup {versionMap},
                                  !.todo = HeadsOf(run[i].cent)])
    /\ UNCHANGED <<wal, manifest, objects, builds, overlapped, aborts>>

LoadPosting(i, h) ==
    /\ run[i].at = "load"
    /\ h \in run[i].todo
    /\ Continue(i, [run[i] EXCEPT !.sources = @ \cup {postings[h]}, !.todo = @ \ {h}])
    /\ UNCHANGED <<wal, manifest, objects, builds, overlapped, aborts>>

EndLoad(i) ==
    /\ run[i].at = "load"
    /\ run[i].todo = {}
    /\ Continue(i, [run[i] EXCEPT !.at = "replay"])
    /\ UNCHANGED <<wal, manifest, objects, builds, overlapped, aborts>>

\* What was loaded holds exactly the log up to the manifest's position: it is
\* one build, itself made that way.
LoadedWhole(r) ==
    \/ r.etag = 0
    \/ \E b \in DOMAIN builds : r.sources = {b} /\ builds[b].whole /\ builds[b].seq = r.base

\* replay_into_index for the new entries; hs are the heads it ends with.
Replay(i, hs) ==
    /\ run[i].at = "replay"
    /\ builds' = Append(builds, [seq |-> run[i].upTo, heads |-> hs,
                                 whole |-> LoadedWhole(run[i])])
    /\ Continue(i, [run[i] EXCEPT !.at = "postings", !.build = Len(builds'), !.todo = hs])
    /\ UNCHANGED <<wal, manifest, objects, overlapped, aborts>>

\* Mutant: a posting is written with If-None-Match, as if head ids were unique.
PutPostingOnce(i, h) ==
    /\ run[i].at = "postings"
    /\ h \in run[i].todo
    /\ postings' = [postings EXCEPT ![h] = IF @ = 0 THEN run[i].build ELSE @]
    /\ Continue(i, [run[i] EXCEPT !.todo = @ \ {h}])
    /\ UNCHANGED <<wal, manifest, centroids, versionMap, builds, overlapped, aborts>>

\* persist_index: the postings of all active heads, then the centroids ...
PutPosting(i, h) ==
    /\ run[i].at = "postings"
    /\ h \in run[i].todo
    /\ postings' = [postings EXCEPT ![h] = run[i].build]
    /\ Continue(i, [run[i] EXCEPT !.todo = @ \ {h}])
    /\ UNCHANGED <<wal, manifest, centroids, versionMap, builds, overlapped, aborts>>

\* Mutant: the centroids do not wait for all postings.
PutCentroidsEarly(i) ==
    /\ run[i].at = "postings"
    /\ centroids' = run[i].build
    /\ Continue(i, [run[i] EXCEPT !.at = "putVersionMap"])
    /\ UNCHANGED <<wal, manifest, versionMap, postings, builds, overlapped, aborts>>

PutCentroids(i) ==
    /\ run[i].at = "postings"
    /\ run[i].todo = {}
    /\ centroids' = run[i].build
    /\ Continue(i, [run[i] EXCEPT !.at = "putVersionMap"])
    /\ UNCHANGED <<wal, manifest, versionMap, postings, builds, overlapped, aborts>>

PutVersionMap(i) ==
    /\ run[i].at = "putVersionMap"
    /\ versionMap' = run[i].build
    /\ Continue(i, [run[i] EXCEPT !.at = "putManifest"])
    /\ UNCHANGED <<wal, manifest, centroids, postings, builds, overlapped, aborts>>

\* Mutant: the manifest names the end of the log, not of what was replayed.
PutManifestNewest(i) ==
    /\ run[i].at = "putManifest"
    /\ IF manifest.build = run[i].etag
       THEN manifest' = [build |-> run[i].build, seq |-> wal]
       ELSE UNCHANGED manifest
    /\ Continue(i, NoRun)
    /\ UNCHANGED <<wal, objects, builds, overlapped, aborts>>

\* Mutant: write_index_manifest instead of write_index_manifest_cas.
PutManifestAlways(i) ==
    /\ run[i].at = "putManifest"
    /\ manifest' = [build |-> run[i].build, seq |-> run[i].upTo]
    /\ Continue(i, NoRun)
    /\ UNCHANGED <<wal, objects, builds, overlapped, aborts>>

\* ... and at last the manifest, if its etag is still the one read.
PutManifest(i) ==
    /\ run[i].at = "putManifest"
    /\ IF manifest.build = run[i].etag
       THEN manifest' = [build |-> run[i].build, seq |-> run[i].upTo]
       ELSE UNCHANGED manifest
    /\ Continue(i, NoRun)
    /\ UNCHANGED <<wal, objects, builds, overlapped, aborts>>

Abort(i) ==
    /\ Running(i)
    /\ aborts < MaxAborts
    /\ aborts' = aborts + 1
    /\ Continue(i, NoRun)
    /\ UNCHANGED <<wal, manifest, objects, builds, overlapped>>

Index(i) ==
    \/ StatManifest(i) \/ ReadManifest(i) \/ ListWal(i)
    \/ LoadCentroids(i) \/ LoadVersionMap(i) \/ EndLoad(i)
    \/ \E hs \in SUBSET Heads : Replay(i, hs)
    \/ \E h \in run[i].todo : LoadPosting(i, h) \/ PutPosting(i, h)
    \/ PutCentroids(i) \/ PutVersionMap(i) \/ PutManifest(i)
    \/ Abort(i)

\* Every build has been made.
Finished == Quiet /\ Len(builds) = MaxBuilds /\ wal = MaxWal /\ UNCHANGED storeVars

StoreNext == WriteWal \/ \E i \in Indexers : Index(i)

Spec == Init /\ [][StoreNext \/ Finished]_storeVars

-----------------------------------------------------------------------------
(***************************************************************************)
(* Properties.                                                             *)
(***************************************************************************)

Build == [seq : 1 .. MaxWal, heads : SUBSET Heads, whole : BOOLEAN]

\* A run when n builds have been made.
Run(n) == [at : {"idle", "read", "list", "centroids", "versionMap", "load", "replay",
                 "postings", "putVersionMap", "putManifest"},
           etag : 0 .. n, base : 0 .. MaxWal, upTo : 0 .. MaxWal, cent : 0 .. n,
           sources : SUBSET (0 .. n), todo : SUBSET Heads, build : 0 .. n]

\* Every variable has its type; a build an object is of has been made.
StoreTypeOK ==
    /\ wal \in 0 .. MaxWal
    /\ builds \in Seq(Build)
    /\ manifest \in [build : 0 .. Len(builds), seq : 0 .. MaxWal]
    /\ centroids \in 0 .. Len(builds) /\ versionMap \in 0 .. Len(builds)
    /\ postings \in [Heads -> 0 .. Len(builds)]
    /\ run \in [Indexers -> Run(Len(builds))]
    /\ overlapped \in BOOLEAN
    /\ aborts \in 0 .. MaxAborts

\* What a reader of the index is pointed to.
Referenced == {centroids, versionMap} \cup {postings[h] : h \in HeadsOf(centroids)}

\* Manifest-last: once there is a manifest, no object that a reader is pointed
\* to is missing, however many indexers run at once, crash and fail.
AllPresent ==
    /\ manifest.build # 0 => centroids # 0 /\ versionMap # 0
    /\ \A h \in HeadsOf(centroids) : postings[h] # 0

\* The manifest's WAL position never goes back, although indexers race and
\* the etag and the contents of a manifest are read by two requests.
ManifestMonotone == [][manifest' # manifest => manifest'.seq > manifest.seq]_storeVars

Disciplined == ~overlapped /\ aborts = 0

\* "Everything <= this sequence is in the index": as long as one indexer runs
\* at a time and none fails, every object holds the log at least up to the
\* manifest's position, also while a run replaces the objects one by one.
CoversManifest ==
    Disciplined /\ manifest.build # 0 =>
        \A b \in Referenced : b # 0 /\ builds[b].whole /\ builds[b].seq >= manifest.seq

\* ... and between runs all of them are of the manifest's build.
OneBuild == Disciplined /\ Quiet /\ manifest.build # 0 => Referenced = {manifest.build}

\* "If crash before manifest write, startup ignores partial data": what a later
\* start or run loads is of one build.
CrashSafe == Quiet /\ manifest.build # 0 => \E b \in DOMAIN builds : Referenced = {b}
=============================================================================
