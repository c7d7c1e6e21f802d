---------------------------- MODULE IndexStoreInv -----------------------------
(***************************************************************************)
(* The inductive invariant behind the safety properties of IndexStore.     *)
(***************************************************************************)
EXTENDS IndexStore

Persisting(i) == run[i].at \in {"postings", "putVersionMap", "putManifest"}
AfterRead(i) == run[i].at \notin {"idle", "read"}
AfterList(i) == AfterRead(i) /\ run[i].at # "list"

\* A build is in no manifest and no one's etag before its run has ended, and
\* belongs to that run alone.
Fresh == \A i \in Indexers : Persisting(i) =>
    /\ run[i].build # 0 /\ run[i].build # manifest.build
    /\ \A j \in Indexers : /\ run[j].etag # run[i].build
                           /\ j # i /\ Persisting(j) => run[j].build # run[i].build

\* While the etag is that of the manifest, so is the position that was read,
\* and the run extends it.
Extends ==
    /\ manifest.build = 0 => manifest.seq = 0
    /\ \A i \in Indexers :
         /\ AfterRead(i) /\ run[i].etag = manifest.build => run[i].base = manifest.seq
         /\ AfterList(i) => run[i].base < run[i].upTo /\ run[i].upTo <= wal

\* What a run has already written is there.
Written == \A i \in Indexers :
    /\ Persisting(i) => \A h \in HeadsOf(run[i].build) \ run[i].todo : postings[h] # 0
    /\ run[i].at \in {"putVersionMap", "putManifest"} => centroids # 0
    /\ run[i].at = "putManifest" => versionMap # 0

Alone == ~overlapped => \A i, j \in Indexers : Running(i) /\ Running(j) => i = j

\* All objects are of the manifest's build.
Settled ==
    /\ centroids = manifest.build /\ versionMap = manifest.build
    /\ \A h \in HeadsOf(manifest.build) : postings[h] = manifest.build
    /\ manifest.build # 0 => builds[manifest.build].whole /\ builds[manifest.build].seq = manifest.seq

\* What an undisturbed run has loaded.
LoadedOK(r) ==
    /\ r.etag = manifest.build
    /\ r.at \in {"list", "centroids", "versionMap", "load", "replay"} => r.base = manifest.seq
    /\ r.at \in {"centroids", "versionMap", "load"} => r.etag # 0
    /\ r.at \in {"versionMap", "load"} => r.cent = r.etag /\ r.sources = {r.etag}
    /\ r.at = "load" => r.todo \subseteq HeadsOf(r.cent)
    /\ r.at = "replay" => r.etag = 0 \/ r.sources = {r.etag}

\* How far an undisturbed run has replaced the objects of the manifest's build
\* by those of its own.
ReplacedOK(r) ==
    /\ r.etag = manifest.build
    /\ builds[r.build].whole /\ builds[r.build].seq = r.upTo /\ manifest.seq < r.upTo
    /\ \A h \in HeadsOf(r.build) : h \notin r.todo => postings[h] = r.build
    /\ r.at # "postings" => r.todo = {}
    /\ centroids = IF r.at = "postings" THEN manifest.build ELSE r.build
    /\ versionMap = IF r.at = "putManifest" THEN r.build ELSE manifest.build
    /\ \A h \in HeadsOf(manifest.build) : postings[h] \in {manifest.build, r.build}
    /\ manifest.build # 0 => builds[manifest.build].whole /\ builds[manifest.build].seq = manifest.seq

\* What holds as long as no run was disturbed by another one or by a failure.
Steady ==
    /\ (\A i \in Indexers : ~Persisting(i)) => Settled
    /\ \A i \in Indexers : Running(i) =>
         IF Persisting(i) THEN ReplacedOK(run[i]) ELSE LoadedOK(run[i])

Undisturbed == Disciplined => Steady

IInv == /\ StoreTypeOK /\ Fresh /\ Extends /\ Written /\ AllPresent
        /\ Alone /\ Undisturbed
=============================================================================
