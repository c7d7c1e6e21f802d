----------------------------- MODULE HotReloadInv ------------------------------
(***************************************************************************)
(* The inductive invariant behind the safety properties of HotReload, to   *)
(* be read with that of IndexStore.                                        *)
(***************************************************************************)
EXTENDS HotReload, IndexStoreInv

\* What the reload under way has read.
SeqRead == reload.at \in {"centroids", "versionMap", "swap"}
CentroidsRead == reload.at \in {"versionMap", "swap"}
VersionMapRead == reload.at = "swap"

\* Positions are those of the manifest, now or once.
Forward ==
    /\ reload.at # "idle" => manifest.build # 0
    /\ view.seq <= manifest.seq
    /\ reload.new.seq <= manifest.seq
    /\ SeqRead => view.seq <= reload.new.seq

\* The etags the server has are of manifests, not of builds still to be published.
Published == \A i \in Indexers : Persisting(i) =>
    run[i].build # view.etag /\ run[i].build # reload.new.etag

\* Build c, and the postings in the store for its heads, reach position s.
Reaches(c, s) == Holds(c, s) /\ \A h \in HeadsOf(c) : Holds(postings[h], s)

\* What is read reaches the position the reload began with.
Covered == Disciplined =>
    /\ view.etag # 0 => Reaches(view.cent, view.seq) /\ Holds(view.vmap, view.seq)
    /\ CentroidsRead => Reaches(reload.new.cent, reload.new.seq)
    /\ VersionMapRead => Holds(reload.new.vmap, reload.new.seq)

\* The build of the manifest, or one that will soon replace it.
Latest(b) == b = manifest.build \/ \E i \in Indexers : Persisting(i) /\ run[i].build = b

\* As long as the etag is that of the manifest, nothing older has been read.
Matching == Disciplined =>
    /\ view.etag = manifest.build =>
         view.seq = manifest.seq /\ Latest(view.cent) /\ Latest(view.vmap)
    /\ reload.new.etag = manifest.build =>
         /\ SeqRead => reload.new.seq = manifest.seq
         /\ CentroidsRead => Latest(reload.new.cent)
         /\ VersionMapRead => Latest(reload.new.vmap)

ServerInv == ServerTypeOK /\ Forward /\ Published /\ Covered /\ Matching
=============================================================================
