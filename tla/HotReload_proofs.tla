---------------------------- MODULE HotReload_proofs ---------------------------
(***************************************************************************)
(* Theorems about HotReload: for any indexers, heads, builds, aborted runs *)
(* and restarts of the server, and any size of its cache.                  *)
(***************************************************************************)
EXTENDS HotReloadInv, IndexStore_proofs

USE CacheAssumption

\* A run that has a build keeps it until it ends; a run gets a new one.
Kept(i) == Persisting(i)' /\ run'[i].build = run[i].build

\* The run of another indexer stays as it is.
LEMMA OthersKept ==
    ASSUME StoreTypeOK, NEW i \in Indexers, NEW r, Continue(i, r), NEW j \in Indexers, j # i
    PROVE  run'[j] = run[j]
  BY DEF Continue, StoreTypeOK

\* A step of an indexer is one of its run.
LEMMA IndexContinues ==
    ASSUME NEW i \in Indexers, Index(i)
    PROVE  \E r : Continue(i, r)
  BY DEF Index, StatManifest, ReadManifest, ListWal, LoadCentroids, LoadVersionMap, EndLoad,
     LoadPosting, Replay, PutPosting, PutCentroids, PutVersionMap, PutManifest, Abort

LEMMA StepKinds ==
    ASSUME Step
    PROVE  \/ \E i \in Indexers : Index(i)
           \/ UNCHANGED <<manifest, objects, run, builds, overlapped, aborts>>
  BY DEF Step, StoreNext, Finished, storeVars, WriteWal

\* Which builds runs hold after a step.
LEMMA BuildsHeld ==
    ASSUME StoreTypeOK, Step, NEW j \in Indexers, Persisting(j)'
    PROVE  (Persisting(j) /\ Kept(j)) \/ run'[j].build = Len(builds) + 1
<1>1. run \in [Indexers -> Run(Len(builds))] /\ builds \in Seq(Build)
  BY DEF StoreTypeOK
<1>2. CASE UNCHANGED run
  BY <1>2 DEF Persisting, Kept
<1>3. ASSUME NEW i \in Indexers, NEW r, Continue(i, r), j # i
      PROVE  Persisting(j) /\ Kept(j)
  BY <1>1, <1>3 DEF Continue, Persisting, Kept
<1>4. ASSUME \/ StatManifest(j) \/ ReadManifest(j) \/ ListWal(j) \/ LoadCentroids(j)
             \/ LoadVersionMap(j) \/ EndLoad(j) \/ PutManifest(j) \/ Abort(j)
             \/ \E h \in run[j].todo : LoadPosting(j, h)
      PROVE  ~Persisting(j)'
  <2>1. CASE StatManifest(j) \/ PutManifest(j) \/ Abort(j)
    <3>1. Continue(j, NoRun) => run'[j].at = "idle"
      BY <1>1 DEF Continue, NoRun
    <3>2. StatManifest(j) => run'[j].at = "read"
      BY <1>1 DEF StatManifest, Continue, NoRun
    <3>3. QED BY <2>1, <3>1, <3>2 DEF PutManifest, Abort, Persisting
  <2>2. CASE ReadManifest(j) \/ LoadCentroids(j) \/ LoadVersionMap(j) \/ EndLoad(j)
    <3>1. run'[j].at \in {"list", "versionMap", "load", "replay"}
      <4>1. ASSUME NEW r, Continue(j, r)
            PROVE  run'[j] = r
        BY <1>1, <4>1 DEF Continue
      <4>2. ReadManifest(j) => run'[j].at = "list"
        BY <1>1, <4>1 DEF ReadManifest, Run
      <4>3. LoadCentroids(j) => run'[j].at = "versionMap"
        BY <1>1, <4>1 DEF LoadCentroids, Run
      <4>4. LoadVersionMap(j) => run'[j].at = "load"
        BY <1>1, <4>1 DEF LoadVersionMap, Run
      <4>5. EndLoad(j) => run'[j].at = "replay"
        BY <1>1, <4>1 DEF EndLoad, Run
      <4> QED BY <2>2, <4>2, <4>3, <4>4, <4>5
    <3> QED BY <3>1 DEF Persisting
  <2>3. CASE ListWal(j)
    <3>1. Continue(j, NoRun) => run'[j].at = "idle"
      BY <1>1 DEF Continue, NoRun
    <3> DEFINE at == IF run[j].etag = 0 THEN "replay" ELSE "centroids"
    <3>2. Continue(j, [run[j] EXCEPT !.at = at, !.upTo = wal]) => run'[j].at = at
      BY <1>1 DEF Continue, Run
    <3>3. QED BY <2>3, <3>1, <3>2 DEF ListWal, Persisting
  <2>4. CASE \E h \in run[j].todo : LoadPosting(j, h)
    BY <2>4, <1>1 DEF LoadPosting, Continue, Persisting, Run
  <2>5. QED BY <1>4, <2>1, <2>2, <2>3, <2>4
<1>5. ASSUME \/ PutCentroids(j) \/ PutVersionMap(j) \/ \E h \in run[j].todo : PutPosting(j, h)
      PROVE  Persisting(j) /\ Kept(j)
  BY <1>1, <1>5 DEF PutPosting, PutCentroids, PutVersionMap, Continue, Persisting, Kept, Run
<1>6. ASSUME NEW hs, Replay(j, hs)
      PROVE  run'[j].build = Len(builds) + 1
  BY <1>1, <1>6 DEF Replay, Continue, Run
<1>7. \/ UNCHANGED run
      \/ \E i \in Indexers : i # j /\ \E r : Continue(i, r)
      \/ Index(j)
  BY StepKinds, IndexContinues
<1>8. QED BY <1>2, <1>3, <1>4, <1>5, <1>6, <1>7 DEF Index

\* What an undisturbed step does to the manifest and to the runs that have a build.
LEMMA DisciplinedStep ==
    ASSUME IInv, Step, Disciplined'
    PROVE  /\ Disciplined
           /\ manifest' # manifest =>
                \E i \in Indexers : Persisting(i) /\ manifest'.build = run[i].build
           /\ manifest' = manifest => \A i \in Indexers : Persisting(i) => Kept(i)
           /\ \A h \in Heads : postings'[h] = postings[h] \/
                \E i \in Indexers : Persisting(i) /\ postings'[h] = run[i].build
<1>1. /\ StoreTypeOK /\ Fresh
      /\ run \in [Indexers -> Run(Len(builds))] /\ postings \in [Heads -> 0 .. Len(builds)]
      /\ aborts \in Nat
  BY Types DEF IInv, StoreTypeOK
<1>2. Disciplined
  <2>1. ASSUME NEW i \in Indexers, Index(i)
        PROVE  (overlapped => overlapped') /\ (aborts' = aborts \/ aborts' = aborts + 1)
    <3>1. CASE StatManifest(i)
      BY <3>1 DEF StatManifest
    <3>2. CASE Abort(i)
      BY <3>2 DEF Abort
    <3>3. ~StatManifest(i) /\ ~Abort(i) => UNCHANGED <<overlapped, aborts>>
      BY <2>1 DEF Index, ReadManifest, ListWal, LoadCentroids, LoadVersionMap, EndLoad,
         LoadPosting, Replay, PutPosting, PutCentroids, PutVersionMap, PutManifest
    <3>4. QED BY <3>1, <3>2, <3>3
  <2>2. QED BY <2>1, <1>1, StepKinds DEF Disciplined
<1>3. ASSUME NEW i \in Indexers, PutManifest(i)
      PROVE  /\ Persisting(i) /\ manifest'.build = run[i].build /\ manifest' # manifest
             /\ UNCHANGED postings
  <2>1. Persisting(i) /\ run[i].etag = manifest.build
    BY <1>2, <1>3 DEF IInv, Undisturbed, Steady, ReplacedOK, PutManifest, Persisting, Running
  <2>2. QED BY <2>1, <1>1, <1>3 DEF PutManifest, Fresh, objects
<1>4. ASSUME NEW i \in Indexers, NEW h \in run[i].todo, PutPosting(i, h)
      PROVE  /\ UNCHANGED manifest /\ Persisting(i)
             /\ \A g \in Heads : postings'[g] \in {postings[g], run[i].build}
  BY <1>1, <1>4 DEF PutPosting, Persisting
<1>5. ASSUME NEW i \in Indexers, Index(i), ~PutManifest(i)
      PROVE  UNCHANGED manifest /\ (Persisting(i) => Kept(i))
  <2>1. ~Abort(i)
    BY <1>1 DEF Abort, Disciplined
  <2>2. CASE \/ StatManifest(i) \/ ReadManifest(i) \/ ListWal(i) \/ LoadCentroids(i)
             \/ LoadVersionMap(i) \/ EndLoad(i) \/ (\E h \in run[i].todo : LoadPosting(i, h))
             \/ \E hs \in SUBSET Heads : Replay(i, hs)
    BY <2>2 DEF StatManifest, ReadManifest, ListWal, LoadCentroids, LoadVersionMap, EndLoad,
       LoadPosting, Replay, Persisting, Running
  <2>3. CASE PutCentroids(i) \/ PutVersionMap(i) \/ \E h \in run[i].todo : PutPosting(i, h)
    BY <2>3, <1>1 DEF PutPosting, PutCentroids, PutVersionMap, Continue, Persisting, Kept, Run
  <2>4. QED BY <1>5, <2>1, <2>2, <2>3 DEF Index
<1>6. ASSUME NEW i \in Indexers, Index(i), UNCHANGED manifest
      PROVE  \A j \in Indexers : Persisting(j) => Kept(j)
  <2>1. ~PutManifest(i)
    BY <1>3, <1>6
  <2>2. \E r : Continue(i, r)
    BY <1>6, IndexContinues
  <2>3. QED BY <2>1, <2>2, <1>1, <1>5, <1>6, OthersKept DEF Persisting, Kept
<1>7. \/ \E i \in Indexers : Index(i)
      \/ UNCHANGED <<manifest, run, postings>>
  BY StepKinds DEF objects
<1>8. manifest' # manifest => \E i \in Indexers : Persisting(i) /\ manifest'.build = run[i].build
  BY <1>3, <1>5, <1>7
<1>9. manifest' = manifest => \A i \in Indexers : Persisting(i) => Kept(i)
  BY <1>6, <1>7 DEF Persisting, Kept
<1>10. ASSUME NEW h \in Heads
       PROVE  postings'[h] = postings[h] \/
                \E i \in Indexers : Persisting(i) /\ postings'[h] = run[i].build
  <2>1. \/ UNCHANGED postings
        \/ \E i \in Indexers : \E g \in run[i].todo : PutPosting(i, g)
    BY <1>7 DEF Index, StatManifest, ReadManifest, ListWal, LoadCentroids, LoadVersionMap, EndLoad,
       LoadPosting, Replay, PutCentroids, PutVersionMap, PutManifest, Abort, objects
  <2>2. QED BY <2>1, <1>4
<1>11. QED BY <1>2, <1>8, <1>9, <1>10

-----------------------------------------------------------------------------
ServerStep == [Next]_vars

\* Either the store or the server moves.
LEMMA ServerStepKinds ==
    ASSUME ServerStep
    PROVE  /\ Step
           /\ UNCHANGED serverVars \/ UNCHANGED storeVars
  BY DEF ServerStep, Next, vars, Step, Reload, Poll, ReloadStat, ReloadManifest, ReloadCentroids,
     ReloadVersionMap, Swap, Fetch, Evict, Restart

\* The moves of the server.
LEMMA ServerMoves ==
    ASSUME ServerStep
    PROVE  \/ UNCHANGED serverVars
           \/ Poll \/ ReloadStat \/ ReloadManifest \/ ReloadCentroids \/ ReloadVersionMap \/ Swap
           \/ (\E h \in Heads : Fetch(h) \/ Evict(h)) \/ Restart
  BY DEF ServerStep, Next, vars, Reload

LEMMA ServerTypes ==
    ASSUME ServerTypeOK
    PROVE  /\ StoreTypeOK /\ Len(builds) \in Nat
           /\ manifest.build \in 0 .. Len(builds) /\ manifest.seq \in 0 .. MaxWal
           /\ view \in View /\ reload.new \in View
           /\ view.seq \in 0 .. MaxWal /\ reload.new.seq \in 0 .. MaxWal
           /\ view.etag \in 0 .. Len(builds) /\ view.cent \in 0 .. Len(builds)
           /\ view.vmap \in 0 .. Len(builds)
           /\ reload.new.etag \in 0 .. Len(builds) /\ reload.new.cent \in 0 .. Len(builds)
           /\ reload.new.vmap \in 0 .. Len(builds)
           /\ restarts \in Nat
<1>1. StoreTypeOK /\ Len(builds) \in Nat
  BY Types DEF ServerTypeOK
<1>2. manifest.build \in 0 .. Len(builds) /\ manifest.seq \in 0 .. MaxWal
  BY <1>1, Types
<1>3. view \in View /\ reload.new \in View /\ restarts \in Nat
  BY DEF ServerTypeOK
<1>4. QED BY <1>1, <1>2, <1>3 DEF View

\* Type correctness is preserved.
LEMMA ServerTypeStep ==
    ASSUME ServerTypeOK, StoreTypeOK', ServerStep
    PROVE  ServerTypeOK'
<1> DEFINE Stages == {"idle", "stat", "manifest", "centroids", "versionMap", "swap"}
<1>1. /\ StoreTypeOK /\ Len(builds) \in Nat /\ Len(builds') \in Nat
      /\ view \in View /\ reload \in [at : Stages, new : View]
      /\ cache \in [Heads -> 0 .. Len(builds)] /\ restarts \in 0 .. MaxRestarts
  <2>1. /\ StoreTypeOK /\ view \in View /\ reload \in [at : Stages, new : View]
        /\ cache \in [Heads -> 0 .. Len(builds)] /\ restarts \in 0 .. MaxRestarts
    BY Zenon DEF ServerTypeOK
  <2>2. builds \in Seq(Build) /\ builds' \in Seq(Build)
    BY <2>1 DEF StoreTypeOK
  <2>3. Len(builds) \in Nat /\ Len(builds') \in Nat
    BY <2>2
  <2> HIDE DEF Stages
  <2> QED BY <2>1, <2>3
<1>2. CASE UNCHANGED serverVars
  <2>1. Len(builds) <= Len(builds')
    BY <1>1, ServerStepKinds, BuildsGrow
  <2>2. 0 .. Len(builds) \subseteq 0 .. Len(builds')
    BY <2>1, <1>1
  <2>3. View \subseteq View'
    BY <2>2 DEF View
  <2>4. view' \in View' /\ reload' \in [at : Stages, new : View']
        /\ cache' \in [Heads -> 0 .. Len(builds')]
    BY <2>2, <2>3, <1>1, <1>2 DEF serverVars
  <2>5. QED BY <2>4, <1>1, <1>2 DEF serverVars, ServerTypeOK
<1>3. CASE UNCHANGED storeVars
  <2>1. View' = View /\ builds' = builds
    BY <1>3 DEF View, storeVars
  <2>2. /\ manifest.build \in 0 .. Len(builds) /\ manifest.seq \in 0 .. MaxWal
        /\ centroids \in 0 .. Len(builds) /\ versionMap \in 0 .. Len(builds)
        /\ postings \in [Heads -> 0 .. Len(builds)]
    BY <1>1, Types DEF StoreTypeOK
  <2>3. NoView \in View /\ NoReload \in [at : Stages, new : View]
    <3>1. 0 \in 0 .. MaxWal /\ 0 \in 0 .. Len(builds)
      BY <1>1, BoundsAssumption
    <3>2. NoView \in View
      BY <3>1 DEF NoView, View
    <3>3. QED BY <3>2 DEF NoReload
  <2>4. CASE Poll
    BY <2>1, <2>3, <2>4, <1>1 DEF Poll, ServerTypeOK, NoReload
  <2>5. CASE ReloadStat
    <3>1. [reload.new EXCEPT !.etag = manifest.build] \in View
      BY <1>1, <2>2 DEF View
    <3>2. reload' = [at |-> "manifest", new |-> [reload.new EXCEPT !.etag = manifest.build]]
      BY <2>5, <1>1 DEF ReloadStat
    <3>3. QED BY <3>1, <3>2, <2>1, <2>5, <1>1 DEF ReloadStat, ServerTypeOK
  <2>6. CASE ReloadManifest
    <3>1. [reload.new EXCEPT !.seq = manifest.seq] \in View
      BY <1>1, <2>2 DEF View
    <3>2. reload' = [at |-> "centroids", new |-> [reload.new EXCEPT !.seq = manifest.seq]]
      BY <2>6, <1>1 DEF ReloadManifest
    <3>3. QED BY <3>1, <3>2, <2>1, <2>6, <1>1 DEF ReloadManifest, ServerTypeOK
  <2>7. CASE ReloadCentroids
    <3>1. [reload.new EXCEPT !.cent = centroids] \in View
      BY <1>1, <2>2 DEF View
    <3>2. \/ reload' = NoReload
          \/ reload' = [at |-> "versionMap", new |-> [reload.new EXCEPT !.cent = centroids]]
      BY <2>7, <1>1 DEF ReloadCentroids
    <3>3. QED BY <3>1, <3>2, <2>1, <2>3, <2>7, <1>1 DEF ReloadCentroids, ServerTypeOK
  <2>8. CASE ReloadVersionMap
    <3>1. [reload.new EXCEPT !.vmap = versionMap] \in View
      BY <1>1, <2>2 DEF View
    <3>2. \/ reload' = NoReload
          \/ reload' = [at |-> "swap", new |-> [reload.new EXCEPT !.vmap = versionMap]]
      BY <2>8, <1>1 DEF ReloadVersionMap
    <3>3. QED BY <3>1, <3>2, <2>1, <2>3, <2>8, <1>1 DEF ReloadVersionMap, ServerTypeOK
  <2>9. CASE Swap
    BY <2>1, <2>3, <2>9, <1>1 DEF Swap, ServerTypeOK
  <2>10. ASSUME NEW h \in Heads, Fetch(h) \/ Evict(h)
         PROVE  ServerTypeOK'
    <3>1. UNCHANGED <<view, reload, restarts>>
      BY <2>10 DEF Fetch, Evict
    <3>2. PICK b \in 0 .. Len(builds) : cache' = [cache EXCEPT ![h] = b]
      BY <2>2, <2>10, <1>1 DEF Fetch, Evict
    <3>3. cache' \in [Heads -> 0 .. Len(builds)]
      BY <3>2, <1>1
    <3>4. QED BY <3>1, <3>3, <2>1, <1>1 DEF ServerTypeOK
  <2>11. CASE Restart
    BY <2>1, <2>3, <2>11, <1>1 DEF Restart, ServerTypeOK
  <2>12. QED
    BY <1>2, <2>4, <2>5, <2>6, <2>7, <2>8, <2>9, <2>10, <2>11, ServerMoves
<1>4. QED BY <1>2, <1>3, ServerStepKinds

-----------------------------------------------------------------------------
(***************************************************************************)
(* Steps of the store, which leave the server as it is.                    *)
(***************************************************************************)

LEMMA StoreForward ==
    ASSUME IInv, ServerTypeOK, Forward, Step, UNCHANGED serverVars
    PROVE  Forward'
<1>1. manifest' # manifest => manifest'.seq > manifest.seq /\ manifest'.build # 0
  BY ManifestGrows
<1>2. /\ manifest.seq \in Nat /\ manifest'.seq \in Nat
      /\ view.seq \in Nat /\ reload.new.seq \in Nat
  <2>1. manifest'.seq \in 0 .. MaxWal
    BY Inductive, Types DEF IInv, StoreTypeOK
  <2>2. manifest.seq \in 0 .. MaxWal /\ view.seq \in 0 .. MaxWal /\ reload.new.seq \in 0 .. MaxWal
    BY ServerTypes
  <2>3. QED BY <2>1, <2>2
<1>3. view' = view /\ reload' = reload
  BY DEF serverVars
<1>4. QED BY <1>1, <1>2, <1>3 DEF Forward, SeqRead

LEMMA StorePublished ==
    ASSUME ServerTypeOK, Published, Step, UNCHANGED serverVars
    PROVE  Published'
<1> SUFFICES ASSUME NEW i \in Indexers, Persisting(i)'
             PROVE  run'[i].build # view.etag /\ run'[i].build # reload.new.etag
  BY DEF Published, serverVars
<1>1. (Persisting(i) /\ Kept(i)) \/ run'[i].build = Len(builds) + 1
  BY BuildsHeld, ServerTypes
<1>2. CASE Persisting(i) /\ Kept(i)
  BY <1>2 DEF Published, Kept
<1>3. CASE run'[i].build = Len(builds) + 1
  BY <1>3, ServerTypes
<1>4. QED BY <1>1, <1>2, <1>3

\* What reaches a position the manifest has passed goes on reaching it.
LEMMA ReachesOn ==
    ASSUME IInv, Step, Disciplined', NEW c \in 0 .. Len(builds), NEW s \in 0 .. manifest.seq
    PROVE  /\ Holds(c, s) => Holds(c, s)'
           /\ Reaches(c, s) => Reaches(c, s)'
<1>1. /\ StoreTypeOK /\ Len(builds) \in Nat /\ manifest.seq \in Nat /\ s \in Nat
      /\ \A h \in Heads : postings[h] \in 0 .. Len(builds)
      /\ \A i \in Indexers : run[i].build \in 0 .. Len(builds) /\ run[i].upTo \in Nat
  BY Types DEF IInv, Run
<1>2. \A b \in 0 .. Len(builds) : b # 0 => builds'[b] = builds[b]
  BY <1>1, BuildsGrow
<1>3. \A b \in 0 .. Len(builds) : Holds(b, s) => Holds(b, s)'
  BY <1>2 DEF Holds
<1>4. ASSUME Reaches(c, s)
      PROVE  Reaches(c, s)'
  <2>1. Holds(c, s)' /\ HeadsOf(c)' = HeadsOf(c) /\ HeadsOf(c) \subseteq Heads
    BY <1>1, <1>2, <1>3, <1>4, HeadsKnown DEF Reaches, Holds, HeadsOf
  <2>2. ASSUME NEW h \in HeadsOf(c)
        PROVE  Holds(postings[h], s)'
    <3>1. h \in Heads /\ Holds(postings[h], s)
      BY <2>1, <1>4 DEF Reaches
    <3>2. CASE postings'[h] = postings[h]
      BY <3>1, <3>2, <1>1, <1>2 DEF Holds
    <3>3. ASSUME NEW i \in Indexers, Persisting(i), postings'[h] = run[i].build
          PROVE  Holds(postings[h], s)'
      <4>1. ReplacedOK(run[i]) /\ run[i].build # 0
        BY <3>3, DisciplinedStep DEF IInv, Undisturbed, Steady, Fresh, Running, Persisting
      <4>2. builds[run[i].build].whole /\ builds[run[i].build].seq = run[i].upTo
            /\ manifest.seq < run[i].upTo
        BY <4>1 DEF ReplacedOK
      <4>3. QED BY <4>1, <4>2, <3>3, <1>1, <1>2 DEF Holds
    <3>4. QED BY <3>1, <3>2, <3>3, DisciplinedStep
  <2>3. QED BY <2>1, <2>2 DEF Reaches
<1>5. QED BY <1>3, <1>4

LEMMA StoreCovered ==
    ASSUME IInv, ServerTypeOK, Forward, Covered, Step, UNCHANGED serverVars
    PROVE  Covered'
<1> SUFFICES ASSUME Disciplined' PROVE Covered'
  BY DEF Covered
<1>1. Disciplined /\ view' = view /\ reload' = reload
  BY DisciplinedStep DEF serverVars
<1>2. view.seq \in 0 .. manifest.seq /\ reload.new.seq \in 0 .. manifest.seq
  BY ServerTypes DEF Forward
<1>3. /\ Reaches(view.cent, view.seq) => Reaches(view.cent, view.seq)'
      /\ Holds(view.vmap, view.seq) => Holds(view.vmap, view.seq)'
  <2>1. view.cent \in 0 .. Len(builds) /\ view.vmap \in 0 .. Len(builds)
    BY ServerTypes
  <2>2. QED BY <1>1, <1>2, <2>1, ReachesOn DEF Reaches, Holds
<1>4. /\ Reaches(reload.new.cent, reload.new.seq) => Reaches(reload.new.cent, reload.new.seq)'
      /\ Holds(reload.new.vmap, reload.new.seq) => Holds(reload.new.vmap, reload.new.seq)'
  <2>1. reload.new.cent \in 0 .. Len(builds) /\ reload.new.vmap \in 0 .. Len(builds)
    BY ServerTypes
  <2>2. QED BY <1>1, <1>2, <2>1, ReachesOn DEF Reaches, Holds
<1>5. QED BY <1>1, <1>3, <1>4 DEF Covered, CentroidsRead, VersionMapRead

LEMMA StoreMatching ==
    ASSUME IInv, Published, Matching, Step, UNCHANGED serverVars
    PROVE  Matching'
<1> SUFFICES ASSUME Disciplined' PROVE Matching'
  BY DEF Matching
<1>1. Disciplined /\ view' = view /\ reload' = reload
  BY DisciplinedStep DEF serverVars
<1>2. CASE manifest' = manifest
  <2>1. \A b : Latest(b) => Latest(b)'
    BY <1>2, DisciplinedStep DEF Latest, Kept
  <2>2. QED BY <1>1, <1>2, <2>1 DEF Matching, SeqRead, CentroidsRead, VersionMapRead
<1>3. CASE manifest' # manifest
  <2>1. manifest'.build # view.etag /\ manifest'.build # reload.new.etag
    BY <1>3, DisciplinedStep DEF Published
  <2>2. QED BY <1>1, <2>1 DEF Matching
<1>4. QED BY <1>2, <1>3

-----------------------------------------------------------------------------
(***************************************************************************)
(* Steps of the server, which leave the store as it is.                    *)
(***************************************************************************)

\* What they change in the view and in the reload.
LEMMA ServerMoved ==
    ASSUME ServerTypeOK, ServerStep
    PROVE  \/ UNCHANGED <<view, reload>>
           \/ view' \in {view, NoView} /\ reload' = NoReload
           \/ /\ manifest.build # 0 /\ view' = view
              /\ reload' = [NoReload EXCEPT !.at = "stat"]
           \/ ReloadStat \/ ReloadManifest
           \/ centroids # 0 /\ ReloadCentroids
           \/ versionMap # 0 /\ ReloadVersionMap
           \/ Swap
  BY ServerMoves DEF serverVars, Poll, ReloadCentroids, ReloadVersionMap, Fetch, Evict, Restart

LEMMA ServerForward ==
    ASSUME IInv, ServerTypeOK, Forward, ServerStep, UNCHANGED storeVars
    PROVE  Forward'
<1>1. /\ manifest' = manifest /\ manifest.seq \in Nat
      /\ view.seq \in Nat /\ reload.new.seq \in Nat
      /\ reload \in [at : {"idle", "stat", "manifest", "centroids", "versionMap", "swap"},
                     new : View]
      /\ view \in View /\ reload.new \in View
  BY ServerTypes DEF ServerTypeOK, storeVars
<1>2. CASE UNCHANGED <<view, reload>>
  BY <1>1, <1>2 DEF Forward, SeqRead
<1>3. CASE view' \in {view, NoView} /\ reload' = NoReload
  BY <1>1, <1>3 DEF Forward, SeqRead, NoView, NoReload
<1>4. CASE manifest.build # 0 /\ view' = view /\ reload' = [NoReload EXCEPT !.at = "stat"]
  BY <1>1, <1>4 DEF Forward, SeqRead, NoView, NoReload
<1>5. CASE ReloadStat
  <2>1. reload'.at = "manifest" /\ reload'.new.seq = reload.new.seq /\ view' = view
    BY <1>1, <1>5 DEF ReloadStat, View
  <2>2. QED BY <2>1, <1>1, <1>5 DEF ReloadStat, Forward, SeqRead
<1>6. CASE ReloadManifest
  <2>1. reload'.at = "centroids" /\ reload'.new.seq = manifest.seq /\ view' = view
    BY <1>1, <1>6 DEF ReloadManifest, View
  <2>2. QED BY <2>1, <1>1, <1>6 DEF ReloadManifest, Forward, SeqRead
<1>7. CASE centroids # 0 /\ ReloadCentroids
  <2>1. reload'.at = "versionMap" /\ reload'.new.seq = reload.new.seq /\ view' = view
    BY <1>1, <1>7 DEF ReloadCentroids, View
  <2>2. QED BY <2>1, <1>1, <1>7 DEF ReloadCentroids, Forward, SeqRead
<1>8. CASE versionMap # 0 /\ ReloadVersionMap
  <2>1. reload'.at = "swap" /\ reload'.new.seq = reload.new.seq /\ view' = view
    BY <1>1, <1>8 DEF ReloadVersionMap, View
  <2>2. QED BY <2>1, <1>1, <1>8 DEF ReloadVersionMap, Forward, SeqRead
<1>9. CASE Swap
  BY <1>1, <1>9 DEF Swap, Forward, SeqRead, NoReload, NoView
<1>10. QED BY <1>2, <1>3, <1>4, <1>5, <1>6, <1>7, <1>8, <1>9, ServerMoved

LEMMA ServerPublished ==
    ASSUME IInv, ServerTypeOK, Published, ServerStep, UNCHANGED storeVars
    PROVE  Published'
<1>1. /\ run' = run /\ manifest' = manifest
      /\ \A i \in Indexers : Persisting(i) => run[i].build # 0 /\ run[i].build # manifest.build
      /\ reload \in [at : {"idle", "stat", "manifest", "centroids", "versionMap", "swap"},
                     new : View]
      /\ reload.new \in View
  BY ServerTypes DEF ServerTypeOK, storeVars, IInv, Fresh
<1>2. /\ view'.etag \in {view.etag, reload.new.etag, 0}
      /\ reload'.new.etag \in {reload.new.etag, manifest.build, 0}
  <2>1. CASE UNCHANGED <<view, reload>>
    BY <2>1
  <2>2. CASE view' \in {view, NoView} /\ reload' = NoReload
    BY <2>2 DEF NoView, NoReload
  <2>3. CASE manifest.build # 0 /\ view' = view /\ reload' = [NoReload EXCEPT !.at = "stat"]
    BY <2>3 DEF NoView, NoReload
  <2>4. CASE ReloadStat
    BY <2>4, <1>1 DEF ReloadStat, View
  <2>5. CASE ReloadManifest
    BY <2>5, <1>1 DEF ReloadManifest, View
  <2>6. CASE centroids # 0 /\ ReloadCentroids
    BY <2>6, <1>1 DEF ReloadCentroids, View
  <2>7. CASE versionMap # 0 /\ ReloadVersionMap
    BY <2>7, <1>1 DEF ReloadVersionMap, View
  <2>8. CASE Swap
    BY <2>8, <1>1 DEF Swap, NoReload, NoView
  <2>9. QED BY <2>1, <2>2, <2>3, <2>4, <2>5, <2>6, <2>7, <2>8, ServerMoved
<1>3. QED BY <1>1, <1>2 DEF Published, Persisting

\* The objects in the store reach any position the manifest has passed.
LEMMA StoreReaches ==
    ASSUME IInv, Disciplined, manifest.build # 0, NEW s \in 0 .. manifest.seq
    PROVE  Reaches(centroids, s) /\ Holds(versionMap, s)
<1>1. /\ manifest.seq \in Nat /\ builds \in Seq(Build)
      /\ centroids \in 0 .. Len(builds) /\ versionMap \in 0 .. Len(builds)
      /\ Len(builds) \in Nat
  BY Types DEF IInv
<1>2. \A b \in Referenced : b # 0 /\ builds[b].whole /\ builds[b].seq >= manifest.seq
  BY ObjectsCover DEF CoversManifest
<1>3. HeadsOf(centroids) \subseteq Heads
  BY HeadsKnown, <1>1 DEF IInv
<1>4. \A b \in Referenced : Holds(b, s)
  <2>1. SUFFICES ASSUME NEW b \in Referenced PROVE Holds(b, s)
    OBVIOUS
  <2>2. b \in 0 .. Len(builds)
    BY <1>1, <1>3, Types DEF Referenced, IInv
  <2>3. builds[b] \in Build
    BY <1>2, <2>2, HeadsKnown DEF IInv
  <2>4. builds[b].seq \in Nat
    BY <2>3 DEF Build
  <2>5. QED BY <1>1, <1>2, <2>4 DEF Holds
<1>5. QED BY <1>4 DEF Referenced, Reaches

LEMMA ServerCovered ==
    ASSUME IInv, ServerTypeOK, Forward, Covered, ServerStep, UNCHANGED storeVars
    PROVE  Covered'
<1> SUFFICES ASSUME Disciplined PROVE Covered'
  BY DEF Covered, Disciplined, storeVars
<1>1. /\ reload \in [at : {"idle", "stat", "manifest", "centroids", "versionMap", "swap"},
                     new : View]
      /\ reload.new \in View
  BY ServerTypes DEF ServerTypeOK
<1>2. \A c, s : (Reaches(c, s)' <=> Reaches(c, s)) /\ (Holds(c, s)' <=> Holds(c, s))
  BY DEF Reaches, Holds, HeadsOf, storeVars, objects
<1>3. CASE UNCHANGED <<view, reload>>
  BY <1>2, <1>3 DEF Covered, CentroidsRead, VersionMapRead
<1>4. CASE view' \in {view, NoView} /\ reload' = NoReload
  BY <1>2, <1>4 DEF Covered, CentroidsRead, VersionMapRead, NoView, NoReload
<1>5. CASE manifest.build # 0 /\ view' = view /\ reload' = [NoReload EXCEPT !.at = "stat"]
  BY <1>2, <1>5 DEF Covered, CentroidsRead, VersionMapRead, NoReload
<1>6. CASE ReloadStat
  <2>1. reload'.at = "manifest" /\ view' = view
    BY <1>1, <1>6 DEF ReloadStat
  <2>2. QED BY <2>1, <1>2 DEF Covered, CentroidsRead, VersionMapRead
<1>7. CASE ReloadManifest
  <2>1. reload'.at = "centroids" /\ view' = view
    BY <1>1, <1>7 DEF ReloadManifest
  <2>2. QED BY <2>1, <1>2 DEF Covered, CentroidsRead, VersionMapRead
<1>8. ASSUME reload.at # "idle"
      PROVE  Reaches(centroids, reload.new.seq) /\ Holds(versionMap, reload.new.seq)
  <2>1. manifest.build # 0 /\ reload.new.seq \in 0 .. manifest.seq
    BY <1>8, ServerTypes DEF Forward
  <2>2. QED BY <2>1, StoreReaches
<1>9. CASE centroids # 0 /\ ReloadCentroids
  <2>1. /\ reload'.at = "versionMap" /\ view' = view
        /\ reload'.new.seq = reload.new.seq /\ reload'.new.cent = centroids
    BY <1>1, <1>9 DEF ReloadCentroids, View
  <2>2. Reaches(centroids, reload.new.seq)
    BY <1>8, <1>9 DEF ReloadCentroids
  <2>3. QED BY <2>1, <2>2, <1>2 DEF Covered, CentroidsRead, VersionMapRead
<1>10. CASE versionMap # 0 /\ ReloadVersionMap
  <2>1. /\ reload'.at = "swap" /\ view' = view
        /\ reload'.new.seq = reload.new.seq /\ reload'.new.cent = reload.new.cent
        /\ reload'.new.vmap = versionMap
    BY <1>1, <1>10 DEF ReloadVersionMap, View
  <2>2. Holds(versionMap, reload.new.seq) /\ reload.at = "versionMap"
    BY <1>8, <1>10 DEF ReloadVersionMap
  <2>3. QED BY <2>1, <2>2, <1>2 DEF Covered, CentroidsRead, VersionMapRead
<1>11. CASE Swap
  BY <1>2, <1>11 DEF Swap, Covered, CentroidsRead, VersionMapRead, NoReload
<1>12. QED
  BY <1>3, <1>4, <1>5, <1>6, <1>7, <1>9, <1>10, <1>11, ServerMoved

\* The objects in the store are the latest.
LEMMA StoreLatest ==
    ASSUME IInv, Disciplined
    PROVE  Latest(centroids) /\ Latest(versionMap)
<1>1. Steady
  BY DEF IInv, Undisturbed
<1>2. CASE \A i \in Indexers : ~Persisting(i)
  BY <1>1, <1>2 DEF Steady, Settled, Latest
<1>3. ASSUME NEW i \in Indexers, Persisting(i)
      PROVE  Latest(centroids) /\ Latest(versionMap)
  <2>1. ReplacedOK(run[i])
    BY <1>1, <1>3 DEF Steady, Persisting, Running
  <2>2. QED BY <2>1, <1>3 DEF ReplacedOK, Latest
<1>4. QED BY <1>2, <1>3

LEMMA ServerMatching ==
    ASSUME IInv, ServerTypeOK, Forward, Matching, ServerStep, UNCHANGED storeVars
    PROVE  Matching'
<1> SUFFICES ASSUME Disciplined PROVE Matching'
  BY DEF Matching, Disciplined, storeVars
<1>1. /\ reload \in [at : {"idle", "stat", "manifest", "centroids", "versionMap", "swap"},
                     new : View]
      /\ reload.new \in View /\ manifest' = manifest
  BY ServerTypes DEF ServerTypeOK, storeVars
<1>2. \A b : Latest(b)' <=> Latest(b)
  BY DEF Latest, Persisting, storeVars
<1>3. CASE UNCHANGED <<view, reload>>
  BY <1>1, <1>2, <1>3 DEF Matching, SeqRead, CentroidsRead, VersionMapRead
<1>4. CASE view' \in {view, NoView} /\ reload' = NoReload
  <2>1. manifest.build = 0 => manifest.seq = 0 /\ Latest(0)
    BY DEF IInv, Extends, Latest
  <2>2. QED
    BY <2>1, <1>1, <1>2, <1>4 DEF Matching, SeqRead, CentroidsRead, VersionMapRead, NoView, NoReload
<1>5. CASE manifest.build # 0 /\ view' = view /\ reload' = [NoReload EXCEPT !.at = "stat"]
  BY <1>1, <1>2, <1>5 DEF Matching, SeqRead, CentroidsRead, VersionMapRead, NoReload
<1>6. CASE ReloadStat
  <2>1. reload'.at = "manifest" /\ view' = view
    BY <1>1, <1>6 DEF ReloadStat
  <2>2. QED BY <2>1, <1>1, <1>2 DEF Matching, SeqRead, CentroidsRead, VersionMapRead
<1>7. CASE ReloadManifest
  <2>1. /\ reload'.at = "centroids" /\ view' = view
        /\ reload'.new.seq = manifest.seq
    BY <1>1, <1>7 DEF ReloadManifest, View
  <2>2. QED BY <2>1, <1>1, <1>2 DEF Matching, SeqRead, CentroidsRead, VersionMapRead
<1>8. CASE centroids # 0 /\ ReloadCentroids
  <2>1. /\ reload.at = "centroids" /\ reload'.at = "versionMap" /\ view' = view
        /\ reload'.new.seq = reload.new.seq /\ reload'.new.cent = centroids
        /\ reload'.new.etag = reload.new.etag
    BY <1>1, <1>8 DEF ReloadCentroids, View
  <2>2. QED
    BY <2>1, <1>1, <1>2, StoreLatest DEF Matching, SeqRead, CentroidsRead, VersionMapRead
<1>9. CASE versionMap # 0 /\ ReloadVersionMap
  <2>1. /\ reload.at = "versionMap" /\ reload'.at = "swap" /\ view' = view
        /\ reload'.new.seq = reload.new.seq /\ reload'.new.cent = reload.new.cent
        /\ reload'.new.vmap = versionMap /\ reload'.new.etag = reload.new.etag
    BY <1>1, <1>9 DEF ReloadVersionMap, View
  <2>2. QED
    BY <2>1, <1>1, <1>2, StoreLatest DEF Matching, SeqRead, CentroidsRead, VersionMapRead
<1>10. CASE Swap
  BY <1>1, <1>2, <1>10 DEF Swap, Matching, SeqRead, CentroidsRead, VersionMapRead, NoReload
<1>11. QED
  BY <1>3, <1>4, <1>5, <1>6, <1>7, <1>8, <1>9, <1>10, ServerMoved

-----------------------------------------------------------------------------
\* Every step of store and server preserves both invariants ...
LEMMA ServerInvStep ==
    ASSUME IInv, ServerInv, ServerStep
    PROVE  IInv' /\ ServerInv'
<1>1. Step /\ (UNCHANGED serverVars \/ UNCHANGED storeVars)
  BY ServerStepKinds
<1>2. IInv'
  BY <1>1, Inductive
<1>3. ServerTypeOK'
  BY <1>2, ServerTypeStep DEF ServerInv, IInv
<1>4. Forward'
  BY <1>1, StoreForward, ServerForward DEF ServerInv
<1>5. Published'
  BY <1>1, StorePublished, ServerPublished DEF ServerInv
<1>6. Covered'
  BY <1>1, StoreCovered, ServerCovered DEF ServerInv
<1>7. Matching'
  BY <1>1, StoreMatching, ServerMatching DEF ServerInv
<1>8. QED BY <1>2, <1>3, <1>4, <1>5, <1>6, <1>7 DEF ServerInv

\* ... and the initial state has them.
LEMMA InitServerInv == InitServer => IInv /\ ServerInv
<1> SUFFICES ASSUME InitServer PROVE IInv /\ ServerInv
  OBVIOUS
<1>1. IInv
  BY InitInv DEF InitServer
<1>2. /\ StoreTypeOK /\ Len(builds) = 0 /\ manifest = [build |-> 0, seq |-> 0]
      /\ \A i \in Indexers : ~Persisting(i)
  BY <1>1 DEF IInv, InitServer, Init, NoRun, Persisting
<1>3. ServerTypeOK
  <2>1. 0 \in 0 .. MaxWal /\ 0 \in 0 .. Len(builds) /\ restarts \in 0 .. MaxRestarts
    BY <1>2, BoundsAssumption DEF InitServer
  <2>2. NoView \in View
    BY <2>1 DEF NoView, View
  <2>3. QED BY <2>1, <2>2, <1>2 DEF InitServer, NoReload, ServerTypeOK
<1>4. Forward /\ Published
  BY <1>2 DEF InitServer, NoView, NoReload, Forward, SeqRead, Published
<1>5. Covered /\ Matching
  BY <1>2 DEF InitServer, NoView, NoReload, Covered, Matching, SeqRead, CentroidsRead,
     VersionMapRead, Latest
<1>6. QED BY <1>1, <1>3, <1>4, <1>5 DEF ServerInv

\* The invariants hold in every reachable state of indexers and server.
THEOREM ServerInductive == SpecServer => [](IInv /\ ServerInv)
<1>1. IInv /\ ServerInv /\ ServerStep => IInv' /\ ServerInv'
  BY ServerInvStep
<1>2. QED BY InitServerInv, <1>1, PTL DEF SpecServer, ServerStep

\* Type correctness of the index a server has, of the one it loads and of its cache.
THEOREM ServerTypeCorrect == SpecServer => []ServerTypeOK
<1>1. ServerInv => ServerTypeOK
  BY DEF ServerInv
<1>2. QED BY <1>1, ServerInductive, PTL

\* A reload never goes back to an earlier index: try_load_index_from_s3 reads
\* the manifest after it was polled, and its position only grows meanwhile.
THEOREM ReloadNeverBack == SpecServer => ReloadMonotone
<1>1. ASSUME IInv, ServerInv, ServerStep
      PROVE  [restarts' = restarts => view'.seq >= view.seq]_vars
  <2>1. ServerTypeOK /\ Forward /\ view.seq \in Nat /\ reload.new.seq \in Nat
    BY <1>1, ServerTypes DEF ServerInv
  <2>2. restarts' = restarts => view' = view \/ Swap
    BY <1>1, <2>1, ServerMoves, ServerTypes
       DEF serverVars, Poll, ReloadStat, ReloadManifest, ReloadCentroids, ReloadVersionMap,
           Fetch, Evict, Restart
  <2>3. Swap => view'.seq >= view.seq
    BY <2>1 DEF Swap, Forward, SeqRead
  <2>4. QED BY <2>1, <2>2, <2>3
<1>2. QED BY <1>1, ServerInductive, PTL DEF SpecServer, ServerStep, ReloadMonotone

\* What a query skips in the log is in the index it reads, even when the index
\* was loaded while it was being replaced.
THEOREM ViewCoversLog == SpecServer => []ViewCovers
<1>1. ServerInv => ViewCovers
  BY DEF ServerInv, Covered, Reaches, ViewCovers
<1>2. QED BY <1>1, ServerInductive, PTL

\* A mixed index does not last: with the manifest's etag and no run under way
\* the server has the manifest's index.
THEOREM SettledIsManifest == SpecServer => []SettledView
<1>1. ASSUME ServerInv, Disciplined, Quiet, view.etag = manifest.build
      PROVE  view = [etag |-> manifest.build, seq |-> manifest.seq,
                     cent |-> manifest.build, vmap |-> manifest.build]
  <2>1. \A b : Latest(b) => b = manifest.build
    BY <1>1 DEF Latest, Quiet, Running, Persisting
  <2>2. view.seq = manifest.seq /\ view.cent = manifest.build /\ view.vmap = manifest.build
    BY <2>1, <1>1 DEF ServerInv, Matching
  <2>3. view \in View
    BY <1>1 DEF ServerInv, ServerTypeOK
  <2>4. view = [etag |-> view.etag, seq |-> view.seq, cent |-> view.cent, vmap |-> view.vmap]
    BY <2>3 DEF View
  <2>5. QED BY <2>2, <2>4, <1>1
<1>2. ServerInv => SettledView
  BY <1>1 DEF SettledView
<1>3. QED BY <1>2, ServerInductive, PTL
=============================================================================
