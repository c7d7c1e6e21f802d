--------------------------- MODULE IndexStore_proofs ---------------------------
(***************************************************************************)
(* Theorems about IndexStore: for any indexers, heads, length of the log,  *)
(* number of builds and number of aborted runs.                            *)
(***************************************************************************)
EXTENDS IndexStoreInv, SequenceTheorems, TLAPS

USE BoundsAssumption

Step == [StoreNext \/ Finished]_storeVars

\* The build of an object that is there is known.
LEMMA HeadsKnown ==
    ASSUME StoreTypeOK, NEW b \in 0 .. Len(builds)
    PROVE  /\ HeadsOf(b) \subseteq Heads
           /\ b # 0 => builds[b] \in Build /\ HeadsOf(b) = builds[b].heads
<1>1. builds \in Seq(Build)
  BY DEF StoreTypeOK
<1>2. b # 0 => b \in 1 .. Len(builds)
  BY <1>1
<1>3. b # 0 => builds[b] \in Build
  BY <1>1, <1>2, ElementOfSeq
<1>4. QED
  BY <1>3 DEF HeadsOf, Build

LEMMA NoRunType == ASSUME NEW n \in Nat PROVE NoRun \in Run(n)
  BY DEF NoRun, Run

LEMMA RunGrows == ASSUME NEW n \in Nat PROVE Run(n) \subseteq Run(n + 1)
<1>1. 0 .. n \subseteq 0 .. n + 1
  OBVIOUS
<1>2. SUBSET (0 .. n) \subseteq SUBSET (0 .. n + 1)
  BY <1>1
<1>3. QED
  BY <1>1, <1>2 DEF Run

LEMMA ContinueType ==
    ASSUME NEW n, run \in [Indexers -> Run(n)], NEW i \in Indexers, NEW r \in Run(n), Continue(i, r)
    PROVE  run' \in [Indexers -> Run(n)]
  BY DEF Continue

\* The points of a run.
Points == {"idle", "read", "list", "centroids", "versionMap", "load", "replay",
           "postings", "putVersionMap", "putManifest"}

\* The records that a run's next step may be.
LEMMA RunUpdates ==
    ASSUME NEW n, NEW r \in Run(n)
    PROVE  /\ \A p \in Points, w \in 0 .. MaxWal : [r EXCEPT !.at = p, !.base = w] \in Run(n)
           /\ \A p \in Points, w \in 0 .. MaxWal : [r EXCEPT !.at = p, !.upTo = w] \in Run(n)
           /\ \A p \in Points, c \in 0 .. n, s \in SUBSET (0 .. n) : [r EXCEPT !.at = p, !.cent = c, !.sources = s] \in Run(n)
           /\ \A p \in Points, s \in SUBSET (0 .. n), t \in SUBSET Heads : [r EXCEPT !.at = p, !.sources = s, !.todo = t] \in Run(n)
           /\ \A s \in SUBSET (0 .. n), t \in SUBSET Heads : [r EXCEPT !.sources = s, !.todo = t] \in Run(n)
           /\ \A t \in SUBSET Heads : [r EXCEPT !.todo = t] \in Run(n)
           /\ \A p \in Points : [r EXCEPT !.at = p] \in Run(n)
           /\ r.sources \in SUBSET (0 .. n) /\ r.todo \in SUBSET Heads /\ r.cent \in 0 .. n
           /\ {"list", "replay", "centroids", "versionMap", "load", "putVersionMap",
               "putManifest"} \subseteq Points
<1> DEFINE C == 0 .. n
           W == 0 .. MaxWal
           S == SUBSET C
           T == SUBSET Heads
           R == [at : Points, etag : C, base : W, upTo : W, cent : C, sources : S, todo : T,
                 build : C]
<1>1. Run(n) = R
  BY DEF Run, Points
<1>2. {"list", "replay", "centroids", "versionMap", "load", "putVersionMap",
       "putManifest"} \subseteq Points
  BY DEF Points
<1>3. r \in R
  BY <1>1
<1>4. /\ \A p \in Points, w \in W : [r EXCEPT !.at = p, !.base = w] \in R
      /\ \A p \in Points, w \in W : [r EXCEPT !.at = p, !.upTo = w] \in R
      /\ \A p \in Points, c \in C, s \in S : [r EXCEPT !.at = p, !.cent = c, !.sources = s] \in R
      /\ \A p \in Points, s \in S, t \in T : [r EXCEPT !.at = p, !.sources = s, !.todo = t] \in R
      /\ \A s \in S, t \in T : [r EXCEPT !.sources = s, !.todo = t] \in R
      /\ \A t \in T : [r EXCEPT !.todo = t] \in R
      /\ \A p \in Points : [r EXCEPT !.at = p] \in R
      /\ r.sources \in S /\ r.todo \in T /\ r.cent \in C
  <2> HIDE DEF C, W, S, T
  <2> QED BY <1>3
<1> HIDE DEF R
<1> QED BY <1>1, <1>2, <1>4

\* The facts of StoreTypeOK about the objects, one indexer's run among them.
LEMMA Types ==
    ASSUME StoreTypeOK
    PROVE  /\ wal \in 0 .. MaxWal /\ builds \in Seq(Build) /\ Len(builds) \in Nat
           /\ manifest.build \in 0 .. Len(builds) /\ manifest.seq \in 0 .. MaxWal
           /\ centroids \in 0 .. Len(builds) /\ versionMap \in 0 .. Len(builds)
           /\ \A h \in Heads : postings[h] \in 0 .. Len(builds)
           /\ run \in [Indexers -> Run(Len(builds))]
           /\ \A i \in Indexers : run[i] \in Run(Len(builds))
           /\ aborts \in 0 .. MaxAborts
  BY DEF StoreTypeOK

\* Type correctness is preserved.
LEMMA TypeStep ==
    ASSUME StoreTypeOK, Extends, Step
    PROVE  StoreTypeOK'
<1> USE DEF objects, storeVars
<1>1. /\ wal \in 0 .. MaxWal /\ builds \in Seq(Build) /\ Len(builds) \in Nat
      /\ manifest.build \in 0 .. Len(builds) /\ manifest.seq \in 0 .. MaxWal
      /\ manifest \in [build : 0 .. Len(builds), seq : 0 .. MaxWal]
      /\ centroids \in 0 .. Len(builds) /\ versionMap \in 0 .. Len(builds)
      /\ postings \in [Heads -> 0 .. Len(builds)]
      /\ run \in [Indexers -> Run(Len(builds))]
      /\ \A i \in Indexers : run[i] \in Run(Len(builds))
      /\ overlapped \in BOOLEAN /\ aborts \in 0 .. MaxAborts
  BY DEF StoreTypeOK
<1>2. CASE WriteWal
  BY <1>2, <1>1 DEF StoreTypeOK, WriteWal
<1>3. ASSUME NEW i \in Indexers, StatManifest(i)
      PROVE  StoreTypeOK'
  <2>1. run' \in [Indexers -> Run(Len(builds))]
    BY <1>3, <1>1, NoRunType DEF StatManifest, Continue, Run, NoRun
  <2>2. QED
    BY <2>1, <1>3, <1>1 DEF StatManifest, StoreTypeOK, Run, Running
<1>4. ASSUME NEW i \in Indexers, ReadManifest(i)
      PROVE  StoreTypeOK'
  <2> DEFINE base == IF run[i].etag = 0 THEN 0 ELSE manifest.seq
  <2>1. base \in 0 .. MaxWal
    BY <1>1
  <2> HIDE DEF base
  <2>2. [run[i] EXCEPT !.at = "list", !.base = base] \in Run(Len(builds))
    BY <1>1, <2>1, RunUpdates
  <2>3. Continue(i, [run[i] EXCEPT !.at = "list", !.base = base])
    BY <1>4 DEF ReadManifest, base
  <2>4. run' \in [Indexers -> Run(Len(builds))]
    BY <1>1, <2>2, <2>3, ContinueType
  <2>5. QED
    BY <2>4, <1>4, <1>1 DEF ReadManifest, StoreTypeOK, Run
<1>5. ASSUME NEW i \in Indexers, ListWal(i)
      PROVE  StoreTypeOK'
  <2> DEFINE at == IF run[i].etag = 0 THEN "replay" ELSE "centroids"
  <2> DEFINE r == [run[i] EXCEPT !.at = at, !.upTo = wal]
  <2>1. at = "replay" \/ at = "centroids"
    OBVIOUS
  <2>2. Continue(i, NoRun) \/ Continue(i, r)
    BY <1>5 DEF ListWal
  <2> HIDE DEF at
  <2>3. r \in Run(Len(builds))
    BY <1>1, <2>1, RunUpdates
  <2> HIDE DEF r
  <2>4. run' \in [Indexers -> Run(Len(builds))]
    BY <1>1, <2>2, <2>3, NoRunType, ContinueType
  <2>5. QED
    BY <2>4, <1>5, <1>1 DEF ListWal, StoreTypeOK, Run
<1>6. ASSUME NEW i \in Indexers, LoadCentroids(i)
      PROVE  StoreTypeOK'
  <2>1. {centroids} \in SUBSET (0 .. Len(builds))
    BY <1>1
  <2> DEFINE r == [run[i] EXCEPT !.at = "versionMap", !.cent = centroids, !.sources = {centroids}]
  <2>2. r \in Run(Len(builds))
    BY <1>1, <2>1, RunUpdates
  <2>3. Continue(i, r)
    BY <1>6 DEF LoadCentroids
  <2> HIDE DEF r
  <2>4. run' \in [Indexers -> Run(Len(builds))]
    BY <1>1, <2>2, <2>3, ContinueType
  <2>5. QED
    BY <2>4, <1>6, <1>1 DEF LoadCentroids, StoreTypeOK, Run
<1>7. ASSUME NEW i \in Indexers, LoadVersionMap(i)
      PROVE  StoreTypeOK'
  <2>1. HeadsOf(run[i].cent) \subseteq Heads
    <3>1. run[i].cent \in 0 .. Len(builds)
      BY <1>1 DEF Run
    <3> QED BY <3>1, HeadsKnown
  <2> DEFINE s == run[i].sources \cup {versionMap}
             t == HeadsOf(run[i].cent)
             r == [run[i] EXCEPT !.at = "load", !.sources = s, !.todo = t]
  <2>2. s \in SUBSET (0 .. Len(builds)) /\ t \in SUBSET Heads
    BY <1>1, <2>1, RunUpdates
  <2>3. Continue(i, r)
    BY <1>7 DEF LoadVersionMap
  <2> HIDE DEF s, t
  <2>4. r \in Run(Len(builds))
    BY <1>1, <2>2, RunUpdates
  <2> HIDE DEF r
  <2>5. run' \in [Indexers -> Run(Len(builds))]
    BY <1>1, <2>3, <2>4, ContinueType
  <2>6. QED
    BY <2>5, <1>7, <1>1 DEF LoadVersionMap, StoreTypeOK
<1>8. ASSUME NEW i \in Indexers, EndLoad(i)
      PROVE  StoreTypeOK'
  <2> DEFINE r == [run[i] EXCEPT !.at = "replay"]
  <2>a. r \in Run(Len(builds))
    BY <1>1, RunUpdates
  <2>b. Continue(i, r)
    BY <1>8 DEF EndLoad
  <2> HIDE DEF r
  <2>1. run' \in [Indexers -> Run(Len(builds))]
    BY <1>1, <2>a, <2>b, ContinueType
  <2>2. QED
    BY <2>1, <1>8, <1>1 DEF EndLoad, StoreTypeOK, Run
<1>9. ASSUME NEW i \in Indexers, NEW h \in run[i].todo, LoadPosting(i, h)
      PROVE  StoreTypeOK'
  <2>1. h \in Heads /\ postings[h] \in 0 .. Len(builds)
    BY <1>1 DEF Run
  <2> DEFINE r == [run[i] EXCEPT !.sources = @ \cup {postings[h]}, !.todo = @ \ {h}]
  <2>2. run[i].sources \cup {postings[h]} \in SUBSET (0 .. Len(builds))
    BY <1>1, <2>1 DEF Run
  <2>3. run[i].todo \ {h} \in SUBSET Heads
    BY <1>1 DEF Run
  <2>4. r \in Run(Len(builds))
    BY <1>1, <2>2, <2>3, RunUpdates
  <2>5. Continue(i, r)
    BY <1>9 DEF LoadPosting
  <2> HIDE DEF r
  <2>6. run' \in [Indexers -> Run(Len(builds))]
    BY <1>1, <2>4, <2>5, ContinueType
  <2>7. QED
    BY <2>1, <2>6, <1>9, <1>1 DEF LoadPosting, StoreTypeOK, Run
<1>10. ASSUME NEW i \in Indexers, NEW h \in run[i].todo, PutPosting(i, h)
      PROVE  StoreTypeOK'
  <2>1. h \in Heads /\ postings[h] \in 0 .. Len(builds)
    BY <1>1 DEF Run
  <2> DEFINE r == [run[i] EXCEPT !.todo = run[i].todo \ {h}]
  <2>a. r \in Run(Len(builds))
    <3>1. run[i].todo \ {h} \in SUBSET Heads
      BY <1>1 DEF Run
    <3> QED BY <1>1, <3>1, RunUpdates
  <2>b. Continue(i, r)
    BY <1>10 DEF PutPosting
  <2> HIDE DEF r
  <2>2. run' \in [Indexers -> Run(Len(builds))]
    BY <1>1, <2>a, <2>b, ContinueType
  <2>3. QED
    BY <2>1, <2>2, <1>10, <1>1 DEF PutPosting, StoreTypeOK, Run
<1>11. ASSUME NEW i \in Indexers, PutCentroids(i)
      PROVE  StoreTypeOK'
  <2> DEFINE r == [run[i] EXCEPT !.at = "putVersionMap"]
  <2>a. r \in Run(Len(builds))
    BY <1>1, RunUpdates
  <2>b. Continue(i, r)
    BY <1>11 DEF PutCentroids
  <2> HIDE DEF r
  <2>1. run' \in [Indexers -> Run(Len(builds))]
    BY <1>1, <2>a, <2>b, ContinueType
  <2>2. QED
    BY <2>1, <1>11, <1>1 DEF PutCentroids, StoreTypeOK, Run
<1>12. ASSUME NEW i \in Indexers, PutVersionMap(i)
      PROVE  StoreTypeOK'
  <2> DEFINE r == [run[i] EXCEPT !.at = "putManifest"]
  <2>a. r \in Run(Len(builds))
    BY <1>1, RunUpdates
  <2>b. Continue(i, r)
    BY <1>12 DEF PutVersionMap
  <2> HIDE DEF r
  <2>1. run' \in [Indexers -> Run(Len(builds))]
    BY <1>1, <2>a, <2>b, ContinueType
  <2>2. QED
    BY <2>1, <1>12, <1>1 DEF PutVersionMap, StoreTypeOK, Run
<1>13. ASSUME NEW i \in Indexers, PutManifest(i)
      PROVE  StoreTypeOK'
  <2>1. run' \in [Indexers -> Run(Len(builds))]
    BY <1>13, <1>1, NoRunType DEF PutManifest, Continue, Run
  <2>2. manifest' \in [build : 0 .. Len(builds), seq : 0 .. MaxWal]
    BY <1>13, <1>1 DEF PutManifest, Run
  <2>3. QED
    BY <2>1, <2>2, <1>13, <1>1 DEF PutManifest, StoreTypeOK
<1>14. ASSUME NEW i \in Indexers, Abort(i)
      PROVE  StoreTypeOK'
  <2>1. run' \in [Indexers -> Run(Len(builds))]
    BY <1>14, <1>1, NoRunType DEF Abort, Continue, Run
  <2>2. aborts' \in 0 .. MaxAborts
    BY <1>14, <1>1 DEF Abort
  <2>3. QED
    BY <2>1, <2>2, <1>14, <1>1 DEF Abort, StoreTypeOK
<1>15. ASSUME NEW i \in Indexers, NEW hs \in SUBSET Heads, Replay(i, hs)
      PROVE  StoreTypeOK'
  <2>1. run[i].upTo \in 1 .. MaxWal
    <3>1. run[i].base \in Nat /\ run[i].upTo \in 0 .. MaxWal
      BY <1>1 DEF Run
    <3>2. run[i].base < run[i].upTo
      BY <1>15 DEF Extends, AfterList, AfterRead, Replay
    <3>3. QED BY <3>1, <3>2
  <2> DEFINE r == [seq |-> run[i].upTo, heads |-> hs, whole |-> LoadedWhole(run[i])]
  <2>2. r \in Build
    BY <2>1 DEF Build, LoadedWhole
  <2>3. builds' = Append(builds, r)
    BY <1>15 DEF Replay
  <2> HIDE DEF r
  <2>4. builds' \in Seq(Build) /\ Len(builds') = Len(builds) + 1
    BY <2>2, <2>3, <1>1
  <2> DEFINE q == [run[i] EXCEPT !.at = "postings", !.build = Len(builds'), !.todo = hs]
  <2>5. Continue(i, q)
    BY <1>15 DEF Replay
  <2>6. Run(Len(builds)) \subseteq Run(Len(builds'))
    BY <2>4, RunGrows, <1>1
  <2>7. q \in Run(Len(builds'))
    <3>1. run[i] \in Run(Len(builds')) /\ Len(builds') \in 0 .. Len(builds') /\ hs \in SUBSET Heads
      BY <2>4, <2>6, <1>1
    <3>2. QED BY <3>1 DEF Run
  <2> HIDE DEF q
  <2>8. run \in [Indexers -> Run(Len(builds'))]
    BY <2>6, <1>1
  <2>9. run' \in [Indexers -> Run(Len(builds'))]
    BY <2>5, <2>7, <2>8, ContinueType
  <2>10. wal' = wal /\ manifest' = manifest /\ objects' = objects
        /\ overlapped' = overlapped /\ aborts' = aborts
    BY <1>15 DEF Replay
  <2>11. QED
    BY <2>4, <2>9, <2>10, <1>1 DEF StoreTypeOK
<1>16. CASE Finished \/ UNCHANGED storeVars
  BY <1>16 DEF StoreTypeOK, Finished
<1>17. QED BY <1>2, <1>3, <1>4, <1>5, <1>6, <1>7, <1>8, <1>9, <1>10, <1>11, <1>12, <1>13, <1>14, <1>15, <1>16 DEF Step, StoreNext, Index

\* Builds are added, never changed.
LEMMA BuildsGrow ==
    ASSUME StoreTypeOK, Step
    PROVE  /\ Len(builds) <= Len(builds')
           /\ \A b \in 0 .. Len(builds) :
                /\ (HeadsOf(b))' = HeadsOf(b)
                /\ b # 0 => builds'[b] = builds[b]
<1>1. builds \in Seq(Build)
  BY DEF StoreTypeOK
<1>2. CASE UNCHANGED builds
  BY <1>1, <1>2 DEF HeadsOf
<1>3. ASSUME NEW r, builds' = Append(builds, r)
      PROVE  /\ Len(builds) <= Len(builds')
             /\ \A b \in 0 .. Len(builds) : b # 0 => builds'[b] = builds[b]
  BY <1>1, <1>3
<1>4. UNCHANGED builds \/ \E r : builds' = Append(builds, r)
  BY DEF Step, StoreNext, Index, Finished, storeVars, objects, WriteWal, StatManifest, ReadManifest,
     ListWal, LoadCentroids, LoadVersionMap, EndLoad, LoadPosting, Replay, PutPosting, PutCentroids,
     PutVersionMap, PutManifest, Abort
<1>5. QED
  BY <1>2, <1>3, <1>4 DEF HeadsOf

\* A build is kept from everyone but its run.
LEMMA FreshStep ==
    ASSUME StoreTypeOK, Fresh, Step
    PROVE  Fresh'
<1>1. /\ run \in [Indexers -> Run(Len(builds))] /\ Len(builds) \in Nat
      /\ \A j \in Indexers : run[j].build \in 0 .. Len(builds) /\ run[j].etag \in 0 .. Len(builds)
      /\ manifest.build \in 0 .. Len(builds)
  BY Types DEF Run
<1>2. CASE WriteWal
  BY <1>2, <1>1 DEF WriteWal, objects, Fresh, Persisting, NoRun
<1>3. ASSUME NEW i \in Indexers, StatManifest(i)
      PROVE  Fresh'
  BY <1>3, <1>1 DEF StatManifest, Continue, Fresh, Persisting, NoRun, objects, Running
<1>4. ASSUME NEW i \in Indexers, ReadManifest(i)
      PROVE  Fresh'
  BY <1>4, <1>1 DEF ReadManifest, Continue, objects, Fresh, Persisting, NoRun
<1>5. ASSUME NEW i \in Indexers, ListWal(i)
      PROVE  Fresh'
  <2>1. CASE Continue(i, NoRun)
    BY <1>5, <2>1, <1>1 DEF ListWal, Continue, objects, Fresh, Persisting, NoRun
  <2>2. CASE ~ (wal <= run[i].base)
    <3> DEFINE at == IF run[i].etag = 0 THEN "replay" ELSE "centroids"
    <3>1. at \in {"replay", "centroids"}
      OBVIOUS
    <3>2. Continue(i, [run[i] EXCEPT !.at = at, !.upTo = wal])
      BY <1>5, <2>2 DEF ListWal
    <3> HIDE DEF at
    <3>3. QED
      BY <1>5, <2>2, <3>1, <3>2, <1>1 DEF ListWal, Continue, objects, Fresh, Persisting
  <2>3. QED BY <1>5, <2>1, <2>2 DEF ListWal
<1>6. ASSUME NEW i \in Indexers, LoadCentroids(i)
      PROVE  Fresh'
  BY <1>6, <1>1 DEF LoadCentroids, Continue, objects, Fresh, Persisting, NoRun
<1>7. ASSUME NEW i \in Indexers, LoadVersionMap(i)
      PROVE  Fresh'
  BY <1>7, <1>1 DEF LoadVersionMap, Continue, objects, Fresh, Persisting, NoRun
<1>8. ASSUME NEW i \in Indexers, EndLoad(i)
      PROVE  Fresh'
  BY <1>8, <1>1 DEF EndLoad, Continue, objects, Fresh, Persisting, NoRun
<1>9. ASSUME NEW i \in Indexers, NEW h \in run[i].todo, LoadPosting(i, h)
      PROVE  Fresh'
  BY <1>9, <1>1 DEF LoadPosting, Continue, objects, Fresh, Persisting, NoRun
<1>10. ASSUME NEW i \in Indexers, NEW h \in run[i].todo, PutPosting(i, h)
      PROVE  Fresh'
  BY <1>10, <1>1 DEF PutPosting, Continue, objects, Fresh, Persisting, NoRun
<1>11. ASSUME NEW i \in Indexers, PutCentroids(i)
      PROVE  Fresh'
  BY <1>11, <1>1 DEF PutCentroids, Continue, objects, Fresh, Persisting, NoRun
<1>12. ASSUME NEW i \in Indexers, PutVersionMap(i)
      PROVE  Fresh'
  BY <1>12, <1>1 DEF PutVersionMap, Continue, objects, Fresh, Persisting, NoRun
<1>13. ASSUME NEW i \in Indexers, PutManifest(i)
      PROVE  Fresh'
  BY <1>13, <1>1 DEF PutManifest, Continue, objects, Fresh, Persisting, NoRun
<1>14. ASSUME NEW i \in Indexers, Abort(i)
      PROVE  Fresh'
  BY <1>14, <1>1 DEF Abort, Continue, objects, Fresh, Persisting, NoRun
<1>15. ASSUME NEW i \in Indexers, NEW hs \in SUBSET Heads, Replay(i, hs)
      PROVE  Fresh'
  <2>1. Len(builds') = Len(builds) + 1
    BY <1>15, Types DEF Replay
  <2>2. QED
    BY <2>1, <1>15, <1>1 DEF Replay, Continue, Fresh, Persisting
<1>16. CASE Finished \/ UNCHANGED storeVars
  BY <1>16, <1>1 DEF Finished, storeVars, objects, Fresh, Persisting, NoRun
<1>17. QED BY <1>2, <1>3, <1>4, <1>5, <1>6, <1>7, <1>8, <1>9, <1>10, <1>11, <1>12, <1>13, <1>14, <1>15, <1>16 DEF Step, StoreNext, Index

\* The manifest's position is that of its build.
LEMMA ExtendsStep ==
    ASSUME StoreTypeOK, Fresh, Extends, Step
    PROVE  Extends'
<1>1. /\ run \in [Indexers -> Run(Len(builds))] /\ wal \in Nat
      /\ \A j \in Indexers : /\ run[j].base \in Nat /\ run[j].upTo \in Nat
                             /\ run[j].build \in Nat /\ run[j].etag \in Nat
      /\ manifest.build \in Nat /\ manifest.seq \in Nat
  <2>1. /\ run \in [Indexers -> Run(Len(builds))] /\ wal \in 0 .. MaxWal
        /\ manifest.build \in 0 .. Len(builds) /\ manifest.seq \in 0 .. MaxWal
        /\ Len(builds) \in Nat
    BY Types
  <2>2. ASSUME NEW j \in Indexers
        PROVE  /\ run[j].base \in 0 .. MaxWal /\ run[j].upTo \in 0 .. MaxWal
               /\ run[j].build \in 0 .. Len(builds) /\ run[j].etag \in 0 .. Len(builds)
    BY <2>1 DEF Run
  <2> QED BY <2>1, <2>2
<1>2. CASE WriteWal
  BY <1>2, <1>1 DEF WriteWal, objects, Extends, AfterRead, AfterList, Persisting, NoRun
<1>3. ASSUME NEW i \in Indexers, StatManifest(i)
      PROVE  Extends'
  BY <1>3, <1>1 DEF StatManifest, Continue, objects, Extends, AfterRead, AfterList, Persisting, NoRun
<1>4. ASSUME NEW i \in Indexers, ReadManifest(i)
      PROVE  Extends'
  BY <1>4, <1>1 DEF ReadManifest, Continue, objects, Extends, AfterRead, AfterList, Persisting, NoRun
<1>5. ASSUME NEW i \in Indexers, ListWal(i)
      PROVE  Extends'
  <2>1. CASE Continue(i, NoRun)
    BY <1>5, <2>1, <1>1 DEF ListWal, Continue, objects, Extends, AfterRead, AfterList, Persisting, NoRun
  <2>2. CASE ~ (wal <= run[i].base)
    <3> DEFINE at == IF run[i].etag = 0 THEN "replay" ELSE "centroids"
    <3>1. at \in {"replay", "centroids"}
      OBVIOUS
    <3>2. Continue(i, [run[i] EXCEPT !.at = at, !.upTo = wal])
      BY <1>5, <2>2 DEF ListWal
    <3> HIDE DEF at
    <3>3. QED
      BY <1>5, <2>2, <3>1, <3>2, <1>1 DEF ListWal, Continue, objects, Extends, AfterRead, AfterList, Persisting
  <2>3. QED BY <1>5, <2>1, <2>2 DEF ListWal
<1>6. ASSUME NEW i \in Indexers, LoadCentroids(i)
      PROVE  Extends'
  BY <1>6, <1>1 DEF LoadCentroids, Continue, objects, Extends, AfterRead, AfterList, Persisting, NoRun
<1>7. ASSUME NEW i \in Indexers, LoadVersionMap(i)
      PROVE  Extends'
  BY <1>7, <1>1 DEF LoadVersionMap, Continue, objects, Extends, AfterRead, AfterList, Persisting, NoRun
<1>8. ASSUME NEW i \in Indexers, EndLoad(i)
      PROVE  Extends'
  BY <1>8, <1>1 DEF EndLoad, Continue, objects, Extends, AfterRead, AfterList, Persisting, NoRun
<1>9. ASSUME NEW i \in Indexers, NEW h \in run[i].todo, LoadPosting(i, h)
      PROVE  Extends'
  BY <1>9, <1>1 DEF LoadPosting, Continue, objects, Extends, AfterRead, AfterList, Persisting, NoRun
<1>10. ASSUME NEW i \in Indexers, NEW h \in run[i].todo, PutPosting(i, h)
      PROVE  Extends'
  BY <1>10, <1>1 DEF PutPosting, Continue, objects, Extends, AfterRead, AfterList, Persisting, NoRun
<1>11. ASSUME NEW i \in Indexers, PutCentroids(i)
      PROVE  Extends'
  BY <1>11, <1>1 DEF PutCentroids, Continue, objects, Extends, AfterRead, AfterList, Persisting, NoRun
<1>12. ASSUME NEW i \in Indexers, PutVersionMap(i)
      PROVE  Extends'
  BY <1>12, <1>1 DEF PutVersionMap, Continue, objects, Extends, AfterRead, AfterList, Persisting, NoRun
<1>13. ASSUME NEW i \in Indexers, PutManifest(i)
      PROVE  Extends'
  BY <1>13, <1>1 DEF PutManifest, Continue, Extends, AfterRead, AfterList, Persisting, Fresh, NoRun, objects
<1>14. ASSUME NEW i \in Indexers, Abort(i)
      PROVE  Extends'
  BY <1>14, <1>1 DEF Abort, Continue, objects, Extends, AfterRead, AfterList, Persisting, NoRun
<1>15. ASSUME NEW i \in Indexers, NEW hs \in SUBSET Heads, Replay(i, hs)
      PROVE  Extends'
  BY <1>15, <1>1 DEF Replay, Continue, objects, Extends, AfterRead, AfterList, Persisting, NoRun
<1>16. CASE Finished \/ UNCHANGED storeVars
  BY <1>16, <1>1 DEF Finished, storeVars, objects, Extends, AfterRead, AfterList, Persisting, NoRun
<1>17. QED BY <1>2, <1>3, <1>4, <1>5, <1>6, <1>7, <1>8, <1>9, <1>10, <1>11, <1>12, <1>13, <1>14, <1>15, <1>16 DEF Step, StoreNext, Index

\* Two runs at once are noticed.
LEMMA AloneStep ==
    ASSUME StoreTypeOK, Alone, Step
    PROVE  Alone'
<1>1. run \in [Indexers -> Run(Len(builds))]
  BY Types
<1>2. CASE WriteWal
  BY <1>2, <1>1 DEF WriteWal, objects, Alone, Running, NoRun
<1>3. ASSUME NEW i \in Indexers, StatManifest(i)
      PROVE  Alone'
  BY <1>3, <1>1 DEF StatManifest, Continue, Alone, Quiet, Running, NoRun
<1>4. ASSUME NEW i \in Indexers, ReadManifest(i)
      PROVE  Alone'
  BY <1>4, <1>1 DEF ReadManifest, Continue, objects, Alone, Running, NoRun
<1>5. ASSUME NEW i \in Indexers, ListWal(i)
      PROVE  Alone'
  BY <1>5, <1>1 DEF ListWal, Continue, objects, Alone, Running, NoRun
<1>6. ASSUME NEW i \in Indexers, LoadCentroids(i)
      PROVE  Alone'
  BY <1>6, <1>1 DEF LoadCentroids, Continue, objects, Alone, Running, NoRun
<1>7. ASSUME NEW i \in Indexers, LoadVersionMap(i)
      PROVE  Alone'
  BY <1>7, <1>1 DEF LoadVersionMap, Continue, objects, Alone, Running, NoRun
<1>8. ASSUME NEW i \in Indexers, EndLoad(i)
      PROVE  Alone'
  BY <1>8, <1>1 DEF EndLoad, Continue, objects, Alone, Running, NoRun
<1>9. ASSUME NEW i \in Indexers, NEW h \in run[i].todo, LoadPosting(i, h)
      PROVE  Alone'
  BY <1>9, <1>1 DEF LoadPosting, Continue, objects, Alone, Running, NoRun
<1>10. ASSUME NEW i \in Indexers, NEW h \in run[i].todo, PutPosting(i, h)
      PROVE  Alone'
  BY <1>10, <1>1 DEF PutPosting, Continue, objects, Alone, Running, NoRun
<1>11. ASSUME NEW i \in Indexers, PutCentroids(i)
      PROVE  Alone'
  BY <1>11, <1>1 DEF PutCentroids, Continue, objects, Alone, Running, NoRun
<1>12. ASSUME NEW i \in Indexers, PutVersionMap(i)
      PROVE  Alone'
  BY <1>12, <1>1 DEF PutVersionMap, Continue, objects, Alone, Running, NoRun
<1>13. ASSUME NEW i \in Indexers, PutManifest(i)
      PROVE  Alone'
  BY <1>13, <1>1 DEF PutManifest, Continue, objects, Alone, Running, NoRun
<1>14. ASSUME NEW i \in Indexers, Abort(i)
      PROVE  Alone'
  BY <1>14, <1>1 DEF Abort, Continue, objects, Alone, Running, NoRun
<1>15. ASSUME NEW i \in Indexers, NEW hs \in SUBSET Heads, Replay(i, hs)
      PROVE  Alone'
  BY <1>15, <1>1 DEF Replay, Continue, objects, Alone, Running, NoRun
<1>16. CASE Finished \/ UNCHANGED storeVars
  BY <1>16, <1>1 DEF Finished, storeVars, objects, Alone, Running, NoRun
<1>17. QED BY <1>2, <1>3, <1>4, <1>5, <1>6, <1>7, <1>8, <1>9, <1>10, <1>11, <1>12, <1>13, <1>14, <1>15, <1>16 DEF Step, StoreNext, Index

\* No object a reader is pointed to is missing.
LEMMA PresentStep ==
    ASSUME StoreTypeOK, Fresh, Written, AllPresent, Step
    PROVE  (Written /\ AllPresent)'
<1>1. /\ run \in [Indexers -> Run(Len(builds))] /\ Len(builds) \in Nat
      /\ \A j \in Indexers : run[j].build \in 0 .. Len(builds) /\ run[j].todo \subseteq Heads
      /\ manifest.build \in 0 .. Len(builds)
      /\ centroids \in 0 .. Len(builds)
      /\ postings \in [Heads -> 0 .. Len(builds)]
  BY Types DEF Run, StoreTypeOK
<1>2. \A b \in 0 .. Len(builds) : HeadsOf(b) \subseteq Heads
  BY HeadsKnown
<1>3. CASE WriteWal
  BY <1>3, <1>1 DEF WriteWal, objects, Written, AllPresent, Persisting, HeadsOf, NoRun
<1>4. ASSUME NEW i \in Indexers, StatManifest(i)
      PROVE  (Written /\ AllPresent)'
  BY <1>4, <1>1 DEF StatManifest, Continue, objects, Written, AllPresent, Persisting, HeadsOf, NoRun
<1>5. ASSUME NEW i \in Indexers, ReadManifest(i)
      PROVE  (Written /\ AllPresent)'
  BY <1>5, <1>1 DEF ReadManifest, Continue, objects, Written, AllPresent, Persisting, HeadsOf, NoRun
<1>6. ASSUME NEW i \in Indexers, ListWal(i)
      PROVE  (Written /\ AllPresent)'
  <2>1. CASE Continue(i, NoRun)
    BY <1>6, <2>1, <1>1 DEF ListWal, Continue, objects, Written, AllPresent, Persisting, HeadsOf, NoRun
  <2>2. CASE ~ (wal <= run[i].base)
    <3> DEFINE at == IF run[i].etag = 0 THEN "replay" ELSE "centroids"
    <3>1. at \in {"replay", "centroids"}
      OBVIOUS
    <3>2. Continue(i, [run[i] EXCEPT !.at = at, !.upTo = wal])
      BY <1>6, <2>2 DEF ListWal
    <3> HIDE DEF at
    <3>3. QED
      BY <1>6, <2>2, <3>1, <3>2, <1>1 DEF ListWal, Continue, objects, Written, AllPresent, Persisting, HeadsOf
  <2>3. QED BY <1>6, <2>1, <2>2 DEF ListWal
<1>7. ASSUME NEW i \in Indexers, LoadCentroids(i)
      PROVE  (Written /\ AllPresent)'
  BY <1>7, <1>1 DEF LoadCentroids, Continue, objects, Written, AllPresent, Persisting, HeadsOf, NoRun
<1>8. ASSUME NEW i \in Indexers, LoadVersionMap(i)
      PROVE  (Written /\ AllPresent)'
  BY <1>8, <1>1 DEF LoadVersionMap, Continue, objects, Written, AllPresent, Persisting, HeadsOf, NoRun
<1>9. ASSUME NEW i \in Indexers, EndLoad(i)
      PROVE  (Written /\ AllPresent)'
  BY <1>9, <1>1 DEF EndLoad, Continue, objects, Written, AllPresent, Persisting, HeadsOf, NoRun
<1>10. ASSUME NEW i \in Indexers, NEW h \in run[i].todo, LoadPosting(i, h)
      PROVE  (Written /\ AllPresent)'
  BY <1>10, <1>1 DEF LoadPosting, Continue, objects, Written, AllPresent, Persisting, HeadsOf, NoRun
<1>11. ASSUME NEW i \in Indexers, NEW h \in run[i].todo, PutPosting(i, h)
      PROVE  (Written /\ AllPresent)'
  <2>1. h \in Heads /\ run[i].build # 0
    BY <1>11, <1>1 DEF PutPosting, Fresh, Persisting
  <2>2. \A g \in Heads : postings'[g] = IF g = h THEN run[i].build ELSE postings[g]
    BY <2>1, <1>11, <1>1 DEF PutPosting
  <2>3. \A g \in Heads : postings[g] # 0 => postings'[g] # 0
    BY <2>1, <2>2
  <2>4. \A b \in 0 .. Len(builds) : (HeadsOf(b))' = HeadsOf(b)
    BY <1>11 DEF PutPosting, HeadsOf
  <2>5. run' = [run EXCEPT ![i] = [run[i] EXCEPT !.todo = @ \ {h}]]
    BY <1>11 DEF PutPosting, Continue
  <2>6. ASSUME NEW j \in Indexers, Persisting(j)'
        PROVE  \A g \in HeadsOf(run[j].build) \ run'[j].todo : postings'[g] # 0
    <3>1. Persisting(j) /\ run'[j].build = run[j].build
      BY <2>5, <2>6, <1>1 DEF Persisting
    <3>2. HeadsOf(run[j].build) \subseteq Heads
      BY <1>2, <1>1
    <3>3. CASE j = i
      <4>1. run'[i].todo = run[i].todo \ {h}
        BY <2>5, <1>1
      <4>2. QED BY <3>1, <3>2, <3>3, <4>1, <2>1, <2>2, <2>3 DEF Written
    <3>4. CASE j # i
      <4>1. run'[j].todo = run[j].todo
        BY <2>5, <3>4, <1>1
      <4>2. QED BY <3>1, <3>2, <4>1, <2>3 DEF Written
    <3>5. QED BY <3>3, <3>4
  <2>7. Written'
    BY <2>4, <2>5, <2>6, <1>11, <1>1 DEF Written, PutPosting, Persisting, HeadsOf
  <2>8. AllPresent'
    BY <2>3, <1>2, <1>11, <1>1 DEF AllPresent, PutPosting, HeadsOf
  <2>9. QED BY <2>7, <2>8
<1>12. ASSUME NEW i \in Indexers, PutCentroids(i)
      PROVE  (Written /\ AllPresent)'
  <2>1. run[i].build # 0 /\ run[i].todo = {}
    BY <1>12 DEF PutCentroids, Fresh, Persisting
  <2>2. QED
    BY <2>1, <1>12, <1>1 DEF PutCentroids, Continue, Written, AllPresent, Persisting, HeadsOf
<1>13. ASSUME NEW i \in Indexers, PutVersionMap(i)
      PROVE  (Written /\ AllPresent)'
  <2>1. run[i].build # 0
    BY <1>13 DEF PutVersionMap, Fresh, Persisting
  <2>2. QED
    BY <2>1, <1>13, <1>1 DEF PutVersionMap, Continue, Written, AllPresent, Persisting, HeadsOf
<1>14. ASSUME NEW i \in Indexers, PutManifest(i)
      PROVE  (Written /\ AllPresent)'
  BY <1>14, <1>1 DEF PutManifest, Continue, objects, Written, AllPresent, Persisting, HeadsOf, NoRun
<1>15. ASSUME NEW i \in Indexers, Abort(i)
      PROVE  (Written /\ AllPresent)'
  BY <1>15, <1>1 DEF Abort, Continue, objects, Written, AllPresent, Persisting, HeadsOf, NoRun
<1>16. ASSUME NEW i \in Indexers, NEW hs \in SUBSET Heads, Replay(i, hs)
      PROVE  (Written /\ AllPresent)'
  <2> DEFINE n == Len(builds) + 1
  <2>1. Len(builds') = n /\ builds'[n].heads = hs
    BY <1>16, Types DEF Replay
  <2>2. \A b \in 0 .. Len(builds) : b # 0 => builds'[b] = builds[b]
    BY BuildsGrow
  <2>3. QED
    BY <2>1, <2>2, <1>16, <1>1 DEF Replay, Continue, objects, Written, AllPresent, Persisting, HeadsOf
<1>17. CASE Finished \/ UNCHANGED storeVars
  BY <1>17, <1>1 DEF Finished, storeVars, objects, Written, AllPresent, Persisting, HeadsOf, NoRun
<1>18. QED BY <1>3, <1>4, <1>5, <1>6, <1>7, <1>8, <1>9, <1>10, <1>11, <1>12, <1>13, <1>14, <1>15, <1>16, <1>17 DEF Step, StoreNext, Index

\* As long as nobody disturbs it, a run replaces the index of the manifest by its own.
LEMMA UndisturbedStep ==
    ASSUME StoreTypeOK, Fresh, Extends, Alone, Undisturbed, Step
    PROVE  Undisturbed'
<1> SUFFICES ASSUME Disciplined' PROVE Steady'
  BY DEF Undisturbed
<1>1. /\ run \in [Indexers -> Run(Len(builds))] /\ Len(builds) \in Nat
      /\ \A j \in Indexers : /\ run[j].build \in 0 .. Len(builds) /\ run[j].etag \in 0 .. Len(builds)
                             /\ run[j].todo \subseteq Heads
      /\ manifest.build \in 0 .. Len(builds)
      /\ postings \in [Heads -> 0 .. Len(builds)]
  BY Types DEF Run, StoreTypeOK
<1>2. CASE WriteWal
  BY <1>2 DEF WriteWal, objects, Steady, Settled, LoadedOK, ReplacedOK, Running, Persisting, HeadsOf, Undisturbed, Disciplined
<1>3. ASSUME NEW i \in Indexers, StatManifest(i)
      PROVE  Steady'
  <2>1. \A j \in Indexers : j # i => run'[j] = run[j]
    BY <1>3, <1>1 DEF StatManifest, Continue
  <2>2. Quiet /\ Disciplined
    BY <1>3 DEF StatManifest, Disciplined
  <2>3. Settled
    BY <2>2 DEF Undisturbed, Steady, Quiet, Running, Persisting
  <2>4. Settled'
    BY <2>3, <1>3 DEF StatManifest, Settled, HeadsOf, objects
  <2>5. LoadedOK(run[i])' /\ ~Persisting(i)'
    BY <1>3, <1>1 DEF StatManifest, Continue, NoRun, LoadedOK, Persisting
  <2>6. QED
    BY <2>2, <2>1, <2>4, <2>5 DEF Steady, Quiet, Running, Persisting
<1>4. ASSUME NEW i \in Indexers, ReadManifest(i)
      PROVE  Steady'
  <2>1. Steady /\ \A j \in Indexers : j # i => ~Running(j)
    BY <1>4 DEF ReadManifest, Disciplined, Undisturbed, Alone, Running
  <2>2. \A j \in Indexers : j # i => run'[j] = run[j]
    BY <1>4, <1>1 DEF ReadManifest, Continue
  <2>3. Settled /\ LoadedOK(run[i])
    BY <2>1, <1>4 DEF ReadManifest, Steady, Running, Persisting
  <2>4. Settled'
    BY <2>3, <1>4 DEF ReadManifest, Settled, HeadsOf, objects
  <2>5. Running(i)' => LoadedOK(run[i])' /\ ~Persisting(i)'
    BY <2>3, <1>4, <1>1 DEF ReadManifest, Continue, Extends, LoadedOK, Running, Persisting, HeadsOf, objects
  <2>6. QED
    BY <2>1, <2>2, <2>4, <2>5 DEF Steady, Running, Persisting
<1>5. ASSUME NEW i \in Indexers, ListWal(i)
      PROVE  Steady'
  <2>1. Steady /\ \A j \in Indexers : j # i => ~Running(j)
    BY <1>5 DEF ListWal, Disciplined, Undisturbed, Alone, Running
  <2>2. \A j \in Indexers : j # i => run'[j] = run[j]
    BY <1>5, <1>1 DEF ListWal, Continue
  <2>3. Settled /\ LoadedOK(run[i])
    BY <2>1, <1>5 DEF ListWal, Steady, Running, Persisting
  <2>4. Settled'
    BY <2>3, <1>5 DEF ListWal, Settled, HeadsOf, objects
  <2>5. Running(i)' => LoadedOK(run[i])' /\ ~Persisting(i)'
    <3>1. CASE Continue(i, NoRun)
      BY <3>1, <1>1 DEF Continue, NoRun, Running
    <3> DEFINE at == IF run[i].etag = 0 THEN "replay" ELSE "centroids"
    <3>2. CASE Continue(i, [run[i] EXCEPT !.at = at, !.upTo = wal])
      BY <2>3, <3>2, <1>5, <1>1 DEF ListWal, Continue, LoadedOK, Running, Persisting, HeadsOf, objects
    <3>3. QED BY <3>1, <3>2, <1>5 DEF ListWal
  <2>6. QED
    BY <2>1, <2>2, <2>4, <2>5 DEF Steady, Running, Persisting
<1>6. ASSUME NEW i \in Indexers, LoadCentroids(i)
      PROVE  Steady'
  <2>1. Steady /\ \A j \in Indexers : j # i => ~Running(j)
    BY <1>6 DEF LoadCentroids, Disciplined, Undisturbed, Alone, Running
  <2>2. \A j \in Indexers : j # i => run'[j] = run[j]
    BY <1>6, <1>1 DEF LoadCentroids, Continue
  <2>3. Settled /\ LoadedOK(run[i])
    BY <2>1, <1>6 DEF LoadCentroids, Steady, Running, Persisting
  <2>4. Settled'
    BY <2>3, <1>6 DEF LoadCentroids, Settled, HeadsOf, objects
  <2>5. Running(i)' => LoadedOK(run[i])' /\ ~Persisting(i)'
    BY <2>3, <1>6, <1>1 DEF LoadCentroids, Continue, Settled, LoadedOK, Running, Persisting, HeadsOf, objects
  <2>6. QED
    BY <2>1, <2>2, <2>4, <2>5 DEF Steady, Running, Persisting
<1>7. ASSUME NEW i \in Indexers, LoadVersionMap(i)
      PROVE  Steady'
  <2>1. Steady /\ \A j \in Indexers : j # i => ~Running(j)
    BY <1>7 DEF LoadVersionMap, Disciplined, Undisturbed, Alone, Running
  <2>2. \A j \in Indexers : j # i => run'[j] = run[j]
    BY <1>7, <1>1 DEF LoadVersionMap, Continue
  <2>3. Settled /\ LoadedOK(run[i])
    BY <2>1, <1>7 DEF LoadVersionMap, Steady, Running, Persisting
  <2>4. Settled'
    BY <2>3, <1>7 DEF LoadVersionMap, Settled, HeadsOf, objects
  <2>5. Running(i)' => LoadedOK(run[i])' /\ ~Persisting(i)'
    BY <2>3, <1>7, <1>1 DEF LoadVersionMap, Continue, Settled, LoadedOK, Running, Persisting, HeadsOf, objects
  <2>6. QED
    BY <2>1, <2>2, <2>4, <2>5 DEF Steady, Running, Persisting
<1>8. ASSUME NEW i \in Indexers, EndLoad(i)
      PROVE  Steady'
  <2>1. Steady /\ \A j \in Indexers : j # i => ~Running(j)
    BY <1>8 DEF EndLoad, Disciplined, Undisturbed, Alone, Running
  <2>2. \A j \in Indexers : j # i => run'[j] = run[j]
    BY <1>8, <1>1 DEF EndLoad, Continue
  <2>3. Settled /\ LoadedOK(run[i])
    BY <2>1, <1>8 DEF EndLoad, Steady, Running, Persisting
  <2>4. Settled'
    BY <2>3, <1>8 DEF EndLoad, Settled, HeadsOf, objects
  <2>5. Running(i)' => LoadedOK(run[i])' /\ ~Persisting(i)'
    BY <2>3, <1>8, <1>1 DEF EndLoad, Continue, Settled, LoadedOK, Running, Persisting, HeadsOf, objects
  <2>6. QED
    BY <2>1, <2>2, <2>4, <2>5 DEF Steady, Running, Persisting
<1>9. ASSUME NEW i \in Indexers, NEW h \in run[i].todo, LoadPosting(i, h)
      PROVE  Steady'
  <2>1. Steady /\ \A j \in Indexers : j # i => ~Running(j)
    BY <1>9 DEF LoadPosting, Disciplined, Undisturbed, Alone, Running
  <2>2. \A j \in Indexers : j # i => run'[j] = run[j]
    BY <1>9, <1>1 DEF LoadPosting, Continue
  <2>3. Settled /\ LoadedOK(run[i])
    BY <2>1, <1>9 DEF LoadPosting, Steady, Running, Persisting
  <2>4. Settled'
    BY <2>3, <1>9 DEF LoadPosting, Settled, HeadsOf, objects
  <2>5. postings[h] = run[i].etag
    BY <2>3, <1>9 DEF LoadPosting, Settled, LoadedOK
  <2>6. Running(i)' => LoadedOK(run[i])' /\ ~Persisting(i)'
    BY <2>3, <2>5, <1>9, <1>1 DEF LoadPosting, Continue, LoadedOK, Running, Persisting, HeadsOf, objects
  <2>7. QED
    BY <2>1, <2>2, <2>4, <2>6 DEF Steady, Running, Persisting
<1>10. ASSUME NEW i \in Indexers, NEW h \in run[i].todo, PutPosting(i, h)
      PROVE  Steady'
  <2>1. Steady /\ \A j \in Indexers : j # i => ~Running(j)
    BY <1>10 DEF PutPosting, Disciplined, Undisturbed, Alone, Running
  <2>2. \A j \in Indexers : j # i => run'[j] = run[j]
    BY <1>10, <1>1 DEF PutPosting, Continue
  <2>3. Persisting(i) /\ ReplacedOK(run[i]) /\ run[i].build # manifest.build /\ run[i].build # 0
    BY <2>1, <1>10 DEF PutPosting, Steady, Running, Persisting, Fresh
  <2>4. /\ HeadsOf(run[i].build) \subseteq Heads /\ HeadsOf(manifest.build) \subseteq Heads
        /\ h \in Heads
    BY HeadsKnown, <1>1
  <2>5. \A g \in Heads : postings'[g] = IF g = h THEN run[i].build ELSE postings[g]
    BY <2>4, <1>10, <1>1 DEF PutPosting
  <2>6. Persisting(i)' /\ ReplacedOK(run[i])'
    BY <2>3, <2>4, <2>5, <1>10, <1>1 DEF PutPosting, Continue, ReplacedOK, Persisting, HeadsOf
  <2>7. QED
    BY <2>1, <2>2, <2>6 DEF Steady, Running, Persisting
<1>11. ASSUME NEW i \in Indexers, PutCentroids(i)
      PROVE  Steady'
  <2>1. Steady /\ \A j \in Indexers : j # i => ~Running(j)
    BY <1>11 DEF PutCentroids, Disciplined, Undisturbed, Alone, Running
  <2>2. \A j \in Indexers : j # i => run'[j] = run[j]
    BY <1>11, <1>1 DEF PutCentroids, Continue
  <2>3. Persisting(i) /\ ReplacedOK(run[i]) /\ run[i].build # manifest.build /\ run[i].build # 0
    BY <2>1, <1>11 DEF PutCentroids, Steady, Running, Persisting, Fresh
  <2>4. Persisting(i)' /\ ReplacedOK(run[i])'
    BY <2>3, <1>11, <1>1 DEF PutCentroids, Continue, ReplacedOK, Persisting, HeadsOf
  <2>5. QED
    BY <2>1, <2>2, <2>4 DEF Steady, Running, Persisting
<1>12. ASSUME NEW i \in Indexers, PutVersionMap(i)
      PROVE  Steady'
  <2>1. Steady /\ \A j \in Indexers : j # i => ~Running(j)
    BY <1>12 DEF PutVersionMap, Disciplined, Undisturbed, Alone, Running
  <2>2. \A j \in Indexers : j # i => run'[j] = run[j]
    BY <1>12, <1>1 DEF PutVersionMap, Continue
  <2>3. Persisting(i) /\ ReplacedOK(run[i]) /\ run[i].build # manifest.build /\ run[i].build # 0
    BY <2>1, <1>12 DEF PutVersionMap, Steady, Running, Persisting, Fresh
  <2>4. Persisting(i)' /\ ReplacedOK(run[i])'
    BY <2>3, <1>12, <1>1 DEF PutVersionMap, Continue, ReplacedOK, Persisting, HeadsOf
  <2>5. QED
    BY <2>1, <2>2, <2>4 DEF Steady, Running, Persisting
<1>13. ASSUME NEW i \in Indexers, PutManifest(i)
      PROVE  Steady'
  <2>1. Steady /\ \A j \in Indexers : j # i => ~Running(j)
    BY <1>13 DEF PutManifest, Disciplined, Undisturbed, Alone, Running
  <2>2. \A j \in Indexers : j # i => run'[j] = run[j]
    BY <1>13, <1>1 DEF PutManifest, Continue
  <2>3. ReplacedOK(run[i]) /\ run[i].at = "putManifest"
    BY <2>1, <1>13 DEF PutManifest, Steady, Running, Persisting
  <2>4. manifest' = [build |-> run[i].build, seq |-> run[i].upTo]
    BY <2>3, <1>13 DEF PutManifest, ReplacedOK
  <2>5. Settled'
    BY <2>3, <2>4, <1>13 DEF PutManifest, ReplacedOK, Settled, HeadsOf, objects
  <2>6. ~Running(i)'
    BY <1>13, <1>1 DEF PutManifest, Continue, NoRun, Running
  <2>7. QED
    BY <2>1, <2>2, <2>5, <2>6 DEF Steady, Running, Persisting
<1>14. ASSUME NEW i \in Indexers, Abort(i)
      PROVE  Steady'
  <2>1. aborts' # 0
    BY <1>14, Types DEF Abort
  <2>2. QED BY <2>1 DEF Disciplined
<1>15. ASSUME NEW i \in Indexers, NEW hs \in SUBSET Heads, Replay(i, hs)
      PROVE  Steady'
  <2>1. Steady /\ \A j \in Indexers : j # i => ~Running(j)
    BY <1>15 DEF Replay, Disciplined, Undisturbed, Alone, Running
  <2>2. \A j \in Indexers : j # i => run'[j] = run[j]
    BY <1>15, <1>1 DEF Replay, Continue
  <2>3. Settled /\ LoadedOK(run[i]) /\ run[i].base = manifest.seq /\ run[i].base < run[i].upTo
    BY <2>1, <1>15 DEF Replay, Steady, Running, Persisting, LoadedOK, Extends, AfterList, AfterRead
  <2> DEFINE n == Len(builds) + 1
  <2>4. LoadedWhole(run[i])
    <3>1. run[i].etag # 0 => run[i].etag \in DOMAIN builds
      BY <1>1, Types
    <3>2. QED BY <2>3, <3>1, <1>15 DEF Replay, LoadedOK, LoadedWhole, Settled
  <2>5. /\ Len(builds') = n /\ builds'[n].heads = hs
        /\ builds'[n].seq = run[i].upTo /\ builds'[n].whole
    BY <2>4, <1>15, Types DEF Replay
  <2>6. \A b \in 0 .. Len(builds) : b # 0 => builds'[b] = builds[b]
    BY BuildsGrow
  <2>7. run'[i].at = "postings" /\ run'[i].todo = hs /\ run'[i].build = n
        /\ run'[i].etag = run[i].etag /\ run'[i].upTo = run[i].upTo
    BY <2>5, <1>15, <1>1 DEF Replay, Continue
  <2>8. ReplacedOK(run[i])'
    BY <2>3, <2>5, <2>6, <2>7, <1>15, <1>1 DEF Replay, LoadedOK, ReplacedOK, Settled, HeadsOf, objects
  <2>9. QED
    BY <2>1, <2>2, <2>7, <2>8 DEF Steady, Running, Persisting
<1>16. CASE Finished \/ UNCHANGED storeVars
  BY <1>16 DEF Finished, storeVars, objects, Steady, Settled, LoadedOK, ReplacedOK, Running, Persisting, HeadsOf, Undisturbed, Disciplined
<1>17. QED BY <1>2, <1>3, <1>4, <1>5, <1>6, <1>7, <1>8, <1>9, <1>10, <1>11, <1>12, <1>13, <1>14, <1>15, <1>16 DEF Step, StoreNext, Index

\* Every step preserves the inductive invariant ...
LEMMA Inductive == ASSUME IInv, Step PROVE IInv'
<1>1. /\ StoreTypeOK /\ Fresh /\ Extends /\ Written /\ AllPresent /\ Alone /\ Undisturbed
  BY DEF IInv
<1>2. StoreTypeOK'
  BY <1>1, TypeStep
<1>3. Fresh' /\ Extends'
  BY <1>1, FreshStep, ExtendsStep
<1>4. Written' /\ AllPresent'
  BY <1>1, PresentStep
<1>5. Alone' /\ Undisturbed'
  BY <1>1, AloneStep, UndisturbedStep
<1>6. QED BY <1>2, <1>3, <1>4, <1>5 DEF IInv

\* ... and the initial state has it.
LEMMA InitInv == Init => IInv
<1> SUFFICES ASSUME Init PROVE IInv
  OBVIOUS
<1>1. builds = <<>> /\ Len(builds) = 0 /\ builds \in Seq(Build)
  BY DEF Init
<1>2. run \in [Indexers -> Run(0)] /\ \A i \in Indexers : run[i] = NoRun
  BY NoRunType DEF Init
<1>3. StoreTypeOK
  <2>1. manifest \in [build : 0 .. 0, seq : 0 .. MaxWal] /\ wal \in 0 .. MaxWal /\ aborts \in 0 .. MaxAborts
    BY DEF Init
  <2>2. QED BY <1>1, <1>2, <2>1 DEF Init, StoreTypeOK
<1>4. \A i \in Indexers : ~Running(i) /\ ~Persisting(i) /\ ~AfterRead(i)
  BY <1>2 DEF NoRun, Running, Persisting, AfterRead
<1>5. Fresh /\ Extends /\ Alone
  BY <1>4 DEF Init, Fresh, Extends, Alone, AfterList
<1>6. Written /\ AllPresent
  BY <1>2 DEF Init, Written, AllPresent, Persisting, HeadsOf, NoRun
<1>7. Undisturbed
  BY <1>4 DEF Init, Undisturbed, Steady, Settled, HeadsOf
<1>8. QED BY <1>3, <1>5, <1>6, <1>7 DEF IInv

\* The inductive invariant holds in every reachable state: with any number of
\* indexers, in any interleaving of their requests, with any crashes.
THEOREM IndexStoreInductive == Spec => []IInv
<1>1. IInv /\ Step => IInv'
  BY Inductive
<1>2. QED BY InitInv, <1>1, PTL DEF Spec, Step

\* Type correctness: what every reader of the store may rely on.
THEOREM StoreTypeCorrect == Spec => []StoreTypeOK
<1>1. IInv => StoreTypeOK
  BY DEF IInv
<1>2. QED BY <1>1, IndexStoreInductive, PTL

\* Manifest-last: whoever finds a manifest finds every object it is pointed
\* to, however many runs of the indexer overlap, crash and fail.
THEOREM ObjectsPresent == Spec => []AllPresent
<1>1. IInv => AllPresent
  BY DEF IInv
<1>2. QED BY <1>1, IndexStoreInductive, PTL

\* A run whose PUT of the manifest succeeds extends the manifest it replaces.
LEMMA ManifestGrows ==
    ASSUME IInv, Step
    PROVE  manifest' # manifest => manifest'.seq > manifest.seq /\ manifest'.build # 0
<1>1. \A i \in Indexers : run[i].base \in Nat /\ run[i].upTo \in Nat /\ manifest.seq \in Nat
  BY Types DEF IInv, Run
<1>2. ASSUME NEW i \in Indexers, PutManifest(i), manifest' # manifest
      PROVE  manifest'.seq > manifest.seq /\ manifest'.build # 0
  <2>1. /\ manifest.build = run[i].etag /\ run[i].at = "putManifest"
        /\ manifest'.seq = run[i].upTo /\ manifest'.build = run[i].build
    BY <1>2 DEF PutManifest
  <2>2. run[i].base = manifest.seq /\ run[i].base < run[i].upTo
    BY <2>1 DEF IInv, Extends, AfterRead, AfterList
  <2>3. run[i].build # 0
    BY <2>1 DEF IInv, Fresh, Persisting
  <2>4. QED BY <1>1, <2>1, <2>2, <2>3
<1>3. manifest' # manifest => \E i \in Indexers : PutManifest(i)
  BY DEF Step, StoreNext, Index, Finished, storeVars, WriteWal, StatManifest, ReadManifest,
     ListWal, LoadCentroids, LoadVersionMap, EndLoad, LoadPosting, Replay, PutPosting,
     PutCentroids, PutVersionMap, Abort
<1>4. QED BY <1>2, <1>3

\* The manifest's WAL position never goes back: write_index_manifest_cas with
\* the etag of the stat is enough, although the contents are read later.
THEOREM ManifestNeverBack == Spec => ManifestMonotone
<1>1. IInv /\ Step => [manifest' # manifest => manifest'.seq > manifest.seq]_storeVars
  BY ManifestGrows
<1>2. QED BY <1>1, IndexStoreInductive, PTL DEF Spec, Step, ManifestMonotone

\* An undisturbed run keeps every object at or past the manifest.
LEMMA ObjectsCover == IInv => CoversManifest
<1> SUFFICES ASSUME IInv, Disciplined, manifest.build # 0, NEW b \in Referenced
             PROVE  b # 0 /\ builds[b].whole /\ builds[b].seq >= manifest.seq
  BY DEF CoversManifest
<1>1. Steady /\ Fresh /\ manifest.seq \in Nat /\ \A j \in Indexers : run[j].upTo \in Nat
  BY Types DEF IInv, Undisturbed, Run
<1>2. CASE \A i \in Indexers : ~Persisting(i)
  BY <1>1, <1>2 DEF Steady, Settled, Referenced
<1>3. ASSUME NEW i \in Indexers, Persisting(i)
      PROVE  b # 0 /\ builds[b].whole /\ builds[b].seq >= manifest.seq
  <2>1. ReplacedOK(run[i]) /\ run[i].build # 0
    BY <1>1, <1>3 DEF Steady, Persisting, Running, Fresh
  <2>2. b \in {manifest.build, run[i].build}
    BY <2>1 DEF Referenced, ReplacedOK
  <2>3. QED BY <2>1, <2>2, <1>1 DEF ReplacedOK
<1>4. QED BY <1>2, <1>3

\* The objects behind a manifest hold the log up to its position, also while
\* a run replaces them, as long as one indexer runs at a time and none fails.
THEOREM IndexCovers == Spec => []CoversManifest
<1>1. QED BY ObjectsCover, IndexStoreInductive, PTL

\* ... and between runs they are all of the manifest's build.
THEOREM IndexOfOneBuild == Spec => []OneBuild
<1>1. ASSUME IInv, Disciplined, Quiet, manifest.build # 0
      PROVE  Referenced = {manifest.build}
  <2>1. Settled
    BY <1>1 DEF IInv, Undisturbed, Steady, Quiet, Running, Persisting
  <2>2. QED BY <2>1 DEF Settled, Referenced
<1>2. IInv => OneBuild
  BY <1>1 DEF OneBuild
<1>3. QED BY <1>2, IndexStoreInductive, PTL

=============================================================================
