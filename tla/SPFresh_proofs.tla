---------------------------- MODULE SPFresh_proofs ----------------------------
(***************************************************************************)
(* Proofs about SPFresh for any number of threads, ids, heads and calls,   *)
(* any posting size, replica count, split depth and version mask.  The     *)
(* argument: IInv of SPFreshInv holds initially, every step preserves it,  *)
(* and it implies the properties.                                          *)
(***************************************************************************)
EXTENDS SPFreshInv, TLAPS, FiniteSetTheorems, FunctionTheorems, SequenceTheorems

Assumptions == /\ NoneAssumption /\ PostingAssumption /\ ReplicaAssumption
               /\ DepthAssumption /\ MaskAssumption /\ BoundsAssumption

-----------------------------------------------------------------------------
(***************************************************************************)
(* Lemmas about the operators of SPFresh.                                  *)
(***************************************************************************)

\* Every vector is placed somewhere, on heads of the index.
LEMMA PlacementsProps ==
  ASSUME NEW hs, NEW S \in Placements(hs)
  PROVE  S \subseteq hs /\ S # {}
<1>1. Cardinality(S) # 0
  BY DEF Placements
<1>2. S # {}
  BY <1>1, FS_EmptySet
<1> QED BY <1>2 DEF Placements

\* An append adds the entry to the named heads and disturbs nothing else.
LEMMA AppendedProps ==
  ASSUME NEW ps, NEW S, NEW e
  PROVE  /\ DOMAIN Appended(ps, S, e) = DOMAIN ps \cup S
         /\ \A h \in DOMAIN ps : ps[h] \subseteq Appended(ps, S, e)[h]
         /\ \A h \in S : e \in Appended(ps, S, e)[h]
         /\ \A h \in DOMAIN Appended(ps, S, e) : \A x \in Appended(ps, S, e)[h] :
              x = e \/ (h \in DOMAIN ps /\ x \in ps[h])
<1> DEFINE Old(h) == IF h \in DOMAIN ps THEN ps[h] ELSE {}
           New(h) == IF h \in S THEN {e} ELSE {}
<1>1. DOMAIN Appended(ps, S, e) = DOMAIN ps \cup S
  BY DEF Appended
<1>2. \A h \in DOMAIN ps \cup S : Appended(ps, S, e)[h] = Old(h) \cup New(h)
  BY DEF Appended
<1>3. \A h \in DOMAIN ps \cup S : \A x \in Old(h) \cup New(h) :
        x = e \/ (h \in DOMAIN ps /\ x \in ps[h])
  OBVIOUS
<1>4. /\ \A h \in DOMAIN ps : ps[h] \subseteq Old(h)
      /\ \A h \in S : e \in New(h)
  OBVIOUS
<1> HIDE DEF Old, New
<1> QED BY <1>1, <1>2, <1>3, <1>4

\* ... so that it keeps the type of the postings.
LEMMA AppendedType ==
  ASSUME NEW ps, NEW S \in SUBSET Nat, NEW e \in Entry,
         DOMAIN ps \subseteq Nat, ps \in [DOMAIN ps -> SUBSET Entry]
  PROVE  /\ DOMAIN Appended(ps, S, e) \subseteq Nat
         /\ Appended(ps, S, e) \in [DOMAIN Appended(ps, S, e) -> SUBSET Entry]
BY DEF Appended

LEMMA NextVersionType ==
  ASSUME MaskAssumption, NEW id \in Ids, ver \in [Ids -> Versions]
  PROVE  NextVersion(id) \in Versions
BY DEF MaskAssumption, Versions, NextVersion

Calls == [inserts : 0 .. MaxInserts, deletes : 0 .. MaxDeletes, searches : 0 .. MaxSearches]

\* The guards keep the call counters within their bounds.
LEMMA CallsType ==
  ASSUME BoundsAssumption, calls \in Calls
  PROVE  /\ calls.inserts < MaxInserts =>
              /\ [calls EXCEPT !.inserts = @ + 1] \in Calls
              /\ [calls EXCEPT !.inserts = @ + 1].inserts \in 1 .. MaxInserts
         /\ calls.deletes < MaxDeletes => [calls EXCEPT !.deletes = @ + 1] \in Calls
         /\ calls.searches < MaxSearches => [calls EXCEPT !.searches = @ + 1] \in Calls
<1>1. /\ MaxInserts \in Nat /\ MaxDeletes \in Nat /\ MaxSearches \in Nat
      /\ calls.inserts \in Nat /\ calls.deletes \in Nat /\ calls.searches \in Nat
  BY DEF BoundsAssumption, Calls
<1>2. /\ calls.inserts < MaxInserts => calls.inserts + 1 \in 1 .. MaxInserts
      /\ calls.deletes < MaxDeletes => calls.deletes + 1 \in 0 .. MaxDeletes
      /\ calls.searches < MaxSearches => calls.searches + 1 \in 0 .. MaxSearches
  BY <1>1
<1>3. 1 .. MaxInserts \subseteq 0 .. MaxInserts
  BY <1>1
<1> QED BY <1>2, <1>3 DEF Calls

LEMMA FrontType ==
  ASSUME NEW X, NEW s \in Seq(X), s # <<>>
  PROVE  Front(s) \in Seq(X) /\ Last(s) \in X
BY DEF Front, Last

-----------------------------------------------------------------------------
(***************************************************************************)
(* Types.                                                                  *)
(***************************************************************************)

TypeInv == TypeOK /\ JobHeld /\ WorkHeld

LEMMA InitTypeInv == Assumptions /\ Init => TypeInv
<1> SUFFICES ASSUME Assumptions, Init PROVE TypeInv
  OBVIOUS
<1> USE DEF Assumptions, MaskAssumption, BoundsAssumption, Init, Holding
<1>1. TypeOK
  BY DEF TypeOK, Versions, NoJob, Entry
<1>2. JobHeld /\ WorkHeld
  BY FS_EmptySet DEF JobHeld, WorkHeld, Inserting
<1> QED BY <1>1, <1>2 DEF TypeInv

LEMMA TypeNext == Assumptions /\ TypeInv /\ [Next]_vars => TypeInv'
<1> SUFFICES ASSUME Assumptions, TypeInv, [Next]_vars PROVE TypeInv'
  OBVIOUS
<1> USE DEF TypeInv
<1>b. /\ MaxInserts \in Nat /\ MaxDeletes \in Nat /\ MaxSearches \in Nat
      /\ VersionMask \in Nat /\ VersionMask # 0
  BY DEF Assumptions, BoundsAssumption, MaskAssumption
<1>d. /\ DOMAIN postings \subseteq Nat
      /\ postings \in [DOMAIN postings -> SUBSET Entry]
      /\ heads \subseteq Nat
  BY DEF TypeOK
<1>c. calls \in Calls
  BY DEF TypeOK, Calls
<1>p. \A h : Size(postings, h) > MaxPosting => h \in DOMAIN postings
  BY DEF Size, Assumptions, PostingAssumption
<1>1. ASSUME NEW t \in Threads, NEW id \in Ids, Insert(t, id)
      PROVE  TypeInv'
  <2>x. /\ calls' \in [inserts : 0 .. MaxInserts, deletes : 0 .. MaxDeletes,
                       searches : 0 .. MaxSearches]
        /\ calls'.inserts \in 1 .. MaxInserts
    BY <1>1, <1>c, CallsType DEF Insert, Calls, Assumptions
  <2>1. TypeOK'
    BY <1>1, <1>b, <2>x DEF Insert, TypeOK, JobHeld, WorkHeld, Inserting, index, version,
       insertVars,
       splitVars, searchVars, Goto
  <2>2. JobHeld'
    <3>1. job'[t] \in [id : Ids, vec : 1 .. MaxInserts]
      BY <1>1, <1>b, <2>x DEF Insert, TypeOK
    <3>2. ASSUME NEW u \in Threads \ {t}
          PROVE  pc'[u] = pc[u] /\ job'[u] = job[u]
      BY <1>1 DEF Insert, Goto, TypeOK
    <3> QED BY <3>1, <3>2, <1>b DEF JobHeld
  <2>3. WorkHeld'
    <3>1. /\ pc'[t] \notin {"measure", "reassign"} /\ \A u \in Threads \ {t} : pc'[u] = pc[u]
          /\ work' = work /\ newHeads' = newHeads
      BY <1>1 DEF Insert, Goto, TypeOK, splitVars
    <3> QED BY <3>1, <1>b DEF WorkHeld
  <2> QED BY <2>1, <2>2, <2>3
<1>2. ASSUME NEW t \in Threads, NEW id \in Ids, Delete(t, id)
      PROVE  TypeInv'
  <2>x. calls' \in [inserts : 0 .. MaxInserts, deletes : 0 .. MaxDeletes,
                    searches : 0 .. MaxSearches]
    BY <1>2, <1>c, CallsType DEF Delete, Calls, Assumptions
  <2>y. removed' \subseteq Ids /\ count' \in Int
    BY <1>2 DEF Delete, TypeOK
  <2>1. TypeOK'
    BY <1>2, <1>b, <2>x, <2>y DEF Delete, TypeOK, JobHeld, WorkHeld, Inserting, index, version,
       insertVars,
       splitVars, searchVars, Goto
  <2>2. JobHeld' /\ WorkHeld'
    BY <1>2, <1>b DEF Delete, TypeOK, JobHeld, WorkHeld, Inserting, index, version, insertVars,
       splitVars, searchVars, Goto
  <2> QED BY <2>1, <2>2
<1>3. ASSUME NEW t \in Threads, Initialize(t)
      PROVE  TypeInv'
  <2>x. ver' \in [Ids -> Versions] /\ del' \in [Ids -> BOOLEAN]
    <3>1. 1 \in Versions
      BY <1>b DEF Versions
    <3> QED BY <1>3, <3>1 DEF Initialize, TypeOK
  <2>1. TypeOK'
    BY <1>3, <1>b, <2>x DEF Initialize, Versions, TypeOK, JobHeld, WorkHeld, Inserting, index,
       version, insertVars,
       splitVars, searchVars, Goto
  <2>2. JobHeld' /\ WorkHeld'
    BY <1>3, <1>b DEF Initialize, Versions, TypeOK, JobHeld, WorkHeld, Inserting, index,
       version, insertVars,
       splitVars, searchVars, Goto
  <2> QED BY <2>1, <2>2
<1>4. ASSUME NEW t \in Threads, FirstHead(t)
      PROVE  TypeInv'
  <2>x. heads' \subseteq 0 .. nextHead' - 1 /\ nextHead' \in Nat
    BY <1>4 DEF FirstHead, TypeOK
  <2>1. TypeOK'
    BY <1>4, <1>b, <2>x DEF FirstHead, TypeOK, JobHeld, WorkHeld, Inserting, index, version,
       insertVars,
       splitVars, searchVars, Goto
  <2>2. JobHeld' /\ WorkHeld'
    BY <1>4, <1>b DEF FirstHead, TypeOK, JobHeld, WorkHeld, Inserting, index, version,
       insertVars,
       splitVars, searchVars, Goto
  <2> QED BY <2>1, <2>2
<1>5. ASSUME NEW t \in Threads, Place(t)
      PROVE  TypeInv'
  <2>0. \A S \in Placements(heads) : S \in SUBSET Nat
    BY <1>d, PlacementsProps
  <2>x. /\ targets' \in [Threads -> SUBSET Nat]
        /\ stamp' \in [Threads -> Versions]
    <3>1. job[t].id \in Ids
      BY <1>5 DEF Place, JobHeld, Inserting
    <3> QED BY <1>5, <2>0, <3>1 DEF Place, TypeOK
  <2>1. TypeOK'
    BY <1>5, <2>x DEF Place, TypeOK, JobHeld, WorkHeld, Inserting, index, version,
       insertVars,
       splitVars, searchVars, Goto
  <2>2. JobHeld' /\ WorkHeld'
    BY <1>5, <1>b, <2>0 DEF Place, TypeOK, JobHeld, WorkHeld, Inserting, index, version,
       insertVars,
       splitVars, searchVars, Goto
  <2> QED BY <2>1, <2>2
<1>6. ASSUME NEW t \in Threads, NEW h \in targets[t], AppendTo(t, h)
      PROVE  TypeInv'
  <2> DEFINE e == [id |-> job[t].id, ver |-> stamp[t], vec |-> job[t].vec]
  <2>a. h \in Nat /\ job[t] \in [id : Ids, vec : 1 .. MaxInserts] /\ e \in Entry
    BY <1>6 DEF AppendTo, TypeOK, JobHeld, Inserting, Entry
  <2>b. /\ DOMAIN postings' \subseteq Nat
        /\ postings' \in [DOMAIN postings' -> SUBSET Entry]
    BY <1>6, <1>d, <2>a, AppendedType DEF AppendTo
  <2>c. work'[t] \in Seq(Nat \X Nat) /\ work'[t] # <<>>
    BY <1>6, <2>a DEF AppendTo, TypeOK
  <2>1. TypeOK'
    BY <1>6, <1>b, <2>a, <2>b, <2>c DEF AppendTo, TypeOK, JobHeld, WorkHeld, Inserting, index,
       version, insertVars,
       splitVars, searchVars, Goto
  <2>2. JobHeld' /\ WorkHeld'
    BY <1>6, <1>b, <2>a, <2>b, <2>c DEF AppendTo, TypeOK, JobHeld, WorkHeld, Inserting, index,
       version, insertVars,
       splitVars, searchVars, Goto
  <2> QED BY <2>1, <2>2
<1>7. ASSUME NEW t \in Threads, Measure(t)
      PROVE  TypeInv'
  <2>a. work[t] \in Seq(Nat \X Nat) /\ work[t] # <<>>
    BY <1>7 DEF Measure, TypeOK, WorkHeld
  <2>b. Front(work[t]) \in Seq(Nat \X Nat)
    BY <2>a, FrontType
  <2>x. /\ count' \in Int
        /\ job' \in [Threads -> [id : Ids \cup {None}, vec : 0 .. MaxInserts]]
        /\ stamp' \in [Threads -> Versions]
    <3>1. 0 \in Versions /\ 0 \in 0 .. MaxInserts
      BY <1>b DEF Versions
    <3>2. NoJob \in [id : Ids \cup {None}, vec : 0 .. MaxInserts]
      BY <3>1 DEF NoJob
    <3>3. CASE EndInsert(t)
      <4>1. count' \in Int
        BY <3>3 DEF EndInsert, TypeOK
      <4> QED BY <3>1, <3>2, <3>3, <4>1 DEF EndInsert, TypeOK
    <3>4. CASE UNCHANGED <<count, job, stamp>>
      BY <3>4 DEF TypeOK
    <3> QED BY <1>7, <3>3, <3>4 DEF Measure
  <2>y. work' \in [Threads -> Seq(Nat \X Nat)]
    BY <1>7, <2>a, <2>b DEF Measure, TypeOK
  <2>p. pc' \in [Threads -> {"idle", "init", "head", "place", "append", "measure",
                             "oversized", "split", "reassign", "read", "filter"}]
    <3>1. pc \in [Threads -> {"idle", "init", "head", "place", "append", "measure",
                             "oversized", "split", "reassign", "read", "filter"}]
      BY DEF TypeOK
    <3>2. \/ pc' = [pc EXCEPT ![t] = "append"] \/ pc' = [pc EXCEPT ![t] = "oversized"]
          \/ pc' = [pc EXCEPT ![t] = "idle"]
      BY <1>7 DEF Measure, EndInsert, Goto
    <3> QED BY <3>1, <3>2
  <2>1. TypeOK'
    BY <1>7, <2>x, <2>y, <2>p DEF Measure, TypeOK, index, version, searchVars
  <2>q. /\ pc[t] = "measure"
        /\ \/ pc' = [pc EXCEPT ![t] = "append"] /\ job' = job
           \/ pc' = [pc EXCEPT ![t] = "oversized"] /\ job' = job
           \/ pc' = [pc EXCEPT ![t] = "idle"] /\ job' = [job EXCEPT ![t] = NoJob]
    BY <1>7 DEF Measure, EndInsert, Goto
  <2>r. /\ pc \in [Threads -> {"idle", "init", "head", "place", "append", "measure",
                             "oversized", "split", "reassign", "read", "filter"}]
        /\ job \in [Threads -> [id : Ids \cup {None}, vec : 0 .. MaxInserts]]
        /\ work \in [Threads -> Seq(Nat \X Nat)]
    BY DEF TypeOK
  <2>2. JobHeld'
    <3>1. \A u \in Threads : pc'[u] \in Inserting => pc[u] \in Inserting /\ job'[u] = job[u]
      BY <2>q, <2>r DEF Inserting
    <3> QED BY <3>1 DEF JobHeld
  <2>3. WorkHeld'
    <3>1. /\ pc'[t] \notin {"measure", "reassign"} /\ \A u \in Threads \ {t} : pc'[u] = pc[u]
          /\ newHeads' = newHeads
      BY <1>7, <2>q, <2>r DEF Measure
    <3>2. \A u \in Threads \ {t} : work'[u] = work[u]
      BY <1>7, <2>r DEF Measure
    <3> QED BY <3>1, <3>2 DEF WorkHeld
  <2> QED BY <2>1, <2>2, <2>3
<1>8. ASSUME NEW t \in Threads, StartSplits(t)
      PROVE  TypeInv'
  <2>1. TypeOK'
    BY <1>8, <1>b DEF StartSplits, TypeOK, JobHeld, WorkHeld, Inserting, index, version,
       insertVars,
       splitVars, searchVars, Goto
  <2>2. JobHeld' /\ WorkHeld'
    BY <1>8, <1>b DEF StartSplits, TypeOK, JobHeld, WorkHeld, Inserting, index, version,
       insertVars,
       splitVars, searchVars, Goto
  <2> QED BY <2>1, <2>2
<1>9. ASSUME NEW t \in Threads, SkipHead(t)
      PROVE  TypeInv'
  <2>a. Tail(work[t]) \in Seq(Nat \X Nat)
    BY <1>9 DEF SkipHead, TypeOK
  <2>b. \A h \in DOMAIN postings : Clean(h) \in SUBSET Entry
    BY <1>d DEF Clean
  <2>x. /\ DOMAIN postings' \subseteq Nat
        /\ postings' \in [DOMAIN postings' -> SUBSET Entry]
    BY <1>9, <1>d, <1>p, <2>b DEF SkipHead
  <2>y. work' \in [Threads -> Seq(Nat \X Nat)]
    BY <1>9, <2>a DEF SkipHead, Drop, TypeOK
  <2>1. TypeOK'
    BY <1>9, <1>b, <2>x, <2>y, <1>d, <2>a, <2>b DEF SkipHead, Drop, TypeOK, JobHeld, WorkHeld,
       Inserting, index, version, insertVars,
       splitVars, searchVars, Goto
  <2>2. JobHeld' /\ WorkHeld'
    BY <1>9, <1>b, <1>d, <2>a, <2>b DEF SkipHead, Drop, TypeOK, JobHeld, WorkHeld, Inserting,
       index, version, insertVars,
       splitVars, searchVars, Goto
  <2> QED BY <2>1, <2>2
<1>10. ASSUME NEW t \in Threads, Split(t)
      PROVE  TypeInv'
  <2> DEFINE h == Head(work[t])[1]
  <2>a. PICK A \in (SUBSET Clean(h)) \ {{}, Clean(h)}, keep \in BOOLEAN :
             SplitInto(t, h, A, Clean(h) \ A, keep)
    BY <1>10 DEF Split
  <2>b. h \in heads /\ h \in DOMAIN postings
    BY <1>10, <1>p DEF Split, Size
  <2>c. Clean(h) \in SUBSET Entry
    BY <1>d, <2>b DEF Clean
  <2> DEFINE a == IF keep THEN h ELSE nextHead
             b == IF keep THEN nextHead ELSE nextHead + 1
  <2>f. /\ a \in Nat /\ b \in Nat /\ nextHead \in Nat /\ b + 1 \in Nat
        /\ (heads \ {h}) \cup {a, b} \subseteq 0 .. b
    <3>1. nextHead \in Nat /\ heads \subseteq 0 .. nextHead - 1 /\ h \in 0 .. nextHead - 1
      BY <2>b DEF TypeOK
    <3> HIDE DEF h
    <3> QED BY <3>1
  <2>g. /\ heads' = (heads \ {h}) \cup {a, b}
        /\ nextHead' = b + 1
        /\ postings' = [x \in (DOMAIN postings \ {h}) \cup {a, b} |->
                          CASE x = a -> A [] x = b -> Clean(h) \ A [] OTHER -> postings[x]]
        /\ newHeads' = [newHeads EXCEPT ![t] = {a, b} \ {h}]
    BY <2>a DEF SplitInto
  <2> HIDE DEF h, a, b
  <2>d. /\ DOMAIN postings' \subseteq Nat
        /\ postings' \in [DOMAIN postings' -> SUBSET Entry]
        /\ nextHead' \in Nat /\ heads' \subseteq 0 .. nextHead' - 1
        /\ newHeads' \in [Threads -> SUBSET Nat]
    <3>1. postings' \in [DOMAIN postings' -> SUBSET Entry] /\ DOMAIN postings' \subseteq Nat
      BY <1>d, <2>c, <2>f, <2>g
    <3>2. nextHead' \in Nat /\ heads' \subseteq 0 .. nextHead' - 1
      BY <2>f, <2>g
    <3>3. newHeads' \in [Threads -> SUBSET Nat]
      BY <2>f, <2>g DEF TypeOK
    <3> QED BY <3>1, <3>2, <3>3
  <2>e. \A V, hs : Candidates(V, hs) \in SUBSET (Nat \X Entry)
    BY <2>d DEF Candidates
  <2>x. cands' \in [Threads -> SUBSET (Nat \X Entry)]
    <3>1. PICK V, near : cands' = [cands EXCEPT ![t] = Candidates(V, near)]
      BY <1>10 DEF Split
    <3> DEFINE c == Candidates(V, near)
    <3>2. c \in SUBSET (Nat \X Entry)
      BY <2>e
    <3>3. cands \in [Threads -> SUBSET (Nat \X Entry)]
      BY DEF TypeOK
    <3> DEFINE Z == SUBSET (Nat \X Entry)
    <3>4. cands \in [Threads -> Z] /\ c \in Z /\ cands' = [cands EXCEPT ![t] = c]
      BY <3>1, <3>2, <3>3
    <3> HIDE DEF c, Z
    <3>5. cands' \in [Threads -> Z]
      BY <3>4
    <3> QED BY <3>5 DEF Z
  <2>y. IsFiniteSet({a, b} \ {h})
    <3>1. IsFiniteSet({} \cup {a})
      BY FS_EmptySet, FS_AddElement
    <3>2. IsFiniteSet(({} \cup {a}) \cup {b})
      BY <3>1, FS_AddElement
    <3>3. IsFiniteSet((({} \cup {a}) \cup {b}) \ {h})
      BY <3>2, FS_RemoveElement
    <3>4. (({} \cup {a}) \cup {b}) \ {h} = {a, b} \ {h}
      OBVIOUS
    <3> QED BY <3>3, <3>4
  <2>1. TypeOK'
    BY <1>10, <1>b, <2>d, <2>x DEF Split, TypeOK, JobHeld, WorkHeld, Inserting, index, version,
       insertVars,
       splitVars, searchVars, Goto
  <2>p. /\ pc[t] = "split" /\ pc'[t] = "reassign" /\ \A u \in Threads \ {t} : pc'[u] = pc[u]
        /\ work[t] # <<>> /\ job' = job /\ work' = work
    BY <1>10 DEF Split, Goto, TypeOK
  <2>2. JobHeld'
    BY <2>p, <1>b DEF JobHeld, Inserting
  <2>3. WorkHeld'
    <3>1. /\ newHeads'[t] = {a, b} \ {h}
          /\ \A u \in Threads \ {t} : newHeads'[u] = newHeads[u]
      BY <2>g DEF TypeOK
    <3> QED BY <3>1, <2>p, <2>y, <1>b DEF WorkHeld
  <2> QED BY <2>1, <2>2, <2>3
<1>11. ASSUME NEW t \in Threads, NEW c \in cands[t], Reassign(t, c)
      PROVE  TypeInv'
  <2>a. c \in Nat \X Entry /\ c[2].id \in Ids
    BY DEF TypeOK, Entry
  <2>b. /\ DOMAIN postings' \subseteq Nat
        /\ postings' \in [DOMAIN postings' -> SUBSET Entry]
        /\ ver' \in [Ids -> Versions] /\ del' \in [Ids -> BOOLEAN]
    <3>1. CASE del[c[2].id]
      BY <1>11, <1>d, <3>1 DEF Reassign, version, TypeOK
    <3>2. CASE ~del[c[2].id]
      <4>1. PICK S \in Placements(heads) : MoveTo(c[2], S)
        BY <1>11, <3>2 DEF Reassign
      <4>2. NextVersion(c[2].id) \in Versions
        BY <2>a, NextVersionType DEF TypeOK, Assumptions
      <4>3. S \in SUBSET Nat /\ [c[2] EXCEPT !.ver = NextVersion(c[2].id)] \in Entry
        BY <1>d, <2>a, <4>2, PlacementsProps DEF Entry
      <4>4. /\ DOMAIN postings' \subseteq Nat
            /\ postings' \in [DOMAIN postings' -> SUBSET Entry]
        BY <1>d, <4>1, <4>3, AppendedType DEF MoveTo
      <4> QED BY <2>a, <4>1, <4>2, <4>4 DEF MoveTo, TypeOK
    <3> QED BY <3>1, <3>2
  <2>1. TypeOK'
    BY <1>11, <1>b, <2>b DEF Reassign, Considered, TypeOK, JobHeld, WorkHeld, Inserting, index,
       version, insertVars,
       splitVars, searchVars, Goto
  <2>2. JobHeld' /\ WorkHeld'
    BY <1>11, <1>b, <2>b DEF Reassign, Considered, TypeOK, JobHeld, WorkHeld, Inserting, index,
       version, insertVars,
       splitVars, searchVars, Goto
  <2> QED BY <2>1, <2>2
<1>12. ASSUME NEW t \in Threads, EndReassign(t)
      PROVE  TypeInv'
  <2>a. /\ work[t] \in Seq(Nat \X Nat) /\ work[t] # <<>>
        /\ Tail(work[t]) \in Seq(Nat \X Nat)
    BY <1>12 DEF EndReassign, TypeOK, WorkHeld
  <2>b. Head(work[t])[2] + 1 \in Nat
    BY <2>a
  <2>c. \A s \in Deeper(t) : s \in Seq(Nat \X Nat)
    <3> DEFINE over == {h \in newHeads[t] : Size(postings, h) > MaxPosting}
               depth == Head(work[t])[2] + 1
    <3>1. over \X {depth} \subseteq Nat \X Nat
      BY <2>b DEF TypeOK
    <3>2. Cardinality(over) \in Nat
      BY <1>12, FS_Subset, FS_CardinalityType DEF EndReassign, WorkHeld
    <3>3. \A s \in [1 .. Cardinality(over) -> over \X {depth}] : s \in Seq(Nat \X Nat)
      <4>1. \A n \in Nat : \A s \in [1 .. n -> Nat \X Nat] : s \in Seq(Nat \X Nat)
        OBVIOUS
      <4>2. \A n \in Nat : \A s \in [1 .. n -> over \X {depth}] : s \in [1 .. n -> Nat \X Nat]
        BY <3>1
      <4> HIDE DEF over, depth
      <4> QED BY <3>2, <4>1, <4>2
    <3>4. Deeper(t) \subseteq {<<>>} \cup [1 .. Cardinality(over) -> over \X {depth}]
      BY DEF Deeper
    <3>5. <<>> \in Seq(Nat \X Nat)
      OBVIOUS
    <3> HIDE DEF over, depth
    <3> QED BY <3>3, <3>4, <3>5
  <2>x. work' \in [Threads -> Seq(Nat \X Nat)]
    BY <1>12, <2>a, <2>c DEF EndReassign, TypeOK
  <2>1. TypeOK'
    BY <1>12, <1>b, <2>x, <2>a, <2>c DEF EndReassign, TypeOK, JobHeld, WorkHeld, Inserting,
       index, version, insertVars,
       splitVars, searchVars, Goto
  <2>2. JobHeld' /\ WorkHeld'
    BY <1>12, <1>b, <2>a, <2>c, FS_EmptySet DEF EndReassign, TypeOK, JobHeld, WorkHeld,
       Inserting, index, version, insertVars,
       splitVars, searchVars, Goto
  <2> QED BY <2>1, <2>2
<1>13. ASSUME NEW t \in Threads, EndSplits(t)
      PROVE  TypeInv'
  <2>x. /\ count' \in Int
        /\ job' \in [Threads -> [id : Ids \cup {None}, vec : 0 .. MaxInserts]]
        /\ stamp' \in [Threads -> Versions]
    BY <1>13, <1>b DEF EndSplits, EndInsert, NoJob, Versions, TypeOK
  <2>1. TypeOK'
    BY <1>13, <1>b, <2>x DEF EndSplits, EndInsert, NoJob, Versions, TypeOK, JobHeld, WorkHeld,
       Inserting, index, version, insertVars,
       splitVars, searchVars, Goto
  <2>2. JobHeld' /\ WorkHeld'
    BY <1>13, <1>b DEF EndSplits, EndInsert, NoJob, Versions, TypeOK, JobHeld, WorkHeld,
       Inserting, index, version, insertVars,
       splitVars, searchVars, Goto
  <2> QED BY <2>1, <2>2
<1>14. ASSUME NEW t \in Threads, Search(t)
      PROVE  TypeInv'
  <2>x. /\ calls' \in [inserts : 0 .. MaxInserts, deletes : 0 .. MaxDeletes,
                       searches : 0 .. MaxSearches]
        /\ targets' \in [Threads -> SUBSET Nat]
        /\ gone' \in [Threads -> SUBSET Ids]
    <3>1. calls' \in Calls
      BY <1>14, <1>c, CallsType DEF Search, Assumptions
    <3> QED BY <1>14, <1>d, <3>1 DEF Search, TypeOK, Calls
  <2>1. TypeOK'
    BY <1>14, <1>b, <2>x, <1>d DEF Search, TypeOK, JobHeld, WorkHeld, Inserting, index,
       version, insertVars,
       splitVars, searchVars, Goto
  <2>2. JobHeld' /\ WorkHeld'
    BY <1>14, <1>b, <1>d DEF Search, TypeOK, JobHeld, WorkHeld, Inserting, index, version,
       insertVars,
       splitVars, searchVars, Goto
  <2> QED BY <2>1, <2>2
<1>15. ASSUME NEW t \in Threads, SearchRead(t)
      PROVE  TypeInv'
  <2>a. UNION {postings[h] : h \in targets[t] \cap DOMAIN postings} \in SUBSET Entry
    BY <1>d
  <2>1. TypeOK'
    BY <1>15, <1>b, <2>a DEF SearchRead, TypeOK, JobHeld, WorkHeld, Inserting, index, version,
       insertVars,
       splitVars, searchVars, Goto
  <2>2. JobHeld' /\ WorkHeld'
    BY <1>15, <1>b, <2>a DEF SearchRead, TypeOK, JobHeld, WorkHeld, Inserting, index, version,
       insertVars,
       splitVars, searchVars, Goto
  <2> QED BY <2>1, <2>2
<1>16. ASSUME NEW t \in Threads, SearchReturn(t)
      PROVE  TypeInv'
  <2>1. TypeOK'
    BY <1>16, <1>b DEF SearchReturn, TypeOK, JobHeld, WorkHeld, Inserting, index, version,
       insertVars,
       splitVars, searchVars, Goto
  <2>2. JobHeld' /\ WorkHeld'
    BY <1>16, <1>b DEF SearchReturn, TypeOK, JobHeld, WorkHeld, Inserting, index, version,
       insertVars,
       splitVars, searchVars, Goto
  <2> QED BY <2>1, <2>2
<1>17. CASE UNCHANGED vars
  BY <1>17 DEF vars, TypeOK, JobHeld, WorkHeld, index, version, insertVars, splitVars,
     searchVars
<1> QED
  BY <1>1, <1>2, <1>3, <1>4, <1>5, <1>6, <1>7, <1>8, <1>9, <1>10, <1>11, <1>12, <1>13, <1>14,
     <1>15, <1>16, <1>17 DEF Next, Finished

-----------------------------------------------------------------------------
(***************************************************************************)
(* The locks.                                                              *)
(***************************************************************************)

\* A split starts only when no other thread splits or appends, and the other
\* way round.
LEMMA LocksNext == TypeInv /\ LocksExclude /\ [Next]_vars => LocksExclude'
<1> SUFFICES ASSUME TypeInv /\ LocksExclude, [Next]_vars PROVE LocksExclude'
  OBVIOUS
<1>0. pc \in [Threads -> {"idle", "init", "head", "place", "append", "measure",
                           "oversized", "split", "reassign", "read", "filter"}]
  BY DEF TypeOK, TypeInv
<1>1. ASSUME NEW t \in Threads, NEW id \in Ids, Insert(t, id)
      PROVE  LocksExclude'
  BY <1>1, <1>0 DEF Insert, Goto, LocksExclude, Splitting, Reading, HeadsReadable, HeadsWritable
<1>2. ASSUME NEW t \in Threads, NEW id \in Ids, Delete(t, id)
      PROVE  LocksExclude'
  BY <1>2, <1>0 DEF Delete, Goto, LocksExclude, Splitting, Reading, HeadsReadable, HeadsWritable
<1>3. ASSUME NEW t \in Threads, Initialize(t)
      PROVE  LocksExclude'
  BY <1>3, <1>0 DEF Initialize, Goto, LocksExclude, Splitting, Reading, HeadsReadable,
     HeadsWritable
<1>4. ASSUME NEW t \in Threads, FirstHead(t)
      PROVE  LocksExclude'
  BY <1>4, <1>0 DEF FirstHead, Goto, LocksExclude, Splitting, Reading, HeadsReadable,
     HeadsWritable
<1>5. ASSUME NEW t \in Threads, Place(t)
      PROVE  LocksExclude'
  BY <1>5, <1>0 DEF Place, Goto, LocksExclude, Splitting, Reading, HeadsReadable, HeadsWritable
<1>6. ASSUME NEW t \in Threads, NEW h \in targets[t], AppendTo(t, h)
      PROVE  LocksExclude'
  BY <1>6, <1>0 DEF AppendTo, Goto, LocksExclude, Splitting, Reading, HeadsReadable,
     HeadsWritable
<1>7. ASSUME NEW t \in Threads, Measure(t)
      PROVE  LocksExclude'
  BY <1>7, <1>0 DEF Measure, EndInsert, Goto, LocksExclude, Splitting, Reading, HeadsReadable,
     HeadsWritable
<1>8. ASSUME NEW t \in Threads, StartSplits(t)
      PROVE  LocksExclude'
  BY <1>8, <1>0 DEF StartSplits, Goto, LocksExclude, Splitting, Reading, HeadsReadable,
     HeadsWritable
<1>9. ASSUME NEW t \in Threads, SkipHead(t)
      PROVE  LocksExclude'
  BY <1>9, <1>0 DEF SkipHead, Drop, Goto, LocksExclude, Splitting, Reading, HeadsReadable,
     HeadsWritable
<1>10. ASSUME NEW t \in Threads, Split(t)
      PROVE  LocksExclude'
  BY <1>10, <1>0 DEF Split, Goto, LocksExclude, Splitting, Reading, HeadsReadable, HeadsWritable
<1>11. ASSUME NEW t \in Threads, NEW c \in cands[t], Reassign(t, c)
      PROVE  LocksExclude'
  BY <1>11, <1>0 DEF Reassign, Considered, Goto, LocksExclude, Splitting, Reading,
     HeadsReadable, HeadsWritable
<1>12. ASSUME NEW t \in Threads, EndReassign(t)
      PROVE  LocksExclude'
  BY <1>12, <1>0 DEF EndReassign, Goto, LocksExclude, Splitting, Reading, HeadsReadable,
     HeadsWritable
<1>13. ASSUME NEW t \in Threads, EndSplits(t)
      PROVE  LocksExclude'
  BY <1>13, <1>0 DEF EndSplits, EndInsert, Goto, LocksExclude, Splitting, Reading,
     HeadsReadable, HeadsWritable
<1>14. ASSUME NEW t \in Threads, Search(t)
      PROVE  LocksExclude'
  BY <1>14, <1>0 DEF Search, Goto, LocksExclude, Splitting, Reading, HeadsReadable,
     HeadsWritable
<1>15. ASSUME NEW t \in Threads, SearchRead(t)
      PROVE  LocksExclude'
  BY <1>15, <1>0 DEF SearchRead, Goto, LocksExclude, Splitting, Reading, HeadsReadable,
     HeadsWritable
<1>16. ASSUME NEW t \in Threads, SearchReturn(t)
      PROVE  LocksExclude'
  BY <1>16, <1>0 DEF SearchReturn, Goto, LocksExclude, Splitting, Reading, HeadsReadable,
     HeadsWritable
<1>17. CASE UNCHANGED vars
  BY <1>17, <1>0 DEF vars, Goto, LocksExclude, Splitting, Reading, HeadsReadable, HeadsWritable
<1> QED
  BY <1>1, <1>2, <1>3, <1>4, <1>5, <1>6, <1>7, <1>8, <1>9, <1>10, <1>11, <1>12, <1>13, <1>14,
     <1>15, <1>16, <1>17 DEF Next, Finished

-----------------------------------------------------------------------------
(***************************************************************************)
(* Heads and postings.                                                     *)
(***************************************************************************)

HeadsInv == TargetsActive /\ DOMAIN postings \subseteq heads /\ FirstHeadPending

\* Heads disappear only while nobody appends, and take their posting with them.
LEMMA HeadsNext == Assumptions /\ TypeInv /\ LocksExclude /\ HeadsInv /\ [Next]_vars => HeadsInv'
<1> SUFFICES ASSUME Assumptions /\ TypeInv /\ LocksExclude /\ HeadsInv,
   [Next]_vars PROVE HeadsInv'
  OBVIOUS
<1>0. /\ pc \in [Threads -> {"idle", "init", "head", "place", "append", "measure",
                              "oversized", "split", "reassign", "read", "filter"}]
      /\ targets \in [Threads -> SUBSET Nat]
  BY DEF TypeOK, TypeInv
<1>1. ASSUME NEW t \in Threads, NEW id \in Ids, Insert(t, id)
      PROVE  HeadsInv'
  BY <1>1, <1>0 DEF Insert, HeadsInv, TargetsActive, FirstHeadPending, Reading, Goto, index,
     version, insertVars, splitVars, searchVars
<1>2. ASSUME NEW t \in Threads, NEW id \in Ids, Delete(t, id)
      PROVE  HeadsInv'
  BY <1>2, <1>0 DEF Delete, HeadsInv, TargetsActive, FirstHeadPending, Reading, Goto, index,
     version, insertVars, splitVars, searchVars
<1>3. ASSUME NEW t \in Threads, Initialize(t)
      PROVE  HeadsInv'
  BY <1>3, <1>0 DEF Initialize, HeadsInv, TargetsActive, FirstHeadPending, Reading, Goto,
     index, version, insertVars, splitVars, searchVars
<1>4. ASSUME NEW t \in Threads, FirstHead(t)
      PROVE  HeadsInv'
  <2>1. CASE heads # {}
    BY <1>4, <1>0, <2>1 DEF FirstHead, HeadsInv, TargetsActive, FirstHeadPending, Reading, Goto,
       insertVars
  <2>2. CASE heads = {}
    <3>1. \A u \in Threads : ~Reading(u)
      BY <1>4 DEF FirstHead, HeadsWritable
    <3>2. heads' = {nextHead} /\ pc'[t] = "place" /\ \A u \in Threads \ {t} : pc'[u] = pc[u]
      BY <1>4, <1>0, <2>2 DEF FirstHead, Goto
    <3>3. TargetsActive'
      BY <3>1, <3>2 DEF TargetsActive, Reading
    <3> QED BY <1>4, <2>2, <3>2, <3>3 DEF FirstHead, HeadsInv, FirstHeadPending
  <2> QED BY <2>1, <2>2
<1>5. ASSUME NEW t \in Threads, Place(t)
      PROVE  HeadsInv'
  <2>1. /\ targets'[t] \subseteq heads /\ targets'[t] # {}
        /\ \A u \in Threads \ {t} : targets'[u] = targets[u]
    BY <1>5, <1>0, PlacementsProps DEF Place
  <2> QED BY <1>5, <1>0, <2>1 DEF Place, HeadsInv, TargetsActive, FirstHeadPending, Reading,
     Goto,
       index
<1>6. ASSUME NEW t \in Threads, NEW h \in targets[t], AppendTo(t, h)
      PROVE  HeadsInv'
  <2>1. h \in heads /\ pc[t] = "append" /\ targets[t] \subseteq heads
    BY <1>6 DEF AppendTo, HeadsInv, TargetsActive, Reading
  <2>2. DOMAIN postings' = DOMAIN postings \cup {h}
    <3>1. PICK e : postings' = Appended(postings, {h}, e)
      BY <1>6 DEF AppendTo
    <3> QED BY <3>1, AppendedProps
  <2>3. TargetsActive'
    BY <1>6, <1>0, <2>1 DEF AppendTo, HeadsInv, TargetsActive, Reading, Goto
  <2>4. heads' = heads
    BY <1>6 DEF AppendTo
  <2>5. FirstHeadPending'
    <3>1. CASE heads \subseteq DOMAIN postings
      BY <2>2, <2>4, <3>1 DEF FirstHeadPending
    <3>2. CASE \E g \in heads : heads = {g}
      BY <2>1, <2>2, <2>4, <3>2 DEF FirstHeadPending
    <3> QED BY <3>1, <3>2 DEF HeadsInv, FirstHeadPending
  <2> QED BY <2>1, <2>2, <2>3, <2>4, <2>5 DEF HeadsInv
<1>7. ASSUME NEW t \in Threads, Measure(t)
      PROVE  HeadsInv'
  BY <1>7, <1>0 DEF Measure, EndInsert, HeadsInv, TargetsActive, FirstHeadPending, Reading,
     Goto, index, version, insertVars, splitVars, searchVars
<1>8. ASSUME NEW t \in Threads, StartSplits(t)
      PROVE  HeadsInv'
  BY <1>8, <1>0 DEF StartSplits, HeadsInv, TargetsActive, FirstHeadPending, Reading, Goto,
     index, version, insertVars, splitVars, searchVars
<1>9. ASSUME NEW t \in Threads, SkipHead(t)
      PROVE  HeadsInv'
  <2>1. DOMAIN postings' = DOMAIN postings
    BY <1>9 DEF SkipHead
  <2> QED BY <1>9, <2>1 DEF SkipHead, HeadsInv, TargetsActive, FirstHeadPending, Reading,
     insertVars
<1>10. ASSUME NEW t \in Threads, Split(t)
      PROVE  HeadsInv'
  <2>1. \A u \in Threads : ~Reading(u) /\ ~Reading(u)'
    BY <1>10, <1>0 DEF Split, LocksExclude, Splitting, Reading, Goto
  <2>2. TargetsActive'
    BY <2>1 DEF TargetsActive, Reading
  <2> DEFINE h == Head(work[t])[1]
  <2>3. PICK A \in (SUBSET Clean(h)) \ {{}, Clean(h)}, keep \in BOOLEAN :
             SplitInto(t, h, A, Clean(h) \ A, keep)
    BY <1>10 DEF Split
  <2>4. h \in heads /\ h \in DOMAIN postings
    BY <1>10 DEF Split, Size, Assumptions, PostingAssumption
  <2>5. heads \subseteq DOMAIN postings
    BY <2>4 DEF HeadsInv, FirstHeadPending
  <2>6. DOMAIN postings' \subseteq heads' /\ heads' \subseteq DOMAIN postings'
    <3> HIDE DEF h
    <3> QED BY <2>3, <2>5 DEF SplitInto, HeadsInv
  <2> QED BY <2>2, <2>6 DEF HeadsInv, FirstHeadPending
<1>11. ASSUME NEW t \in Threads, NEW c \in cands[t], Reassign(t, c)
      PROVE  HeadsInv'
  <2>1. DOMAIN postings \subseteq DOMAIN postings' /\ DOMAIN postings' \subseteq heads
    <3>1. CASE del[c[2].id]
      BY <1>11, <3>1 DEF Reassign, HeadsInv
    <3>2. CASE ~del[c[2].id]
      <4>1. PICK S \in Placements(heads) : MoveTo(c[2], S)
        BY <1>11, <3>2 DEF Reassign
      <4>2. S \subseteq heads
        BY PlacementsProps
      <4>3. PICK e : postings' = Appended(postings, S, e)
        BY <4>1 DEF MoveTo
      <4>4. DOMAIN postings' = DOMAIN postings \cup S
        BY <4>3, AppendedProps
      <4> QED BY <4>2, <4>4 DEF HeadsInv
    <3> QED BY <3>1, <3>2
  <2>2. UNCHANGED <<heads, pc, targets>>
    BY <1>11 DEF Reassign, Considered, insertVars
  <2> QED BY <2>1, <2>2 DEF HeadsInv, TargetsActive, FirstHeadPending, Reading
<1>12. ASSUME NEW t \in Threads, EndReassign(t)
      PROVE  HeadsInv'
  BY <1>12, <1>0 DEF EndReassign, HeadsInv, TargetsActive, FirstHeadPending, Reading, Goto,
     index, version, insertVars, splitVars, searchVars
<1>13. ASSUME NEW t \in Threads, EndSplits(t)
      PROVE  HeadsInv'
  BY <1>13, <1>0 DEF EndSplits, EndInsert, HeadsInv, TargetsActive, FirstHeadPending, Reading,
     Goto, index, version, insertVars, splitVars, searchVars
<1>14. ASSUME NEW t \in Threads, Search(t)
      PROVE  HeadsInv'
  BY <1>14, <1>0 DEF Search, HeadsInv, TargetsActive, FirstHeadPending, Reading, Goto, index,
     version, insertVars, splitVars, searchVars
<1>15. ASSUME NEW t \in Threads, SearchRead(t)
      PROVE  HeadsInv'
  BY <1>15, <1>0 DEF SearchRead, HeadsInv, TargetsActive, FirstHeadPending, Reading, Goto,
     index, version, insertVars, splitVars, searchVars
<1>16. ASSUME NEW t \in Threads, SearchReturn(t)
      PROVE  HeadsInv'
  BY <1>16, <1>0 DEF SearchReturn, HeadsInv, TargetsActive, FirstHeadPending, Reading, Goto,
     index, version, insertVars, splitVars, searchVars
<1>17. CASE UNCHANGED vars
  BY <1>17, <1>0 DEF vars, HeadsInv, TargetsActive, FirstHeadPending, Reading, Goto, index,
     version, insertVars, splitVars, searchVars
<1> QED
  BY <1>1, <1>2, <1>3, <1>4, <1>5, <1>6, <1>7, <1>8, <1>9, <1>10, <1>11, <1>12, <1>13, <1>14,
     <1>15, <1>16, <1>17 DEF Next, Finished

-----------------------------------------------------------------------------
(***************************************************************************)
(* Coverage and deletion.                                                  *)
(***************************************************************************)

\* No step leaves a live id without a current copy or an insert that brings it.
LEMMA CoverageNext == Assumptions /\ TypeInv /\ HeadsInv /\ Coverage /\ [Next]_vars => Coverage'
<1> SUFFICES ASSUME Assumptions /\ TypeInv /\ HeadsInv /\ Coverage, [Next]_vars PROVE Coverage'
  OBVIOUS
<1>0. /\ pc \in [Threads -> {"idle", "init", "head", "place", "append", "measure",
                              "oversized", "split", "reassign", "read", "filter"}]
      /\ ver \in [Ids -> Versions] /\ del \in [Ids -> BOOLEAN]
      /\ job \in [Threads -> [id : Ids \cup {None}, vec : 0 .. MaxInserts]]
      /\ stamp \in [Threads -> Versions]
      /\ postings \in [DOMAIN postings -> SUBSET Entry]
  BY DEF TypeOK, TypeInv
<1>1. ASSUME NEW t \in Threads, NEW id \in Ids, Insert(t, id)
      PROVE  Coverage'
  <2>1. \A i \in Ids : (Live(i)' => Live(i)) /\ (Covered(i) => Covered(i)')
    BY <1>1 DEF Insert, index, version, Live, Covered
  <2>2. pc[t] = "idle" /\ ver' = ver /\ stamp' = stamp
    BY <1>1 DEF Insert, version, insertVars
  <2>3. \A u \in Threads \ {t} : pc'[u] = pc[u] /\ job'[u] = job[u]
    BY <1>1, <1>0 DEF Insert, Goto
  <2>4. \A u \in Threads : \A i \in Ids : WillCover(u, i) => WillCover(u, i)'
    BY <2>2, <2>3 DEF WillCover
  <2> QED BY <2>1, <2>4 DEF Coverage
<1>2. ASSUME NEW t \in Threads, NEW id \in Ids, Delete(t, id)
      PROVE  Coverage'
  BY <1>2, <1>0 DEF Delete, Coverage, Live, Covered, WillCover, Goto, index, version,
     insertVars, splitVars, searchVars
<1>3. ASSUME NEW t \in Threads, Initialize(t)
      PROVE  Coverage'
  <2>1. job[t].id \in Ids
    BY <1>3 DEF Initialize, TypeInv, JobHeld, Inserting
  <2>2. \A id \in Ids : id = job[t].id => WillCover(t, id)'
    BY <1>3, <1>0 DEF Initialize, WillCover, Goto
  <2>3. ASSUME NEW id \in Ids, id # job[t].id, Live(id)'
        PROVE  Covered(id)' \/ \E u \in Threads : WillCover(u, id)'
    <3>1. Live(id) /\ ver'[id] = ver[id]
      BY <1>3, <1>0, <2>3 DEF Initialize, Live
    <3>2. Covered(id) => Covered(id)'
      BY <1>3, <3>1 DEF Initialize, Covered, index
    <3>3. \A u \in Threads : WillCover(u, id) => WillCover(u, id)'
      BY <1>3, <1>0, <2>3, <3>1 DEF Initialize, WillCover, Goto, insertVars
    <3> QED BY <3>1, <3>2, <3>3 DEF Coverage
  <2> QED BY <2>1, <2>2, <2>3 DEF Coverage
<1>4. ASSUME NEW t \in Threads, FirstHead(t)
      PROVE  Coverage'
  BY <1>4, <1>0 DEF FirstHead, Coverage, Live, Covered, WillCover, Goto, index, version,
     insertVars, splitVars, searchVars
<1>5. ASSUME NEW t \in Threads, Place(t)
      PROVE  Coverage'
  BY <1>5, <1>0 DEF Place, Coverage, Live, Covered, WillCover, Goto, index, version,
     insertVars, splitVars, searchVars
<1>6. ASSUME NEW t \in Threads, NEW h \in targets[t], AppendTo(t, h)
      PROVE  Coverage'
  <2> DEFINE e == [id |-> job[t].id, ver |-> stamp[t], vec |-> job[t].vec]
  <2>1. h \in heads
    BY <1>6 DEF AppendTo, HeadsInv, TargetsActive, Reading
  <2>2. /\ DOMAIN postings \subseteq DOMAIN postings' /\ h \in DOMAIN postings'
        /\ \A g \in DOMAIN postings : postings[g] \subseteq postings'[g]
        /\ e \in postings'[h]
    <3>1. postings' = Appended(postings, {h}, e)
      BY <1>6 DEF AppendTo
    <3> HIDE DEF e
    <3>2. /\ DOMAIN Appended(postings, {h}, e) = DOMAIN postings \cup {h}
          /\ \A g \in DOMAIN postings : postings[g] \subseteq Appended(postings, {h}, e)[g]
          /\ \A g \in {h} : e \in Appended(postings, {h}, e)[g]
      BY AppendedProps
    <3> QED BY <3>1, <3>2
  <2>3. ASSUME NEW id \in Ids, Live(id)'
        PROVE  Covered(id)' \/ \E u \in Threads : WillCover(u, id)'
    <3>1. Live(id) /\ ver'[id] = ver[id] /\ heads' = heads
      BY <1>6, <2>3 DEF AppendTo, version, Live
    <3>2. Covered(id) => Covered(id)'
      BY <2>2, <3>1 DEF Covered
    <3>3. WillCover(t, id) => Covered(id)'
      <4>1. WillCover(t, id) => e.id = id /\ e.ver = ver[id]
        BY <1>6 DEF AppendTo, WillCover
      <4> HIDE DEF e
      <4> QED BY <2>1, <2>2, <3>1, <4>1 DEF Covered
    <3>4. \A u \in Threads \ {t} : WillCover(u, id) => WillCover(u, id)'
      BY <1>6, <1>0, <3>1 DEF AppendTo, WillCover, Goto
    <3> QED BY <3>1, <3>2, <3>3, <3>4 DEF Coverage
  <2> QED BY <2>3 DEF Coverage
<1>7. ASSUME NEW t \in Threads, Measure(t)
      PROVE  Coverage'
  <2>1. \A id \in Ids : (Live(id)' => Live(id)) /\ (Covered(id) => Covered(id)')
    BY <1>7 DEF Measure, index, version, Live, Covered
  <2>2. pc[t] = "measure" /\ ver' = ver
    BY <1>7 DEF Measure, version
  <2>3. \A u \in Threads \ {t} : pc'[u] = pc[u] /\ job'[u] = job[u] /\ stamp'[u] = stamp[u]
    BY <1>7, <1>0 DEF Measure, EndInsert, Goto
  <2>4. \A u \in Threads : \A id \in Ids : WillCover(u, id) => WillCover(u, id)'
    BY <2>2, <2>3 DEF WillCover
  <2> QED BY <2>1, <2>4 DEF Coverage
<1>8. ASSUME NEW t \in Threads, StartSplits(t)
      PROVE  Coverage'
  BY <1>8, <1>0 DEF StartSplits, Coverage, Live, Covered, WillCover, Goto, index, version,
     insertVars, splitVars, searchVars
<1>9. ASSUME NEW t \in Threads, SkipHead(t)
      PROVE  Coverage'
  <2>1. ASSUME NEW id \in Ids, Live(id)'
        PROVE  Covered(id)' \/ \E u \in Threads : WillCover(u, id)'
    <3>1. Live(id) /\ ver'[id] = ver[id] /\ heads' = heads
      BY <1>9, <2>1 DEF SkipHead, version, Live
    <3>2. /\ DOMAIN postings' = DOMAIN postings
          /\ \A h \in DOMAIN postings : postings'[h] = postings[h] \/ postings'[h] = Clean(h)
      BY <1>9, <1>0 DEF SkipHead
    <3>3. Covered(id) => Covered(id)'
      BY <3>1, <3>2 DEF Covered, Clean, Current, Live
    <3>4. \A u \in Threads : WillCover(u, id) => WillCover(u, id)'
      BY <1>9, <3>1 DEF SkipHead, WillCover, insertVars
    <3> QED BY <3>1, <3>3, <3>4 DEF Coverage
  <2> QED BY <2>1 DEF Coverage
<1>10. ASSUME NEW t \in Threads, Split(t)
      PROVE  Coverage'
  <2> DEFINE h == Head(work[t])[1]
  <2>1. PICK A \in (SUBSET Clean(h)) \ {{}, Clean(h)}, keep \in BOOLEAN :
             SplitInto(t, h, A, Clean(h) \ A, keep)
    BY <1>10 DEF Split
  <2> DEFINE a == IF keep THEN h ELSE nextHead
             b == IF keep THEN nextHead ELSE nextHead + 1
  <2>2. h \in heads /\ nextHead \notin heads /\ nextHead + 1 \notin heads /\ a # b
    <3>1. h \in heads
      BY <1>10 DEF Split
    <3>2. nextHead \in Nat /\ heads \subseteq 0 .. nextHead - 1
      BY DEF TypeInv, TypeOK
    <3>3. nextHead \notin 0 .. nextHead - 1 /\ nextHead + 1 \notin 0 .. nextHead - 1
      BY <3>2
    <3> HIDE DEF h
    <3> QED BY <3>1, <3>2, <3>3
  <2>3. /\ heads' = (heads \ {h}) \cup {a, b}
        /\ postings' = [x \in (DOMAIN postings \ {h}) \cup {a, b} |->
                          CASE x = a -> A [] x = b -> Clean(h) \ A [] OTHER -> postings[x]]
    BY <2>1 DEF SplitInto
  <2>4. \A g \in heads \ {h} : g # a /\ g # b
    BY <2>2
  <2> HIDE DEF h, a, b
  <2>5. ASSUME NEW id \in Ids, Live(id)'
        PROVE  Covered(id)' \/ \E u \in Threads : WillCover(u, id)'
    <3>1. Live(id) /\ ver'[id] = ver[id]
      BY <1>10, <2>5 DEF Split, version, Live
    <3>2. ASSUME NEW g \in heads \cap DOMAIN postings, NEW e \in postings[g],
                 e.id = id, e.ver = ver[id]
          PROVE  Covered(id)'
      <4>1. CASE g = h
        <5>1. e \in Clean(h)
          BY <3>1, <3>2, <4>1 DEF Clean, Current, Live
        <5>2. /\ a \in heads' \cap DOMAIN postings' /\ b \in heads' \cap DOMAIN postings'
              /\ postings'[a] = A /\ postings'[b] = Clean(h) \ A
          BY <2>2, <2>3
        <5> QED BY <3>1, <3>2, <5>1, <5>2 DEF Covered
      <4>2. CASE g # h
        <5>1. g \in heads' \cap DOMAIN postings' /\ postings'[g] = postings[g]
          BY <2>3, <2>4, <4>2
        <5> QED BY <3>1, <3>2, <5>1 DEF Covered
      <4> QED BY <4>1, <4>2
    <3>3. \A u \in Threads : WillCover(u, id) => WillCover(u, id)'
      BY <1>10, <1>0, <3>1 DEF Split, WillCover, Goto, insertVars
    <3> QED BY <3>1, <3>2, <3>3 DEF Coverage, Covered
  <2> QED BY <2>5 DEF Coverage
<1>11. ASSUME NEW t \in Threads, NEW c \in cands[t], Reassign(t, c)
      PROVE  Coverage'
  <2>1. UNCHANGED <<heads, pc, job, stamp>>
    BY <1>11 DEF Reassign, Considered, insertVars
  <2>2. CASE del[c[2].id]
    <3>1. UNCHANGED <<version, postings>>
      BY <1>11, <2>2 DEF Reassign
    <3> QED BY <2>1, <3>1 DEF Coverage, Live, Covered, WillCover, version
  <2>3. CASE ~del[c[2].id]
    <3> DEFINE e == [c[2] EXCEPT !.ver = NextVersion(c[2].id)]
    <3>1. PICK S \in Placements(heads) : MoveTo(c[2], S)
      BY <1>11, <2>3 DEF Reassign
    <3>2. S \subseteq heads /\ S # {}
      BY PlacementsProps
    <3>3. c[2] \in Entry /\ e.id = c[2].id /\ e.ver = NextVersion(c[2].id)
      BY DEF TypeInv, TypeOK, Entry
    <3>4. /\ DOMAIN postings \subseteq DOMAIN postings' /\ S \subseteq DOMAIN postings'
          /\ \A g \in DOMAIN postings : postings[g] \subseteq postings'[g]
          /\ \A g \in S : e \in postings'[g]
      <4>1. postings' = Appended(postings, S, e)
        BY <3>1 DEF MoveTo
      <4> HIDE DEF e
      <4>2. /\ DOMAIN Appended(postings, S, e) = DOMAIN postings \cup S
            /\ \A g \in DOMAIN postings : postings[g] \subseteq Appended(postings, S, e)[g]
            /\ \A g \in S : e \in Appended(postings, S, e)[g]
        BY AppendedProps
      <4> QED BY <4>1, <4>2
    <3> HIDE DEF e
    <3>5. ASSUME NEW id \in Ids, Live(id)'
          PROVE  Covered(id)' \/ \E u \in Threads : WillCover(u, id)'
      <4>1. CASE id = c[2].id
        <5>1. ver'[id] = e.ver /\ e.id = id
          BY <1>0, <3>1, <3>3, <4>1 DEF MoveTo
        <5> QED BY <2>1, <3>2, <3>4, <5>1 DEF Covered
      <4>2. CASE id # c[2].id
        <5>1. Live(id) /\ ver'[id] = ver[id]
          BY <1>0, <3>1, <3>5, <4>2 DEF MoveTo, Live
        <5>2. Covered(id) => Covered(id)'
          BY <2>1, <3>4, <5>1 DEF Covered
        <5>3. \A u \in Threads : WillCover(u, id) => WillCover(u, id)'
          BY <2>1, <5>1 DEF WillCover
        <5> QED BY <5>1, <5>2, <5>3 DEF Coverage
      <4> QED BY <4>1, <4>2
    <3> QED BY <3>5 DEF Coverage
  <2> QED BY <2>2, <2>3
<1>12. ASSUME NEW t \in Threads, EndReassign(t)
      PROVE  Coverage'
  <2>1. UNCHANGED <<heads, postings, ver, del>>
    BY <1>12 DEF EndReassign, index, version
  <2>2. \A u \in Threads, id \in Ids : WillCover(u, id) => WillCover(u, id)'
    BY <1>12, <1>0 DEF EndReassign, WillCover, Goto, version, insertVars
  <2> QED BY <2>1, <2>2 DEF Coverage, Live, Covered
<1>13. ASSUME NEW t \in Threads, EndSplits(t)
      PROVE  Coverage'
  <2>1. UNCHANGED <<heads, postings, ver, del>>
    BY <1>13 DEF EndSplits, index, version
  <2>2. \A u \in Threads, id \in Ids : WillCover(u, id) => WillCover(u, id)'
    BY <1>13, <1>0 DEF EndSplits, EndInsert, WillCover, Goto, version
  <2> QED BY <2>1, <2>2 DEF Coverage, Live, Covered
<1>14. ASSUME NEW t \in Threads, Search(t)
      PROVE  Coverage'
  BY <1>14, <1>0 DEF Search, Coverage, Live, Covered, WillCover, Goto, index, version,
     insertVars, splitVars, searchVars
<1>15. ASSUME NEW t \in Threads, SearchRead(t)
      PROVE  Coverage'
  BY <1>15, <1>0 DEF SearchRead, Coverage, Live, Covered, WillCover, Goto, index, version,
     insertVars, splitVars, searchVars
<1>16. ASSUME NEW t \in Threads, SearchReturn(t)
      PROVE  Coverage'
  BY <1>16, <1>0 DEF SearchReturn, Coverage, Live, Covered, WillCover, Goto, index, version,
     insertVars, splitVars, searchVars
<1>17. CASE UNCHANGED vars
  BY <1>17, <1>0 DEF vars, Coverage, Live, Covered, WillCover, Goto, index, version,
     insertVars, splitVars, searchVars
<1> QED
  BY <1>1, <1>2, <1>3, <1>4, <1>5, <1>6, <1>7, <1>8, <1>9, <1>10, <1>11, <1>12, <1>13, <1>14,
     <1>15, <1>16, <1>17 DEF Next, Finished

\* A removed id stays marked until it is inserted again.
LEMMA RemovedNext == TypeInv /\ RemovedMarked /\ [Next]_vars => RemovedMarked'
<1> SUFFICES ASSUME TypeInv /\ RemovedMarked, [Next]_vars PROVE RemovedMarked'
  OBVIOUS
<1>0. /\ pc \in [Threads -> {"idle", "init", "head", "place", "append", "measure",
                              "oversized", "split", "reassign", "read", "filter"}]
      /\ del \in [Ids -> BOOLEAN] /\ gone \in [Threads -> SUBSET Ids] /\ removed \subseteq Ids
      /\ job \in [Threads -> [id : Ids \cup {None}, vec : 0 .. MaxInserts]]
      /\ \A t \in Threads : pc[t] = "init" => job[t].id \in Ids
  BY DEF TypeOK, TypeInv, JobHeld, Inserting
<1>1. ASSUME NEW t \in Threads, NEW id \in Ids, Insert(t, id)
      PROVE  RemovedMarked'
  BY <1>1, <1>0 DEF Insert, RemovedMarked, Goto, version, insertVars, splitVars, searchVars
<1>2. ASSUME NEW t \in Threads, NEW id \in Ids, Delete(t, id)
      PROVE  RemovedMarked'
  BY <1>2, <1>0 DEF Delete, RemovedMarked, Goto, version, insertVars, splitVars, searchVars
<1>3. ASSUME NEW t \in Threads, Initialize(t)
      PROVE  RemovedMarked'
  BY <1>3, <1>0 DEF Initialize, RemovedMarked, Goto, version, insertVars, splitVars, searchVars
<1>4. ASSUME NEW t \in Threads, FirstHead(t)
      PROVE  RemovedMarked'
  BY <1>4, <1>0 DEF FirstHead, RemovedMarked, Goto, version, insertVars, splitVars, searchVars
<1>5. ASSUME NEW t \in Threads, Place(t)
      PROVE  RemovedMarked'
  BY <1>5, <1>0 DEF Place, RemovedMarked, Goto, version, insertVars, splitVars, searchVars
<1>6. ASSUME NEW t \in Threads, NEW h \in targets[t], AppendTo(t, h)
      PROVE  RemovedMarked'
  BY <1>6, <1>0 DEF AppendTo, RemovedMarked, Goto, version, insertVars, splitVars, searchVars
<1>7. ASSUME NEW t \in Threads, Measure(t)
      PROVE  RemovedMarked'
  BY <1>7, <1>0 DEF Measure, EndInsert, RemovedMarked, Goto, version, insertVars, splitVars,
     searchVars
<1>8. ASSUME NEW t \in Threads, StartSplits(t)
      PROVE  RemovedMarked'
  BY <1>8, <1>0 DEF StartSplits, RemovedMarked, Goto, version, insertVars, splitVars, searchVars
<1>9. ASSUME NEW t \in Threads, SkipHead(t)
      PROVE  RemovedMarked'
  BY <1>9, <1>0 DEF SkipHead, Drop, RemovedMarked, Goto, version, insertVars, splitVars,
     searchVars
<1>10. ASSUME NEW t \in Threads, Split(t)
      PROVE  RemovedMarked'
  BY <1>10, <1>0 DEF Split, RemovedMarked, Goto, version, insertVars, splitVars, searchVars
<1>11. ASSUME NEW t \in Threads, NEW c \in cands[t], Reassign(t, c)
      PROVE  RemovedMarked'
  <2>1. UNCHANGED <<pc, job, removed, gone>>
    BY <1>11 DEF Reassign, Considered, searchVars
  <2>2. c[2].id \in Ids
    BY DEF TypeInv, TypeOK, Entry
  <2>3. \A id \in Ids : del[id] => del'[id]
    <3>1. CASE del[c[2].id]
      BY <1>11, <3>1 DEF Reassign, version
    <3>2. CASE ~del[c[2].id]
      BY <1>11, <1>0, <2>2, <3>2 DEF Reassign, MoveTo
    <3> QED BY <3>1, <3>2
  <2> QED BY <1>0, <2>1, <2>3 DEF RemovedMarked
<1>12. ASSUME NEW t \in Threads, EndReassign(t)
      PROVE  RemovedMarked'
  BY <1>12, <1>0 DEF EndReassign, RemovedMarked, Goto, version, insertVars, splitVars,
     searchVars
<1>13. ASSUME NEW t \in Threads, EndSplits(t)
      PROVE  RemovedMarked'
  BY <1>13, <1>0 DEF EndSplits, EndInsert, RemovedMarked, Goto, version, insertVars, splitVars,
     searchVars
<1>14. ASSUME NEW t \in Threads, Search(t)
      PROVE  RemovedMarked'
  BY <1>14, <1>0 DEF Search, RemovedMarked, Goto, version, insertVars, splitVars, searchVars
<1>15. ASSUME NEW t \in Threads, SearchRead(t)
      PROVE  RemovedMarked'
  BY <1>15, <1>0 DEF SearchRead, RemovedMarked, Goto, version, insertVars, splitVars, searchVars
<1>16. ASSUME NEW t \in Threads, SearchReturn(t)
      PROVE  RemovedMarked'
  BY <1>16, <1>0 DEF SearchReturn, RemovedMarked, Goto, version, insertVars, splitVars,
     searchVars
<1>17. CASE UNCHANGED vars
  BY <1>17, <1>0 DEF vars, RemovedMarked, Goto, version, insertVars, splitVars, searchVars
<1> QED
  BY <1>1, <1>2, <1>3, <1>4, <1>5, <1>6, <1>7, <1>8, <1>9, <1>10, <1>11, <1>12, <1>13, <1>14,
     <1>15, <1>16, <1>17 DEF Next, Finished

-----------------------------------------------------------------------------
(***************************************************************************)
(* The splits of one insert end.                                           *)
(***************************************************************************)

\* A set with one element more has twice as many subsets.
LEMMA TwoExp ==
  ASSUME NEW n \in Nat
  PROVE  2^n \in Nat /\ 2^n >= 1 /\ 2^(n + 1) = 2 * 2^n
<1>1. /\ IsFiniteSet(SUBSET (1 .. n)) /\ Cardinality(SUBSET (1 .. n)) = 2^n
      /\ IsFiniteSet(SUBSET (1 .. n + 1)) /\ Cardinality(SUBSET (1 .. n + 1)) = 2^(n + 1)
  <2>1. \A m \in Nat : IsFiniteSet(1 .. m) /\ Cardinality(1 .. m) = m
    BY FS_Interval
  <2>2. \A m \in Nat : IsFiniteSet(SUBSET (1 .. m)) /\ Cardinality(SUBSET (1 .. m)) = 2^m
    BY <2>1, FS_SUBSET
  <2> QED BY <2>2
<1> DEFINE P == SUBSET (1 .. n)
           Q == {A \cup {n + 1} : A \in P}
           f == [A \in P |-> A \cup {n + 1}]
<1>2. f \in Bijection(P, Q)
  <2>1. f \in [P -> Q] /\ \A B \in Q : \E A \in P : f[A] = B
    OBVIOUS
  <2>2. \A A, B \in P : f[A] = f[B] => A = B
    <3> SUFFICES ASSUME NEW A \in P, NEW B \in P, f[A] = f[B]
                 PROVE  A = B
      OBVIOUS
    <3>1. n + 1 \notin A /\ n + 1 \notin B
      OBVIOUS
    <3>2. A \cup {n + 1} = B \cup {n + 1}
      OBVIOUS
    <3> QED BY <3>1, <3>2
  <2> QED BY <2>1, <2>2 DEF Bijection, Injection, Surjection, IsInjective
<1>3. IsFiniteSet(Q) /\ Cardinality(Q) = 2^n
  BY <1>1, <1>2, FS_Bijection DEF ExistsBijection
<1>4. P \cup Q = SUBSET (1 .. n + 1)
  <2>1. ASSUME NEW B \in SUBSET (1 .. n + 1)
        PROVE  B \in P \cup Q
    <3>1. CASE n + 1 \in B
      <4>1. B \ {n + 1} \in P /\ B = (B \ {n + 1}) \cup {n + 1}
        BY <3>1
      <4> QED BY <4>1
    <3>2. CASE n + 1 \notin B
      BY <3>2
    <3> QED BY <3>1, <3>2
  <2>2. 1 .. n \subseteq 1 .. n + 1 /\ n + 1 \in 1 .. n + 1
    OBVIOUS
  <2>3. P \subseteq SUBSET (1 .. n + 1) /\ Q \subseteq SUBSET (1 .. n + 1)
    BY <2>2
  <2> QED BY <2>1, <2>3
<1>5. P \cap Q = {}
  OBVIOUS
<1>6. Cardinality(P) \in Nat /\ Cardinality(P \cap Q) = 0
  BY <1>1, <1>5, FS_CardinalityType, FS_EmptySet
<1>7. 2^(n + 1) = 2 * 2^n
  <2>1. Cardinality(P) = 2^n /\ IsFiniteSet(P) /\ Cardinality(P \cup Q) = 2^(n + 1)
    BY <1>1, <1>4
  <2> HIDE DEF P, Q
  <2>2. Cardinality(P \cup Q) = Cardinality(P) + Cardinality(Q) - Cardinality(P \cap Q)
    BY <2>1, <1>3, FS_Union
  <2> QED BY <2>1, <2>2, <1>3, <1>6
<1>8. 2^n # 0
  <2>1. {} \in P
    OBVIOUS
  <2> QED BY <2>1, <1>1, FS_EmptySet
<1> HIDE DEF P
<1> QED BY <1>1, <1>6, <1>7, <1>8 DEF P

\* A split makes two heads, and leads to two splits one level deeper.
LEMMA GrowthProps ==
  ASSUME DepthAssumption, NEW d \in Nat
  PROVE  /\ d <= MaxSplitDepth => Growth(d) \in Nat
         /\ d < MaxSplitDepth => Growth(d) = 2 + 2 * Growth(d + 1)
<1>1. MaxSplitDepth \in Nat
  BY DEF DepthAssumption
<1>2. ASSUME d <= MaxSplitDepth
      PROVE  Growth(d) \in Nat
  <2>1. MaxSplitDepth - d \in Nat
    BY <1>1, <1>2
  <2>2. 2^(MaxSplitDepth - d) \in Nat /\ 2^(MaxSplitDepth - d) >= 1
    BY <2>1, TwoExp
  <2> QED BY <2>2 DEF Growth
<1>3. ASSUME d < MaxSplitDepth
      PROVE  Growth(d) = 2 + 2 * Growth(d + 1)
  <2>1. PICK m \in Nat : m = MaxSplitDepth - (d + 1)
    BY <1>1, <1>3
  <2>2. MaxSplitDepth - d = m + 1
    BY <1>1, <2>1
  <2>3. 2^(m + 1) = 2 * 2^m /\ 2^m \in Nat
    BY <2>1, TwoExp
  <2> QED BY <2>1, <2>2, <2>3 DEF Growth
<1> QED BY <1>2, <1>3

Works == Seq(Nat \X Nat)

\* Nothing to do needs no heads.
LEMMA PromisedNothing ==
  ASSUME NEW n \in Nat
  PROVE  Promised(<<>>, n)
<1> DEFINE left == [i \in 1 .. Len(<<>>) + 1 |-> 0]
<1>1. left \in [1 .. Len(<<>>) + 1 -> Nat] /\ left[1] <= n
  OBVIOUS
<1>2. DOMAIN <<>> = {}
  OBVIOUS
<1> HIDE DEF left
<1> QED BY <1>1, <1>2 DEF Promised

\* The first head of a list takes its part.
LEMMA PromisedTail ==
  ASSUME DepthAssumption, NEW w \in Works, w # <<>>, NEW n \in Int, Promised(w, n)
  PROVE  /\ Head(w)[2] \in Nat /\ Head(w)[2] < MaxSplitDepth
         /\ n - Growth(Head(w)[2]) \in Nat
         /\ Promised(Tail(w), n - Growth(Head(w)[2])) /\ Promised(Tail(w), n)
<1>1. PICK left \in [1 .. Len(w) + 1 -> Nat] :
          /\ left[1] <= n
          /\ \A i \in DOMAIN w : /\ w[i][2] < MaxSplitDepth
                                 /\ left[i] >= Growth(w[i][2]) + left[i + 1]
  BY DEF Promised
<1>2. /\ Len(w) \in Nat /\ Len(w) # 0 /\ DOMAIN w = 1 .. Len(w) /\ Head(w) = w[1]
      /\ \A i \in DOMAIN w : w[i] \in Nat \X Nat
      /\ Tail(w) \in Works /\ Len(Tail(w)) = Len(w) - 1
      /\ \A i \in 1 .. Len(w) - 1 : Tail(w)[i] = w[i + 1]
  BY DEF Works
<1>3. 1 \in DOMAIN w /\ w[1][2] \in Nat
  BY <1>2
<1>4. Growth(w[1][2]) \in Nat
  <2>1. PICK d \in Nat : d = w[1][2]
    BY <1>3
  <2>2. d <= MaxSplitDepth
    BY <1>1, <1>3, <2>1 DEF DepthAssumption
  <2> QED BY <2>1, <2>2, GrowthProps
<1> DEFINE rest == [i \in 1 .. Len(Tail(w)) + 1 |-> left[i + 1]]
<1>5. rest \in [1 .. Len(Tail(w)) + 1 -> Nat]
  BY <1>2
<1>6. rest[1] <= n - Growth(w[1][2]) /\ rest[1] \in Nat
  <2>1. left[1] >= Growth(w[1][2]) + left[2] /\ left[1] \in Nat /\ left[2] \in Nat
    <3>1. left[1] >= Growth(w[1][2]) + left[1 + 1]
      BY <1>1, <1>3
    <3>2. 1 \in 1 .. Len(w) + 1 /\ 2 \in 1 .. Len(w) + 1 /\ 1 + 1 = 2
      BY <1>2
    <3> QED BY <1>1, <3>1, <3>2
  <2>2. rest[1] = left[2]
    BY <1>2
  <2> QED BY <1>1, <1>4, <2>1, <2>2
<1>7. ASSUME NEW i \in DOMAIN Tail(w)
      PROVE  /\ Tail(w)[i][2] < MaxSplitDepth
             /\ rest[i] >= Growth(Tail(w)[i][2]) + rest[i + 1]
  <2>1. i \in 1 .. Len(w) - 1 /\ i + 1 \in DOMAIN w
    BY <1>2
  <2>2. rest[i] = left[i + 1] /\ rest[i + 1] = left[i + 1 + 1] /\ Tail(w)[i] = w[i + 1]
    BY <2>1, <1>2
  <2> QED BY <1>1, <2>1, <2>2
<1> HIDE DEF rest
<1>8. Promised(Tail(w), n - Growth(w[1][2])) /\ Promised(Tail(w), n)
  <2>1. rest[1] <= n
    BY <1>4, <1>6
  <2> QED BY <1>5, <1>6, <1>7, <2>1 DEF Promised
<1> QED BY <1>1, <1>2, <1>3, <1>4, <1>6, <1>8

\* One head more needs its part more.
LEMMA PromisedOneMore ==
  ASSUME DepthAssumption, NEW w \in Works, NEW n \in Nat, Promised(w, n),
         NEW x \in Nat \X Nat, x[2] < MaxSplitDepth
  PROVE  Promised(<<x>> \o w, Growth(x[2]) + n)
<1>1. PICK left \in [1 .. Len(w) + 1 -> Nat] :
          /\ left[1] <= n
          /\ \A i \in DOMAIN w : /\ w[i][2] < MaxSplitDepth
                                 /\ left[i] >= Growth(w[i][2]) + left[i + 1]
  BY DEF Promised
<1> DEFINE v == <<x>> \o w
<1>2. /\ Len(w) \in Nat /\ DOMAIN w = 1 .. Len(w) /\ Len(v) = Len(w) + 1
      /\ DOMAIN v = 1 .. Len(w) + 1 /\ v[1] = x
      /\ \A i \in 2 .. Len(w) + 1 : v[i] = w[i - 1]
  BY DEF Works
<1>3. Growth(x[2]) \in Nat
  BY GrowthProps DEF DepthAssumption
<1> HIDE DEF v
<1> DEFINE more == [i \in 1 .. Len(v) + 1 |-> IF i = 1 THEN Growth(x[2]) + n ELSE left[i - 1]]
<1>4. more \in [1 .. Len(v) + 1 -> Nat] /\ more[1] = Growth(x[2]) + n
  BY <1>2, <1>3
<1>5. ASSUME NEW i \in DOMAIN v
      PROVE  v[i][2] < MaxSplitDepth /\ more[i] >= Growth(v[i][2]) + more[i + 1]
  <2>1. CASE i = 1
    <3>1. more[1] = Growth(x[2]) + n /\ more[2] = left[1] /\ left[1] \in Nat
      BY <1>2
    <3> QED BY <2>1, <3>1, <1>1, <1>2, <1>3
  <2>2. CASE i # 1
    <3>1. i \in 2 .. Len(w) + 1 /\ i - 1 \in DOMAIN w /\ v[i] = w[i - 1]
      BY <1>2, <2>2
    <3>2. i \in 1 .. Len(v) + 1 /\ i + 1 \in 1 .. Len(v) + 1 /\ i + 1 # 1
          /\ (i + 1) - 1 = (i - 1) + 1
      BY <3>1, <1>2
    <3>3. more[i] = left[i - 1] /\ more[i + 1] = left[(i - 1) + 1]
      BY <3>2, <2>2
    <3> QED BY <1>1, <3>1, <3>3
  <2> QED BY <2>1, <2>2
<1> HIDE DEF more
<1>6. more[1] <= Growth(x[2]) + n
  BY <1>3, <1>4
<1>7. Promised(v, Growth(x[2]) + n)
  BY <1>4, <1>5, <1>6 DEF Promised
<1> QED BY <1>7 DEF v

\* Enough is enough.
LEMMA PromisedMore ==
  ASSUME NEW w \in Works, NEW n \in Int, NEW m \in Int, Promised(w, n), n <= m
  PROVE  Promised(w, m) /\ m \in Nat
<1>1. PICK left \in [1 .. Len(w) + 1 -> Nat] :
          /\ left[1] <= n
          /\ \A i \in DOMAIN w : /\ w[i][2] < MaxSplitDepth
                                 /\ left[i] >= Growth(w[i][2]) + left[i + 1]
  BY DEF Promised
<1>2. left[1] \in Nat
  BY DEF Works
<1>3. left[1] <= m /\ m \in Nat
  BY <1>1, <1>2
<1>4. Promised(w, m)
  BY <1>1, <1>3 DEF Promised
<1> QED BY <1>3, <1>4

\* The heads that a split leaves to be split again are two at most.
LEMMA PromisedTwoMore ==
  ASSUME DepthAssumption, NEW w \in Works, NEW n \in Nat, Promised(w, n),
         NEW d \in Nat, d < MaxSplitDepth,
         NEW s \in Works, Len(s) <= 2, \A i \in DOMAIN s : s[i][2] = d
  PROVE  Promised(s \o w, n + 2 * Growth(d))
<1> USE DEF Works
<1>1. Growth(d) \in Nat
  BY GrowthProps DEF DepthAssumption
<1>2. /\ Len(s) \in {0, 1, 2} /\ DOMAIN s = 1 .. Len(s)
      /\ \A i \in 1 .. Len(s) : s[i] \in Nat \X Nat
  <2>1. Len(s) \in Nat /\ DOMAIN s = 1 .. Len(s)
    BY LenProperties
  <2>2. \A i \in 1 .. Len(s) : s[i] \in Nat \X Nat
    BY ElementOfSeq
  <2> QED BY <2>1, <2>2
<1>3. PICK g \in Nat : g = Growth(d)
  BY <1>1
<1>4. CASE Len(s) = 0
  <2>1. s \o w = w
    BY <1>4, EmptySeq, ConcatEmptySeq
  <2> QED BY <2>1, <1>3, PromisedMore
<1>5. CASE Len(s) = 1
  <2> DEFINE x == s[1]
  <2>1. x \in Nat \X Nat /\ x[2] = d
    BY <1>2, <1>5
  <2>2. s = <<x>>
    BY <1>2, <1>5, <2>1, SeqEqual
  <2> HIDE DEF x
  <2>3. Promised(<<x>> \o w, g + n) /\ <<x>> \o w \in Works
    BY <2>1, <1>3, PromisedOneMore
  <2>4. Promised(<<x>> \o w, n + 2 * g)
    <3>1. g + n \in Int /\ n + 2 * g \in Int /\ g + n <= n + 2 * g
      BY <1>3
    <3> QED BY <2>3, <3>1, PromisedMore
  <2> QED BY <2>2, <2>4, <1>3
<1>6. CASE Len(s) = 2
  <2> DEFINE x == s[1]
             y == s[2]
  <2>1. x \in Nat \X Nat /\ x[2] = d /\ y \in Nat \X Nat /\ y[2] = d
    BY <1>2, <1>6
  <2>2. s = <<x>> \o <<y>>
    <3>1. s = <<x, y>>
      BY <1>2, <1>6, <2>1, SeqEqual
    <3> HIDE DEF x, y
    <3>2. /\ <<x>> \in Seq(Nat \X Nat) /\ <<y>> \in Seq(Nat \X Nat)
          /\ <<x, y>> \in Seq(Nat \X Nat) /\ Len(<<x, y>>) = 2
          /\ Len(<<x>>) = 1 /\ Len(<<y>>) = 1
      BY <2>1
    <3>3. /\ <<x>> \o <<y>> \in Seq(Nat \X Nat) /\ Len(<<x>> \o <<y>>) = 2
          /\ (<<x>> \o <<y>>)[1] = x /\ (<<x>> \o <<y>>)[2] = y
      BY <3>2, ConcatProperties
    <3>4. \A i \in 1 .. 2 : <<x, y>>[i] = (<<x>> \o <<y>>)[i]
      BY <3>3
    <3>5. <<x, y>> = <<x>> \o <<y>>
      BY <3>2, <3>3, <3>4, SeqEqual
    <3> QED BY <3>1, <3>5
  <2> HIDE DEF x, y
  <2>3. s \o w = <<x>> \o (<<y>> \o w)
    <3>1. <<x>> \in Seq(Nat \X Nat) /\ <<y>> \in Seq(Nat \X Nat)
      BY <2>1
    <3> QED BY <2>2, <3>1, ConcatAssociative
  <2>4. Promised(<<y>> \o w, g + n) /\ <<y>> \o w \in Works /\ g + n \in Nat
    <3>1. Promised(<<y>> \o w, Growth(y[2]) + n)
      BY <2>1, PromisedOneMore
    <3>2. <<y>> \in Works
      BY <2>1
    <3>3. <<y>> \o w \in Works
      BY <3>2, ConcatProperties
    <3> QED BY <3>1, <3>3, <2>1, <1>3
  <2>5. Promised(<<x>> \o (<<y>> \o w), g + (g + n))
    BY <2>1, <2>4, <1>3, PromisedOneMore
  <2>6. g + (g + n) = n + 2 * g
    OBVIOUS
  <2> QED BY <2>3, <2>5, <2>6, <1>3
<1> QED BY <1>2, <1>4, <1>5, <1>6

\* A list of heads that no split has made yet.
LEMMA PromisedFirst ==
  ASSUME DepthAssumption, NEW w \in Works, \A i \in DOMAIN w : w[i][2] = 0,
         NEW r \in Nat, Len(w) <= r
  PROVE  Promised(w, r * Growth(0)) /\ r * Growth(0) \in Nat
<1>1. /\ Growth(0) \in Nat /\ 0 < MaxSplitDepth
      /\ Len(w) \in Nat /\ DOMAIN w = 1 .. Len(w)
  BY GrowthProps DEF DepthAssumption, Works
<1>2. PICK g \in Nat : g = Growth(0)
  BY <1>1
<1> DEFINE left == [i \in 1 .. Len(w) + 1 |-> (Len(w) + 1 - i) * g]
<1>3. left \in [1 .. Len(w) + 1 -> Nat]
  <2> SUFFICES ASSUME NEW i \in 1 .. Len(w) + 1
               PROVE  (Len(w) + 1 - i) * g \in Nat
    OBVIOUS
  <2>1. \A a, b \in Nat : a * b \in Nat
    OBVIOUS
  <2>2. Len(w) + 1 - i \in Nat
    BY <1>1
  <2> QED BY <2>1, <2>2
<1>4. left[1] <= r * g /\ r * g \in Nat
  <2>1. \A a, b, c \in Nat : a <= b => a * c <= b * c /\ b * c \in Nat
    OBVIOUS
  <2>2. left[1] = Len(w) * g
    <3>1. 1 \in 1 .. Len(w) + 1 /\ Len(w) + 1 - 1 = Len(w)
      BY <1>1
    <3> QED BY <3>1
  <2> QED BY <1>1, <2>1, <2>2
<1>5. ASSUME NEW i \in DOMAIN w
      PROVE  w[i][2] < MaxSplitDepth /\ left[i] >= Growth(w[i][2]) + left[i + 1]
  <2>1. w[i][2] = 0
    OBVIOUS
  <2>2. PICK k \in Nat : k = Len(w) + 1 - (i + 1)
    BY <1>1
  <2>3. left[i] = (k + 1) * g /\ left[i + 1] = k * g
    <3>1. i \in 1 .. Len(w) + 1 /\ i + 1 \in 1 .. Len(w) + 1 /\ Len(w) + 1 - i = k + 1
      BY <1>1, <2>2
    <3> QED BY <3>1, <2>2
  <2>4. (k + 1) * g = g + k * g /\ k * g \in Nat
    OBVIOUS
  <2> HIDE DEF left
  <2> QED BY <1>1, <1>2, <2>1, <2>3, <2>4
<1> HIDE DEF left
<1>6. Promised(w, r * g)
  BY <1>3, <1>4, <1>5 DEF Promised
<1> QED BY <1>2, <1>4, <1>6

\* A thread keeps its room while others move, as only splits use it up.
LEMMA GrowthFrame ==
  ASSUME NEW u \in Threads, GrowthOf(u), pc'[u] = pc[u], work'[u] = work[u],
         targets'[u] = targets[u], newHeads'[u] = newHeads[u],
         Splitting(u) => nextHead' = nextHead /\ base' = base
  PROVE  GrowthOf(u)'
BY DEF GrowthOf, Splitting, Room

\* The stages of an insert and of a search in which there is nothing to split.
NoWork == {"idle", "init", "head", "place", "read", "filter"}

\* No step gives a thread more splits to do than there is room for.
LEMMA GrowthNext == Assumptions /\ TypeInv /\ LocksExclude /\ GrowthShape /\ [Next]_vars => GrowthShape'
<1> SUFFICES ASSUME Assumptions /\ TypeInv /\ LocksExclude /\ GrowthShape, [Next]_vars
             PROVE  GrowthShape'
  OBVIOUS
<1>0. /\ pc \in [Threads -> {"idle", "init", "head", "place", "append", "measure",
                              "oversized", "split", "reassign", "read", "filter"}]
      /\ targets \in [Threads -> SUBSET Nat] /\ newHeads \in [Threads -> SUBSET Nat]
      /\ work \in [Threads -> Works]
      /\ nextHead \in Nat /\ base \in Nat /\ heads \subseteq 0 .. nextHead - 1
      /\ \A t \in Threads : pc[t] \in {"measure", "reassign"} => work[t] # <<>>
      /\ \A t \in Threads : IsFiniteSet(newHeads[t])
      /\ \A t \in Threads : GrowthOf(t)
  BY DEF TypeOK, TypeInv, WorkHeld, Works, GrowthShape
<1>a. DepthAssumption /\ ReplicaCount \in Nat
  BY DEF Assumptions, ReplicaAssumption
<1>r. Growth(0) \in Nat /\ ReplicaCount * Growth(0) \in Nat /\ Room \in Int
  <2>1. Growth(0) \in Nat
    BY <1>a, GrowthProps DEF DepthAssumption
  <2>2. \A x, y \in Nat : x * y \in Nat
    OBVIOUS
  <2> QED BY <1>0, <1>a, <2>1, <2>2 DEF Room
\* Steps that touch no list of splits and no head.
<1>n. ASSUME NEW t \in Threads, pc[t] \in NoWork, pc'[t] \in NoWork,
             \A u \in Threads \ {t} : pc'[u] = pc[u] /\ targets'[u] = targets[u],
             work' = work, newHeads' = newHeads,
             (\E u \in Threads : Splitting(u)) => nextHead' = nextHead /\ base' = base
      PROVE  GrowthShape'
  <2>1. ASSUME NEW u \in Threads \ {t}
        PROVE  GrowthOf(u)'
    BY <1>n, <1>0, GrowthFrame
  <2>2. GrowthOf(t)'
    BY <1>n, <1>0 DEF GrowthOf, NoWork
  <2> QED BY <2>1, <2>2 DEF GrowthShape
<1>1. ASSUME NEW t \in Threads, NEW id \in Ids, Insert(t, id)
      PROVE  GrowthShape'
  BY <1>1, <1>0, <1>n DEF Insert, NoWork, Goto, index, version, insertVars, splitVars, searchVars
<1>2. ASSUME NEW t \in Threads, NEW id \in Ids, Delete(t, id)
      PROVE  GrowthShape'
  BY <1>2, <1>0, <1>n DEF Delete, NoWork, Goto, index, version, insertVars, splitVars, searchVars
<1>3. ASSUME NEW t \in Threads, Initialize(t)
      PROVE  GrowthShape'
  BY <1>3, <1>0, <1>n DEF Initialize, NoWork, Goto, index, version, insertVars, splitVars, searchVars
<1>4. ASSUME NEW t \in Threads, FirstHead(t)
      PROVE  GrowthShape'
  <2>1. \A u \in Threads : ~Splitting(u)
    BY <1>4 DEF FirstHead, HeadsWritable
  <2> QED BY <2>1, <1>4, <1>0, <1>n DEF FirstHead, NoWork, Goto, index, version, insertVars, splitVars, searchVars
<1>5. ASSUME NEW t \in Threads, Place(t)
      PROVE  GrowthShape'
  <2>1. PICK S \in Placements(heads) : targets' = [targets EXCEPT ![t] = S]
    BY <1>5 DEF Place
  <2>2. IsFiniteSet(S) /\ Cardinality(S) <= ReplicaCount /\ Cardinality(S) \in Nat
    <3>1. nextHead - 1 \in Int /\ 0 \in Int
      BY <1>0
    <3>2. IsFiniteSet(0 .. nextHead - 1)
      BY <3>1, FS_Interval
    <3>3. S \subseteq 0 .. nextHead - 1
      BY <1>0 DEF Placements
    <3>4. IsFiniteSet(S)
      BY <3>2, <3>3, FS_Subset
    <3> QED BY <3>4, <1>a, FS_CardinalityType DEF Placements
  <2>3. pc[t] = "place" /\ work' = work /\ newHeads' = newHeads /\ pc'[t] = "append"
        /\ nextHead' = nextHead /\ base' = base /\ targets'[t] = S
        /\ \A u \in Threads \ {t} : pc'[u] = pc[u] /\ targets'[u] = targets[u]
    BY <1>5, <1>0, <2>1 DEF Place, Goto, index, splitVars
  <2>4. GrowthOf(t)'
    <3>1. work[t] = <<>> /\ Len(work[t]) = 0 /\ DOMAIN work[t] = {}
      BY <2>3, <1>0 DEF GrowthOf
    <3> QED BY <2>2, <2>3, <3>1 DEF GrowthOf
  <2>5. ASSUME NEW u \in Threads \ {t}
        PROVE  GrowthOf(u)'
    BY <2>3, <1>0, GrowthFrame
  <2> QED BY <2>4, <2>5 DEF GrowthShape
<1>6. ASSUME NEW t \in Threads, NEW h \in targets[t], AppendTo(t, h)
      PROVE  GrowthShape'
  <2>1. /\ pc[t] = "append" /\ pc'[t] = "measure" /\ newHeads' = newHeads
        /\ nextHead' = nextHead /\ base' = base
        /\ targets'[t] = targets[t] \ {h} /\ work'[t] = Append(work[t], <<h, 0>>)
        /\ \A u \in Threads \ {t} : /\ pc'[u] = pc[u] /\ targets'[u] = targets[u]
                                   /\ work'[u] = work[u]
    BY <1>6, <1>0 DEF AppendTo, Goto
  <2>2. /\ IsFiniteSet(targets[t]) /\ Len(work[t]) + Cardinality(targets[t]) <= ReplicaCount
        /\ \A i \in DOMAIN work[t] : work[t][i][2] = 0
    BY <2>1, <1>0 DEF GrowthOf
  <2>3. IsFiniteSet(targets[t] \ {h}) /\ Cardinality(targets[t] \ {h}) = Cardinality(targets[t]) - 1
    BY <2>2, FS_RemoveElement
  <2>4. work[t] \in Works /\ Len(work[t]) \in Nat /\ Cardinality(targets[t]) \in Nat
    BY <1>0, <2>2, FS_CardinalityType DEF Works
  <2>5. /\ Len(Append(work[t], <<h, 0>>)) = Len(work[t]) + 1
        /\ \A i \in DOMAIN Append(work[t], <<h, 0>>) : Append(work[t], <<h, 0>>)[i][2] = 0
    <3> DEFINE w == work[t]
               v == Append(w, <<h, 0>>)
    <3>1. w \in Seq(Nat \X Nat) /\ h \in Nat
      BY <1>0 DEF Works
    <3> HIDE DEF w
    <3>2. /\ Len(v) = Len(w) + 1 /\ DOMAIN v = 1 .. Len(w) + 1 /\ DOMAIN w = 1 .. Len(w)
          /\ Len(w) \in Nat
          /\ \A i \in 1 .. Len(w) : v[i] = w[i]
          /\ v[Len(w) + 1] = <<h, 0>>
      BY <3>1
    <3>3. \A i \in DOMAIN w : w[i][2] = 0
      BY <2>2 DEF w
    <3> HIDE DEF v
    <3>4. ASSUME NEW i \in DOMAIN v
          PROVE  v[i][2] = 0
      <4>1. i = Len(w) + 1 \/ i \in DOMAIN w
        BY <3>2
      <4> QED BY <4>1, <3>2, <3>3
    <3> QED BY <3>2, <3>4 DEF v, w
  <2>6. GrowthOf(t)'
    BY <2>1, <2>2, <2>3, <2>4, <2>5, <1>a DEF GrowthOf
  <2>7. ASSUME NEW u \in Threads \ {t}
        PROVE  GrowthOf(u)'
    BY <2>1, <1>0, GrowthFrame
  <2> QED BY <2>6, <2>7 DEF GrowthShape
<1>7. ASSUME NEW t \in Threads, Measure(t)
      PROVE  GrowthShape'
  <2>1. /\ pc[t] = "measure" /\ newHeads' = newHeads /\ targets' = targets
        /\ nextHead' = nextHead /\ base' = base
        /\ \/ pc'[t] \in {"append", "oversized"}
           \/ pc'[t] = "idle" /\ work'[t] = <<>>
        /\ work'[t] = work[t] \/ work'[t] = Front(work[t])
        /\ \A u \in Threads \ {t} : pc'[u] = pc[u] /\ work'[u] = work[u]
    <3>1. UNCHANGED <<index, targets, newHeads, base>> /\ pc[t] = "measure"
      BY <1>7 DEF Measure
    <3>2. \/ pc' = [pc EXCEPT ![t] = "append"] \/ pc' = [pc EXCEPT ![t] = "oversized"]
          \/ pc' = [pc EXCEPT ![t] = "idle"] /\ work'[t] = <<>>
      BY <1>7 DEF Measure, EndInsert, Goto
    <3>3. \/ work' = [work EXCEPT ![t] = work[t]] \/ work' = [work EXCEPT ![t] = Front(work[t])]
      BY <1>7 DEF Measure
    <3>4. /\ work'[t] = work[t] \/ work'[t] = Front(work[t])
          /\ \A u \in Threads \ {t} : work'[u] = work[u]
      BY <3>3, <1>0
    <3>5. /\ \/ pc'[t] \in {"append", "oversized"}
             \/ pc'[t] = "idle" /\ work'[t] = <<>>
          /\ \A u \in Threads \ {t} : pc'[u] = pc[u]
      BY <3>2, <1>0
    <3> QED BY <3>1, <3>4, <3>5 DEF index
  <2>2. /\ IsFiniteSet(targets[t]) /\ Len(work[t]) + Cardinality(targets[t]) <= ReplicaCount
        /\ \A i \in DOMAIN work[t] : work[t][i][2] = 0
    BY <2>1, <1>0 DEF GrowthOf
  <2>3. work[t] \in Works /\ Len(work[t]) \in Nat /\ Cardinality(targets[t]) \in Nat
        /\ work[t] # <<>>
    BY <1>0, <2>1, <2>2, FS_CardinalityType DEF Works
  <2>4. /\ Len(Front(work[t])) = Len(work[t]) - 1
        /\ \A i \in DOMAIN Front(work[t]) : Front(work[t])[i][2] = 0
    BY <2>2, <2>3 DEF Works, Front
  <2>5. Len(work'[t]) + Cardinality(targets[t]) <= ReplicaCount
        /\ \A i \in DOMAIN work'[t] : work'[t][i][2] = 0
    BY <2>1, <2>2, <2>3, <2>4, <1>a
  <2>6. GrowthOf(t)'
    BY <2>1, <2>2, <2>5 DEF GrowthOf
  <2>7. ASSUME NEW u \in Threads \ {t}
        PROVE  GrowthOf(u)'
    BY <2>1, <1>0, GrowthFrame
  <2> QED BY <2>6, <2>7 DEF GrowthShape
<1>8. ASSUME NEW t \in Threads, StartSplits(t)
      PROVE  GrowthShape'
  <2>1. /\ pc[t] = "oversized" /\ pc'[t] = "split" /\ newHeads' = newHeads /\ targets' = targets
        /\ nextHead' = nextHead /\ base' = nextHead /\ work' = work
        /\ \A u \in Threads : ~Splitting(u)
        /\ \A u \in Threads \ {t} : pc'[u] = pc[u]
    BY <1>8, <1>0 DEF StartSplits, HeadsWritable, Goto, index, insertVars
  <2>2. /\ IsFiniteSet(targets[t]) /\ Len(work[t]) + Cardinality(targets[t]) <= ReplicaCount
        /\ \A i \in DOMAIN work[t] : work[t][i][2] = 0
    BY <2>1, <1>0 DEF GrowthOf
  <2>3. work[t] \in Works /\ Len(work[t]) <= ReplicaCount
    <3>1. work[t] \in Works /\ Len(work[t]) \in Nat /\ Cardinality(targets[t]) \in Nat
      BY <1>0, <2>2, FS_CardinalityType DEF Works
    <3> QED BY <3>1, <2>2, <1>a
  <2>4. Promised(work[t], ReplicaCount * Growth(0)) /\ ReplicaCount * Growth(0) \in Nat
    BY <1>a, <2>2, <2>3, PromisedFirst
  <2>5. Room' = ReplicaCount * Growth(0)
    BY <2>1, <1>0, <1>r DEF Room
  <2>6. GrowthOf(t)'
    BY <2>1, <2>4, <2>5 DEF GrowthOf
  <2>7. ASSUME NEW u \in Threads \ {t}
        PROVE  GrowthOf(u)'
    BY <2>1, <1>0, GrowthFrame
  <2> QED BY <2>6, <2>7 DEF GrowthShape
<1>9. ASSUME NEW t \in Threads, SkipHead(t)
      PROVE  GrowthShape'
  <2>1. /\ pc[t] = "split" /\ pc' = pc /\ newHeads' = newHeads /\ targets' = targets
        /\ nextHead' = nextHead /\ base' = base
        /\ work[t] # <<>> /\ work'[t] = Tail(work[t])
        /\ \A u \in Threads \ {t} : work'[u] = work[u]
    BY <1>9, <1>0 DEF SkipHead, Drop, insertVars
  <2>2. Room \in Nat /\ Promised(work[t], Room) /\ work[t] \in Works
    BY <2>1, <1>0 DEF GrowthOf
  <2>3. Promised(Tail(work[t]), Room)
    BY <2>1, <2>2, <1>a, PromisedTail
  <2>4. GrowthOf(t)'
    BY <2>1, <2>2, <2>3 DEF GrowthOf, Room
  <2>5. ASSUME NEW u \in Threads \ {t}
        PROVE  GrowthOf(u)'
    BY <2>1, <1>0, GrowthFrame
  <2> QED BY <2>4, <2>5 DEF GrowthShape
<1>10. ASSUME NEW t \in Threads, Split(t)
      PROVE  GrowthShape'
  <2> DEFINE h == Head(work[t])[1]
             d == Head(work[t])[2]
  <2>1. /\ pc[t] = "split" /\ pc'[t] = "reassign" /\ targets' = targets
        /\ base' = base /\ work' = work /\ work[t] # <<>>
        /\ \A u \in Threads \ {t} : pc'[u] = pc[u]
    BY <1>10, <1>0 DEF Split, Goto, insertVars
  <2>2. PICK a, b \in Nat : /\ nextHead' = b + 1 /\ b \in {nextHead, nextHead + 1}
                            /\ newHeads' = [newHeads EXCEPT ![t] = {a, b} \ {h}]
    <3>1. PICK A \in (SUBSET Clean(h)) \ {{}, Clean(h)}, keep \in BOOLEAN :
             SplitInto(t, h, A, Clean(h) \ A, keep)
      BY <1>10 DEF Split
    <3>2. h \in Nat
      <4>1. h \in heads
        BY <1>10 DEF Split
      <4> HIDE DEF h
      <4>2. h \in 0 .. nextHead - 1
        BY <4>1, <1>0
      <4> QED BY <4>2
    <3> DEFINE a == IF keep THEN h ELSE nextHead
               b == IF keep THEN nextHead ELSE nextHead + 1
    <3>3. /\ nextHead' = b + 1 /\ newHeads' = [newHeads EXCEPT ![t] = {a, b} \ {h}]
      BY <3>1 DEF SplitInto
    <3> HIDE DEF h
    <3>4. a \in Nat /\ b \in Nat /\ b \in {nextHead, nextHead + 1}
      BY <3>2, <1>0
    <3> HIDE DEF a, b
    <3> QED BY <3>3, <3>4
  <2>3. Room \in Nat /\ Promised(work[t], Room) /\ work[t] \in Works
    BY <2>1, <1>0 DEF GrowthOf
  <2>4. /\ d \in Nat /\ d < MaxSplitDepth /\ Room - Growth(d) \in Nat
        /\ Promised(Tail(work[t]), Room - Growth(d))
    BY <2>1, <2>3, <1>a, PromisedTail
  <2>5. /\ Growth(d) = 2 + 2 * Growth(d + 1) /\ Growth(d) \in Nat /\ Growth(d + 1) \in Nat
    <3> HIDE DEF d
    <3>1. d + 1 \in Nat /\ d <= MaxSplitDepth /\ d + 1 <= MaxSplitDepth
      BY <2>4, <1>a DEF DepthAssumption
    <3> QED BY <3>1, <2>4, <1>a, GrowthProps
  <2>6. Room' \in Int /\ Room' >= Room - 2
    BY <2>1, <2>2, <1>0, <1>r DEF Room
  <2>7. Room' - 2 * Growth(d + 1) \in Nat /\ Promised(Tail(work[t]), Room' - 2 * Growth(d + 1))
    <3>1. Tail(work[t]) \in Works
      BY <2>1, <2>3 DEF Works
    <3> DEFINE x == Room - Growth(d)
               y == Room' - 2 * Growth(d + 1)
    <3> HIDE DEF d
    <3>2. x \in Int /\ y \in Int /\ x <= y
      BY <2>3, <2>4, <2>5, <2>6
    <3>3. Promised(Tail(work[t]), x)
      BY <2>4
    <3> HIDE DEF x, y
    <3>4. Promised(Tail(work[t]), y) /\ y \in Nat
      BY <3>1, <3>2, <3>3, PromisedMore
    <3> QED BY <3>4 DEF y
  <2>8. Cardinality(newHeads'[t]) <= 2
    <3>1. newHeads'[t] = {a, b} \ {h}
      BY <2>2, <1>0
    <3>2. IsFiniteSet({a, b}) /\ Cardinality({a, b}) <= 2
      <4>1. IsFiniteSet({a}) /\ Cardinality({a}) = 1
        BY FS_Singleton
      <4>2. {a, b} = {a} \cup {b}
        OBVIOUS
      <4>3. IsFiniteSet({a} \cup {b}) /\ Cardinality({a} \cup {b}) <= 2
        BY <4>1, FS_AddElement
      <4> QED BY <4>2, <4>3
    <3>3. Cardinality({a, b} \ {h}) <= Cardinality({a, b}) /\ IsFiniteSet({a, b} \ {h})
      BY <3>2, FS_Subset
    <3>4. Cardinality({a, b} \ {h}) \in Nat /\ Cardinality({a, b}) \in Nat
      BY <3>2, <3>3, FS_CardinalityType
    <3> HIDE DEF h
    <3> QED BY <3>1, <3>2, <3>3, <3>4
  <2>9. GrowthOf(t)'
    BY <2>1, <2>4, <2>7, <2>8 DEF GrowthOf
  <2>10. ASSUME NEW u \in Threads \ {t}
        PROVE  GrowthOf(u)'
    <3>1. ~Splitting(u)
      BY <2>1 DEF LocksExclude, Splitting
    <3>2. newHeads'[u] = newHeads[u]
      BY <2>2, <1>0
    <3> QED BY <2>1, <3>1, <3>2, <1>0, GrowthFrame
  <2> QED BY <2>9, <2>10 DEF GrowthShape
<1>11. ASSUME NEW t \in Threads, NEW c \in cands[t], Reassign(t, c)
      PROVE  GrowthShape'
  <2>1. UNCHANGED <<pc, work, targets, newHeads, nextHead, base>>
    BY <1>11 DEF Reassign, Considered, insertVars
  <2> QED BY <2>1, <1>0, GrowthFrame DEF GrowthShape
<1>12. ASSUME NEW t \in Threads, EndReassign(t)
      PROVE  GrowthShape'
  <2> DEFINE d == Head(work[t])[2]
             over == {h \in newHeads[t] : Size(postings, h) > MaxPosting}
             rest == Room - 2 * Growth(d + 1)
  <2>1. PICK s \in Deeper(t) : work' = [work EXCEPT ![t] = s \o Tail(@)]
    BY <1>12 DEF EndReassign
  <2>2. /\ pc[t] = "reassign" /\ pc'[t] = "split" /\ targets' = targets
        /\ nextHead' = nextHead /\ base' = base
        /\ work'[t] = s \o Tail(work[t])
        /\ \A u \in Threads \ {t} : /\ pc'[u] = pc[u] /\ work'[u] = work[u]
                                   /\ newHeads'[u] = newHeads[u]
    BY <1>12, <1>0, <2>1 DEF EndReassign, Goto, index, insertVars
  <2>3. /\ Cardinality(newHeads[t]) <= 2 /\ d < MaxSplitDepth
        /\ rest \in Nat /\ Promised(Tail(work[t]), rest)
        /\ work[t] \in Works /\ work[t] # <<>> /\ d \in Nat
    BY <2>2, <1>0 DEF GrowthOf, Works
  <2>4. Tail(work[t]) \in Works
    BY <2>3 DEF Works
  <2>5. Growth(d + 1) \in Nat
    <3> HIDE DEF d
    <3>1. d + 1 \in Nat /\ d + 1 <= MaxSplitDepth
      BY <2>3, <1>a DEF DepthAssumption
    <3> QED BY <3>1, <1>a, GrowthProps
  <2>6. PICK n \in {0, 1, 2} : n = Cardinality(over)
    <3>1. IsFiniteSet(newHeads[t]) /\ over \subseteq newHeads[t]
      BY <1>0
    <3>2. IsFiniteSet(over) /\ Cardinality(over) <= Cardinality(newHeads[t])
      BY <3>1, FS_Subset
    <3>3. Cardinality(over) \in Nat /\ Cardinality(newHeads[t]) \in Nat
      BY <3>1, <3>2, FS_CardinalityType
    <3> HIDE DEF over
    <3> QED BY <2>3, <3>2, <3>3
  <2>7. \/ s = <<>>
        \/ d + 1 < MaxSplitDepth /\ s \in [1 .. n -> over \X {d + 1}]
    <3>1. \/ d + 1 >= MaxSplitDepth /\ s = <<>>
          \/ ~(d + 1 >= MaxSplitDepth) /\ s \in [1 .. Cardinality(over) -> over \X {d + 1}]
      BY <2>1 DEF Deeper
    <3>2. d + 1 \in Nat /\ MaxSplitDepth \in Nat
      BY <2>3, <1>a DEF DepthAssumption
    <3>3. Cardinality(over) = n
      BY <2>6
    <3> HIDE DEF d, over
    <3>4. CASE s = <<>>
      BY <3>4
    <3>5. CASE ~(d + 1 >= MaxSplitDepth) /\ s \in [1 .. Cardinality(over) -> over \X {d + 1}]
      BY <3>2, <3>3, <3>5
    <3> QED BY <3>1, <3>4, <3>5
  <2>8. over \subseteq Nat
    BY <1>0
  <2>9. Promised(s \o Tail(work[t]), Room) /\ Room \in Nat
    <3> DEFINE w == Tail(work[t])
    <3> SUFFICES Promised(s \o w, Room) /\ Room \in Nat
      OBVIOUS
    <3>1. w \in Works /\ Promised(w, rest) /\ rest \in Nat /\ d \in Nat
      BY <2>3, <2>4
    <3>2. Room = rest + 2 * Growth(d + 1) /\ Room \in Nat /\ rest <= Room /\ rest \in Int
      <4> HIDE DEF d
      <4>1. rest \in Nat
        BY <3>1
      <4> QED BY <4>1, <2>5, <1>r
    <3>3. CASE s = <<>>
      <4> HIDE DEF w, rest
      <4>1. s \o w = w
        BY <3>1, <3>3 DEF Works
      <4> QED BY <4>1, <3>1, <3>2, PromisedMore
    <3>4. CASE d + 1 < MaxSplitDepth /\ s \in [1 .. n -> over \X {d + 1}]
      <4> HIDE DEF w, d, rest, over
      <4>1. \A i \in 1 .. n : s[i] \in Nat \X Nat /\ s[i][2] = d + 1
        <5> SUFFICES ASSUME NEW i \in 1 .. n
                     PROVE  s[i] \in Nat \X Nat /\ s[i][2] = d + 1
          OBVIOUS
        <5>1. s[i] \in over \X {d + 1} /\ d + 1 \in Nat
          BY <3>4, <3>1
        <5> QED BY <5>1, <2>8
      <4>2. s \in Seq(Nat \X Nat) /\ Len(s) = n
        <5>1. s \in [1 .. n -> Nat \X Nat] /\ n \in Nat
          BY <4>1, <3>4
        <5> QED BY <5>1
      <4>3. s \in Works /\ Len(s) <= 2 /\ \A i \in DOMAIN s : s[i][2] = d + 1
        BY <4>1, <4>2 DEF Works
      <4>4. d + 1 \in Nat
        BY <3>1
      <4> QED BY <4>3, <4>4, <3>1, <3>2, <3>4, <1>a, PromisedTwoMore
    <3> QED BY <3>3, <3>4, <2>7
  <2>10. GrowthOf(t)'
    BY <2>2, <2>9 DEF GrowthOf, Room
  <2>11. ASSUME NEW u \in Threads \ {t}
         PROVE  GrowthOf(u)'
    BY <2>2, <1>0, GrowthFrame
  <2> QED BY <2>10, <2>11 DEF GrowthShape
<1>13. ASSUME NEW t \in Threads, EndSplits(t)
      PROVE  GrowthShape'
  <2>1. /\ pc[t] = "split" /\ pc'[t] = "idle" /\ work[t] = <<>>
        /\ work' = work /\ targets' = targets /\ newHeads' = newHeads
        /\ \A u \in Threads \ {t} : pc'[u] = pc[u]
    BY <1>13, <1>0 DEF EndSplits, EndInsert, Goto
  <2>2. \A u \in Threads \ {t} : ~Splitting(u)
    BY <2>1 DEF LocksExclude, Splitting
  <2>3. GrowthOf(t)'
    BY <2>1 DEF GrowthOf
  <2>4. ASSUME NEW u \in Threads \ {t}
        PROVE  GrowthOf(u)'
    BY <2>1, <2>2, <1>0, GrowthFrame
  <2> QED BY <2>3, <2>4 DEF GrowthShape
<1>14. ASSUME NEW t \in Threads, Search(t)
      PROVE  GrowthShape'
  BY <1>14, <1>0, <1>n DEF Search, NoWork, Goto, index, version, insertVars, splitVars, searchVars
<1>15. ASSUME NEW t \in Threads, SearchRead(t)
      PROVE  GrowthShape'
  BY <1>15, <1>0, <1>n DEF SearchRead, NoWork, Goto, index, version, insertVars, splitVars, searchVars
<1>16. ASSUME NEW t \in Threads, SearchReturn(t)
      PROVE  GrowthShape'
  BY <1>16, <1>0, <1>n DEF SearchReturn, NoWork, Goto, index, version, insertVars, splitVars, searchVars
<1>17. CASE UNCHANGED vars
  <2>1. UNCHANGED <<pc, work, targets, newHeads, nextHead, base>>
    BY <1>17 DEF vars, index, insertVars, splitVars
  <2> QED BY <2>1, <1>0, GrowthFrame DEF GrowthShape
<1> QED
  BY <1>1, <1>2, <1>3, <1>4, <1>5, <1>6, <1>7, <1>8, <1>9, <1>10, <1>11, <1>12, <1>13, <1>14,
     <1>15, <1>16, <1>17 DEF Next, Finished

-----------------------------------------------------------------------------
(***************************************************************************)
(* The invariant and the properties.                                       *)
(***************************************************************************)
LEMMA AllAssumptions == Assumptions
BY NoneAssumption, PostingAssumption, ReplicaAssumption, DepthAssumption, MaskAssumption,
   BoundsAssumption DEF Assumptions

LEMMA InitIInv == Init => IInv
<1> SUFFICES ASSUME Init PROVE IInv
  OBVIOUS
<1>1. TypeInv
  BY InitTypeInv, AllAssumptions
<1>2. LocksExclude /\ TargetsActive /\ FirstHeadPending /\ RemovedMarked
  BY DEF Init, Holding, LocksExclude, Splitting, Reading, TargetsActive, FirstHeadPending,
     RemovedMarked
<1>3. Coverage /\ DOMAIN postings \subseteq heads
  BY DEF Init, Holding, Coverage, Live
<1>4. GrowthShape
  BY DEF Init, Holding, GrowthShape, GrowthOf
<1> QED BY <1>1, <1>2, <1>3, <1>4 DEF IInv, TypeInv

\* IInv holds in every reachable state.
THEOREM SPFreshInductive == Spec => []IInv
<1>1. Init => IInv
  BY InitIInv
<1>2. IInv /\ [Next]_vars => IInv'
  <2> SUFFICES ASSUME IInv, [Next]_vars PROVE IInv'
    OBVIOUS
  <2>1. TypeInv /\ HeadsInv /\ LocksExclude /\ Coverage /\ RemovedMarked /\ GrowthShape
    BY DEF IInv, TypeInv, HeadsInv
  <2>2. TypeInv' /\ LocksExclude' /\ HeadsInv' /\ Coverage' /\ RemovedMarked' /\ GrowthShape'
    BY <2>1, AllAssumptions, TypeNext, LocksNext, HeadsNext, CoverageNext, RemovedNext,
       GrowthNext
  <2> QED BY <2>2 DEF IInv, TypeInv, HeadsInv
<1> QED BY <1>1, <1>2, PTL DEF Spec

\* Every variable keeps its type: versions stay within VERSION_MASK, work
\* lists name heads, entries carry vectors that were inserted.
THEOREM SPFreshTypeCorrect == Spec => []TypeOK
<1>1. IInv => TypeOK
  BY DEF IInv
<1> QED BY <1>1, SPFreshInductive, PTL

\* INV-1 for any number of concurrent inserts, deletes, searches and splits:
\* a live id has a current copy in an active head or an insert on its way.
THEOREM NothingLost == Spec => []Coverage
<1>1. IInv => Coverage
  BY DEF IInv
<1> QED BY <1>1, SPFreshInductive, PTL

\* INV-4: no posting outlives its head, and no head but the first is without
\* one.
THEOREM PostingsAligned == Spec => []Alignment
<1>1. IInv => Alignment
  BY DEF IInv, FirstHeadPending, Alignment
<1> QED BY <1>1, SPFreshInductive, PTL

\* INV-5: no search returns an id that was deleted before it began.
THEOREM DeletedStaysOut == Spec => []DeletionComplete
<1>1. IInv => DeletionComplete
  <2> SUFFICES ASSUME IInv, NEW t \in Threads, NEW id \in Result(t), id \in gone[t]
               PROVE  FALSE
    BY DEF DeletionComplete
  <2>1. del[id]
    BY DEF IInv, RemovedMarked
  <2>2. ~del[id]
    BY DEF Result, Current
  <2> QED BY <2>1, <2>2
<1> QED BY <1>1, SPFreshInductive, PTL

\* The splits of one insert make a bounded number of heads, however many
\* threads there are and whatever their reassignments do to the new heads.
THEOREM GrowthBounded == Spec => []HeadGrowthBounded
<1>1. IInv => HeadGrowthBounded
  <2> SUFFICES ASSUME IInv, NEW t \in Threads, Splitting(t)
               PROVE  nextHead - base <= 2 * ReplicaCount * (2^MaxSplitDepth - 1)
    BY DEF HeadGrowthBounded
  <2>1. nextHead \in Nat /\ base \in Nat /\ GrowthOf(t)
    BY DEF IInv, TypeOK, GrowthShape
  <2>2. DepthAssumption /\ ReplicaCount \in Nat /\ MaxSplitDepth \in Nat
    BY DepthAssumption, ReplicaAssumption DEF DepthAssumption
  <2>3. PICK x \in Nat : x = 2^MaxSplitDepth
    BY <2>2, TwoExp
  <2>4. Growth(0) = 2 * (x - 1) /\ Growth(0) \in Nat
    <3>1. MaxSplitDepth - 0 = MaxSplitDepth
      BY <2>2
    <3> QED BY <2>2, <2>3, <3>1, GrowthProps DEF Growth
  <2>5. Room \in Nat
    <3>1. CASE pc[t] = "split"
      BY <2>1, <3>1 DEF GrowthOf
    <3>2. CASE pc[t] = "reassign"
      <4>1. PICK d : d = Head(work[t])[2]
        OBVIOUS
      <4>2. d < MaxSplitDepth /\ Room - 2 * Growth(d + 1) \in Nat
        BY <2>1, <3>2, <4>1 DEF GrowthOf
      <4>3. d \in Nat
        <5>1. work[t] \in Seq(Nat \X Nat) /\ work[t] # <<>>
          BY <3>2 DEF IInv, TypeOK, WorkHeld
        <5>2. Head(work[t]) \in Nat \X Nat
          BY <5>1
        <5> QED BY <4>1, <5>2
      <4>4. d + 1 \in Nat /\ d + 1 <= MaxSplitDepth
        BY <4>2, <4>3, <2>2
      <4>5. Growth(d + 1) \in Nat
        BY <4>4, <2>2, GrowthProps
      <4>6. Room \in Int
        <5>1. \A a, b \in Nat : a * b \in Nat
          OBVIOUS
        <5> QED BY <5>1, <2>1, <2>2, <2>4 DEF Room
      <4> QED BY <4>2, <4>5, <4>6
    <3> QED BY <3>1, <3>2 DEF Splitting
  <2>6. ReplicaCount * Growth(0) = 2 * ReplicaCount * (x - 1)
    BY <2>2, <2>4
  <2>7. ReplicaCount * Growth(0) \in Nat
    BY <2>2, <2>4
  <2> QED BY <2>1, <2>3, <2>5, <2>6, <2>7 DEF Room
<1> QED BY <1>1, SPFreshInductive, PTL

-----------------------------------------------------------------------------
(***************************************************************************)
(* AtMostReplicas: which copies of a vector there are, in each action.     *)
(***************************************************************************)
\* The heads are finitely many.
LEMMA CopiesFinite ==
  ASSUME IInv, NEW id
  PROVE  IsFiniteSet(Copies(id)) /\ Cardinality(Copies(id)) \in Nat
<1>1. Copies(id) \subseteq 0 .. nextHead - 1 /\ nextHead - 1 \in Int
  BY DEF Copies, IInv, TypeOK
<1>2. IsFiniteSet(0 .. nextHead - 1)
  BY <1>1, FS_Interval
<1> QED BY <1>1, <1>2, FS_Subset, FS_CardinalityType

\* A step that writes no entry and no version, and places no vector.
Quiet ==
    /\ \A h \in DOMAIN postings' : h \in DOMAIN postings /\ postings'[h] \subseteq postings[h]
    /\ ver' = ver /\ calls'.inserts = calls.inserts
    /\ \A u \in Threads :
         /\ cands'[u] \subseteq cands[u]
         /\ pc'[u] = "init" <=> pc[u] = "init"
         /\ pc'[u] \in Inserting => pc[u] \in Inserting /\ job'[u] = job[u]
         /\ pc'[u] \in {"head", "place"} => pc[u] \in {"head", "place"}
         /\ Reading(u)' => Reading(u) /\ stamp'[u] = stamp[u] /\ targets'[u] = targets[u]

\* Which ids are inserted is a matter of versions and of the inserts that begin.
LEMMA InsertedSame ==
  ASSUME \A id \in Ids : ver'[id] # 0 <=> ver[id] # 0,
         \A u \in Threads : pc'[u] = "init" <=> pc[u] = "init",
         \A u \in Threads : pc[u] = "init" => job'[u] = job[u]
  PROVE  Inserted' = Inserted
BY DEF Inserted

\* Such a step keeps CopyShape.
LEMMA CopyQuiet == IInv /\ CopyShape /\ Quiet => CopyShape'
<1> SUFFICES ASSUME IInv, CopyShape, Quiet
             PROVE  CopyShape'
  OBVIOUS
<1>1. Inserted' = Inserted
  BY InsertedSame DEF Quiet, Inserting
<1>2. Held' \subseteq Held
  BY DEF Quiet, Held
<1>3. ASSUME NEW id
      PROVE  Cardinality(Copies(id)') <= Cardinality(Copies(id)) /\ Cardinality(Copies(id)') \in Nat
  <2>1. Copies(id)' \subseteq Copies(id)
    BY DEF Quiet, Copies
  <2> QED BY <2>1, CopiesFinite, FS_Subset, FS_CardinalityType
<1>4. Once' <=> Once
  BY <1>1 DEF Quiet, Once, Inserted
<1>5. InsertedShape'
  <2>1. \A u \in Threads : pc'[u] \in Inserting \ {"init"} => ver'[job'[u].id] # 0
    BY DEF CopyShape, InsertedShape, Quiet
  <2>2. \A e \in Held' : ver'[e.id] # 0
    BY <1>2 DEF CopyShape, InsertedShape, Quiet
  <2>3. IsFiniteSet(Inserted') /\ Cardinality(Inserted') <= calls'.inserts
    BY <1>1 DEF CopyShape, InsertedShape, Quiet
  <2> QED BY <2>1, <2>2, <2>3 DEF InsertedShape
<1>6. ASSUME Once'
      PROVE  OneVector' /\ FewCopies'
  <2>1. OneVector /\ FewCopies
    BY <1>4, <1>6 DEF CopyShape
  <2>2. \A t, u \in Threads :
          t # u /\ pc'[t] \in Inserting /\ pc'[u] \in Inserting => job'[t].id # job'[u].id
    BY <2>1 DEF OneVector, Quiet
  <2>3. /\ \A e \in Held' : e.ver <= ver'[e.id]
        /\ \A e, f \in Held' : e.id = f.id => e.vec = f.vec
    BY <2>1, <1>2 DEF OneVector, Quiet
  <2>4. \A t \in Threads : pc'[t] \in {"init", "head", "place"} =>
          \A e \in Held' : e.id # job'[t].id
    <3> SUFFICES ASSUME NEW t \in Threads, pc'[t] \in {"init", "head", "place"}, NEW e \in Held'
                 PROVE  e.id # job'[t].id
      OBVIOUS
    <3>1. pc[t] \in {"init", "head", "place"} /\ job'[t] = job[t]
      BY DEF Quiet, Inserting
    <3> QED BY <3>1, <2>1, <1>2 DEF OneVector
  <2>5. \A t \in Threads : Reading(t)' =>
          /\ stamp'[t] = ver'[job'[t].id]
          /\ \A e \in Held' : e.id = job'[t].id => e.vec = job'[t].vec
          /\ Cardinality(Copies(job[t].id)) + Cardinality(targets'[t]) <= ReplicaCount
          /\ job'[t] = job[t]
    <3> SUFFICES ASSUME NEW t \in Threads, Reading(t)'
                 PROVE  /\ stamp'[t] = ver'[job'[t].id]
                        /\ \A e \in Held' : e.id = job'[t].id => e.vec = job'[t].vec
                        /\ Cardinality(Copies(job[t].id)) + Cardinality(targets'[t]) <= ReplicaCount
                        /\ job'[t] = job[t]
      OBVIOUS
    <3>1. /\ Reading(t) /\ job'[t] = job[t] /\ stamp'[t] = stamp[t] /\ targets'[t] = targets[t]
          /\ ver' = ver
      BY DEF Quiet, Reading, Inserting
    <3> QED BY <3>1, <2>1, <1>2 DEF OneVector, FewCopies
  <2>6. OneVector'
    BY <2>2, <2>3, <2>4, <2>5 DEF OneVector
  <2>7. FewCopies'
    <3>0. ReplicaCount \in Nat
      BY ReplicaAssumption
    <3>1. ASSUME NEW id \in Ids
          PROVE  Cardinality(Copies(id)') <= ReplicaCount
      <4>1. Cardinality(Copies(id)) <= ReplicaCount /\ Cardinality(Copies(id)) \in Nat
        BY <2>1, CopiesFinite DEF FewCopies
      <4> QED BY <4>1, <1>3, <3>0
    <3>2. ASSUME NEW t \in Threads, Reading(t)'
          PROVE  Cardinality(Copies(job[t].id))' + Cardinality(targets'[t]) <= ReplicaCount
      <4>1. PICK id : id = job[t].id
        OBVIOUS
      <4>2. Copies(job[t].id)' = Copies(id)'
        BY <4>1, <2>5, <3>2 DEF Copies
      <4>3. Cardinality(Copies(id)) + Cardinality(targets'[t]) <= ReplicaCount
        BY <4>1, <2>5, <3>2
      <4>4. Cardinality(targets'[t]) \in Nat
        <5>1. targets'[t] = targets[t] /\ GrowthOf(t) /\ Reading(t)
          BY <3>2 DEF Quiet, IInv, GrowthShape
        <5>2. IsFiniteSet(targets[t])
          BY <5>1 DEF GrowthOf, Reading
        <5> QED BY <5>1, <5>2, FS_CardinalityType
      <4> QED BY <4>2, <4>3, <4>4, <1>3, <3>0, CopiesFinite
    <3> QED BY <3>1, <3>2 DEF FewCopies
  <2> QED BY <2>6, <2>7
<1> QED BY <1>5, <1>6 DEF CopyShape

\* insert is called: a count that still agrees says that the id is a new one.
LEMMA CopyInsert ==
  ASSUME IInv, CopyShape, NEW t \in Threads, NEW id \in Ids, Insert(t, id)
  PROVE  CopyShape'
<1>1. /\ pc \in [Threads -> {"idle", "init", "head", "place", "append", "measure",
                              "oversized", "split", "reassign", "read", "filter"}]
      /\ job \in [Threads -> [id : Ids \cup {None}, vec : 0 .. MaxInserts]]
      /\ calls \in [inserts : 0 .. MaxInserts, deletes : 0 .. MaxDeletes,
                     searches : 0 .. MaxSearches]
  BY DEF IInv, TypeOK
<1>2. /\ pc[t] = "idle" /\ pc'[t] = "init" /\ job'[t].id = id
      /\ \A u \in Threads \ {t} : pc'[u] = pc[u] /\ job'[u] = job[u]
      /\ UNCHANGED <<postings, ver, cands, stamp, targets>>
      /\ calls'.inserts = calls.inserts + 1 /\ calls.inserts \in Nat
  BY <1>1, BoundsAssumption DEF Insert, Goto, index, version, insertVars, splitVars
<1>3. Inserted' = Inserted \cup {id}
  <2>1. ASSUME NEW i \in Ids
        PROVE  i \in Inserted' <=> i \in Inserted \/ i = id
    BY <1>2 DEF Inserted
  <2> QED BY <2>1 DEF Inserted
<1>4. /\ IsFiniteSet(Inserted) /\ Cardinality(Inserted) <= calls.inserts
      /\ Cardinality(Inserted) \in Nat
  BY FS_CardinalityType DEF CopyShape, InsertedShape
<1>5. /\ IsFiniteSet(Inserted')
      /\ Cardinality(Inserted') =
           IF id \in Inserted THEN Cardinality(Inserted) ELSE Cardinality(Inserted) + 1
  BY <1>3, <1>4, FS_AddElement
<1>6. Held' = Held /\ \A i : Copies(i)' = Copies(i)
  BY <1>2 DEF Held, Copies
<1>7. InsertedShape'
  <2>1. \A u \in Threads : pc'[u] \in Inserting \ {"init"} => ver'[job'[u].id] # 0
    BY <1>2 DEF CopyShape, InsertedShape
  <2>2. \A e \in Held' : ver'[e.id] # 0
    BY <1>2, <1>6 DEF CopyShape, InsertedShape
  <2>3. Cardinality(Inserted') <= calls'.inserts
    BY <1>2, <1>4, <1>5
  <2> QED BY <2>1, <2>2, <2>3, <1>5 DEF InsertedShape
<1>8. ASSUME Once'
      PROVE  OneVector' /\ FewCopies'
  <2>1. id \notin Inserted /\ Once
    <3>1. calls'.inserts = Cardinality(Inserted')
      BY <1>8 DEF Once, Inserted
    <3>2. id \notin Inserted /\ calls.inserts = Cardinality(Inserted)
      <4>1. PICK n, m \in Nat : n = calls.inserts /\ m = Cardinality(Inserted)
        BY <1>2, <1>4
      <4>2. m <= n /\ n + 1 = (IF id \in Inserted THEN m ELSE m + 1)
        BY <4>1, <3>1, <1>2, <1>4, <1>5
      <4> QED BY <4>1, <4>2
    <3> QED BY <3>2 DEF Once, Inserted
  <2>2. OneVector /\ FewCopies
    BY <2>1 DEF CopyShape
  <2>3. ver[id] = 0 /\ \A u \in Threads : pc[u] \in Inserting => job[u].id # id
    <3>1. ver[id] = 0 /\ \A u \in Threads : pc[u] = "init" => job[u].id # id
      BY <2>1 DEF Inserted
    <3> QED BY <3>1 DEF CopyShape, InsertedShape
  <2>4. \A e \in Held : e.id # id
    BY <2>3 DEF CopyShape, InsertedShape
  <2>5. \A u, v \in Threads :
          u # v /\ pc'[u] \in Inserting /\ pc'[v] \in Inserting => job'[u].id # job'[v].id
    BY <1>2, <2>2, <2>3 DEF OneVector
  <2>6. /\ \A e \in Held' : e.ver <= ver'[e.id]
        /\ \A e, f \in Held' : e.id = f.id => e.vec = f.vec
    BY <2>2, <1>2, <1>6 DEF OneVector
  <2>7. \A u \in Threads : pc'[u] \in {"init", "head", "place"} =>
          \A e \in Held' : e.id # job'[u].id
    BY <2>2, <2>4, <1>2, <1>6 DEF OneVector
  <2>8. \A u \in Threads : Reading(u)' =>
          /\ stamp'[u] = ver'[job'[u].id] /\ Reading(u) /\ job'[u] = job[u]
          /\ \A e \in Held' : e.id = job'[u].id => e.vec = job'[u].vec
    BY <2>2, <1>2, <1>6 DEF OneVector, Reading
  <2>9. OneVector'
    BY <2>5, <2>6, <2>7, <2>8 DEF OneVector
  <2>10. FewCopies'
    <3>1. \A i \in Ids : Cardinality(Copies(i)') <= ReplicaCount
      BY <2>2, <1>6 DEF FewCopies
    <3>2. ASSUME NEW u \in Threads, Reading(u)'
          PROVE  Cardinality(Copies(job[u].id))' + Cardinality(targets'[u]) <= ReplicaCount
      <4>1. PICK i : i = job[u].id
        OBVIOUS
      <4>2. Copies(job[u].id)' = Copies(i)'
        BY <4>1, <2>8, <3>2 DEF Copies
      <4>3. Cardinality(Copies(i)) + Cardinality(targets[u]) <= ReplicaCount
        BY <4>1, <2>2, <2>8, <3>2 DEF FewCopies
      <4> QED BY <4>2, <4>3, <1>2, <1>6
    <3> QED BY <3>1, <3>2 DEF FewCopies
  <2> QED BY <2>9, <2>10
<1> QED BY <1>7, <1>8 DEF CopyShape

\* initialize changes the version of an id that has no entries yet.
LEMMA CopyInitialize ==
  ASSUME IInv, CopyShape, NEW t \in Threads, Initialize(t)
  PROVE  CopyShape'
<1>1. /\ pc \in [Threads -> {"idle", "init", "head", "place", "append", "measure",
                              "oversized", "split", "reassign", "read", "filter"}]
      /\ ver \in [Ids -> Versions] /\ job[t].id \in Ids
  BY DEF IInv, TypeOK, JobHeld, Initialize, Inserting
<1> DEFINE i == job[t].id
<1>2. /\ pc[t] = "init" /\ pc'[t] \in {"head", "place"} /\ ver'[i] = 1
      /\ \A u \in Threads \ {t} : pc'[u] = pc[u]
      /\ \A id \in Ids \ {i} : ver'[id] = ver[id]
      /\ UNCHANGED <<postings, cands, job, stamp, targets, calls>>
  BY <1>1 DEF Initialize, Goto, index, insertVars, splitVars
<1>3. Inserted' = Inserted
  <2>1. ASSUME NEW id \in Ids
        PROVE  id \in Inserted' <=> id \in Inserted
    BY <1>1, <1>2 DEF Inserted
  <2> QED BY <2>1 DEF Inserted
<1>4. Held' = Held /\ \A e \in Held : e \in Entry /\ e.id \in Ids
  BY <1>2 DEF Held, Entry
<1>5. Once' <=> Once
  BY <1>2, <1>3 DEF Once, Inserted
<1>6. InsertedShape'
  <2>1. \A u \in Threads : pc'[u] \in Inserting \ {"init"} => ver'[job'[u].id] # 0
    <3> SUFFICES ASSUME NEW u \in Threads, pc'[u] \in Inserting \ {"init"}
                 PROVE  ver'[job[u].id] # 0
      BY <1>2
    <3>1. CASE job[u].id = i
      BY <1>2, <3>1
    <3>2. CASE job[u].id # i
      <4>1. pc[u] \in Inserting \ {"init"} /\ job[u].id \in Ids
        BY <1>2, <3>2 DEF IInv, JobHeld
      <4> QED BY <4>1, <3>2, <1>2 DEF CopyShape, InsertedShape
    <3> QED BY <3>1, <3>2
  <2>2. \A e \in Held' : ver'[e.id] # 0
    BY <1>2, <1>4 DEF CopyShape, InsertedShape
  <2>3. IsFiniteSet(Inserted') /\ Cardinality(Inserted') <= calls'.inserts
    BY <1>2, <1>3 DEF CopyShape, InsertedShape
  <2> QED BY <2>1, <2>2, <2>3 DEF InsertedShape
<1>7. ASSUME Once'
      PROVE  OneVector' /\ FewCopies'
  <2>1. OneVector /\ FewCopies
    BY <1>5, <1>7 DEF CopyShape
  <2>2. /\ \A e \in Held : e.id # i
        /\ \A u \in Threads \ {t} : pc[u] \in Inserting => job[u].id # i /\ job[u].id \in Ids
    BY <2>1, <1>2 DEF OneVector, Inserting, IInv, JobHeld
  <2>3. \A u, v \in Threads :
          u # v /\ pc'[u] \in Inserting /\ pc'[v] \in Inserting => job'[u].id # job'[v].id
    BY <2>1, <1>2 DEF OneVector, Inserting
  <2>4. /\ \A e \in Held' : e.ver <= ver'[e.id]
        /\ \A e, f \in Held' : e.id = f.id => e.vec = f.vec
    BY <2>1, <2>2, <1>2, <1>4 DEF OneVector
  <2>5. \A u \in Threads : pc'[u] \in {"init", "head", "place"} =>
          \A e \in Held' : e.id # job'[u].id
    BY <2>1, <2>2, <1>2, <1>4 DEF OneVector
  <2>6. \A u \in Threads : Reading(u)' =>
          /\ Reading(u) /\ job[u].id \in Ids \ {i}
          /\ stamp'[u] = ver'[job'[u].id]
          /\ \A e \in Held' : e.id = job'[u].id => e.vec = job'[u].vec
    <3> SUFFICES ASSUME NEW u \in Threads, Reading(u)'
                 PROVE  /\ Reading(u) /\ job[u].id \in Ids \ {i}
                        /\ stamp'[u] = ver'[job'[u].id]
                        /\ \A e \in Held' : e.id = job'[u].id => e.vec = job'[u].vec
      OBVIOUS
    <3>1. Reading(u) /\ job[u].id \in Ids \ {i}
      BY <1>2, <2>2 DEF Reading, Inserting
    <3> QED BY <3>1, <2>1, <1>2, <1>4 DEF OneVector
  <2>7. OneVector'
    BY <2>3, <2>4, <2>5, <2>6 DEF OneVector
  <2>8. ASSUME NEW id
        PROVE  IF id \in Ids \ {i} THEN Copies(id)' = Copies(id) ELSE Copies(id)' = {}
    <3>1. \A h \in DOMAIN postings : \A e \in postings[h] : e \in Held
      BY DEF Held, IInv, TypeOK
    <3>2. CASE id \in Ids \ {i}
      BY <3>2, <1>2 DEF Copies
    <3>3. CASE id \notin Ids \ {i}
      BY <3>1, <3>3, <2>2, <1>2, <1>4 DEF Copies
    <3> QED BY <3>2, <3>3
  <2>9. FewCopies'
    <3>1. Cardinality({}) = 0 /\ ReplicaCount \in Nat
      BY FS_EmptySet, ReplicaAssumption
    <3>2. ASSUME NEW id \in Ids
          PROVE  Cardinality(Copies(id)') <= ReplicaCount
      <4>1. CASE id = i
        BY <4>1, <2>8, <3>1
      <4>2. CASE id # i
        <5>1. Copies(id)' = Copies(id)
          BY <4>2, <2>8
        <5> QED BY <5>1, <2>1 DEF FewCopies
      <4> QED BY <4>1, <4>2
    <3>3. ASSUME NEW u \in Threads, Reading(u)'
          PROVE  Cardinality(Copies(job[u].id))' + Cardinality(targets'[u]) <= ReplicaCount
      <4>1. PICK id : id = job[u].id
        OBVIOUS
      <4>2. Copies(job[u].id)' = Copies(id)'
        BY <4>1, <1>2 DEF Copies
      <4>3. Cardinality(Copies(id)) + Cardinality(targets[u]) <= ReplicaCount
        BY <4>1, <2>1, <2>6, <3>3 DEF FewCopies
      <4>4. Copies(id)' = Copies(id)
        BY <4>1, <2>6, <2>8, <3>3
      <4> QED BY <4>2, <4>3, <4>4, <1>2
    <3> QED BY <3>2, <3>3 DEF FewCopies
  <2> QED BY <2>7, <2>9
<1> QED BY <1>6, <1>7 DEF CopyShape

\* A vector is placed before it has any copy.
LEMMA CopyPlace ==
  ASSUME IInv, CopyShape, NEW t \in Threads, Place(t)
  PROVE  CopyShape'
<1>1. /\ pc \in [Threads -> {"idle", "init", "head", "place", "append", "measure",
                              "oversized", "split", "reassign", "read", "filter"}]
      /\ targets \in [Threads -> SUBSET Nat] /\ stamp \in [Threads -> Versions]
  BY DEF IInv, TypeOK
<1> DEFINE i == job[t].id
<1>2. PICK S \in Placements(heads) : targets' = [targets EXCEPT ![t] = S]
  BY DEF Place
<1>3. /\ pc[t] = "place" /\ pc'[t] = "append" /\ stamp'[t] = ver[i] /\ targets'[t] = S
      /\ \A u \in Threads \ {t} :
           pc'[u] = pc[u] /\ stamp'[u] = stamp[u] /\ targets'[u] = targets[u]
      /\ UNCHANGED <<postings, ver, cands, job, calls>>
  BY <1>1, <1>2 DEF Place, Goto, index, version, splitVars
<1>4. Inserted' = Inserted
  BY <1>3, InsertedSame
<1>5. Held' = Held /\ \A id : Copies(id)' = Copies(id)
  BY <1>3 DEF Held, Copies
<1>6. Once' <=> Once
  BY <1>3, <1>4 DEF Once, Inserted
<1>7. InsertedShape'
  <2>1. \A u \in Threads : pc'[u] \in Inserting \ {"init"} => ver'[job'[u].id] # 0
    BY <1>3 DEF CopyShape, InsertedShape, Inserting
  <2>2. \A e \in Held' : ver'[e.id] # 0
    BY <1>3, <1>5 DEF CopyShape, InsertedShape
  <2>3. IsFiniteSet(Inserted') /\ Cardinality(Inserted') <= calls'.inserts
    BY <1>3, <1>4 DEF CopyShape, InsertedShape
  <2> QED BY <2>1, <2>2, <2>3 DEF InsertedShape
<1>8. ASSUME Once'
      PROVE  OneVector' /\ FewCopies'
  <2>1. OneVector /\ FewCopies
    BY <1>6, <1>8 DEF CopyShape
  <2>2. \A e \in Held : e.id # i
    BY <2>1, <1>3 DEF OneVector
  <2>3. \A u, v \in Threads :
          u # v /\ pc'[u] \in Inserting /\ pc'[v] \in Inserting => job'[u].id # job'[v].id
    BY <2>1, <1>3 DEF OneVector, Inserting
  <2>4. /\ \A e \in Held' : e.ver <= ver'[e.id]
        /\ \A e, f \in Held' : e.id = f.id => e.vec = f.vec
    BY <2>1, <1>3, <1>5 DEF OneVector
  <2>5. \A u \in Threads : pc'[u] \in {"init", "head", "place"} =>
          \A e \in Held' : e.id # job'[u].id
    BY <2>1, <1>3, <1>5 DEF OneVector
  <2>6. \A u \in Threads : Reading(u)' =>
          /\ stamp'[u] = ver'[job'[u].id]
          /\ \A e \in Held' : e.id = job'[u].id => e.vec = job'[u].vec
    BY <2>1, <2>2, <1>3, <1>5 DEF OneVector, Reading
  <2>7. OneVector'
    BY <2>3, <2>4, <2>5, <2>6 DEF OneVector
  <2>8. Copies(i) = {}
    <3>1. \A h \in DOMAIN postings : \A e \in postings[h] : e \in Held
      BY DEF Held, IInv, TypeOK
    <3> QED BY <3>1, <2>2 DEF Copies
  <2>9. FewCopies'
    <3>1. Cardinality({}) = 0 /\ ReplicaCount \in Nat
          /\ Cardinality(S) <= ReplicaCount /\ Cardinality(S) \in Nat
      BY FS_EmptySet, ReplicaAssumption DEF Placements
    <3>2. \A id \in Ids : Cardinality(Copies(id)') <= ReplicaCount
      BY <2>1, <1>5 DEF FewCopies
    <3>3. ASSUME NEW u \in Threads, Reading(u)'
          PROVE  Cardinality(Copies(job[u].id))' + Cardinality(targets'[u]) <= ReplicaCount
      <4>1. PICK id : id = job[u].id
        OBVIOUS
      <4>2. Copies(job[u].id)' = Copies(id)'
        BY <4>1, <1>3 DEF Copies
      <4>3. CASE u = t
        <5>1. Copies(id)' = {}
          BY <4>1, <4>3, <2>8, <1>5
        <5> QED BY <5>1, <4>2, <4>3, <3>1, <1>3
      <4>4. CASE u # t
        <5>1. Cardinality(Copies(id)) + Cardinality(targets[u]) <= ReplicaCount
          BY <4>1, <4>4, <2>1, <1>3, <3>3 DEF FewCopies, Reading
        <5> QED BY <5>1, <4>2, <4>4, <1>3, <1>5
      <4> QED BY <4>3, <4>4
    <3> QED BY <3>2, <3>3 DEF FewCopies
  <2> QED BY <2>7, <2>9
<1> QED BY <1>7, <1>8 DEF CopyShape

\* What an append adds, and where.
LEMMA AppendedNew ==
  ASSUME NEW ps, NEW S, NEW e, NEW h \in DOMAIN Appended(ps, S, e), NEW x \in Appended(ps, S, e)[h]
  PROVE  (h \in S /\ x = e) \/ (h \in DOMAIN ps /\ x \in ps[h])
<1>1. h \in DOMAIN ps \cup S
  BY DEF Appended
<1>2. x \in (IF h \in DOMAIN ps THEN ps[h] ELSE {}) \cup (IF h \in S THEN {e} ELSE {})
  BY <1>1 DEF Appended
<1>3. CASE x \in (IF h \in DOMAIN ps THEN ps[h] ELSE {})
  <2>1. h \in DOMAIN ps
    BY <1>3
  <2> QED BY <1>3, <2>1
<1>4. CASE x \in (IF h \in S THEN {e} ELSE {})
  <2>1. h \in S
    BY <1>4
  <2> QED BY <1>4, <2>1
<1> QED BY <1>2, <1>3, <1>4

\* One more element.
LEMMA OneMore ==
  ASSUME NEW S, IsFiniteSet(S), NEW x
  PROVE  /\ IsFiniteSet(S \cup {x})
         /\ Cardinality(S) \in Nat /\ Cardinality(S \cup {x}) \in Nat
         /\ Cardinality(S \cup {x}) <= Cardinality(S) + 1
<1>1. Cardinality(S) \in Nat
  BY FS_CardinalityType
<1>2. /\ IsFiniteSet(S \cup {x})
      /\ \/ Cardinality(S \cup {x}) = Cardinality(S)
         \/ Cardinality(S \cup {x}) = Cardinality(S) + 1
  BY FS_AddElement
<1> QED BY <1>1, <1>2

\* An append adds a copy where one was still to come.
LEMMA CopyAppend ==
  ASSUME IInv, CopyShape, NEW t \in Threads, NEW h \in targets[t], AppendTo(t, h)
  PROVE  CopyShape'
<1>1. /\ pc \in [Threads -> {"idle", "init", "head", "place", "append", "measure",
                              "oversized", "split", "reassign", "read", "filter"}]
      /\ targets \in [Threads -> SUBSET Nat] /\ stamp \in [Threads -> Versions]
  BY DEF IInv, TypeOK
<1> DEFINE i == job[t].id
           x == [id |-> i, ver |-> stamp[t], vec |-> job[t].vec]
<1>2. /\ pc[t] = "append" /\ pc'[t] = "measure" /\ targets'[t] = targets[t] \ {h}
      /\ \A u \in Threads \ {t} : pc'[u] = pc[u] /\ targets'[u] = targets[u]
      /\ UNCHANGED <<ver, stamp, cands, job, calls>>
      /\ postings' = Appended(postings, {h}, x)
  BY <1>1 DEF AppendTo, Goto, version
<1>3. x \in Entry /\ x.id = i /\ x.ver = stamp[t] /\ x.vec = job[t].vec /\ i \in Ids
  BY <1>1, <1>2 DEF IInv, JobHeld, Inserting, Entry
<1> HIDE DEF x
<1>4. \A g \in DOMAIN postings' : \A e \in postings'[g] :
        (g = h /\ e = x) \/ (g \in DOMAIN postings /\ e \in postings[g])
  BY <1>2, AppendedNew
<1>5. Held' \subseteq Held \cup {x}
  BY <1>2, <1>4 DEF Held
<1>6. Inserted' = Inserted
  BY <1>2, InsertedSame
<1>7. Once' <=> Once
  BY <1>2, <1>6 DEF Once, Inserted
<1>8. InsertedShape'
  <2>1. \A u \in Threads : pc'[u] \in Inserting \ {"init"} => ver'[job'[u].id] # 0
    BY <1>2 DEF CopyShape, InsertedShape, Inserting
  <2>2. ver[i] # 0
    BY <1>2 DEF CopyShape, InsertedShape, Inserting
  <2>3. \A e \in Held' : ver'[e.id] # 0
    BY <2>2, <1>2, <1>3, <1>5 DEF CopyShape, InsertedShape
  <2>4. IsFiniteSet(Inserted') /\ Cardinality(Inserted') <= calls'.inserts
    BY <1>2, <1>6 DEF CopyShape, InsertedShape
  <2> QED BY <2>1, <2>3, <2>4 DEF InsertedShape
<1>9. ASSUME Once'
      PROVE  OneVector' /\ FewCopies'
  <2>1. OneVector /\ FewCopies
    BY <1>7, <1>9 DEF CopyShape
  <2>2. /\ Reading(t) /\ stamp[t] = ver[i] /\ \A e \in Held : e.id = i => e.vec = job[t].vec
        /\ \A u \in Threads \ {t} : pc[u] \in Inserting => job[u].id # i
    BY <2>1, <1>2 DEF OneVector, Reading, Inserting
  <2>3. \A u, v \in Threads :
          u # v /\ pc'[u] \in Inserting /\ pc'[v] \in Inserting => job'[u].id # job'[v].id
    BY <2>1, <1>2 DEF OneVector, Inserting
  <2>4. \A e \in Held' : e.ver <= ver'[e.id]
    <3>1. x.ver <= ver[x.id]
      <4>1. ver[i] \in Nat
        BY <1>3, MaskAssumption DEF IInv, TypeOK, Versions, MaskAssumption
      <4> QED BY <4>1, <2>2, <1>3
    <3> QED BY <3>1, <2>1, <1>2, <1>5 DEF OneVector
  <2>5. \A e, f \in Held' : e.id = f.id => e.vec = f.vec
    BY <2>1, <2>2, <1>2, <1>3, <1>5 DEF OneVector
  <2>6. \A u \in Threads : pc'[u] \in {"init", "head", "place"} =>
          \A e \in Held' : e.id # job'[u].id
    <3> SUFFICES ASSUME NEW u \in Threads, pc'[u] \in {"init", "head", "place"}, NEW e \in Held'
                 PROVE  e.id # job[u].id
      BY <1>2
    <3>1. u # t /\ pc[u] \in {"init", "head", "place"} /\ pc[u] \in Inserting
      BY <1>2 DEF Inserting
    <3> QED BY <3>1, <2>1, <2>2, <1>3, <1>5 DEF OneVector
  <2>7. \A u \in Threads : Reading(u)' =>
          /\ stamp'[u] = ver'[job'[u].id] /\ Reading(u)
          /\ \A e \in Held' : e.id = job'[u].id => e.vec = job'[u].vec
    <3> SUFFICES ASSUME NEW u \in Threads, Reading(u)'
                 PROVE  /\ stamp[u] = ver[job[u].id] /\ Reading(u)
                        /\ \A e \in Held' : e.id = job[u].id => e.vec = job[u].vec
      BY <1>2
    <3>1. Reading(u) /\ pc[u] \in Inserting
      BY <1>2, <2>2 DEF Reading, Inserting
    <3>2. u # t => x.id # job[u].id
      BY <3>1, <2>2, <1>3
    <3>3. stamp[u] = ver[job[u].id] /\ \A e \in Held : e.id = job[u].id => e.vec = job[u].vec
      BY <3>1, <2>1 DEF OneVector
    <3> QED BY <3>1, <3>2, <3>3, <1>3, <1>5
  <2>8. OneVector'
    BY <2>3, <2>4, <2>5, <2>6, <2>7 DEF OneVector
  <2>9. ASSUME NEW id \in Ids
        PROVE  /\ id # i => Copies(id)' \subseteq Copies(id)
               /\ Copies(id)' \subseteq Copies(id) \cup {h}
    BY <1>2, <1>3, <1>4 DEF Copies
  <2>10. ASSUME NEW id \in Ids
         PROVE  /\ Cardinality(Copies(id)') \in Nat /\ Cardinality(Copies(id)) \in Nat
                /\ id # i => Cardinality(Copies(id)') <= Cardinality(Copies(id))
                /\ Cardinality(Copies(id)') <= Cardinality(Copies(id)) + 1
    <3>1. IsFiniteSet(Copies(id)) /\ Cardinality(Copies(id)) \in Nat
      BY CopiesFinite
    <3>2. /\ IsFiniteSet(Copies(id) \cup {h})
          /\ Cardinality(Copies(id) \cup {h}) <= Cardinality(Copies(id)) + 1
          /\ Cardinality(Copies(id) \cup {h}) \in Nat
      BY <3>1, OneMore
    <3>3. /\ IsFiniteSet(Copies(id)')
          /\ Cardinality(Copies(id)') <= Cardinality(Copies(id) \cup {h})
          /\ Cardinality(Copies(id)') \in Nat
      BY <3>2, <2>9, FS_Subset, FS_CardinalityType
    <3>4. id # i => Cardinality(Copies(id)') <= Cardinality(Copies(id))
      BY <3>1, <2>9, FS_Subset
    <3> QED BY <3>1, <3>2, <3>3, <3>4
  <2>11. /\ Cardinality(targets[t] \ {h}) = Cardinality(targets[t]) - 1
         /\ \A u \in Threads : Reading(u) => Cardinality(targets[u]) \in Nat
         /\ Cardinality(targets[t]) # 0
    <3>1. \A u \in Threads : Reading(u) => IsFiniteSet(targets[u])
      BY DEF IInv, GrowthShape, GrowthOf, Reading
    <3>2. IsFiniteSet(targets[t]) /\ targets[t] # {}
      BY <3>1, <2>2
    <3> QED BY <3>1, <3>2, FS_RemoveElement, FS_CardinalityType, FS_EmptySet
  <2>12. \A u \in Threads : Reading(u)' => Reading(u) /\ job[u].id \in Ids /\ (u # t => job[u].id # i)
    BY <2>2, <2>7, <1>2 DEF IInv, JobHeld, Reading, Inserting
  <2>13. ReplicaCount \in Nat
    BY ReplicaAssumption
  <2>14. FewCopies'
    <3>1. ASSUME NEW u \in Threads, Reading(u)'
          PROVE  Cardinality(Copies(job[u].id))' + Cardinality(targets'[u]) <= ReplicaCount
      <4>1. PICK id \in Ids : id = job[u].id
        BY <2>12, <3>1
      <4>2. Copies(job[u].id)' = Copies(id)'
        BY <4>1, <1>2 DEF Copies
      <4>3. Cardinality(Copies(id)) + Cardinality(targets[u]) <= ReplicaCount
        BY <4>1, <2>1, <2>12, <3>1 DEF FewCopies
      <4>4. Cardinality(targets[u]) \in Nat
        BY <2>11, <2>12, <3>1
      <4>5. CASE u = t
        BY <4>2, <4>3, <4>4, <4>5, <2>10, <2>11, <2>13, <1>2
      <4>6. CASE u # t
        BY <4>1, <4>2, <4>3, <4>4, <4>6, <2>10, <2>12, <2>13, <1>2, <3>1
      <4> QED BY <4>5, <4>6
    <3>2. ASSUME NEW id \in Ids
          PROVE  Cardinality(Copies(id)') <= ReplicaCount
      <4>1. Cardinality(Copies(id)) <= ReplicaCount
        BY <2>1 DEF FewCopies
      <4>2. CASE id # i
        BY <4>1, <4>2, <2>10, <2>13
      <4>3. CASE id = i
        <5>1. Cardinality(Copies(id)) + Cardinality(targets[t]) <= ReplicaCount
          BY <4>3, <2>1, <2>2 DEF FewCopies
        <5>2. Cardinality(targets[t]) \in Nat /\ Cardinality(targets[t]) # 0
          BY <2>2, <2>11
        <5> QED BY <5>1, <5>2, <2>10, <2>13
      <4> QED BY <4>2, <4>3
    <3> QED BY <3>1, <3>2 DEF FewCopies
  <2> QED BY <2>8, <2>14
<1> QED BY <1>8, <1>9 DEF CopyShape

\* A split puts the copy of an id into one of its clusters.
LEMMA CopySplit ==
  ASSUME IInv, CopyShape, NEW t \in Threads, Split(t)
  PROVE  CopyShape'
<1>1. /\ pc \in [Threads -> {"idle", "init", "head", "place", "append", "measure",
                              "oversized", "split", "reassign", "read", "filter"}]
      /\ cands \in [Threads -> SUBSET (Nat \X Entry)]
      /\ nextHead \in Nat /\ DOMAIN postings \subseteq 0 .. nextHead - 1
  BY DEF IInv, TypeOK
<1>2. /\ pc[t] = "split" /\ pc'[t] = "reassign"
      /\ \A u \in Threads \ {t} : pc'[u] = pc[u] /\ cands'[u] = cands[u]
      /\ UNCHANGED <<ver, stamp, targets, job, calls>>
  BY <1>1 DEF Split, Goto, version, insertVars
<1> DEFINE h == Head(work[t])[1]
<1>3. PICK a, b, A, B : /\ postings' = [x \in (DOMAIN postings \ {h}) \cup {a, b} |->
                                         CASE x = a -> A [] x = b -> B [] OTHER -> postings[x]]
                       /\ A \cup B \subseteq Clean(h) /\ A \cap B = {}
                       /\ a \notin DOMAIN postings \ {h} /\ b \notin DOMAIN postings /\ a # b
  <2>1. PICK A \in (SUBSET Clean(h)) \ {{}, Clean(h)}, keep \in BOOLEAN :
             SplitInto(t, h, A, Clean(h) \ A, keep)
    BY DEF Split
  <2> DEFINE a == IF keep THEN h ELSE nextHead
             b == IF keep THEN nextHead ELSE nextHead + 1
             B == Clean(h) \ A
  <2>2. postings' = [x \in (DOMAIN postings \ {h}) \cup {a, b} |->
                        CASE x = a -> A [] x = b -> B [] OTHER -> postings[x]]
    BY <2>1 DEF SplitInto
  <2>3. h \in DOMAIN postings
    BY PostingAssumption DEF Split, Size
  <2> HIDE DEF h
  <2>4. a \notin DOMAIN postings \ {h} /\ b \notin DOMAIN postings /\ a # b
    BY <1>1, <2>3
  <2>5. A \cup B \subseteq Clean(h) /\ A \cap B = {}
    OBVIOUS
  <2> HIDE DEF a, b, B
  <2> QED BY <2>2, <2>4, <2>5
<1>4. h \in DOMAIN postings /\ Clean(h) \subseteq postings[h]
  BY PostingAssumption DEF Split, Size, Clean
<1> HIDE DEF h
<1>5. \A g \in DOMAIN postings' : \A e \in postings'[g] :
        \/ (g = a /\ e \in A) \/ (g = b /\ e \in B)
        \/ g \in DOMAIN postings \ {h} /\ e \in postings[g]
  <2> SUFFICES ASSUME NEW g \in DOMAIN postings', NEW e \in postings'[g]
               PROVE  \/ (g = a /\ e \in A) \/ (g = b /\ e \in B)
                      \/ g \in DOMAIN postings \ {h} /\ e \in postings[g]
    OBVIOUS
  <2>1. g \in (DOMAIN postings \ {h}) \cup {a, b}
    BY <1>3
  <2>2. CASE g = a
    <3>1. postings'[a] = A
      BY <1>3
    <3>2. e \in postings'[a]
      BY <2>2
    <3> QED BY <2>2, <3>1, <3>2
  <2>3. CASE g = b
    <3>1. postings'[b] = B
      BY <1>3
    <3>2. e \in postings'[b]
      BY <2>3
    <3> QED BY <2>3, <3>1, <3>2
  <2>4. CASE g # a /\ g # b
    <3>1. postings'[g] = postings[g]
      BY <1>3, <2>1, <2>4
    <3> QED BY <2>1, <2>4, <3>1
  <2> QED BY <2>2, <2>3, <2>4
<1>6. \A g \in DOMAIN postings' : \A e \in postings'[g] : \E f \in DOMAIN postings : e \in postings[f]
  BY <1>3, <1>4, <1>5
<1>7. \A u \in Threads : \A c \in cands'[u] :
        c \in cands[u] \/ \E f \in DOMAIN postings : c[2] \in postings[f]
  <2>1. PICK V, near : cands' = [cands EXCEPT ![t] = Candidates(V, near)]
    BY DEF Split
  <2>2. ASSUME NEW c \in Candidates(V, near)
        PROVE  \E f \in DOMAIN postings : c[2] \in postings[f]
    <3>1. PICK g \in DOMAIN postings' : c \in {g} \X postings'[g]
      BY DEF Candidates
    <3>2. c[2] \in postings'[g]
      BY <3>1
    <3> QED BY <3>2, <1>6
  <2>3. cands'[t] = Candidates(V, near)
    BY <2>1, <1>1
  <2> QED BY <2>2, <2>3, <1>2
<1>8. Held' \subseteq Held
  BY <1>6, <1>7 DEF Held
<1>9. Inserted' = Inserted
  BY <1>2, InsertedSame
<1>10. Once' <=> Once
  BY <1>2, <1>9 DEF Once, Inserted
<1>11. \A u \in Threads : ~Reading(u) /\ ~Reading(u)'
  BY <1>1, <1>2 DEF IInv, LocksExclude, Splitting, Reading
<1>12. InsertedShape'
  <2>1. \A u \in Threads : pc'[u] \in Inserting \ {"init"} => ver'[job'[u].id] # 0
    BY <1>2 DEF CopyShape, InsertedShape, Inserting
  <2>2. \A e \in Held' : ver'[e.id] # 0
    BY <1>2, <1>8 DEF CopyShape, InsertedShape
  <2>3. IsFiniteSet(Inserted') /\ Cardinality(Inserted') <= calls'.inserts
    BY <1>2, <1>9 DEF CopyShape, InsertedShape
  <2> QED BY <2>1, <2>2, <2>3 DEF InsertedShape
<1>13. ASSUME Once'
       PROVE  OneVector' /\ FewCopies'
  <2>1. OneVector /\ FewCopies
    BY <1>10, <1>13 DEF CopyShape
  <2>2. \A u, v \in Threads :
          u # v /\ pc'[u] \in Inserting /\ pc'[v] \in Inserting => job'[u].id # job'[v].id
    BY <2>1, <1>2 DEF OneVector, Inserting
  <2>3. /\ \A e \in Held' : e.ver <= ver'[e.id]
        /\ \A e, f \in Held' : e.id = f.id => e.vec = f.vec
    BY <2>1, <1>2, <1>8 DEF OneVector
  <2>4. \A u \in Threads : pc'[u] \in {"init", "head", "place"} =>
          \A e \in Held' : e.id # job'[u].id
    <3> SUFFICES ASSUME NEW u \in Threads, pc'[u] \in {"init", "head", "place"}, NEW e \in Held'
                 PROVE  e.id # job[u].id
      BY <1>2
    <3>1. pc[u] \in {"init", "head", "place"} /\ e \in Held
      BY <1>2, <1>8
    <3> QED BY <3>1, <2>1 DEF OneVector
  <2>5. OneVector'
    BY <2>2, <2>3, <2>4, <1>11 DEF OneVector
  <2>6. ASSUME NEW id \in Ids
        PROVE  Cardinality(Copies(id)') <= Cardinality(Copies(id))
    <3>1. IsFiniteSet(Copies(id)) /\ Cardinality(Copies(id)) \in Nat
      BY CopiesFinite
    <3> DEFINE C == {e \in Clean(h) : e.id = id /\ e.ver = ver[id]}
    <3>2. \A e, f \in C : e = f
      <4> SUFFICES ASSUME NEW e \in C, NEW f \in C
                   PROVE  e = f
        OBVIOUS
      <4>1. e \in Entry /\ f \in Entry /\ e \in Held /\ f \in Held
        BY <1>4 DEF Held, IInv, TypeOK
      <4>2. e.id = f.id /\ e.ver = f.ver /\ e.vec = f.vec
        BY <4>1, <2>1 DEF OneVector
      <4> QED BY <4>1, <4>2 DEF Entry
    <3>3. ASSUME NEW g \in Copies(id)'
          PROVE  \/ g \in Copies(id) \ {h}
                 \/ g = a /\ C \cap A # {}
                 \/ g = b /\ C \cap B # {}
      <4>1. PICK e \in postings'[g] : g \in DOMAIN postings' /\ e.id = id /\ e.ver = ver[id]
        BY <1>2 DEF Copies
      <4>2. CASE (g = a /\ e \in A) \/ (g = b /\ e \in B)
        BY <4>1, <4>2, <1>3
      <4>3. CASE g \in DOMAIN postings \ {h} /\ e \in postings[g]
        BY <4>1, <4>3 DEF Copies
      <4> QED BY <4>1, <4>2, <4>3, <1>5
    <3>4. CASE C = {}
      <4>1. Copies(id)' \subseteq Copies(id)
        BY <3>3, <3>4
      <4> QED BY <4>1, <3>1, FS_Subset
    <3>5. CASE C # {}
      <4>1. PICK g \in {a, b} : Copies(id)' \subseteq (Copies(id) \ {h}) \cup {g}
        <5>1. PICK e : C = {e}
          BY <3>2, <3>5
        <5> HIDE DEF C
        <5>2. C \cap A = {} \/ C \cap B = {}
          BY <5>1, <1>3
        <5> QED BY <5>2, <3>3
      <4>2. h \in Copies(id)
        BY <3>5, <1>4 DEF Copies
      <4>3. /\ IsFiniteSet(Copies(id) \ {h})
            /\ Cardinality(Copies(id) \ {h}) = Cardinality(Copies(id)) - 1
        BY <3>1, <4>2, FS_RemoveElement
      <4>4. /\ IsFiniteSet((Copies(id) \ {h}) \cup {g})
            /\ Cardinality((Copies(id) \ {h}) \cup {g}) <= Cardinality(Copies(id))
            /\ Cardinality((Copies(id) \ {h}) \cup {g}) \in Nat
        <5>1. Cardinality((Copies(id) \ {h}) \cup {g}) <= Cardinality(Copies(id) \ {h}) + 1
          BY <4>3, OneMore
        <5>2. /\ IsFiniteSet((Copies(id) \ {h}) \cup {g})
              /\ Cardinality((Copies(id) \ {h}) \cup {g}) \in Nat
          BY <4>3, OneMore
        <5> QED BY <5>1, <5>2, <4>3, <3>1
      <4>5. /\ Cardinality(Copies(id)') <= Cardinality((Copies(id) \ {h}) \cup {g})
            /\ Cardinality(Copies(id)') \in Nat
        BY <4>1, <4>4, FS_Subset, FS_CardinalityType
      <4> QED BY <3>1, <4>4, <4>5
    <3> QED BY <3>4, <3>5
  <2>7. FewCopies'
    <3>1. ASSUME NEW id \in Ids
          PROVE  Cardinality(Copies(id)') <= ReplicaCount
      <4>1. Cardinality(Copies(id)) <= ReplicaCount /\ Cardinality(Copies(id)) \in Nat
        BY <2>1, CopiesFinite DEF FewCopies
      <4>2. Cardinality(Copies(id)') <= Cardinality(Copies(id))
        BY <2>6
      <4>3. Cardinality(Copies(id)') \in Nat /\ ReplicaCount \in Nat
        <5>1. Copies(id)' \subseteq Copies(id) \cup {a, b}
          BY <1>2, <1>5 DEF Copies
        <5>2. IsFiniteSet(Copies(id) \cup {a, b})
          <6>1. IsFiniteSet((Copies(id) \cup {a}) \cup {b})
            BY CopiesFinite, FS_AddElement
          <6>2. (Copies(id) \cup {a}) \cup {b} = Copies(id) \cup {a, b}
            OBVIOUS
          <6> QED BY <6>1, <6>2
        <5> QED BY <5>1, <5>2, FS_Subset, FS_CardinalityType, ReplicaAssumption
      <4> QED BY <4>1, <4>2, <4>3
    <3> QED BY <3>1, <1>11 DEF FewCopies
  <2> QED BY <2>5, <2>7
<1> QED BY <1>12, <1>13 DEF CopyShape

\* A reassignment makes all older copies of its id garbage; it is about an id
\* that no insert has still to place.
LEMMA CopyReassign ==
  ASSUME IInv, CopyShape, Unwrapped, NEW t \in Threads, NEW c \in cands[t], Reassign(t, c)
  PROVE  CopyShape'
<1>1. /\ pc[t] = "reassign" /\ \A u \in Threads : cands'[u] \subseteq cands[u]
      /\ UNCHANGED <<pc, job, stamp, targets, calls>>
  BY DEF IInv, TypeOK, Reassign, Considered, insertVars
<1>2. CASE del[c[2].id]
  <2>1. UNCHANGED <<ver, postings>>
    BY <1>2 DEF Reassign, version
  <2>2. Quiet
    BY <1>1, <2>1 DEF Quiet, Reading
  <2> QED BY <2>2, CopyQuiet
<1>3. CASE ~del[c[2].id]
  <2>1. PICK S \in Placements(heads) : MoveTo(c[2], S)
    BY <1>3 DEF Reassign
  <2> DEFINE i == c[2].id
             x == [c[2] EXCEPT !.ver = NextVersion(i)]
  <2>2. c[2] \in Entry /\ c[2] \in Held /\ i \in Ids
    <3>1. c \in Nat \X Entry
      BY DEF IInv, TypeOK
    <3> QED BY <3>1 DEF Held, Entry
  <2>3. ver \in [Ids -> Nat] /\ ver[i] # 0
    BY <2>2, MaskAssumption DEF IInv, TypeOK, Versions, CopyShape, InsertedShape, MaskAssumption
  <2>4. NextVersion(i) = ver[i] + 1
    BY <2>2, <2>3, MaskAssumption DEF NextVersion, Unwrapped, MaskAssumption
  <2>5. /\ ver'[i] = ver[i] + 1 /\ \A id \in Ids \ {i} : ver'[id] = ver[id]
        /\ postings' = Appended(postings, S, x)
    BY <2>1, <2>2, <2>3, <2>4 DEF MoveTo
  <2>6. x.id = i /\ x.ver = ver'[i] /\ x.vec = c[2].vec
    BY <2>2, <2>4, <2>5 DEF Entry
  <2> HIDE DEF x
  <2>7. \A g \in DOMAIN postings' : \A e \in postings'[g] :
          (g \in S /\ e = x) \/ (g \in DOMAIN postings /\ e \in postings[g])
    BY <2>5, AppendedNew
  <2>8. Held' \subseteq Held \cup {x}
    BY <1>1, <2>7 DEF Held
  <2>9. \A e \in Held : e.id \in Ids
    BY DEF Held, Entry
  <2>10. \A id \in Ids : ver'[id] \in Nat /\ ver[id] <= ver'[id] /\ (ver'[id] # 0 <=> ver[id] # 0)
    BY <2>3, <2>5
  <2>11. Inserted' = Inserted
    BY <1>1, <2>10, InsertedSame
  <2>12. Once' <=> Once
    BY <1>1, <2>11 DEF Once, Inserted
  <2>13. \A u \in Threads : ~Reading(u) /\ ~Reading(u)'
    BY <1>1 DEF IInv, LocksExclude, Splitting, Reading
  <2>14. InsertedShape'
    <3>1. \A u \in Threads : pc'[u] \in Inserting \ {"init"} => ver'[job'[u].id] # 0
      BY <1>1, <2>10 DEF CopyShape, InsertedShape, IInv, JobHeld
    <3>2. \A e \in Held' : ver'[e.id] # 0
      BY <2>2, <2>3, <2>6, <2>8, <2>9, <2>10 DEF CopyShape, InsertedShape
    <3>3. IsFiniteSet(Inserted') /\ Cardinality(Inserted') <= calls'.inserts
      BY <1>1, <2>11 DEF CopyShape, InsertedShape
    <3> QED BY <3>1, <3>2, <3>3 DEF InsertedShape
  <2>15. ASSUME Once'
         PROVE  OneVector' /\ FewCopies'
    <3>1. OneVector /\ FewCopies
      BY <2>12, <2>15 DEF CopyShape
    <3>2. \A u, v \in Threads :
            u # v /\ pc'[u] \in Inserting /\ pc'[v] \in Inserting => job'[u].id # job'[v].id
      BY <3>1, <1>1 DEF OneVector
    <3>3. \A e \in Held' : e.ver <= ver'[e.id]
      <4> SUFFICES ASSUME NEW e \in Held'
                   PROVE  e.ver <= ver'[e.id]
        OBVIOUS
      <4>1. CASE e = x
        BY <4>1, <2>2, <2>6, <2>10
      <4>2. CASE e \in Held
        <5>1. e.ver \in Nat /\ e.id \in Ids
          BY <4>2, MaskAssumption DEF Held, Entry, Versions, MaskAssumption
        <5>2. e.ver <= ver[e.id]
          BY <4>2, <3>1 DEF OneVector
        <5> QED BY <5>1, <5>2, <2>3, <2>10
      <4> QED BY <4>1, <4>2, <2>8
    <3>4. \A e, f \in Held' : e.id = f.id => e.vec = f.vec
      BY <3>1, <2>2, <2>6, <2>8 DEF OneVector
    <3>5. \A u \in Threads : pc'[u] \in {"init", "head", "place"} =>
            \A e \in Held' : e.id # job'[u].id
      BY <3>1, <2>2, <2>6, <2>8, <1>1 DEF OneVector
    <3>6. OneVector'
      BY <3>2, <3>3, <3>4, <3>5, <2>13 DEF OneVector
    <3>7. ASSUME NEW id \in Ids
          PROVE  Cardinality(Copies(id)') <= ReplicaCount
      <4>1. CASE id = i
        <5>1. Copies(id)' \subseteq S
          <6> SUFFICES ASSUME NEW g \in Copies(id)'
                       PROVE  g \in S
            OBVIOUS
          <6>1. PICK e \in postings'[g] : g \in DOMAIN postings' /\ e.id = i /\ e.ver = ver[i] + 1
            BY <4>1, <2>5 DEF Copies
          <6>2. ASSUME g \in DOMAIN postings, e \in postings[g]
                PROVE  FALSE
            <7>1. e \in Held
              BY <6>2 DEF Held, IInv, TypeOK
            <7>2. e.ver <= ver[i] /\ e.ver = ver[i] + 1 /\ ver[i] \in Nat
              BY <7>1, <6>1, <3>1, <2>2, <2>3 DEF OneVector
            <7> QED BY <7>2
          <6> QED BY <6>1, <6>2, <2>7
        <5>2. IsFiniteSet(S) /\ Cardinality(S) \in Nat /\ Cardinality(S) <= ReplicaCount
          <6>1. S \subseteq 0 .. nextHead - 1 /\ nextHead - 1 \in Int /\ Cardinality(S) \in 1 .. ReplicaCount
            BY DEF Placements, IInv, TypeOK
          <6>2. IsFiniteSet(0 .. nextHead - 1)
            BY <6>1, FS_Interval
          <6>3. IsFiniteSet(S)
            BY <6>1, <6>2, FS_Subset
          <6> QED BY <6>1, <6>3, ReplicaAssumption
        <5>3. Cardinality(Copies(id)') <= Cardinality(S) /\ Cardinality(Copies(id)') \in Nat
          BY <5>1, <5>2, FS_Subset, FS_CardinalityType
        <5> QED BY <5>2, <5>3, ReplicaAssumption
      <4>2. CASE id # i
        <5>1. Copies(id)' \subseteq Copies(id)
          BY <4>2, <2>5, <2>6, <2>7 DEF Copies
        <5>2. IsFiniteSet(Copies(id)) /\ Cardinality(Copies(id)) \in Nat
          BY CopiesFinite
        <5>3. Cardinality(Copies(id)') <= Cardinality(Copies(id)) /\ Cardinality(Copies(id)') \in Nat
          BY <5>1, <5>2, FS_Subset, FS_CardinalityType
        <5>4. Cardinality(Copies(id)) <= ReplicaCount
          BY <3>1 DEF FewCopies
        <5> QED BY <5>2, <5>3, <5>4, ReplicaAssumption
      <4> QED BY <4>1, <4>2
    <3>8. FewCopies'
      BY <3>7, <2>13 DEF FewCopies
    <3> QED BY <3>6, <3>8
  <2> QED BY <2>14, <2>15 DEF CopyShape
<1> QED BY <1>2, <1>3

\* Nothing is inserted at first.
LEMMA CopyInit == Init => CopyShape
<1> SUFFICES ASSUME Init
             PROVE  CopyShape
  OBVIOUS
<1>1. /\ \A t \in Threads : pc[t] = "idle" /\ cands[t] = {}
      /\ \A id \in Ids : ver[id] = 0
      /\ DOMAIN postings = {} /\ calls.inserts = 0
  BY DEF Init, Holding
<1>2. Inserted = {} /\ Held = {} /\ \A id : Copies(id) = {}
  BY <1>1 DEF Inserted, Held, Copies
<1>3. IsFiniteSet({}) /\ Cardinality({}) = 0
  BY FS_EmptySet
<1>4. InsertedShape
  BY <1>1, <1>2, <1>3 DEF InsertedShape, Inserting
<1>5. OneVector
  BY <1>1, <1>2 DEF OneVector, Inserting, Reading
<1>6. FewCopies
  <2>1. \A id \in Ids : Cardinality(Copies(id)) <= ReplicaCount
    BY <1>2, <1>3, ReplicaAssumption
  <2>2. \A t \in Threads : ~Reading(t)
    BY <1>1 DEF Reading
  <2> QED BY <2>1, <2>2 DEF FewCopies
<1> QED BY <1>4, <1>5, <1>6 DEF CopyShape

\* Every step keeps CopyShape.
LEMMA CopyNext == IInv /\ CopyShape /\ Unwrapped /\ [Next]_vars => CopyShape'
<1> SUFFICES ASSUME IInv, CopyShape, Unwrapped, [Next]_vars
             PROVE  CopyShape'
  OBVIOUS
<1>1. /\ pc \in [Threads -> {"idle", "init", "head", "place", "append", "measure",
                              "oversized", "split", "reassign", "read", "filter"}]
      /\ job \in [Threads -> [id : Ids \cup {None}, vec : 0 .. MaxInserts]]
      /\ calls \in [inserts : 0 .. MaxInserts, deletes : 0 .. MaxDeletes,
                     searches : 0 .. MaxSearches]
      /\ targets \in [Threads -> SUBSET Nat] /\ stamp \in [Threads -> Versions]
  BY DEF IInv, TypeOK
<1> USE <1>1
<1>2. ASSUME NEW t \in Threads, NEW id \in Ids, Insert(t, id)
      PROVE  CopyShape'
  BY <1>2, CopyInsert
<1>3. ASSUME NEW t \in Threads, NEW id \in Ids, Delete(t, id)
      PROVE  Quiet
  BY <1>3 DEF Delete, Quiet, Reading, index, insertVars, splitVars
<1>4. ASSUME NEW t \in Threads, Initialize(t)
      PROVE  CopyShape'
  BY <1>4, CopyInitialize
<1>5. ASSUME NEW t \in Threads, FirstHead(t)
      PROVE  Quiet
  <2>1. /\ pc[t] = "head" /\ pc' = [pc EXCEPT ![t] = "place"]
        /\ UNCHANGED <<postings, ver, calls, cands, job, stamp, targets>>
    BY <1>5 DEF FirstHead, Goto, version, insertVars, splitVars
  <2> QED BY <2>1 DEF Quiet, Reading, Inserting
<1>6. ASSUME NEW t \in Threads, Place(t)
      PROVE  CopyShape'
  BY <1>6, CopyPlace
<1>7. ASSUME NEW t \in Threads, NEW h \in targets[t], AppendTo(t, h)
      PROVE  CopyShape'
  BY <1>7, CopyAppend
<1>8. ASSUME NEW t \in Threads, Measure(t)
      PROVE  Quiet
  <2>1. /\ pc[t] = "measure"
        /\ \/ pc' = [pc EXCEPT ![t] = "append"] /\ UNCHANGED <<job, stamp>>
           \/ /\ pc' = [pc EXCEPT ![t] = "idle"]
              /\ job' = [job EXCEPT ![t] = NoJob] /\ stamp' = [stamp EXCEPT ![t] = 0]
           \/ pc' = [pc EXCEPT ![t] = "oversized"] /\ UNCHANGED <<job, stamp>>
        /\ UNCHANGED <<postings, ver, calls, cands, targets>>
    BY <1>8 DEF Measure, EndInsert, Goto, index, version
  <2> QED BY <2>1 DEF Quiet, Reading, Inserting
<1>9. ASSUME NEW t \in Threads, StartSplits(t)
      PROVE  Quiet
  <2>1. /\ pc[t] = "oversized" /\ pc' = [pc EXCEPT ![t] = "split"]
        /\ UNCHANGED <<postings, ver, calls, cands, job, stamp, targets>>
    BY <1>9 DEF StartSplits, Goto, index, version, insertVars
  <2> QED BY <2>1 DEF Quiet, Reading, Inserting
<1>10. ASSUME NEW t \in Threads, SkipHead(t)
       PROVE  Quiet
  <2>1. \/ postings' = postings
        \/ \E h \in DOMAIN postings : postings' = [postings EXCEPT ![h] = Clean(h)]
    BY <1>10, PostingAssumption DEF SkipHead, Size
  <2>2. \A h \in DOMAIN postings' : h \in DOMAIN postings /\ postings'[h] \subseteq postings[h]
    BY <2>1 DEF Clean
  <2> QED BY <1>10, <2>2 DEF SkipHead, Quiet, Reading, version, insertVars
<1>11. ASSUME NEW t \in Threads, Split(t)
       PROVE  CopyShape'
  BY <1>11, CopySplit
<1>12. ASSUME NEW t \in Threads, NEW c \in cands[t], Reassign(t, c)
       PROVE  CopyShape'
  BY <1>12, CopyReassign
<1>13. ASSUME NEW t \in Threads, EndReassign(t)
       PROVE  Quiet
  <2>1. /\ pc[t] = "reassign" /\ pc' = [pc EXCEPT ![t] = "split"]
        /\ UNCHANGED <<postings, ver, calls, cands, job, stamp, targets>>
    BY <1>13 DEF EndReassign, Goto, index, version, insertVars
  <2> QED BY <2>1 DEF Quiet, Reading, Inserting
<1>14. ASSUME NEW t \in Threads, EndSplits(t)
       PROVE  Quiet
  <2>1. /\ pc[t] = "split" /\ pc' = [pc EXCEPT ![t] = "idle"]
        /\ job' = [job EXCEPT ![t] = NoJob] /\ stamp' = [stamp EXCEPT ![t] = 0]
        /\ UNCHANGED <<postings, ver, calls, cands, targets>>
    BY <1>14 DEF EndSplits, EndInsert, Goto, index, version
  <2> QED BY <2>1 DEF Quiet, Reading, Inserting
<1>15. ASSUME NEW t \in Threads, Search(t) \/ SearchRead(t) \/ SearchReturn(t)
       PROVE  Quiet
  <2>1. /\ pc[t] \in {"idle", "read", "filter"}
        /\ \/ pc' = [pc EXCEPT ![t] = "read"] \/ pc' = [pc EXCEPT ![t] = "filter"]
           \/ pc' = [pc EXCEPT ![t] = "idle"]
        /\ UNCHANGED <<postings, ver, cands, job, stamp>>
        /\ \A u \in Threads \ {t} : targets'[u] = targets[u]
        /\ calls'.inserts = calls.inserts
    BY <1>15 DEF Search, SearchRead, SearchReturn, Goto, index, version, insertVars, splitVars
  <2> QED BY <2>1 DEF Quiet, Reading, Inserting
<1>16. ASSUME UNCHANGED vars
       PROVE  Quiet
  BY <1>16 DEF Quiet, Reading, vars, index, version, insertVars, splitVars
<1>17. Quiet => CopyShape'
  BY CopyQuiet
<1> QED
  BY <1>2, <1>3, <1>4, <1>5, <1>6, <1>7, <1>8, <1>9, <1>10, <1>11, <1>12, <1>13, <1>14,
     <1>15, <1>16, <1>17
  DEF Next, Finished

\* As long as no version of an id comes back by wrapping, no id that is
\* inserted once ever has current copies in more than replica_count heads,
\* however many threads insert, split, reassign and delete at a time.
THEOREM ReplicasBounded == Spec /\ []Unwrapped => []AtMostReplicas
<1>1. IInv /\ CopyShape => AtMostReplicas
  <2> SUFFICES ASSUME IInv, CopyShape, Once, NEW id \in Ids
               PROVE  Cardinality({h \in DOMAIN postings :
                                     \E e \in postings[h] : e.id = id /\ Current(e)}) <= ReplicaCount
    BY DEF AtMostReplicas
  <2> DEFINE C == {h \in DOMAIN postings : \E e \in postings[h] : e.id = id /\ Current(e)}
  <2>1. C \subseteq Copies(id)
    BY DEF Copies, Current
  <2>2. IsFiniteSet(Copies(id)) /\ Cardinality(Copies(id)) \in Nat
    BY CopiesFinite
  <2>3. Cardinality(C) <= Cardinality(Copies(id)) /\ Cardinality(C) \in Nat
    BY <2>1, <2>2, FS_Subset, FS_CardinalityType
  <2>4. Cardinality(Copies(id)) <= ReplicaCount
    BY DEF CopyShape, FewCopies
  <2> QED BY <2>2, <2>3, <2>4, ReplicaAssumption
<1>2. Spec => []IInv
  BY SPFreshInductive
<1> QED BY <1>1, <1>2, CopyInit, CopyNext, PTL DEF Spec
=============================================================================
