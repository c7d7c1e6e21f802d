-------------------------- MODULE HybridQuery_proofs --------------------------
(***************************************************************************)
(* Proofs about HybridQuery for any finite set of ids, any vectors, any    *)
(* length of the log, any top_k and any number of copies moved.            *)
(***************************************************************************)
EXTENDS HybridQueryInv, WalReplay_proofs, SequenceTheorems

-----------------------------------------------------------------------------
(***************************************************************************)
(* Ordering the places of a sequence.                                      *)
(***************************************************************************)

StrictOrder(I, R) ==
    /\ \A i \in I : <<i, i>> \notin R
    /\ \A i, j, l \in I : <<i, j>> \in R /\ <<j, l>> \in R => <<i, l>> \in R
    /\ \A i, j \in I : i # j => <<i, j>> \in R \/ <<j, i>> \in R

\* place lists the elements of I once each, in the order R.
Places(place, I, R) ==
    /\ place \in [1 .. Cardinality(I) -> I]
    /\ \A i \in I : \E p \in 1 .. Cardinality(I) : place[p] = i
    /\ \A p, q \in 1 .. Cardinality(I) : p < q <=> <<place[p], place[q]>> \in R
    /\ \A p, q \in 1 .. Cardinality(I) : place[p] = place[q] => p = q

\* Counting the elements before each one lists a finite set in a strict order.
LEMMA OrderedPlaces ==
  ASSUME NEW I, IsFiniteSet(I), NEW R, StrictOrder(I, R), NEW s
  PROVE  \E place : /\ Places(place, I, R)
                    /\ Ordered(s, I, R) = [p \in 1 .. Cardinality(I) |-> s[place[p]]]
<1> DEFINE n == Cardinality(I)
           Pre(i) == {j \in I : <<j, i>> \in R}
           rank == [i \in I |-> 1 + Cardinality(Pre(i))]
           At(p) == CHOOSE i \in I : 1 + Cardinality(Pre(i)) = p
           place == [p \in 1 .. n |-> At(p)]
<1>1. n \in Nat
  BY FS_CardinalityType
<1>2. ASSUME NEW i \in I
      PROVE  /\ IsFiniteSet(Pre(i)) /\ Cardinality(Pre(i)) \in Nat
             /\ rank[i] \in 1 .. n
  <2>1. Pre(i) \in SUBSET I /\ i \notin Pre(i)
    BY DEF StrictOrder
  <2>2. /\ IsFiniteSet(Pre(i)) /\ Cardinality(Pre(i)) <= n
        /\ (n = Cardinality(Pre(i)) => I = Pre(i))
    BY <2>1, FS_Subset
  <2>3. Cardinality(Pre(i)) \in Nat
    BY <2>2, FS_CardinalityType
  <2>4. Cardinality(Pre(i)) # n
    BY <2>1, <2>2
  <2> HIDE DEF Pre
  <2> QED BY <1>1, <2>2, <2>3, <2>4
<1>3. ASSUME NEW i \in I, NEW j \in I, <<i, j>> \in R
      PROVE  rank[i] < rank[j]
  <2>1. Pre(i) \in SUBSET Pre(j) /\ i \in Pre(j) /\ i \notin Pre(i)
    BY <1>3 DEF StrictOrder
  <2>2. /\ Cardinality(Pre(i)) <= Cardinality(Pre(j))
        /\ (Cardinality(Pre(j)) = Cardinality(Pre(i)) => Pre(j) = Pre(i))
    BY <1>2, <2>1, FS_Subset
  <2>3. /\ Cardinality(Pre(i)) \in Nat /\ Cardinality(Pre(j)) \in Nat
        /\ Cardinality(Pre(i)) # Cardinality(Pre(j))
    BY <1>2, <2>1, <2>2
  <2>4. rank[i] = 1 + Cardinality(Pre(i)) /\ rank[j] = 1 + Cardinality(Pre(j))
    OBVIOUS
  <2> HIDE DEF Pre, rank
  <2> QED BY <2>2, <2>3, <2>4
<1>4. \A i, j \in I : rank[i] = rank[j] => i = j
  <2> SUFFICES ASSUME NEW i \in I, NEW j \in I, rank[i] = rank[j], i # j
               PROVE  FALSE
    OBVIOUS
  <2>1. <<i, j>> \in R \/ <<j, i>> \in R
    BY DEF StrictOrder
  <2>2. rank[i] < rank[j] \/ rank[j] < rank[i]
    BY <1>3, <2>1
  <2>3. rank[i] \in Nat /\ rank[j] \in Nat
    <3>1. rank[i] \in 1 .. n /\ rank[j] \in 1 .. n
      BY <1>2
    <3> HIDE DEF rank
    <3> QED BY <3>1
  <2> HIDE DEF rank
  <2> QED BY <2>2, <2>3
<1>5. \A p \in 1 .. n : \E i \in I : rank[i] = p
  <2>1. rank \in [I -> 1 .. n]
    BY <1>2
  <2>2. rank \in Injection(I, 1 .. n)
    BY <1>4, <2>1 DEF Injection, IsInjective
  <2>3. IsFiniteSet(1 .. n) /\ Cardinality(1 .. n) = n
    <3>1. IsFiniteSet(1 .. n) /\ Cardinality(1 .. n) = IF 1 > n THEN 0 ELSE n - 1 + 1
      BY <1>1, FS_Interval
    <3> HIDE DEF n
    <3> QED BY <1>1, <3>1
  <2>4. rank \in Surjection(I, 1 .. n)
    BY <2>2, <2>3, FS_Injection
  <2> QED BY <2>4 DEF Surjection
<1>6. place \in [1 .. n -> I] /\ \A p \in 1 .. n : rank[place[p]] = p
  <2>1. ASSUME NEW p \in 1 .. n
        PROVE  At(p) \in I /\ 1 + Cardinality(Pre(At(p))) = p
    <3>1. \E i \in I : 1 + Cardinality(Pre(i)) = p
      BY <1>5
    <3> HIDE DEF Pre, n
    <3> QED BY <3>1
  <2> HIDE DEF At, Pre, n
  <2> QED BY <2>1
<1>7. \A i \in I : place[rank[i]] = i
  <2>1. \A i \in I : rank[i] \in 1 .. n
    BY <1>2
  <2> HIDE DEF rank, place
  <2> QED BY <1>4, <1>6, <2>1
<1>8. Places(place, I, R)
  <2>1. \A i \in I : rank[i] \in 1 .. n
    BY <1>2
  <2>2. \A i, j \in I : <<i, j>> \in R => rank[i] < rank[j]
    BY <1>3
  <2> HIDE DEF rank, place, n
  <2>3. \A p, q \in 1 .. n : place[p] = place[q] => p = q
    BY <1>6
  <2>4. \A i \in I : \E p \in 1 .. n : place[p] = i
    BY <1>7, <2>1
  <2>5. ASSUME NEW p \in 1 .. n, NEW q \in 1 .. n
        PROVE  p < q <=> <<place[p], place[q]>> \in R
    <3>1. /\ place[p] \in I /\ place[q] \in I
          /\ rank[place[p]] = p /\ rank[place[q]] = q
      BY <1>6
    <3>2. <<place[p], place[q]>> \in R => p < q
      BY <2>2, <3>1
    <3>3. <<place[q], place[p]>> \in R => q < p
      BY <2>2, <3>1
    <3>4. CASE p < q
      <4>1. place[p] # place[q] /\ ~ (q < p)
        BY <3>1, <3>4, <1>1
      <4> QED BY <3>1, <3>3, <3>4, <4>1 DEF StrictOrder
    <3> QED BY <3>2, <3>4
  <2> QED BY <1>6, <2>3, <2>4, <2>5 DEF Places, n
<1>9. Ordered(s, I, R) = [p \in 1 .. n |-> s[place[p]]]
  BY DEF Ordered
<1> QED BY <1>8, <1>9

-----------------------------------------------------------------------------
(***************************************************************************)
(* Lists of results.                                                       *)
(***************************************************************************)

Results == [id : Ids, dist : Int]

\* No id twice.
OnceEach(r) == \A i, j \in DOMAIN r : r[i].id = r[j].id => i = j

Listed(r) == r \in Seq(Results) /\ Sorted(r) /\ OnceEach(r)

\* The elements of r are elements of s.
From(r, s) == \A i \in DOMAIN r : \E j \in DOMAIN s : r[i] = s[j]

\* Truncating keeps the first elements.
LEMMA TruncateProps ==
  ASSUME NEW X, NEW s \in Seq(X), NEW k \in Nat
  PROVE  /\ Truncate(s, k) \in Seq(X)
         /\ Len(Truncate(s, k)) = IF Len(s) < k THEN Len(s) ELSE k
         /\ \A i \in 1 .. Len(Truncate(s, k)) : i \in 1 .. Len(s) /\ Truncate(s, k)[i] = s[i]
<1> DEFINE m == IF Len(s) < k THEN Len(s) ELSE k
           t == SubSeq(s, 1, m)
<1>1. /\ Len(s) \in Nat /\ m \in Nat /\ m <= Len(s) /\ DOMAIN s = 1 .. Len(s)
      /\ Truncate(s, k) = t
  BY DEF Truncate
<1>2. /\ 1 \in Int /\ m \in Int /\ \A i \in 1 .. m : s[i] \in X
  BY <1>1
<1> HIDE DEF t, m
<1>3. /\ t \in Seq(X)
      /\ Len(t) = IF 1 <= m THEN m - 1 + 1 ELSE 0
      /\ \A i \in 1 .. m - 1 + 1 : t[i] = s[1 + i - 1]
  BY <1>2, SubSeqProperties DEF t
<1>4. Len(t) = m
  BY <1>1, <1>3
<1>5. ASSUME NEW i \in 1 .. m
      PROVE  i \in 1 .. Len(s) /\ t[i] = s[i]
  <2>1. m - 1 + 1 = m /\ 1 + i - 1 = i
    BY <1>1
  <2> QED BY <1>1, <1>3, <2>1
<1> QED BY <1>1, <1>3, <1>4, <1>5 DEF m

\* The nearest of a finite set of results are results of the set, in order.
LEMMA NearestListed ==
  ASSUME NEW S \in SUBSET Results, IsFiniteSet(S),
         \A x, y \in S : x.id = y.id => x = y,
         NEW k \in Nat, NEW r \in Nearest(S, k)
  PROVE  Listed(r) /\ Len(r) <= k /\ \A i \in DOMAIN r : r[i] \in S
<1> DEFINE n == Cardinality(S)
<1>1. n \in Nat
  BY FS_CardinalityType
<1>2. PICK t \in [1 .. n -> S] : /\ \A i, j \in 1 .. n : i # j => t[i] # t[j]
                                 /\ Sorted(t) /\ r = Truncate(t, k)
  BY DEF Nearest, SetToSeqs
<1>3. t \in Seq(S) /\ Len(t) = n
  <2> HIDE DEF n
  <2> QED BY <1>1, <1>2, SeqDef
<1>4. /\ r \in Seq(S)
      /\ Len(r) = IF Len(t) < k THEN Len(t) ELSE k
      /\ \A i \in 1 .. Len(r) : i \in 1 .. n /\ r[i] = t[i]
  BY <1>2, <1>3, TruncateProps
<1>5. DOMAIN r = 1 .. Len(r) /\ DOMAIN t = 1 .. n /\ Len(r) \in Nat /\ Len(r) <= k
  BY <1>1, <1>2, <1>3, <1>4
<1>6. \A i \in DOMAIN r : r[i] \in S
  BY <1>4
<1>7. r \in Seq(Results)
  BY <1>4
<1>8. Sorted(r)
  BY <1>2, <1>4, <1>5 DEF Sorted
<1>9. OnceEach(r)
  BY <1>2, <1>4, <1>5 DEF OnceEach
<1> QED BY <1>5, <1>6, <1>7, <1>8, <1>9 DEF Listed

\* The places of a sequence are ordered by their numbers, and by Before.
LEMMA PlacesOrdered ==
  ASSUME NEW s \in Seq(Results), NEW I \in SUBSET (DOMAIN s)
  PROVE  /\ IsFiniteSet(I)
         /\ StrictOrder(I, {p \in I \X I : p[1] < p[2]})
         /\ StrictOrder(DOMAIN s, Before(s))
<1>1. DOMAIN s = 1 .. Len(s) /\ Len(s) \in Nat /\ \A i \in DOMAIN s : s[i].dist \in Int
  <2>1. \A i \in DOMAIN s : s[i] \in Results
    OBVIOUS
  <2> QED BY <2>1 DEF Results
<1>2. IsFiniteSet(I)
  <2>1. IsFiniteSet(1 .. Len(s))
    <3>1. 1 \in Int /\ Len(s) \in Int
      BY <1>1
    <3> QED BY <3>1, FS_Interval
  <2>2. I \in SUBSET (1 .. Len(s))
    BY <1>1
  <2> QED BY <2>1, <2>2, FS_Subset
<1>3. StrictOrder(I, {p \in I \X I : p[1] < p[2]})
  BY <1>1 DEF StrictOrder
<1>4. StrictOrder(DOMAIN s, Before(s))
  <2> DEFINE D == DOMAIN s
             d(i) == s[i].dist
  <2>1. \A i, j \in D : <<i, j>> \in Before(s) <=> d(i) < d(j) \/ (d(i) = d(j) /\ i < j)
    BY DEF Before
  <2>2. \A i \in D : d(i) \in Int /\ i \in Int
    BY <1>1
  <2> HIDE DEF d, D
  <2>3. StrictOrder(D, Before(s))
    BY <2>1, <2>2 DEF StrictOrder
  <2> QED BY <2>3 DEF D
<1> QED BY <1>2, <1>3, <1>4

\* Taking the results of some ids out leaves the others, in their order.
LEMMA WithoutListed ==
  ASSUME NEW r, Listed(r), NEW ids
  PROVE  /\ Listed(Without(r, ids)) /\ Len(Without(r, ids)) <= Len(r)
         /\ From(Without(r, ids), r)
         /\ \A i \in DOMAIN Without(r, ids) : Without(r, ids)[i].id \notin ids
<1> DEFINE kept == {i \in DOMAIN r : r[i].id \notin ids}
           R == {p \in kept \X kept : p[1] < p[2]}
           n == Cardinality(kept)
           o == Without(r, ids)
<1>1. r \in Seq(Results) /\ Sorted(r) /\ OnceEach(r)
  BY DEF Listed
<1>2. DOMAIN r = 1 .. Len(r) /\ Len(r) \in Nat
  BY <1>1
<1>3. kept \in SUBSET (DOMAIN r)
  OBVIOUS
<1>4. IsFiniteSet(kept) /\ StrictOrder(kept, R)
  <2> HIDE DEF kept
  <2> QED BY <1>1, <1>3, PlacesOrdered
<1>5. n \in Nat /\ n <= Len(r)
  <2>1. 1 \in Int /\ Len(r) \in Int
    BY <1>2
  <2>2. /\ IsFiniteSet(1 .. Len(r))
        /\ Cardinality(1 .. Len(r)) = IF 1 > Len(r) THEN 0 ELSE Len(r) - 1 + 1
    BY <2>1, FS_Interval
  <2>3. Cardinality(1 .. Len(r)) = Len(r)
    BY <1>2, <2>2
  <2>4. kept \in SUBSET (1 .. Len(r))
    BY <1>2
  <2> HIDE DEF kept
  <2> QED BY <2>2, <2>3, <2>4, <1>4, FS_Subset, FS_CardinalityType
<1>6. o = Ordered(r, kept, R)
  BY DEF Without
<1> HIDE DEF o, R
<1>7. PICK place : Places(place, kept, R) /\ o = [p \in 1 .. n |-> r[place[p]]]
  <2> HIDE DEF kept
  <2> QED BY <1>4, <1>6, OrderedPlaces
<1>8. /\ place \in [1 .. n -> kept]
      /\ \A p, q \in 1 .. n : p < q => place[p] < place[q]
      /\ \A p, q \in 1 .. n : place[p] = place[q] => p = q
  BY <1>7 DEF Places, R
<1>9. \A p \in 1 .. n : place[p] \in DOMAIN r /\ r[place[p]].id \notin ids
  BY <1>8
<1> HIDE DEF kept, n
<1>10. o \in Seq(Results) /\ Len(o) = n /\ DOMAIN o = 1 .. n
  <2>1. \A p \in 1 .. n : r[place[p]] \in Results
    BY <1>1, <1>9
  <2>2. o \in [1 .. n -> Results]
    BY <1>7, <2>1
  <2> QED BY <1>5, <2>2, SeqDef
<1>11. \A p \in 1 .. n : o[p] = r[place[p]]
  BY <1>7
<1>12. Sorted(o)
  BY <1>1, <1>8, <1>9, <1>10, <1>11 DEF Sorted
<1>13. OnceEach(o)
  BY <1>1, <1>8, <1>9, <1>10, <1>11 DEF OnceEach
<1>14. From(o, r) /\ \A i \in DOMAIN o : o[i].id \notin ids
  BY <1>9, <1>10, <1>11 DEF From
<1> QED BY <1>5, <1>10, <1>12, <1>13, <1>14 DEF Listed, o

\* The places of the stable sort.
LEMMA MergePlaces ==
  ASSUME NEW s \in Seq(Results)
  PROVE  \E place : /\ Places(place, DOMAIN s, Before(s)) /\ Cardinality(DOMAIN s) = Len(s)
                    /\ Ordered(s, DOMAIN s, Before(s)) = [p \in 1 .. Len(s) |-> s[place[p]]]
                    /\ Ordered(s, DOMAIN s, Before(s)) \in Seq(Results)
                    /\ Len(Ordered(s, DOMAIN s, Before(s))) = Len(s)
                    /\ Sorted(Ordered(s, DOMAIN s, Before(s)))
<1> DEFINE o == Ordered(s, DOMAIN s, Before(s))
           n == Len(s)
<1>1. n \in Nat /\ DOMAIN s = 1 .. n /\ 1 \in Int /\ n \in Int
  OBVIOUS
<1>2. IsFiniteSet(DOMAIN s) /\ StrictOrder(DOMAIN s, Before(s))
  BY PlacesOrdered
<1>3. Cardinality(DOMAIN s) = n
  <2>1. Cardinality(1 .. n) = IF 1 > n THEN 0 ELSE n - 1 + 1
    BY <1>1, FS_Interval
  <2> QED BY <1>1, <2>1
<1>4. PICK place : /\ Places(place, DOMAIN s, Before(s))
                   /\ o = [p \in 1 .. n |-> s[place[p]]]
  <2> DEFINE I == DOMAIN s
             R == Before(s)
  <2>1. IsFiniteSet(I) /\ StrictOrder(I, R) /\ Cardinality(I) = n
    BY <1>2, <1>3
  <2> HIDE DEF I, R, n
  <2>2. \E place : /\ Places(place, I, R)
                   /\ Ordered(s, I, R) = [p \in 1 .. n |-> s[place[p]]]
    BY <2>1, OrderedPlaces
  <2> QED BY <2>2 DEF I, R
<1> HIDE DEF o, n
<1>5. /\ place \in [1 .. n -> DOMAIN s]
      /\ \A p, q \in 1 .. n : p < q => <<place[p], place[q]>> \in Before(s)
  BY <1>3, <1>4 DEF Places
<1>6. o \in Seq(Results) /\ Len(o) = n /\ DOMAIN o = 1 .. n
  <2>1. \A p \in 1 .. n : s[place[p]] \in Results
    BY <1>5
  <2>2. o \in [1 .. n -> Results]
    BY <1>4, <2>1
  <2> QED BY <1>1, <2>2, SeqDef
<1>7. \A p \in 1 .. n : o[p] = s[place[p]]
  BY <1>4
<1>8. Sorted(o)
  <2> SUFFICES ASSUME NEW p \in 1 .. n, NEW q \in 1 .. n, p < q
               PROVE  o[p].dist <= o[q].dist
    BY <1>6 DEF Sorted
  <2>1. s[place[p]].dist < s[place[q]].dist \/ s[place[p]].dist = s[place[q]].dist
    BY <1>5 DEF Before
  <2>2. o[p].dist \in Int /\ o[q].dist \in Int
    <3>1. o[p] \in Results /\ o[q] \in Results
      BY <1>6
    <3> QED BY <3>1 DEF Results
  <2> QED BY <1>7, <2>1, <2>2
<1> QED BY <1>3, <1>4, <1>6, <1>8 DEF o, n

\* Merging two lists that share no id gives a list of results of both.
LEMMA MergeListed ==
  ASSUME NEW a, NEW b, Listed(a), Listed(b),
         \A i \in DOMAIN a, j \in DOMAIN b : a[i].id # b[j].id,
         NEW k \in Nat
  PROVE  /\ Listed(MergeTopK(a, b, k)) /\ Len(MergeTopK(a, b, k)) <= k
         /\ From(MergeTopK(a, b, k), a \o b)
<1> DEFINE s == a \o b
           o == Ordered(s, DOMAIN s, Before(s))
           t == Truncate(o, k)
<1>1. MergeTopK(a, b, k) = t
  BY DEF MergeTopK
<1>2. a \in Seq(Results) /\ b \in Seq(Results) /\ OnceEach(a) /\ OnceEach(b)
  BY DEF Listed
<1>3. s \in Seq(Results) /\ Len(s) = Len(a) + Len(b) /\ DOMAIN s = 1 .. Len(s)
  BY <1>2
<1>4. OnceEach(s)
  <2>1. /\ DOMAIN a = 1 .. Len(a) /\ DOMAIN b = 1 .. Len(b)
        /\ Len(a) \in Nat /\ Len(b) \in Nat
    BY <1>2
  <2>2. /\ \A i \in 1 .. Len(a) : s[i] = a[i]
        /\ \A i \in Len(a) + 1 .. Len(s) :
              s[i] = b[i - Len(a)] /\ i - Len(a) \in 1 .. Len(b)
    BY <1>2, <1>3, <2>1
  <2> HIDE DEF s
  <2> SUFFICES ASSUME NEW i \in 1 .. Len(s), NEW j \in 1 .. Len(s), s[i].id = s[j].id
               PROVE  i = j
    BY <1>3 DEF OnceEach
  <2>3. CASE i \in 1 .. Len(a) /\ j \in 1 .. Len(a)
    BY <1>2, <2>1, <2>2, <2>3 DEF OnceEach
  <2>4. CASE i \in Len(a) + 1 .. Len(s) /\ j \in Len(a) + 1 .. Len(s)
    <3>0. /\ i - Len(a) \in DOMAIN b /\ s[i] = b[i - Len(a)]
          /\ j - Len(a) \in DOMAIN b /\ s[j] = b[j - Len(a)]
      BY <2>1, <2>2, <2>4
    <3>1. i - Len(a) = j - Len(a)
      BY <1>2, <3>0 DEF OnceEach
    <3> QED BY <2>1, <2>4, <3>1
  <2>5. CASE i \in 1 .. Len(a) /\ j \in Len(a) + 1 .. Len(s)
    <3>1. j - Len(a) \in DOMAIN b /\ s[j] = b[j - Len(a)] /\ i \in DOMAIN a /\ s[i] = a[i]
      BY <2>1, <2>2, <2>5
    <3> QED BY <3>1
  <2>6. CASE j \in 1 .. Len(a) /\ i \in Len(a) + 1 .. Len(s)
    <3>1. i - Len(a) \in DOMAIN b /\ s[i] = b[i - Len(a)] /\ j \in DOMAIN a /\ s[j] = a[j]
      BY <2>1, <2>2, <2>6
    <3> QED BY <3>1
  <2> QED BY <1>3, <2>1, <2>3, <2>4, <2>5, <2>6
<1> HIDE DEF s
<1>5. PICK place : /\ Places(place, DOMAIN s, Before(s)) /\ Cardinality(DOMAIN s) = Len(s)
                   /\ o = [p \in 1 .. Len(s) |-> s[place[p]]]
                   /\ o \in Seq(Results) /\ Len(o) = Len(s) /\ Sorted(o)
  BY <1>3, MergePlaces
<1>6. /\ place \in [1 .. Len(s) -> DOMAIN s]
      /\ \A p, q \in 1 .. Len(s) : place[p] = place[q] => p = q
  BY <1>5 DEF Places
<1>7. \A p \in 1 .. Len(s) : o[p] = s[place[p]] /\ place[p] \in DOMAIN s
  BY <1>5, <1>6
<1> HIDE DEF o
<1>8. /\ t \in Seq(Results)
      /\ Len(t) = IF Len(o) < k THEN Len(o) ELSE k
      /\ \A i \in 1 .. Len(t) : i \in 1 .. Len(s) /\ t[i] = o[i]
  <2>1. o \in Seq(Results) /\ Len(o) = Len(s)
    BY <1>5
  <2>2. /\ t \in Seq(Results)
        /\ Len(t) = IF Len(o) < k THEN Len(o) ELSE k
        /\ \A i \in 1 .. Len(t) : i \in 1 .. Len(o) /\ t[i] = o[i]
    BY <2>1, TruncateProps
  <2> QED BY <2>1, <2>2
<1>9. /\ DOMAIN t = 1 .. Len(t) /\ DOMAIN o = 1 .. Len(s) /\ Len(s) \in Nat
      /\ Len(t) \in Nat /\ Len(t) <= k
  BY <1>3, <1>5, <1>8
<1> HIDE DEF t
<1>10. Sorted(t)
  BY <1>5, <1>8, <1>9 DEF Sorted
<1>11. \A i \in 1 .. Len(t) : t[i] = s[place[i]] /\ place[i] \in DOMAIN s
  BY <1>7, <1>8
<1>12. OnceEach(t)
  BY <1>4, <1>6, <1>8, <1>9, <1>11 DEF OnceEach
<1>13. From(t, s)
  BY <1>9, <1>11 DEF From
<1> QED BY <1>1, <1>8, <1>9, <1>10, <1>12, <1>13 DEF Listed, s

-----------------------------------------------------------------------------
(***************************************************************************)
(* Vectors and the index.                                                  *)
(***************************************************************************)

\* What a function makes of a finite set is finite.
LEMMA FiniteImage ==
  ASSUME NEW S, IsFiniteSet(S), NEW f
  PROVE  IsFiniteSet({f[x] : x \in S})
<1> DEFINE T == {f[x] : x \in S}
           g == [x \in S |-> f[x]]
<1>1. g \in Surjection(S, T)
  BY DEF Surjection
<1> QED BY <1>1, FS_Surjection

\* A finite set of integers that is not empty has a least element.
LEMMA LeastOfFinite ==
  ASSUME NEW S \in SUBSET Int, IsFiniteSet(S), S # {}
  PROVE  \E x \in S : \A y \in S : x <= y
<1> DEFINE R == {p \in S \X S : p[1] < p[2]}
           n == Cardinality(S)
<1>1. \A i, j \in S : <<i, j>> \in R <=> i < j
  OBVIOUS
<1>2. StrictOrder(S, R)
  BY <1>1 DEF StrictOrder
<1> HIDE DEF R
<1>3. PICK place : Places(place, S, R)
  <2>1. \E place : Places(place, S, R) /\ Ordered(<<>>, S, R) = [p \in 1 .. n |-> <<>>[place[p]]]
    BY <1>2, OrderedPlaces
  <2> QED BY <2>1
<1>4. n \in Nat /\ n # 0
  BY FS_CardinalityType, FS_EmptySet
<1>5. 1 \in 1 .. n /\ place[1] \in S
  BY <1>3, <1>4 DEF Places
<1>6. ASSUME NEW y \in S
      PROVE  place[1] <= y
  <2>1. PICK p \in 1 .. n : place[p] = y
    BY <1>3 DEF Places
  <2>2. CASE p = 1
    BY <1>5, <2>1, <2>2
  <2>3. CASE 1 < p
    <3>1. <<place[1], y>> \in R
      BY <1>3, <1>5, <2>1, <2>3 DEF Places
    <3>2. place[1] < y
      BY <1>1, <1>5, <3>1
    <3>3. place[1] \in Int /\ y \in Int
      BY <1>5
    <3> QED BY <3>2, <3>3
  <2> QED BY <1>4, <2>2, <2>3
<1> QED BY <1>5, <1>6

\* A distance is an integer.
LEMMA DistanceInt ==
  ASSUME NEW a \in Int, NEW b \in Int, NEW m \in Metrics
  PROVE  Distance(a, b, m) \in Int
<1>1. (a - b) * (a - b) \in Int /\ -(a * b) \in Int /\ a * b \in Int
  OBVIOUS
<1>2. ASSUME NEW x \in Int
      PROVE  1 - Sign(x) \in Int
  BY DEF Sign
<1>3. m = "euclidean_squared" \/ m = "dot_product" \/ m = "cosine_distance"
  BY DEF Metrics
<1> QED BY <1>1, <1>2, <1>3 DEF Distance

\* Moving the copies of s one after the other stays in a set that moving one
\* does not leave.
LEMMA MovedAllIn ==
  ASSUME NEW V, NEW run \in V, NEW C, NEW s \in Seq(C),
         \A r \in V, e \in C : Moved(r, e) \in V
  PROVE  MovedAll(run, s) \in V
<1> DEFINE step == [p \in Nat \X V |-> IF p[1] \in 1 .. Len(s) THEN Moved(p[2], s[p[1]]) ELSE p[2]]
           Eqn(g) == g = [n \in 0 .. Len(s) |-> IF n = 0 THEN run ELSE Moved(g[n - 1], s[n])]
           after == CHOOSE g : Eqn(g)
<1>1. Len(s) \in Nat /\ \A n \in 1 .. Len(s) : s[n] \in C
  OBVIOUS
<1>2. step \in Steps(V)
  BY <1>1 DEF Steps
<1>3. \A n \in Nat, r \in V : step[<<n, r>>] = IF n \in 1 .. Len(s) THEN Moved(r, s[n]) ELSE r
  OBVIOUS
<1> HIDE DEF step
<1>4. PICK f \in [Nat -> V] : Iterates(f, run, step)
  BY <1>2, Iteration
<1>5. \E g : Eqn(g)
  <2> DEFINE g == [n \in 0 .. Len(s) |-> f[n]]
  <2>1. ASSUME NEW n \in 0 .. Len(s)
        PROVE  g[n] = IF n = 0 THEN run ELSE Moved(g[n - 1], s[n])
    <3>1. n \in Nat /\ f[n] = IF n = 0 THEN run ELSE step[<<n, f[n - 1]>>]
      BY <1>1, <1>4 DEF Iterates
    <3>2. CASE n # 0
      <4>1. n - 1 \in Nat /\ n - 1 \in 0 .. Len(s) /\ n \in 1 .. Len(s) /\ f[n - 1] \in V
        BY <1>1, <3>2
      <4> QED BY <1>3, <3>1, <3>2, <4>1
    <3> QED BY <3>1, <3>2
  <2>2. Eqn(g)
    <3>1. g = [n \in 0 .. Len(s) |-> g[n]]
      OBVIOUS
    <3> HIDE DEF g
    <3> QED BY <2>1, <3>1
  <2> QED BY <2>2
<1>6. Eqn(after)
  <2> HIDE DEF Eqn
  <2> QED BY <1>5
<1>7. MovedAll(run, s) = after[Len(s)]
  BY DEF MovedAll
<1> HIDE DEF after
<1>8. \A n \in 0 .. Len(s) : after[n] = IF n = 0 THEN run ELSE Moved(after[n - 1], s[n])
  BY <1>6
<1> DEFINE S == {n \in Nat : n <= Len(s) => after[n] \in V}
<1>9. 0 \in S
  BY <1>1, <1>8
<1>10. ASSUME NEW n \in Nat, n \in S
       PROVE  n + 1 \in S
  <2> SUFFICES ASSUME n + 1 <= Len(s)
               PROVE  after[n + 1] \in V
    OBVIOUS
  <2>1. /\ n + 1 \in 0 .. Len(s) /\ n + 1 # 0 /\ n + 1 - 1 = n /\ n + 1 \in 1 .. Len(s)
        /\ after[n] \in V
    BY <1>1, <1>10
  <2>2. after[n + 1] = Moved(after[n], s[n + 1])
    BY <1>8, <2>1
  <2> QED BY <1>1, <2>1, <2>2
<1>11. Nat \subseteq S
  BY <1>9, <1>10, SetInduction
<1> QED BY <1>1, <1>7, <1>11

\* A run in which the fields that splits leave alone are those of run.
Alike(run) ==
    {r \in Runs : /\ r.at = run.at /\ r.upTo = run.upTo
                  /\ r.ix.seq = run.ix.seq /\ r.ix.count = run.ix.count}

\* Fields of records.
LEMMA RunFields ==
  ASSUME NEW r \in Runs
  PROVE  /\ r.at \in {"idle", "replay", "manifest"} /\ r.upTo \in Nat
         /\ r.ix \in Indexes /\ r.entries \in Entries
         /\ r.ix.seq \in Nat /\ r.ix.count \in Int /\ r.ix.map \in VersionMap
BY DEF Runs, Indexes

\* A run with other fields is a run.
LEMMA RunUpdates ==
  ASSUME NEW r \in Runs
  PROVE  /\ \A n \in Nat : [r EXCEPT !.ix.seq = n] \in Runs
         /\ \A map \in VersionMap, E \in Entries :
               [r EXCEPT !.ix.map = map, !.entries = E] \in Runs
         /\ \A c \in Int, map \in VersionMap, E \in Entries :
               [r EXCEPT !.ix.count = c, !.ix.map = map, !.entries = E] \in Runs
         /\ \A c \in Int, map \in VersionMap :
               [r EXCEPT !.ix.count = c, !.ix.map = map] \in Runs
         /\ \A E \in Entries : [r EXCEPT !.entries = E] \in Runs
         /\ [r EXCEPT !.at = "manifest"] \in Runs
<1> DEFINE P == {"idle", "replay", "manifest"}
           I == [seq : Nat, count : Int, map : VersionMap]
           R == [at : P, upTo : Nat, ix : I, entries : Entries]
<1>1. Runs = R /\ "manifest" \in P
  BY DEF Runs, Indexes
<1> HIDE DEF P
<1>2. r \in R
  BY <1>1
<1>3. /\ \A n \in Nat : [r EXCEPT !.ix.seq = n] \in R
      /\ \A E \in Entries : [r EXCEPT !.entries = E] \in R
      /\ [r EXCEPT !.at = "manifest"] \in R
  BY <1>1, <1>2
<1>4. \A map \in VersionMap, E \in Entries : [r EXCEPT !.ix.map = map, !.entries = E] \in R
  BY <1>2
<1>5. \A c \in Int, map \in VersionMap, E \in Entries :
         [r EXCEPT !.ix.count = c, !.ix.map = map, !.entries = E] \in R
  BY <1>2
<1>6. \A c \in Int, map \in VersionMap : [r EXCEPT !.ix.count = c, !.ix.map = map] \in R
  BY <1>2
<1> HIDE DEF R
<1> QED BY <1>1, <1>3, <1>4, <1>5, <1>6

\* The next version of an id is a version.
LEMMA NextVersionType ==
  ASSUME NEW v \in 0 .. VersionMask
  PROVE  NextVersion(v) \in 1 .. VersionMask
BY DEF NextVersion, VersionMask

\* A set of entries with one more.
LEMMA EntryAdded ==
  ASSUME NEW E \in Entries, NEW e \in Entry
  PROVE  E \cup {e} \in Entries
BY FS_AddElement DEF Entries

\* Fewer entries are entries.
LEMMA EntriesSubset ==
  ASSUME NEW E \in Entries, NEW F \in SUBSET E
  PROVE  F \in Entries
BY FS_Subset DEF Entries

\* A move changes the version of one id and adds one entry.
LEMMA MovedForm ==
  ASSUME NEW r \in Runs, NEW e \in Entry
  PROVE  LET v == NextVersion(r.ix.map[e.id].ver)
             map == [r.ix.map EXCEPT ![e.id] = [ver |-> v, del |-> r.ix.map[e.id].del]]
             copy == [id |-> e.id, ver |-> v, vec |-> e.vec]
         IN  /\ v \in 1 .. VersionMask /\ map \in VersionMap /\ copy \in Entry
             /\ Moved(r, e) = [r EXCEPT !.ix.map = map, !.entries = r.entries \cup {copy}]
<1> DEFINE v == NextVersion(r.ix.map[e.id].ver)
           map == [r.ix.map EXCEPT ![e.id] = [ver |-> v, del |-> r.ix.map[e.id].del]]
           copy == [id |-> e.id, ver |-> v, vec |-> e.vec]
<1>1. e.id \in Ids /\ e.vec \in Vectors /\ e = [id |-> e.id, ver |-> e.ver, vec |-> e.vec]
  BY DEF Entry
<1>2. /\ r.ix.map \in VersionMap /\ r.ix.map[e.id].ver \in 0 .. VersionMask
      /\ r.ix.map[e.id].del \in BOOLEAN
  BY <1>1, RunFields DEF VersionMap
<1>3. v \in 1 .. VersionMask
  BY <1>2, NextVersionType
<1>4. copy \in Entry /\ [e EXCEPT !.ver = v] = copy
  <2> HIDE DEF v
  <2> QED BY <1>1, <1>3 DEF Entry
<1>5. map \in VersionMap
  <2>1. v \in 0 .. VersionMask
    <3> HIDE DEF v
    <3> QED BY <1>3 DEF VersionMask
  <2> HIDE DEF v
  <2> QED BY <1>1, <1>2, <2>1 DEF VersionMap
<1>6. [r.ix.map EXCEPT ![e.id].ver = v] = map
  <2>1. [r.ix.map[e.id] EXCEPT !.ver = v] = [ver |-> v, del |-> r.ix.map[e.id].del]
    <3>1. r.ix.map[e.id] \in [ver : 0 .. VersionMask, del : BOOLEAN]
      BY <1>1, <1>2 DEF VersionMap
    <3> HIDE DEF v
    <3> QED BY <3>1
  <2> HIDE DEF v
  <2> QED BY <2>1
<1>7. Moved(r, e) = [r EXCEPT !.ix.map = map, !.entries = r.entries \cup {copy}]
  <2>1. Moved(r, e) = [r EXCEPT !.ix.map[e.id].ver = v,
                                !.entries = r.entries \cup {[e EXCEPT !.ver = v]}]
    BY DEF Moved
  <2>2. [r EXCEPT !.ix.map[e.id].ver = v,
                  !.entries = r.entries \cup {[e EXCEPT !.ver = v]}]
        = [r EXCEPT !.ix.map = [r.ix.map EXCEPT ![e.id].ver = v],
                    !.entries = r.entries \cup {[e EXCEPT !.ver = v]}]
    <3> HIDE DEF v
    <3> QED OBVIOUS
  <2> HIDE DEF v, map, copy
  <2> QED BY <1>4, <1>6, <2>1, <2>2
<1> QED BY <1>3, <1>4, <1>5, <1>7

\* A copy that moves.
LEMMA MovedType ==
  ASSUME NEW run, NEW r \in Alike(run), NEW e \in Entry
  PROVE  Moved(r, e) \in Alike(run)
<1>1. r \in Runs /\ r.ix \in Indexes /\ r.entries \in Entries
  BY RunFields DEF Alike
<1>2. PICK map \in VersionMap, copy \in Entry :
         Moved(r, e) = [r EXCEPT !.ix.map = map, !.entries = r.entries \cup {copy}]
  <2> DEFINE v == NextVersion(r.ix.map[e.id].ver)
             map == [r.ix.map EXCEPT ![e.id] = [ver |-> v, del |-> r.ix.map[e.id].del]]
             copy == [id |-> e.id, ver |-> v, vec |-> e.vec]
  <2>1. /\ map \in VersionMap /\ copy \in Entry
        /\ Moved(r, e) = [r EXCEPT !.ix.map = map, !.entries = r.entries \cup {copy}]
    BY <1>1, MovedForm
  <2> HIDE DEF map, copy
  <2> QED BY <2>1
<1> DEFINE E == r.entries \cup {copy}
           m == [r EXCEPT !.ix.map = map, !.entries = E]
<1>3. E \in Entries
  BY <1>1, <1>2, EntryAdded
<1> HIDE DEF E
<1>4. m \in Runs
  BY <1>1, <1>2, <1>3, RunUpdates
<1>5. m.at = r.at /\ m.upTo = r.upTo /\ m.ix.seq = r.ix.seq /\ m.ix.count = r.ix.count
  BY <1>1 DEF Runs, Indexes
<1> QED BY <1>2, <1>4, <1>5 DEF Alike, E

Copies(r) == {e \in r.entries : Current(r.ix.map, e)}

\* Splits stay in a set of runs that neither moving a current copy nor dropping
\* superseded ones leaves.
LEMMA SplitsIn ==
  ASSUME NEW run \in Runs, NEW V, run \in V,
         \A r \in V, e \in Copies(run) : Moved(r, e) \in V,
         \A r \in V : \A F \in SUBSET r.entries :
            Copies(r) \subseteq F => [r EXCEPT !.entries = F] \in V
  PROVE  Splits(run) \subseteq V
<1> SUFFICES ASSUME NEW x \in Splits(run)
             PROVE  x \in V
  OBVIOUS
<1>0. PICK C \in SUBSET Copies(run) : \E s \in SetToSeqs(C) :
         \E kept \in SUBSET (MovedAll(run, s).entries \ Copies(MovedAll(run, s))) :
            x = [MovedAll(run, s) EXCEPT !.entries = Copies(MovedAll(run, s)) \cup kept]
  <2> DEFINE chosen == {D \in SUBSET Copies(run) : Cardinality(D) <= MaxMoves}
             moved == {MovedAll(run, s) : s \in UNION {SetToSeqs(D) : D \in chosen}}
             Dropped(r) == {[r EXCEPT !.entries = Copies(r) \cup kept] :
                               kept \in SUBSET (r.entries \ Copies(r))}
  <2>1. Splits(run) = UNION {Dropped(r) : r \in moved}
    BY DEF Splits, Copies
  <2>2. PICK r \in moved : x \in Dropped(r)
    <3> HIDE DEF moved, Dropped
    <3> QED BY <2>1
  <2>3. PICK s \in UNION {SetToSeqs(D) : D \in chosen} : r = MovedAll(run, s)
    BY <2>2
  <2>4. PICK C \in chosen : s \in SetToSeqs(C)
    BY <2>3
  <2>5. PICK kept \in SUBSET (r.entries \ Copies(r)) :
           x = [r EXCEPT !.entries = Copies(r) \cup kept]
    BY <2>2
  <2> QED BY <2>3, <2>4, <2>5
<1>1. PICK s \in SetToSeqs(C) :
         \E kept \in SUBSET (MovedAll(run, s).entries \ Copies(MovedAll(run, s))) :
            x = [MovedAll(run, s) EXCEPT !.entries = Copies(MovedAll(run, s)) \cup kept]
  BY <1>0
<1>2. IsFiniteSet(C)
  <2>1. run.entries \in Entries
    BY RunFields
  <2>2. IsFiniteSet(run.entries) /\ C \in SUBSET run.entries
    BY <2>1 DEF Entries, Copies
  <2> QED BY <2>2, FS_Subset
<1>3. s \in Seq(C)
  <2>1. Cardinality(C) \in Nat
    BY <1>2, FS_CardinalityType
  <2>2. s \in [1 .. Cardinality(C) -> C]
    BY DEF SetToSeqs
  <2> QED BY <2>1, <2>2, SeqDef
<1> DEFINE r == MovedAll(run, s)
<1>4. r \in V
  <2>1. \A y \in V, e \in C : Moved(y, e) \in V
    OBVIOUS
  <2> QED BY <1>3, <2>1, MovedAllIn
<1> HIDE DEF r
<1>5. PICK kept \in SUBSET (r.entries \ Copies(r)) :
         x = [r EXCEPT !.entries = Copies(r) \cup kept]
  BY <1>1 DEF r
<1>6. Copies(r) \cup kept \in SUBSET r.entries
  BY DEF Copies
<1> QED BY <1>4, <1>5, <1>6

\* What splits leave alone.
LEMMA SplitsType ==
  ASSUME NEW run \in Runs
  PROVE  Splits(run) \subseteq Alike(run)
<1>1. run \in Alike(run)
  BY DEF Alike
<1>2. ASSUME NEW r \in Alike(run), NEW e \in Copies(run)
      PROVE  Moved(r, e) \in Alike(run)
  <2>1. run.entries \in Entries
    BY RunFields
  <2>2. e \in Entry
    BY <2>1 DEF Copies, Entries
  <2> QED BY <2>2, MovedType
<1>3. ASSUME NEW r \in Alike(run), NEW F \in SUBSET r.entries
      PROVE  [r EXCEPT !.entries = F] \in Alike(run)
  <2>1. r \in Runs /\ r.entries \in Entries
    BY RunFields DEF Alike
  <2>2. F \in Entries
    BY <2>1, EntriesSubset
  <2> DEFINE m == [r EXCEPT !.entries = F]
  <2>3. m \in Runs
    BY <2>1, <2>2, RunUpdates
  <2>4. m.at = r.at /\ m.upTo = r.upTo /\ m.ix = r.ix
    BY <2>1 DEF Runs
  <2> QED BY <2>3, <2>4 DEF Alike
<1> HIDE DEF Alike
<1> QED BY <1>1, <1>2, <1>3, SplitsIn

Plain(op) == CHOOSE i \in Ids : op.ids = {i}

\* A write is one operation on one document.
LEMMA WriteType ==
  ASSUME NEW op \in Writes
  PROVE  /\ op.ids = {Plain(op)} /\ Plain(op) \in Ids
         /\ op.doc \in Contents \cup {Absent} /\ <<op>> \in Seq(Op) /\ op \in Op
         /\ HasVec(op.doc) => op.doc \in Vectors
<1>1. op \in [req : Reqs, ids : {{id} : id \in Ids}, doc : Contents \cup {Absent}]
  BY WritesAssumption
<1>2. \E i \in Ids : op.ids = {i}
  BY <1>1
<1>3. op \in Op
  <2> DEFINE I == {{id} : id \in Ids}
             D == Contents \cup {Absent}
             J == (SUBSET Ids) \ {{}}
  <2>1. I \subseteq J
    <3>1. ASSUME NEW id \in Ids
          PROVE  {id} \in J
      <4>1. id \in {id}
        OBVIOUS
      <4>2. {id} # {} /\ {id} \in SUBSET Ids
        BY <4>1
      <4>3. ASSUME NEW x \in SUBSET Ids, x # {}
            PROVE  x \in J
        BY <4>3, Zenon
      <4> HIDE DEF J
      <4> QED BY <4>2, <4>3
    <3> HIDE DEF J
    <3> QED BY <3>1
  <2>2. op \in [req : Reqs, ids : I, doc : D]
    BY <1>1
  <2> HIDE DEF I, D, J
  <2>3. op \in [req : Reqs, ids : J, doc : D]
    BY <2>1, <2>2
  <2> QED BY <2>3 DEF Op, J, D
<1> QED BY <1>1, <1>2, <1>3 DEF Plain, HasVec, Vectors

\* VersionMap::initialize, and the entry that an insert adds.
Initialized(map, id) == [map EXCEPT ![id] = [ver |-> 1, del |-> FALSE]]
NewEntry(id, vec) == [id |-> id, ver |-> 1, vec |-> vec]

\* insert, before the splits it brings about.
LEMMA InsertedForm ==
  ASSUME NEW run \in Runs, NEW id \in Ids, NEW vec \in Vectors
  PROVE  /\ Inserted(run, id, vec) \in Runs
         /\ Inserted(run, id, vec).at = run.at
         /\ Inserted(run, id, vec).upTo = run.upTo
         /\ Inserted(run, id, vec).ix.seq = run.ix.seq
         /\ Inserted(run, id, vec).ix.count = run.ix.count + 1
         /\ Inserted(run, id, vec).ix.map = Initialized(run.ix.map, id)
         /\ Inserted(run, id, vec).entries = run.entries \cup {NewEntry(id, vec)}
<1> DEFINE map == [run.ix.map EXCEPT ![id] = [ver |-> 1, del |-> FALSE]]
           e == [id |-> id, ver |-> 1, vec |-> vec]
           E == run.entries \cup {e}
           c == run.ix.count + 1
           r == [run EXCEPT !.ix.count = c, !.ix.map = map, !.entries = E]
<1>1. run.ix.map \in VersionMap /\ run.entries \in Entries /\ c \in Int
  BY RunFields
<1>2. 1 \in 0 .. VersionMask /\ 1 \in 1 .. VersionMask
  BY DEF VersionMask
<1>3. map \in VersionMap /\ e \in Entry
  BY <1>1, <1>2 DEF VersionMap, Entry
<1>4. E \in Entries
  <2> HIDE DEF e
  <2> QED BY <1>1, <1>3, EntryAdded
<1>5. Inserted(run, id, vec) = r
  BY DEF Inserted
<1> HIDE DEF map, E, c
<1>6. r \in Runs
  BY <1>1, <1>3, <1>4, RunUpdates
<1>7. /\ r.at = run.at /\ r.upTo = run.upTo /\ r.ix.seq = run.ix.seq
      /\ r.ix.count = c /\ r.ix.map = map /\ r.entries = E
  BY DEF Runs, Indexes
<1>8. map = Initialized(run.ix.map, id) /\ E = run.entries \cup {NewEntry(id, vec)}
  BY DEF map, E, Initialized, NewEntry
<1> HIDE DEF r
<1> QED BY <1>5, <1>6, <1>7, <1>8 DEF c

\* delete.
LEMMA DeletedForm ==
  ASSUME NEW run \in Runs, NEW id \in Ids
  PROVE  LET r == Deleted(run, id)
         IN  /\ r \in Runs /\ r.at = run.at /\ r.upTo = run.upTo /\ r.ix.seq = run.ix.seq
             /\ r.ix.count = run.ix.count - 1 /\ r.entries = run.entries
<1> DEFINE map == [run.ix.map EXCEPT ![id].del = TRUE]
           c == run.ix.count - 1
           r == [run EXCEPT !.ix.count = c, !.ix.map = map]
<1>1. run.ix.map \in VersionMap /\ c \in Int
  BY RunFields
<1>2. map \in VersionMap
  BY <1>1 DEF VersionMap
<1>3. Deleted(run, id) = r
  BY DEF Deleted
<1> HIDE DEF map, c
<1>4. r \in Runs
  BY <1>1, <1>2, RunUpdates
<1>5. /\ r.at = run.at /\ r.upTo = run.upTo /\ r.ix.seq = run.ix.seq
      /\ r.ix.count = c /\ r.entries = run.entries
  BY DEF Runs, Indexes
<1> HIDE DEF r
<1> QED BY <1>3, <1>4, <1>5 DEF c

\* replay_into_index of one entry.
LEMMA IndexedType ==
  ASSUME NEW run \in Runs, NEW op \in Writes, NEW r \in Indexed(run, op)
  PROVE  /\ r \in Runs /\ r.at = run.at /\ r.upTo = run.upTo /\ r.ix.seq = run.ix.seq
         /\ run.ix.count - 1 <= r.ix.count /\ r.ix.count <= run.ix.count + 1
<1>1. run.ix.count \in Int
  BY RunFields
<1>2. CASE op.doc = Absent
  <2>1. r = Deleted(run, Plain(op))
    BY <1>2 DEF Indexed, Plain
  <2> QED BY <1>1, <2>1, WriteType, DeletedForm
<1>3. CASE op.doc # Absent /\ HasVec(op.doc)
  <2> DEFINE i == Inserted(run, Plain(op), op.doc)
  <2>1. r \in Splits(i)
    BY <1>3 DEF Indexed, Plain
  <2>2. /\ i \in Runs /\ i.at = run.at /\ i.upTo = run.upTo /\ i.ix.seq = run.ix.seq
        /\ i.ix.count = run.ix.count + 1
    <3>1. Plain(op) \in Ids /\ op.doc \in Vectors
      BY <1>3, WriteType
    <3> QED BY <3>1, InsertedForm
  <2> HIDE DEF i
  <2>3. r \in Alike(i)
    BY <2>1, <2>2, SplitsType
  <2> QED BY <1>1, <2>2, <2>3 DEF Alike
<1>4. CASE op.doc # Absent /\ ~HasVec(op.doc)
  <2>1. r = run
    BY <1>4 DEF Indexed
  <2> QED BY <1>1, <2>1
<1> QED BY <1>2, <1>3, <1>4

-----------------------------------------------------------------------------
(***************************************************************************)
(* The invariant Shapes.                                                   *)
(***************************************************************************)

\* No index at all is an index.
LEMMA NoIndexType == NoIndex \in Indexes /\ NoIndex.seq = 0 /\ Counted(NoIndex)
<1>1. [id \in Ids |-> Unknown] \in VersionMap
  BY DEF Unknown, VersionMap, VersionMask
<1> QED BY <1>1 DEF NoIndex, Indexes, Counted

\* No run at all is a run.
LEMMA NoRunType == NoRun \in Runs /\ NoRun.upTo = 0 /\ NoRun.ix = NoIndex
<1>1. {} \in Entries
  BY FS_EmptySet DEF Entries
<1> QED BY <1>1, NoIndexType DEF NoRun, Runs

\* Init establishes Shapes.
LEMMA ShapesInit == Init => Shapes
<1> SUFFICES ASSUME Init
             PROVE  Shapes
  OBVIOUS
<1> USE DEF Init
<1>1. wal \in Seq({<<op>> : op \in Writes}) /\ Len(wal) = 0 /\ 0 <= MaxWal
  BY BoundsAssumption
<1>2. documents \in [Ids -> Contents \cup {Absent}]
  BY DEF NoDocs
<1>3. docSequences \in [Ids -> Nat] /\ \A id \in Ids : docSequences[id] = 0
  BY DEF NoSeqs
<1>4. postings \in [seq : Nat, entries : Entries] /\ postings.seq = 0
  <2>1. {} \in Entries
    BY FS_EmptySet DEF Entries
  <2> QED BY <2>1
<1>5. /\ stored \in Indexes /\ stored.seq = 0 /\ Counted(stored)
      /\ view \in Indexes /\ view.seq = 0 /\ Counted(view)
  BY NoIndexType
<1>6. /\ building \in Runs /\ building.upTo = 0
      /\ building.ix.seq = 0 /\ Counted(building.ix)
  BY NoIndexType, NoRunType
<1> QED BY <1>1, <1>2, <1>3, <1>4, <1>5, <1>6 DEF Shapes

\* The log that a write leaves.
LEMMA LogType ==
  ASSUME NEW w \in Seq({<<op>> : op \in Writes}), NEW op \in Writes
  PROVE  /\ Append(w, <<op>>) \in Seq({<<o>> : o \in Writes})
         /\ Len(Append(w, <<op>>)) = Len(w) + 1 /\ Len(w) \in Nat
         /\ \A s \in 1 .. Len(w) : Append(w, <<op>>)[s] = w[s]
         /\ Append(w, <<op>>)[Len(w) + 1] = <<op>>
<1> DEFINE W == {<<o>> : o \in Writes}
<1>1. w \in Seq(W) /\ <<op>> \in W
  OBVIOUS
<1> DEFINE e == <<op>>
<1>2. e \in W
  BY <1>1
<1> HIDE DEF W, e
<1>3. /\ Append(w, e) \in Seq(W) /\ Len(Append(w, e)) = Len(w) + 1 /\ Len(w) \in Nat
      /\ \A s \in 1 .. Len(w) : Append(w, e)[s] = w[s]
      /\ Append(w, e)[Len(w) + 1] = e
  BY <1>1, <1>2
<1> QED BY <1>3 DEF W, e

\* An entry of the log is one operation.
LEMMA LogEntry ==
  ASSUME NEW w \in Seq({<<op>> : op \in Writes}), NEW s \in 1 .. Len(w)
  PROVE  w[s][1] \in Writes /\ w[s] = <<w[s][1]>> /\ w[s] \in Seq(Op)
<1> DEFINE W == {<<o>> : o \in Writes}
<1>1. w[s] \in W
  <2> HIDE DEF W
  <2>1. w \in Seq(W)
    BY DEF W
  <2> QED BY <2>1
<1>2. PICK op \in Writes : w[s] = <<op>>
  BY <1>1
<1> QED BY <1>2, WriteType

\* A write keeps Shapes.
LEMMA ShapesWrite ==
  ASSUME Shapes, NEW op \in Writes, WriteEntry(op)
  PROVE  Shapes'
<1> USE DEF WriteEntry
<1>1. /\ wal' \in Seq({<<o>> : o \in Writes}) /\ Len(wal) \in Nat
      /\ Len(wal') = Len(wal) + 1 /\ Len(wal') <= MaxWal
  BY LogType, BoundsAssumption DEF Shapes
<1>2. <<op>> \in Seq(Op)
  BY WriteType
<1>3. /\ documents' \in [Ids -> Contents \cup {Absent}]
      /\ docSequences' \in [Ids -> Nat]
  <2>1. Len(wal') \in Nat
    BY <1>1
  <2> QED BY <1>2, <2>1, ApplyType DEF Shapes
<1>4. ASSUME NEW id \in Ids
      PROVE  docSequences'[id] <= Len(wal')
  <2>1. docSequences'[id] \in {docSequences[id], 0, Len(wal')}
    BY DEF ApplySeqs
  <2>2. docSequences[id] <= Len(wal) /\ docSequences[id] \in Nat
    BY DEF Shapes
  <2> QED BY <1>1, <2>1, <2>2
<1>5. UNCHANGED <<view, postings, stored, building>>
  OBVIOUS
<1>6. /\ postings.seq \in Nat /\ stored.seq \in Nat /\ view.seq \in Nat /\ building.upTo \in Nat
      /\ postings.seq <= Len(wal') /\ stored.seq <= Len(wal') /\ view.seq <= Len(wal')
      /\ building.upTo <= Len(wal')
  <2>1. /\ postings.seq \in Nat /\ stored.seq \in Nat /\ view.seq \in Nat /\ building.upTo \in Nat
    BY RunFields DEF Shapes, Indexes
  <2>2. /\ postings.seq <= Len(wal) /\ stored.seq <= Len(wal) /\ view.seq <= Len(wal)
        /\ building.upTo <= Len(wal)
    BY DEF Shapes
  <2> QED BY <1>1, <2>1, <2>2
<1> QED BY <1>1, <1>3, <1>4, <1>5, <1>6 DEF Shapes, Counted

\* The indexer keeps Shapes.
LEMMA ShapesStart ==
  ASSUME Shapes, StartRun
  PROVE  Shapes'
<1> USE DEF StartRun, serverVars
<1>1. Len(wal) \in Nat /\ postings.entries \in Entries
  <2>1. postings \in [seq : Nat, entries : Entries]
    BY DEF Shapes
  <2> DEFINE W == {<<o>> : o \in Writes}
  <2>2. wal \in Seq(W)
    BY DEF Shapes
  <2> HIDE DEF W
  <2> QED BY <2>1, <2>2
<1>2. building' \in Runs
  BY <1>1 DEF Shapes, Runs
<1>3. building'.upTo = Len(wal) /\ building'.ix = stored
  OBVIOUS
<1> QED BY <1>1, <1>2, <1>3 DEF Shapes

\* A run that reads an entry keeps Shapes.
LEMMA ShapesIndex ==
  ASSUME Shapes, IndexEntry
  PROVE  Shapes'
<1> DEFINE s == building.ix.seq + 1
<1> USE DEF IndexEntry, serverVars
<1>1. building \in Runs /\ building.upTo <= Len(wal) /\ Counted(building.ix)
  BY DEF Shapes
<1>2. /\ building.ix.seq \in Nat /\ building.upTo \in Nat /\ building.ix.count \in Int
      /\ Len(wal) \in Nat
  <2> DEFINE W == {<<o>> : o \in Writes}
  <2>1. wal \in Seq(W)
    BY DEF Shapes
  <2> HIDE DEF W
  <2> QED BY <1>1, <2>1, RunFields
<1>3. s \in 1 .. Len(wal) /\ s \in Nat /\ s <= building.upTo
  BY <1>1, <1>2
<1>4. PICK r \in Indexed(building, wal[s][1]) : building' = [r EXCEPT !.ix.seq = s]
  OBVIOUS
<1>5. wal[s][1] \in Writes
  BY <1>3, LogEntry DEF Shapes
<1>6. /\ r \in Runs /\ r.upTo = building.upTo /\ r.ix.seq = building.ix.seq
      /\ building.ix.count - 1 <= r.ix.count /\ r.ix.count <= building.ix.count + 1
  BY <1>1, <1>4, <1>5, IndexedType
<1> HIDE DEF s
<1>7. building' \in Runs
  BY <1>3, <1>4, <1>6, RunUpdates
<1>8. /\ building'.upTo = r.upTo /\ building'.ix.seq = s
      /\ building'.ix.count = r.ix.count
  BY <1>4, <1>6 DEF Runs, Indexes
<1>9. Counted(building.ix)'
  <2>1. r.ix.count \in Int
    BY <1>6, RunFields
  <2> DEFINE n == building.ix.seq
             c == building.ix.count
             d == r.ix.count
  <2>2. /\ n \in Nat /\ c \in Int /\ d \in Int
        /\ -n <= c /\ c <= n /\ c - 1 <= d /\ d <= c + 1
    BY <1>1, <1>2, <1>6, <2>1 DEF Counted
  <2>3. building'.ix.seq = n + 1 /\ building'.ix.count = d
    BY <1>8 DEF s
  <2> HIDE DEF n, c, d
  <2>4. -(n + 1) <= d /\ d <= n + 1
    BY <2>2
  <2> QED BY <2>3, <2>4 DEF Counted
<1>10. UNCHANGED <<wal, documents, docSequences, view, postings, stored>>
  OBVIOUS
<1> QED BY <1>1, <1>3, <1>6, <1>7, <1>8, <1>9, <1>10 DEF Shapes

\* A run that puts its postings or its manifest keeps Shapes.
LEMMA ShapesPut ==
  ASSUME Shapes, PutPostings \/ PutManifest
  PROVE  Shapes'
<1>1. /\ building \in Runs /\ building.upTo <= Len(wal) /\ Counted(building.ix)
      /\ building.upTo \in Nat /\ building.ix \in Indexes /\ building.entries \in Entries
      /\ building.ix.seq <= building.upTo /\ building.ix.seq \in Nat
      /\ Len(wal) \in Nat
  <2> DEFINE W == {<<o>> : o \in Writes}
  <2>1. wal \in Seq(W)
    BY DEF Shapes
  <2> HIDE DEF W
  <2> QED BY <2>1, RunFields DEF Shapes
<1>2. CASE PutPostings
  <2> USE <1>2 DEF PutPostings, serverVars
  <2>1. postings' \in [seq : Nat, entries : Entries] /\ postings'.seq = building.upTo
    BY <1>1
  <2>2. building' \in Runs /\ building'.upTo = building.upTo /\ building'.ix = building.ix
    <3>1. building' \in Runs
      BY <1>1, RunUpdates
    <3> QED BY <1>1, <3>1 DEF Runs
  <2> QED BY <1>1, <2>1, <2>2 DEF Shapes
<1>3. CASE PutManifest
  <2> USE <1>3 DEF PutManifest, serverVars
  <2>1. stored' = building.ix /\ stored'.seq <= Len(wal)
    BY <1>1
  <2>2. building' = NoRun
    OBVIOUS
  <2>3. /\ building' \in Runs /\ building'.upTo = 0 /\ building'.ix.seq = 0
    BY <2>2, NoRunType, NoIndexType
  <2>4. Counted(building.ix)'
    BY <2>2, NoRunType, NoIndexType
  <2> QED BY <1>1, <2>1, <2>3, <2>4 DEF Shapes
<1> QED BY <1>2, <1>3

\* Every step keeps Shapes.
LEMMA ShapesStep == Shapes /\ [Next]_vars => Shapes'
<1> SUFFICES ASSUME Shapes, [Next]_vars
             PROVE  Shapes'
  OBVIOUS
<1>1. ASSUME NEW op \in Writes, WriteEntry(op)
      PROVE  Shapes'
  BY <1>1, ShapesWrite
<1>2. CASE StartRun
  BY <1>2, ShapesStart
<1>3. CASE IndexEntry
  BY <1>3, ShapesIndex
<1>4. CASE PutPostings \/ PutManifest
  BY <1>4, ShapesPut
<1>5. CASE Reload
  BY <1>5 DEF Reload, Shapes, Counted
<1>6. CASE UNCHANGED vars
  BY <1>6 DEF vars, serverVars, Shapes, Counted
<1> QED BY <1>1, <1>2, <1>3, <1>4, <1>5, <1>6 DEF Next, Finished

\* At any time records have their fields, sets of entries are finite, and
\* neither the index nor the server is ahead of the log.
THEOREM ShapesInductive == Spec => []Shapes
<1> QED BY ShapesInit, ShapesStep, PTL DEF Spec

\* Shapes is the type invariant that the runs check, and more.
THEOREM QueryTypeCorrect == Spec => []QueryTypeOK
<1>1. Shapes => QueryTypeOK
  <2> SUFFICES ASSUME Shapes
               PROVE  QueryTypeOK
    OBVIOUS
  <2>1. Len(wal) \in Nat /\ Len(wal) <= MaxWal /\ MaxWal \in Nat
    <3> DEFINE W == {<<o>> : o \in Writes}
    <3>1. wal \in Seq(W)
      BY DEF Shapes
    <3> HIDE DEF W
    <3> QED BY <3>1, BoundsAssumption DEF Shapes
  <2>2. ASSUME NEW ix \in Indexes, ix.seq <= Len(wal), Counted(ix)
        PROVE  ix \in Index
    <3>1. ix.seq \in 0 .. MaxWal /\ ix.count \in -MaxWal .. MaxWal
      BY <2>1, <2>2 DEF Indexes, Counted
    <3> QED BY <3>1 DEF Indexes, Index, VersionMap
  <2>3. building.ix.seq <= Len(wal) /\ building.ix \in Indexes /\ building.upTo \in 0 .. Len(wal)
    BY <2>1, RunFields DEF Shapes
  <2>4. stored \in Index /\ view \in Index /\ building.ix \in Index
    BY <2>2, <2>3 DEF Shapes
  <2>5. Entries \subseteq IndexEntries
    BY DEF Entries, Entry, IndexEntries
  <2>6. docSequences \in [Ids -> 0 .. MaxWal] /\ postings.seq \in 0 .. MaxWal
    BY <2>1 DEF Shapes
  <2>7. postings.entries \in IndexEntries /\ building.entries \in IndexEntries
    <3>1. postings.entries \in Entries /\ building.entries \in Entries
      BY RunFields DEF Shapes
    <3> QED BY <2>5, <3>1
  <2>8. building.at \in {"idle", "replay", "manifest"}
    BY RunFields DEF Shapes
  <2> QED BY <2>3, <2>4, <2>6, <2>7, <2>8 DEF QueryTypeOK, Shapes
<1> QED BY <1>1, ShapesInductive, PTL

-----------------------------------------------------------------------------
(***************************************************************************)
(* Searches.                                                               *)
(***************************************************************************)

\* The entries a search of the postings reads, and the distances of an id.
Live(E, map) == {e \in E : ~map[e.id].del /\ map[e.id].ver = e.ver}
Dists(q, L, m, id) == {Distance(q, e.vec, m) : e \in {c \in L : c.id = id}}
Best(q, L, m, id) ==
    CHOOSE d \in Dists(q, L, m, id) : \A other \in Dists(q, L, m, id) : d <= other
Found(q, L, m) == {Result(id, Best(q, L, m, id)) : id \in {e.id : e \in L}}

\* Each id of the postings has a best distance, that of one of its entries.
LEMMA BestProps ==
  ASSUME NEW q \in Int, NEW L \in Entries, NEW m \in Metrics,
         NEW id \in {e.id : e \in L}
  PROVE  /\ Best(q, L, m, id) \in Int
         /\ \E e \in L : e.id = id /\ Best(q, L, m, id) = Distance(q, e.vec, m)
         /\ \A e \in L : e.id = id => Best(q, L, m, id) <= Distance(q, e.vec, m)
<1> DEFINE C == {c \in L : c.id = id}
           D == Dists(q, L, m, id)
           f == [e \in C |-> Distance(q, e.vec, m)]
<1>1. IsFiniteSet(L) /\ L \in SUBSET Entry
  BY DEF Entries
<1>2. IsFiniteSet(C)
  BY <1>1, FS_Subset
<1>3. D = {f[e] : e \in C}
  BY DEF Dists
<1>4. IsFiniteSet(D)
  <2>1. IsFiniteSet({f[e] : e \in C})
    <3> HIDE DEF f, C
    <3> QED BY <1>2, FiniteImage
  <2> QED BY <1>3, <2>1
<1>5. D \in SUBSET Int
  <2>1. \A e \in C : e.vec \in Int
    BY <1>1, VectorsAssumption DEF Entry, Vectors
  <2> QED BY <2>1, DistanceInt DEF Dists
<1>6. D # {}
  BY DEF Dists
<1>7. \E d \in D : \A other \in D : d <= other
  <2> HIDE DEF D
  <2> QED BY <1>4, <1>5, <1>6, LeastOfFinite
<1>8. Best(q, L, m, id) \in D /\ \A other \in D : Best(q, L, m, id) <= other
  BY <1>7 DEF Best
<1> QED BY <1>5, <1>8 DEF Dists

\* A search of the postings gives each id once, with the best distance of its
\* entries.
LEMMA FoundType ==
  ASSUME NEW q \in Int, NEW L \in Entries, NEW m \in Metrics
  PROVE  /\ Found(q, L, m) \in SUBSET Results /\ IsFiniteSet(Found(q, L, m))
         /\ \A x, y \in Found(q, L, m) : x.id = y.id => x = y
<1> DEFINE I == {e.id : e \in L}
           g == [e \in L |-> e.id]
           h == [id \in I |-> Result(id, Best(q, L, m, id))]
<1>1. IsFiniteSet(L) /\ L \in SUBSET Entry
  BY DEF Entries
<1>2. IsFiniteSet(I)
  <2>1. I = {g[e] : e \in L}
    OBVIOUS
  <2>2. IsFiniteSet({g[e] : e \in L})
    <3> HIDE DEF g
    <3> QED BY <1>1, FiniteImage
  <2> QED BY <2>1, <2>2
<1>3. Found(q, L, m) = {h[id] : id \in I}
  BY DEF Found
<1>4. IsFiniteSet({h[id] : id \in I})
  <2> HIDE DEF h, I
  <2> QED BY <1>2, FiniteImage
<1>5. ASSUME NEW x \in Found(q, L, m)
      PROVE  x \in Results /\ x = Result(x.id, Best(q, L, m, x.id))
  <2>1. PICK id \in I : x = Result(id, Best(q, L, m, id))
    BY DEF Found
  <2>2. id \in Ids /\ Best(q, L, m, id) \in Int
    BY <1>1, BestProps DEF Entry
  <2> QED BY <2>1, <2>2 DEF Result, Results
<1> QED BY <1>3, <1>4, <1>5

\* A search of the postings keeps the nearest of what it found.
LEMMA SearchIsNearest ==
  ASSUME NEW q, NEW E, NEW map, NEW m, NEW k
  PROVE  SearchPostings(q, E, map, m, k) = Nearest(Found(q, Live(E, map), m), k)
BY DEF SearchPostings, Found, Live, Best, Dists

\* The answer of a search of the postings lists ids it found, each once and in order.
LEMMA SearchListed ==
  ASSUME NEW E \in Entries, NEW map, NEW q \in Int, NEW m \in Metrics, NEW k \in Nat,
         NEW r \in SearchPostings(q, E, map, m, k)
  PROVE  Listed(r) /\ Len(r) <= k
<1>1. Live(E, map) \in Entries
  BY EntriesSubset DEF Live
<1>2. r \in Nearest(Found(q, Live(E, map), m), k)
  BY SearchIsNearest
<1> DEFINE S == Found(q, Live(E, map), m)
<1>3. /\ S \in SUBSET Results /\ IsFiniteSet(S)
      /\ \A x, y \in S : x.id = y.id => x = y
  BY <1>1, FoundType
<1> HIDE DEF S
<1> QED BY <1>2, <1>3, NearestListed DEF S

\* The vectors of documents: one for each id that has one.
VectorRecords == [id : Ids, vec : Vectors]

OnePerId(V) == \A v, u \in V : v.id = u.id => v = u

Scores(q, V, m) == {Result(v.id, Distance(q, v.vec, m)) : v \in V}

LEMMA ScoresType ==
  ASSUME NEW V \in SUBSET VectorRecords, IsFiniteSet(V), OnePerId(V),
         NEW q \in Int, NEW m \in Metrics
  PROVE  /\ Scores(q, V, m) \in SUBSET Results /\ IsFiniteSet(Scores(q, V, m))
         /\ \A x, y \in Scores(q, V, m) : x.id = y.id => x = y
<1> DEFINE h == [v \in V |-> Result(v.id, Distance(q, v.vec, m))]
<1>1. Scores(q, V, m) = {h[v] : v \in V}
  BY DEF Scores
<1>2. IsFiniteSet({h[v] : v \in V})
  <2> HIDE DEF h
  <2> QED BY FiniteImage
<1>3. ASSUME NEW v \in V
      PROVE  /\ Result(v.id, Distance(q, v.vec, m)) \in Results
             /\ Result(v.id, Distance(q, v.vec, m)).id = v.id
  <2>1. v.id \in Ids /\ v.vec \in Int
    BY VectorsAssumption DEF VectorRecords, Vectors
  <2>2. Distance(q, v.vec, m) \in Int
    BY <2>1, DistanceInt
  <2> QED BY <2>1, <2>2 DEF Result, Results
<1>4. Scores(q, V, m) \in SUBSET Results
  BY <1>3 DEF Scores
<1>5. \A x, y \in Scores(q, V, m) : x.id = y.id => x = y
  BY <1>3 DEF Scores, OnePerId
<1> QED BY <1>1, <1>2, <1>4, <1>5

\* Brute force lists ids of the given vectors, each once and in order.
LEMMA BruteListed ==
  ASSUME NEW V \in SUBSET VectorRecords, IsFiniteSet(V), OnePerId(V),
         NEW q \in Int, NEW m \in Metrics, NEW k \in Nat,
         NEW r \in BruteForceKnn(q, V, m, k)
  PROVE  /\ Listed(r) /\ Len(r) <= k
         /\ \A i \in DOMAIN r : \E v \in V : r[i] = Result(v.id, Distance(q, v.vec, m))
<1> DEFINE S == Scores(q, V, m)
<1>1. r \in Nearest(S, k)
  BY DEF BruteForceKnn, Scores
<1>2. /\ S \in SUBSET Results /\ IsFiniteSet(S)
      /\ \A x, y \in S : x.id = y.id => x = y
  BY ScoresType
<1>3. Listed(r) /\ Len(r) <= k /\ \A i \in DOMAIN r : r[i] \in S
  <2> HIDE DEF S
  <2> QED BY <1>1, <1>2, NearestListed
<1> QED BY <1>3 DEF Scores

\* The documents' vectors.
LEMMA WithVectorType ==
  ASSUME documents \in [Ids -> Contents \cup {Absent}], NEW ids \in SUBSET Ids
  PROVE  /\ WithVector(ids) \in SUBSET VectorRecords
         /\ IsFiniteSet(WithVector(ids)) /\ OnePerId(WithVector(ids))
         /\ \A v \in WithVector(ids) : v.id \in ids /\ v.vec = documents[v.id]
         /\ \A id \in ids : HasVec(documents[id]) => \E v \in WithVector(ids) : v.id = id
<1> DEFINE J == {i \in ids : HasVec(documents[i])}
           h == [id \in J |-> [id |-> id, vec |-> documents[id]]]
<1>1. IsFiniteSet(J)
  BY IdsAssumption, FS_Subset
<1>2. WithVector(ids) = {h[id] : id \in J}
  BY DEF WithVector
<1>3. IsFiniteSet({h[id] : id \in J})
  <2> HIDE DEF h, J
  <2> QED BY <1>1, FiniteImage
<1>4. ASSUME NEW id \in J
      PROVE  documents[id] \in Vectors /\ id \in Ids
  BY DEF HasVec, Vectors
<1>5. \A v \in WithVector(ids) : v \in VectorRecords /\ v.id \in ids /\ v.vec = documents[v.id]
  BY <1>4 DEF WithVector, VectorRecords
<1>6. OnePerId(WithVector(ids))
  BY DEF WithVector, OnePerId
<1>7. ASSUME NEW id \in ids, HasVec(documents[id])
      PROVE  \E v \in WithVector(ids) : v.id = id
  <2>1. id \in J
    BY <1>7
  <2>2. [id |-> id, vec |-> documents[id]] \in WithVector(ids)
    BY <2>1 DEF WithVector
  <2>3. [id |-> id, vec |-> documents[id]].id = id
    OBVIOUS
  <2> QED BY <2>2, <2>3
<1> QED BY <1>2, <1>3, <1>5, <1>6, <1>7

\* The empty answer is well formed.
LEMMA EmptyListed == Listed(<<>>) /\ Len(<<>>) = 0
<1>1. <<>> \in Seq(Results) /\ DOMAIN <<>> = {} /\ Len(<<>>) = 0
  BY EmptySeq
<1> QED BY <1>1 DEF Listed, Sorted, OnceEach

-----------------------------------------------------------------------------
(***************************************************************************)
(* The answers to a query.                                                 *)
(***************************************************************************)

\* Results under the vectors the documents have, where the index is behind.
Fresh(s, q, m) ==
    \A i \in DOMAIN s : LET id == s[i].id IN
        docSequences[id] > view.seq /\ HasVec(documents[id]) =>
            s[i].dist = Distance(q, documents[id], m)

LEMMA FromIndexListed ==
  ASSUME Shapes, NEW q \in Int, NEW k \in Nat, NEW a \in FromIndex(q, k)
  PROVE  Listed(a) /\ Len(a) <= k
<1>1. CASE view.count = 0
  BY <1>1, EmptyListed DEF FromIndex
<1>2. CASE view.count # 0
  <2>1. postings.entries \in Entries
    BY DEF Shapes
  <2>2. a \in SearchPostings(q, postings.entries, view.map, NsMetric, k)
    BY <1>2 DEF FromIndex
  <2> QED BY <2>1, <2>2, MetricAssumption, SearchListed
<1> QED BY <1>1, <1>2

\* Brute force, over all documents or those of the tail.
LEMMA BruteFresh ==
  ASSUME Shapes, NEW q \in Int, NEW m \in Metrics, NEW k \in Nat, NEW ids \in SUBSET Ids,
         NEW b \in BruteForceKnn(q, WithVector(ids), m, k)
  PROVE  /\ Listed(b) /\ Len(b) <= k
         /\ \A i \in DOMAIN b : /\ b[i].id \in IdsOf(WithVector(ids))
                                /\ b[i].dist = Distance(q, documents[b[i].id], m)
<1> DEFINE V == WithVector(ids)
<1>1. /\ V \in SUBSET VectorRecords /\ IsFiniteSet(V) /\ OnePerId(V)
      /\ \A v \in V : v.vec = documents[v.id]
  BY WithVectorType DEF Shapes
<1>2. b \in BruteForceKnn(q, V, m, k)
  OBVIOUS
<1> HIDE DEF V
<1>3. /\ Listed(b) /\ Len(b) <= k
      /\ \A i \in DOMAIN b : \E v \in V : b[i] = Result(v.id, Distance(q, v.vec, m))
  BY <1>1, <1>2, BruteListed
<1>4. ASSUME NEW i \in DOMAIN b
      PROVE  /\ b[i].id \in IdsOf(V)
             /\ b[i].dist = Distance(q, documents[b[i].id], m)
  <2>1. PICK v \in V : b[i] = Result(v.id, Distance(q, v.vec, m))
    BY <1>3
  <2>2. b[i].id = v.id /\ b[i].dist = Distance(q, v.vec, m)
    BY <2>1 DEF Result
  <2> QED BY <1>1, <2>2 DEF IdsOf
<1> QED BY <1>3, <1>4 DEF V

TailDocs == {id \in Ids : docSequences[id] > view.seq}

LEMMA TailIds ==
  ASSUME Shapes
  PROVE  /\ Unindexed = WithVector(TailDocs) /\ TailDocs \in SUBSET Ids
         /\ \A id \in TailDocs : HasVec(documents[id]) => id \in IdsOf(Unindexed)
         /\ IdsOf(Unindexed) \subseteq TailDocs
<1>1. Unindexed = WithVector(TailDocs) /\ TailDocs \in SUBSET Ids
  BY DEF Unindexed, TailDocs
<1> HIDE DEF TailDocs
<1>2. /\ \A v \in WithVector(TailDocs) : v.id \in TailDocs
      /\ \A id \in TailDocs : HasVec(documents[id]) => \E v \in WithVector(TailDocs) : v.id = id
  BY <1>1, WithVectorType DEF Shapes
<1> QED BY <1>1, <1>2 DEF IdsOf

\* The index's results and the tail's share no id; from the tail comes the
\* vector a document has.
LEMMA MergedProps ==
  ASSUME Shapes, NEW q \in Int, NEW m \in Metrics, NEW k \in Nat,
         NEW s \in Merged(q, m, k)
  PROVE  Listed(s) /\ Len(s) <= k /\ Fresh(s, q, m)
<1>1. PICK a \in FromIndex(q, k), b \in BruteForceKnn(q, Unindexed, m, k) :
         s = MergeTopK(Without(a, IdsOf(Unindexed)), b, k)
  BY DEF Merged
<1> DEFINE w == Without(a, IdsOf(Unindexed))
<1>2. Listed(a)
  BY FromIndexListed
<1>3. Listed(w) /\ \A i \in DOMAIN w : w[i].id \notin IdsOf(Unindexed)
  BY <1>2, WithoutListed
<1>4. /\ Listed(b)
      /\ \A i \in DOMAIN b : /\ b[i].id \in IdsOf(Unindexed)
                             /\ b[i].dist = Distance(q, documents[b[i].id], m)
  <2>1. TailDocs \in SUBSET Ids /\ Unindexed = WithVector(TailDocs)
    BY TailIds
  <2>2. b \in BruteForceKnn(q, WithVector(TailDocs), m, k)
    BY <2>1
  <2>3. /\ Listed(b)
        /\ \A i \in DOMAIN b : /\ b[i].id \in IdsOf(WithVector(TailDocs))
                               /\ b[i].dist = Distance(q, documents[b[i].id], m)
    BY <2>1, <2>2, BruteFresh
  <2> QED BY <2>1, <2>3
<1> HIDE DEF w
<1>5. \A i \in DOMAIN w, j \in DOMAIN b : w[i].id # b[j].id
  BY <1>3, <1>4
<1>6. s = MergeTopK(w, b, k)
  BY <1>1 DEF w
<1>7. Listed(s) /\ Len(s) <= k /\ From(s, w \o b)
  BY <1>3, <1>4, <1>5, <1>6, MergeListed
<1>8. ASSUME NEW i \in DOMAIN s, docSequences[s[i].id] > view.seq, HasVec(documents[s[i].id])
      PROVE  s[i].dist = Distance(q, documents[s[i].id], m)
  <2>1. s[i] \in Results
    <3>1. s \in Seq(Results)
      BY <1>7 DEF Listed
    <3> QED BY <3>1
  <2>2. s[i].id \in IdsOf(Unindexed)
    BY <1>8, <2>1, TailIds DEF TailDocs, Results
  <2>3. PICK j \in DOMAIN (w \o b) : s[i] = (w \o b)[j]
    BY <1>7 DEF From
  <2>4. w \in Seq(Results) /\ b \in Seq(Results)
    BY <1>3, <1>4 DEF Listed
  <2>5. CASE j \in 1 .. Len(w)
    <3>1. s[i] = w[j] /\ j \in DOMAIN w
      BY <2>3, <2>4, <2>5
    <3> QED BY <1>3, <2>2, <3>1
  <2>6. CASE j \notin 1 .. Len(w)
    <3>1. j - Len(w) \in DOMAIN b /\ s[i] = b[j - Len(w)]
      BY <2>3, <2>4, <2>6
    <3> QED BY <1>4, <3>1
  <2> QED BY <2>5, <2>6
<1> QED BY <1>7, <1>8 DEF Fresh

\* What a query gets is ordered, holds each id once, and no id that is not a
\* document; where the index is behind, it has the documents' own vectors.
LEMMA QueryProps ==
  ASSUME Shapes, NEW q \in Vectors, NEW m \in Metrics, NEW k \in Nat,
         NEW r \in Query(q, m, k)
  PROVE  /\ Listed(r) /\ Len(r) <= k /\ Fresh(r, q, m)
         /\ \A i \in DOMAIN r : documents[r[i].id] # Absent
<1>0. q \in Int
  BY VectorsAssumption DEF Vectors
<1> DEFINE gone == {id \in Ids : documents[id] = Absent}
           scored == IF view.seq = 0 THEN BruteForceKnn(q, WithVector(Ids), m, k)
                     ELSE IF Unindexed = {} THEN FromIndex(q, k)
                     ELSE Merged(q, m, k)
<1>1. PICK s \in scored : r = Without(s, gone)
  BY DEF Query
<1>2. Listed(s) /\ Len(s) <= k /\ Fresh(s, q, m)
  <2>1. CASE view.seq = 0
    <3>1. s \in BruteForceKnn(q, WithVector(Ids), m, k)
      BY <2>1
    <3>2. /\ Listed(s) /\ Len(s) <= k
          /\ \A i \in DOMAIN s : s[i].dist = Distance(q, documents[s[i].id], m)
      BY <1>0, <3>1, BruteFresh
    <3> QED BY <3>2 DEF Fresh
  <2>2. CASE view.seq # 0 /\ Unindexed = {}
    <3>1. s \in FromIndex(q, k)
      BY <2>2
    <3>2. Listed(s) /\ Len(s) <= k
      BY <1>0, <3>1, FromIndexListed
    <3>3. ASSUME NEW i \in DOMAIN s
          PROVE  ~(docSequences[s[i].id] > view.seq /\ HasVec(documents[s[i].id]))
      <4>1. s[i] \in Results
        <5>1. s \in Seq(Results)
          BY <3>2 DEF Listed
        <5> QED BY <5>1
      <4>2. s[i].id \in Ids /\ IdsOf(Unindexed) = {}
        BY <2>2, <4>1 DEF Results, IdsOf
      <4> QED BY <4>2, TailIds DEF TailDocs
    <3> QED BY <3>2, <3>3 DEF Fresh
  <2>3. CASE view.seq # 0 /\ Unindexed # {}
    <3>1. s \in Merged(q, m, k)
      BY <2>3
    <3> QED BY <1>0, <3>1, MergedProps
  <2> QED BY <2>1, <2>2, <2>3
<1> HIDE DEF scored, gone
<1>3. /\ Listed(r) /\ Len(r) <= Len(s) /\ From(r, s)
      /\ \A i \in DOMAIN r : r[i].id \notin gone
  BY <1>1, <1>2, WithoutListed
<1>4. Len(r) <= k
  <2>1. s \in Seq(Results) /\ r \in Seq(Results)
    BY <1>2, <1>3 DEF Listed
  <2>2. Len(s) \in Nat /\ Len(r) \in Nat
    BY <2>1
  <2> QED BY <1>2, <1>3, <2>2
<1>5. ASSUME NEW i \in DOMAIN r
      PROVE  documents[r[i].id] # Absent
  <2>1. r[i] \in Results
    <3>1. r \in Seq(Results)
      BY <1>3 DEF Listed
    <3> QED BY <3>1
  <2> QED BY <1>3, <2>1 DEF Results, gone
<1>6. Fresh(r, q, m)
  BY <1>2, <1>3 DEF Fresh, From
<1> QED BY <1>3, <1>4, <1>5, <1>6

\* Whatever the indexer is doing to the postings, an answer has at most top_k
\* ids, none twice, in order of distance, and each is a document that GET finds.
THEOREM AnswersAlwaysWellFormed == Spec => []AnswersWellFormed
<1>1. Shapes => AnswersWellFormed
  <2> SUFFICES ASSUME Shapes, NEW q \in Vectors, NEW m \in Metrics, NEW k \in TopKs,
                      NEW r \in Query(q, m, k)
               PROVE  /\ Len(r) <= k
                      /\ Sorted(r)
                      /\ \A i, j \in DOMAIN r : r[i].id = r[j].id => i = j
                      /\ \A i \in DOMAIN r : GetDocument(r[i].id) # Absent
    BY DEF AnswersWellFormed
  <2>1. k \in Nat
    BY BoundsAssumption DEF TopKs
  <2> QED BY <2>1, QueryProps DEF Listed, OnceEach, GetDocument
<1> QED BY <1>1, ShapesInductive, PTL

\* A document that the index does not have yet is found under its own vector,
\* never under one that the index still has for its id.
THEOREM FreshVectorAlwaysWins == Spec => []FreshVectorWins
<1>1. Shapes => FreshVectorWins
  <2> SUFFICES ASSUME Shapes, NEW q \in Vectors, NEW m \in Metrics, NEW k \in TopKs,
                      NEW r \in Query(q, m, k)
               PROVE  \A i \in DOMAIN r : LET id == r[i].id IN
                          docSequences[id] > view.seq /\ HasVec(documents[id]) =>
                              r[i].dist = Distance(q, documents[id], m)
    BY DEF FreshVectorWins
  <2>1. k \in Nat
    BY BoundsAssumption DEF TopKs
  <2> QED BY <2>1, QueryProps DEF Fresh
<1> QED BY <1>1, ShapesInductive, PTL

-----------------------------------------------------------------------------
(***************************************************************************)
(* Exactness: the invariant Order.                                         *)
(***************************************************************************)

\* The positions of an index and of a run are numbers.
LEMMA Positions ==
  ASSUME Shapes
  PROVE  /\ Len(wal) \in Nat /\ view.seq \in Nat /\ stored.seq \in Nat /\ postings.seq \in Nat
         /\ building.upTo \in Nat /\ building.ix.seq \in Nat
         /\ DOMAIN wal = 1 .. Len(wal)
<1> DEFINE W == {<<o>> : o \in Writes}
<1>1. wal \in Seq(W)
  BY DEF Shapes
<1> HIDE DEF W
<1>2. Len(wal) \in Nat /\ DOMAIN wal = 1 .. Len(wal)
  BY <1>1
<1> QED BY <1>2, RunFields DEF Shapes, Indexes

\* Init establishes Order.
LEMMA OrderInit == Init => Order
BY DEF Init, Order, NoIndex, NoRun

\* Every step keeps Order.
LEMMA OrderStep == Shapes /\ Order /\ [Next]_vars => Order'
<1> SUFFICES ASSUME Shapes, Order, [Next]_vars
             PROVE  Order'
  OBVIOUS
<1>0. /\ Len(wal) \in Nat /\ view.seq \in Nat /\ stored.seq \in Nat /\ postings.seq \in Nat
      /\ building.upTo \in Nat /\ building.ix.seq \in Nat
  BY Positions
<1>1. ASSUME NEW op \in Writes, WriteEntry(op)
      PROVE  Order'
  BY <1>1 DEF WriteEntry, Order
<1>2. CASE StartRun
  <2>1. /\ building'.at = "replay" /\ building'.upTo = Len(wal)
        /\ UNCHANGED <<view, stored, postings>>
    BY <1>2 DEF StartRun, serverVars
  <2>2. stored.seq < Len(wal) /\ postings.seq = stored.seq
    BY <1>0, <1>2 DEF StartRun, Order
  <2> QED BY <2>1, <2>2 DEF Order
<1>3. CASE IndexEntry
  <2> DEFINE s == building.ix.seq + 1
  <2>1. PICK r \in Indexed(building, wal[s][1]) : building' = [r EXCEPT !.ix.seq = s]
    BY <1>3 DEF IndexEntry
  <2>2. /\ building.at = "replay" /\ building.ix.seq < building.upTo
        /\ UNCHANGED <<wal, view, stored, postings>>
    BY <1>3 DEF IndexEntry, serverVars
  <2>3. wal[s][1] \in Writes /\ building \in Runs
    <3>1. s \in 1 .. Len(wal)
      BY <1>0, <2>2 DEF Shapes
    <3> HIDE DEF s
    <3> QED BY <3>1, LogEntry DEF Shapes
  <2>4. r \in Runs /\ r.at = building.at /\ r.upTo = building.upTo
    <3> HIDE DEF s
    <3> QED BY <2>1, <2>3, IndexedType
  <2>5. building'.at = "replay" /\ building'.upTo = building.upTo
    BY <2>1, <2>2, <2>4 DEF Runs
  <2> QED BY <2>2, <2>5 DEF Order
<1>4. CASE PutPostings
  <2>1. building \in Runs
    BY DEF Shapes
  <2>2. /\ building'.at = "manifest" /\ building'.upTo = building.upTo
        /\ building'.ix = building.ix /\ building'.entries = building.entries
    BY <1>4, <2>1 DEF PutPostings, Runs
  <2>3. /\ building.at = "replay" /\ building.ix.seq = building.upTo
        /\ postings' = [seq |-> building.upTo, entries |-> building.entries]
        /\ UNCHANGED <<view, stored>>
    BY <1>4 DEF PutPostings, serverVars
  <2> QED BY <2>2, <2>3 DEF Order
<1>5. CASE PutManifest
  <2>1. /\ building.at = "manifest" /\ stored' = building.ix /\ building' = NoRun
        /\ UNCHANGED <<view, postings>>
    BY <1>5 DEF PutManifest, serverVars
  <2>2. /\ postings.seq = building.upTo /\ building.ix.seq = building.upTo
        /\ stored.seq < building.upTo /\ view.seq <= stored.seq
    BY <2>1 DEF Order
  <2>3. view.seq < stored'.seq /\ postings'.seq = stored'.seq
    BY <1>0, <2>1, <2>2
  <2>4. building'.at = "idle"
    BY <2>1 DEF NoRun
  <2> QED BY <1>0, <2>1, <2>2, <2>3, <2>4 DEF Order
<1>6. CASE Reload
  BY <1>0, <1>6 DEF Reload, Order
<1>7. CASE UNCHANGED vars
  BY <1>7 DEF vars, serverVars, Order
<1> QED BY <1>1, <1>2, <1>3, <1>4, <1>5, <1>6, <1>7 DEF Next, Finished

-----------------------------------------------------------------------------
(***************************************************************************)
(* Exactness: the invariant Once.                                          *)
(***************************************************************************)

\* A write of one document that the index does not have leaves what it has.
LEMMA ReflectsFrame ==
  ASSUME NEW docs, NEW seqs, NEW docs2, NEW seqs2, NEW id, NEW n \in Nat,
         docs[id] = Absent, seqs2[id] \in Nat, seqs2[id] > n,
         \A j \in Ids : j # id => docs2[j] = docs[j] /\ seqs2[j] = seqs[j],
         NEW map, NEW count, NEW E \in Entries, Reflects(docs, seqs, map, count, E, n)
  PROVE  Reflects(docs2, seqs2, map, count, E, n)
<1>1. ASSUME NEW e \in E
      PROVE  HasVec(docs2[e.id]) /\ e.vec = docs2[e.id] /\ seqs2[e.id] <= n
  <2>1. HasVec(docs[e.id]) /\ e.vec = docs[e.id] /\ seqs[e.id] <= n
    BY DEF Reflects
  <2>2. e.id # id /\ e.id \in Ids
    BY <2>1 DEF HasVec, Entries, Entry
  <2> QED BY <2>1, <2>2
<1>2. ASSUME NEW j \in Ids, HasVec(docs2[j]), seqs2[j] <= n
      PROVE  \E e \in E : e.id = j /\ Current(map, e)
  <2>1. j # id
    BY <1>2
  <2> QED BY <1>2, <2>1 DEF Reflects
<1> QED BY <1>1, <1>2 DEF Reflects

\* Splits move vectors and drop superseded copies, and lose none.
LEMMA SplitsReflect ==
  ASSUME NEW run \in Runs, NEW docs, NEW seqs, NEW n \in Nat,
         Reflects(docs, seqs, run.ix.map, run.ix.count, run.entries, n),
         NEW x \in Splits(run)
  PROVE  Reflects(docs, seqs, x.ix.map, x.ix.count, x.entries, n)
<1> DEFINE V == {r \in Alike(run) : Reflects(docs, seqs, r.ix.map, r.ix.count, r.entries, n)}
<1>1. run \in V
  BY DEF Alike
<1>2. run.entries \in Entries /\ run.entries \in SUBSET Entry
  BY RunFields DEF Entries
<1>3. ASSUME NEW r \in V, NEW e \in Copies(run)
      PROVE  Moved(r, e) \in V
  <2>1. e \in Entry /\ e \in run.entries
    BY <1>2 DEF Copies
  <2>2. /\ r \in Alike(run) /\ r \in Runs /\ r.ix.count = run.ix.count
        /\ Reflects(docs, seqs, r.ix.map, r.ix.count, r.entries, n)
    BY DEF Alike
  <2> DEFINE v == NextVersion(r.ix.map[e.id].ver)
             map == [r.ix.map EXCEPT ![e.id] = [ver |-> v, del |-> r.ix.map[e.id].del]]
             copy == [id |-> e.id, ver |-> v, vec |-> e.vec]
             E == r.entries \cup {copy}
             m == [r EXCEPT !.ix.map = map, !.entries = E]
  <2>3. /\ v \in 1 .. VersionMask /\ map \in VersionMap /\ copy \in Entry
        /\ Moved(r, e) = m
    BY <2>1, <2>2, MovedForm
  <2>4. HasVec(docs[e.id]) /\ e.vec = docs[e.id] /\ seqs[e.id] <= n /\ e.id \in Ids
    BY <2>1 DEF Reflects, Entry
  <2>5. r.ix.count # 0 /\ r.ix.count >= 0
    BY <2>1, <2>2 DEF Reflects
  <2>6. copy.id = e.id /\ copy.vec = e.vec /\ copy.ver = v
    OBVIOUS
  <2>7. ~r.ix.map[e.id].del
    BY <2>2, <2>4 DEF Reflects, Current
  <2>8. r.ix.map \in VersionMap
    BY <2>2, RunFields
  <2>9. /\ map[e.id].ver = v /\ ~map[e.id].del
        /\ \A j \in Ids : j # e.id => map[j] = r.ix.map[j]
    <3>1. map[e.id] = [ver |-> v, del |-> r.ix.map[e.id].del]
      BY <2>4, <2>8 DEF VersionMap
    <3>2. \A j \in Ids : j # e.id => map[j] = r.ix.map[j]
      BY <2>8 DEF VersionMap
    <3> HIDE DEF map, v
    <3> QED BY <2>7, <3>1, <3>2
  <2>10. m.ix.map = map /\ m.ix.count = r.ix.count /\ m.entries = E
    <3> HIDE DEF map, E
    <3> QED BY <2>2 DEF Runs, Indexes
  <2> HIDE DEF m, map, copy, v
  <2>11. \A f \in E : HasVec(docs[f.id]) /\ f.vec = docs[f.id] /\ seqs[f.id] <= n
    BY <2>2, <2>4, <2>6 DEF Reflects
  <2>12. ASSUME NEW j \in Ids, HasVec(docs[j]), seqs[j] <= n
         PROVE  \E f \in E : f.id = j /\ Current(map, f)
    <3>1. CASE j = e.id
      <4>1. copy \in E /\ copy.id = j /\ Current(map, copy)
        BY <2>6, <2>9, <3>1 DEF Current
      <4> QED BY <4>1
    <3>2. CASE j # e.id
      <4>1. PICK f \in r.entries : f.id = j /\ Current(r.ix.map, f)
        BY <2>2, <2>12 DEF Reflects
      <4>2. f \in E /\ Current(map, f)
        BY <2>9, <3>2, <4>1 DEF Current
      <4> QED BY <4>1, <4>2
    <3> QED BY <3>1, <3>2
  <2>13. Reflects(docs, seqs, m.ix.map, m.ix.count, m.entries, n)
    <3> HIDE DEF E
    <3> QED BY <2>5, <2>10, <2>11, <2>12 DEF Reflects
  <2>14. m \in Alike(run)
    BY <2>1, <2>2, <2>3, MovedType
  <2> QED BY <2>3, <2>13, <2>14
<1>4. ASSUME NEW r \in V, NEW F \in SUBSET r.entries, Copies(r) \subseteq F
      PROVE  [r EXCEPT !.entries = F] \in V
  <2> DEFINE m == [r EXCEPT !.entries = F]
  <2>1. /\ r \in Runs /\ r \in Alike(run) /\ r.entries \in Entries
        /\ Reflects(docs, seqs, r.ix.map, r.ix.count, r.entries, n)
    BY RunFields DEF Alike
  <2>2. m \in Runs
    BY <2>1, EntriesSubset, RunUpdates
  <2>3. m.at = r.at /\ m.upTo = r.upTo /\ m.ix = r.ix /\ m.entries = F
    BY <2>1 DEF Runs
  <2> HIDE DEF m
  <2>4. m \in Alike(run)
    BY <2>1, <2>2, <2>3 DEF Alike
  <2>5. Reflects(docs, seqs, r.ix.map, r.ix.count, F, n)
    <3>1. \A f \in F : HasVec(docs[f.id]) /\ f.vec = docs[f.id] /\ seqs[f.id] <= n
      BY <2>1 DEF Reflects
    <3>2. ASSUME NEW j \in Ids, HasVec(docs[j]), seqs[j] <= n
          PROVE  \E f \in F : f.id = j /\ Current(r.ix.map, f)
      <4>1. PICK f \in r.entries : f.id = j /\ Current(r.ix.map, f)
        BY <2>1, <3>2 DEF Reflects
      <4>2. f \in F
        BY <1>4, <4>1 DEF Copies
      <4> QED BY <4>1, <4>2
    <3>3. r.ix.count >= 0 /\ (r.ix.count = 0 => F = {})
      BY <2>1 DEF Reflects
    <3> QED BY <3>1, <3>2, <3>3 DEF Reflects
  <2> QED BY <2>3, <2>4, <2>5 DEF m
<1> HIDE DEF V
<1>5. Splits(run) \subseteq V
  BY <1>1, <1>3, <1>4, SplitsIn
<1> QED BY <1>5 DEF V

\* replay_into_index of entry s of a log that names no document twice.
LEMMA IndexedReflects ==
  ASSUME NEW run \in Runs, NEW op \in Writes, NEW docs, NEW seqs \in [Ids -> Nat],
         NEW s \in Nat, s >= 1, op.doc # Absent,
         docs[Plain(op)] = op.doc, seqs[Plain(op)] = s,
         \A j \in Ids : HasVec(docs[j]) /\ seqs[j] = s => j = Plain(op),
         Reflects(docs, seqs, run.ix.map, run.ix.count, run.entries, s - 1),
         NEW r \in Indexed(run, op)
  PROVE  Reflects(docs, seqs, r.ix.map, r.ix.count, r.entries, s)
<1>0. run.entries \in Entries /\ run.ix.count \in Int /\ run.ix.map \in VersionMap
  BY RunFields
<1>1. CASE HasVec(op.doc)
  <2> DEFINE id == Plain(op)
             i == Inserted(run, id, op.doc)
             map == Initialized(run.ix.map, id)
             e == NewEntry(id, op.doc)
  <2>1. r \in Splits(i) /\ id \in Ids /\ op.doc \in Vectors
    BY <1>1, WriteType DEF Indexed, Plain
  <2>2. /\ i \in Runs /\ i.ix.count = run.ix.count + 1 /\ i.ix.map = map
        /\ i.entries = run.entries \cup {e}
    <3> HIDE DEF id
    <3> QED BY <2>1, InsertedForm
  <2>3. e.id = id /\ e.ver = 1 /\ e.vec = op.doc
    BY DEF NewEntry
  <2>4. map[id].ver = 1 /\ ~map[id].del /\ \A j \in Ids : j # id => map[j] = run.ix.map[j]
    <3> HIDE DEF id
    <3>1. map[id] = [ver |-> 1, del |-> FALSE]
      BY <1>0, <2>1 DEF VersionMap, Initialized
    <3>2. \A j \in Ids : j # id => map[j] = run.ix.map[j]
      BY <1>0 DEF VersionMap, Initialized
    <3> HIDE DEF map
    <3> QED BY <3>1, <3>2
  <2>5. docs[id] = op.doc /\ seqs[id] = s
    OBVIOUS
  <2> HIDE DEF i, map, e
  <2>6. ASSUME NEW f \in run.entries \cup {e}
        PROVE  HasVec(docs[f.id]) /\ f.vec = docs[f.id] /\ seqs[f.id] <= s
    <3>1. CASE f = e
      BY <1>1, <2>3, <2>5, <3>1
    <3>2. CASE f \in run.entries
      <4>1. HasVec(docs[f.id]) /\ f.vec = docs[f.id] /\ seqs[f.id] <= s - 1
        BY <3>2 DEF Reflects
      <4>2. f.id \in Ids
        BY <1>0, <3>2 DEF Entries, Entry
      <4>3. seqs[f.id] \in Nat
        BY <4>2
      <4> QED BY <4>1, <4>3
    <3> QED BY <3>1, <3>2
  <2>7. ASSUME NEW j \in Ids, HasVec(docs[j]), seqs[j] <= s
        PROVE  \E f \in run.entries \cup {e} : f.id = j /\ Current(map, f)
    <3>1. CASE j = id
      BY <2>3, <2>4, <3>1 DEF Current
    <3>2. CASE j # id
      <4>1. seqs[j] <= s - 1
        <5>1. seqs[j] \in Nat /\ seqs[j] # s
          BY <2>7, <3>2
        <5> QED BY <2>7, <5>1
      <4>2. PICK f \in run.entries : f.id = j /\ Current(run.ix.map, f)
        BY <2>7, <4>1 DEF Reflects
      <4> QED BY <2>4, <3>2, <4>2 DEF Current
    <3> QED BY <3>1, <3>2
  <2>8. run.ix.count + 1 >= 0 /\ run.ix.count + 1 # 0
    BY <1>0 DEF Reflects
  <2>9. Reflects(docs, seqs, i.ix.map, i.ix.count, i.entries, s)
    BY <2>2, <2>6, <2>7, <2>8 DEF Reflects
  <2> QED BY <2>1, <2>2, <2>9, SplitsReflect
<1>2. CASE ~HasVec(op.doc)
  <2>1. r = run
    BY <1>2 DEF Indexed
  <2>2. ASSUME NEW f \in run.entries
        PROVE  HasVec(docs[f.id]) /\ f.vec = docs[f.id] /\ seqs[f.id] <= s
    <3>1. HasVec(docs[f.id]) /\ f.vec = docs[f.id] /\ seqs[f.id] <= s - 1
      BY DEF Reflects
    <3>2. f.id \in Ids
      BY <1>0 DEF Entries, Entry
    <3>3. seqs[f.id] \in Nat
      BY <3>2
    <3> QED BY <3>1, <3>3
  <2>3. ASSUME NEW j \in Ids, HasVec(docs[j]), seqs[j] <= s
        PROVE  \E f \in run.entries : f.id = j /\ Current(run.ix.map, f)
    <3>1. j # Plain(op)
      BY <1>2, <2>3
    <3>2. seqs[j] \in Nat /\ seqs[j] # s
      BY <2>3, <3>1
    <3>3. seqs[j] <= s - 1
      BY <2>3, <3>2
    <3> QED BY <2>3, <3>3 DEF Reflects
  <2> QED BY <2>1, <2>2, <2>3 DEF Reflects
<1> QED BY <1>1, <1>2

\* apply_wal_entry of one operation on one document.
LEMMA ApplyOne ==
  ASSUME NEW op \in Writes, NEW docs, NEW seqs, NEW s, NEW id \in Ids
  PROVE  /\ ApplyDocs(docs, <<op>>)[id] = IF id = Plain(op) THEN op.doc ELSE docs[id]
         /\ id # Plain(op) => ApplySeqs(seqs, <<op>>, s)[id] = seqs[id]
         /\ id = Plain(op) /\ op.doc # Absent => ApplySeqs(seqs, <<op>>, s)[id] = s
<1> DEFINE ops == <<op>>
<1>1. op.ids = {Plain(op)} /\ ops \in Seq(Op)
  BY WriteType
<1>2. DOMAIN ops = {1} /\ ops[1] = op
  OBVIOUS
<1> HIDE DEF ops
<1>3. Touches(ops, id) <=> id = Plain(op)
  BY <1>1, <1>2 DEF Touches
<1>4. ASSUME Touches(ops, id)
      PROVE  Effect(ops, id) = op.doc
  <2>1. Deciding(ops, id) \in DOMAIN ops
    BY <1>1, <1>4, DecidingProps
  <2> QED BY <1>2, <2>1 DEF Effect
<1> QED BY <1>3, <1>4 DEF ApplyDocs, ApplySeqs, ops

\* Init establishes Once.
LEMMA OnceInit == Init => Once
<1> SUFFICES ASSUME Init
             PROVE  Once
  OBVIOUS
<1>1. DOMAIN wal = {} /\ \A id \in Ids : documents[id] = Absent
  BY DEF Init, NoDocs
<1>2. Logged
  BY <1>1 DEF Logged
<1>3. building.at = "idle"
  BY DEF Init, NoRun
<1>4. stored.count = 0 /\ postings.entries = {}
  BY DEF Init, NoIndex
<1>5. ReflectsIndex(stored, postings.entries)
  BY <1>1, <1>4 DEF ReflectsIndex, Reflects, HasVec
<1> QED BY <1>2, <1>3, <1>5 DEF Once

\* A write that names a document for the first time.
LEMMA OnceWrite ==
  ASSUME Shapes, Once, NEW op \in Writes, WriteEntry(op)
  PROVE  Once'
<1> DEFINE n == Len(wal)
           new == Plain(op)
<1> SUFFICES ASSUME WrittenOnce'
             PROVE  /\ Logged'
                    /\ (building.at # "idle")' => ReflectsIndex(building.ix, building.entries)'
                    /\ (building.at # "manifest")' => ReflectsIndex(stored, postings.entries)'
  BY DEF Once
<1>1. /\ wal' = Append(wal, <<op>>)
      /\ documents' = ApplyDocs(documents, <<op>>)
      /\ docSequences' = ApplySeqs(docSequences, <<op>>, Len(wal'))
      /\ UNCHANGED <<view, postings, stored, building>>
  BY DEF WriteEntry
<1>2. /\ n \in Nat /\ DOMAIN wal = 1 .. n /\ DOMAIN wal' = 1 .. n + 1 /\ Len(wal') = n + 1
      /\ \A s \in 1 .. n : wal'[s] = wal[s]
      /\ wal'[n + 1] = <<op>>
  <2>1. /\ wal' \in Seq({<<o>> : o \in Writes}) /\ Len(wal') = n + 1
        /\ \A s \in 1 .. n : wal'[s] = wal[s]
        /\ wal'[n + 1] = <<op>>
    BY <1>1, LogType DEF Shapes
  <2>2. DOMAIN wal' = 1 .. Len(wal')
    <3> DEFINE W == {<<o>> : o \in Writes}
    <3>1. wal' \in Seq(W)
      BY <2>1
    <3> HIDE DEF W
    <3> QED BY <3>1
  <2> QED BY <2>1, <2>2, Positions
<1>3. /\ \A s \in 1 .. n + 1 : wal'[s][1].doc # Absent
      /\ \A s, t \in 1 .. n + 1, id \in Ids :
            id \in wal'[s][1].ids /\ id \in wal'[t][1].ids => s = t
  BY <1>2 DEF WrittenOnce, Named
<1>4. wal'[n + 1][1] = op /\ new \in Ids /\ op.ids = {new}
  BY <1>2, WriteType
<1> HIDE DEF n, new
<1>5. WrittenOnce
  BY <1>2, <1>3 DEF WrittenOnce, Named
<1>6. op.doc # Absent /\ \A s \in 1 .. n : new \notin wal[s][1].ids
  <2>1. n + 1 \in 1 .. n + 1 /\ \A s \in 1 .. n : s \in 1 .. n + 1 /\ s # n + 1
    BY <1>2
  <2> QED BY <1>2, <1>3, <1>4, <2>1
<1>7. /\ documents'[new] = op.doc /\ docSequences'[new] = n + 1
      /\ \A id \in Ids : id # new => documents'[id] = documents[id]
                                     /\ docSequences'[id] = docSequences[id]
  <2>1. ASSUME NEW id \in Ids
        PROVE  /\ documents'[id] = IF id = new THEN op.doc ELSE documents[id]
               /\ id # new => docSequences'[id] = docSequences[id]
               /\ id = new => docSequences'[id] = Len(wal')
    <3>1. ApplyDocs(documents, <<op>>)[id] = IF id = Plain(op) THEN op.doc ELSE documents[id]
      BY ApplyOne
    <3>2. ASSUME NEW s
          PROVE  /\ id # Plain(op) => ApplySeqs(docSequences, <<op>>, s)[id] = docSequences[id]
                 /\ id = Plain(op) => ApplySeqs(docSequences, <<op>>, s)[id] = s
      BY <1>6, ApplyOne
    <3> QED BY <1>1, <3>1, <3>2 DEF new
  <2> QED BY <1>2, <1>4, <2>1
<1>8. Logged /\ documents[new] = Absent
  BY <1>2, <1>4, <1>5, <1>6 DEF Once, Logged, Named
<1>9. Logged'
  <2>1. ASSUME NEW s \in 1 .. n + 1, NEW id \in Ids, id \in wal'[s][1].ids
        PROVE  documents'[id] = wal'[s][1].doc /\ docSequences'[id] = s
    <3>1. CASE s = n + 1
      BY <1>4, <1>7, <2>1, <3>1
    <3>2. CASE s # n + 1
      <4>1. s \in 1 .. n
        BY <1>2, <3>2
      <4>2. wal'[s] = wal[s] /\ id # new
        BY <1>2, <1>6, <2>1, <4>1
      <4> QED BY <1>2, <1>7, <1>8, <2>1, <4>1, <4>2 DEF Logged, Named
    <3> QED BY <3>1, <3>2
  <2>2. ASSUME NEW id \in Ids, documents'[id] # Absent
        PROVE  \E s \in 1 .. n + 1 : id \in wal'[s][1].ids
    <3>1. CASE id = new
      <4>1. n + 1 \in 1 .. n + 1
        BY <1>2
      <4> QED BY <1>4, <3>1, <4>1
    <3>2. CASE id # new
      <4>1. PICK s \in 1 .. n : id \in wal[s][1].ids
        BY <1>2, <1>7, <1>8, <2>2, <3>2 DEF Logged, Named
      <4>2. s \in 1 .. n + 1
        BY <1>2
      <4> QED BY <1>2, <4>1, <4>2
    <3> QED BY <3>1, <3>2
  <2> QED BY <1>2, <2>1, <2>2 DEF Logged, Named
<1>10. ASSUME NEW ix, NEW E \in Entries, ix.seq \in Nat, ix.seq <= n,
              Reflects(documents, docSequences, ix.map, ix.count, E, ix.seq)
       PROVE  Reflects(documents', docSequences', ix.map, ix.count, E, ix.seq)
  <2>1. docSequences'[new] \in Nat /\ docSequences'[new] > ix.seq
    BY <1>2, <1>7, <1>10
  <2> QED BY <1>7, <1>8, <1>10, <2>1, ReflectsFrame
<1>11. /\ building.ix.seq \in Nat /\ building.ix.seq <= n /\ building.entries \in Entries
       /\ stored.seq \in Nat /\ stored.seq <= n /\ postings.entries \in Entries
  <2>1. building.upTo \in Nat /\ building.ix.seq \in Nat /\ stored.seq \in Nat
    BY Positions
  <2>2. building.ix.seq <= building.upTo /\ building.upTo <= n /\ stored.seq <= n
    BY DEF Shapes, n
  <2>3. building.entries \in Entries /\ postings.entries \in Entries
    BY RunFields DEF Shapes
  <2> QED BY <1>2, <2>1, <2>2, <2>3
<1>12. (building.at # "idle")' => ReflectsIndex(building.ix, building.entries)'
  BY <1>1, <1>5, <1>10, <1>11 DEF Once, ReflectsIndex
<1>13. (building.at # "manifest")' => ReflectsIndex(stored, postings.entries)'
  BY <1>1, <1>5, <1>10, <1>11 DEF Once, ReflectsIndex
<1> QED BY <1>9, <1>12, <1>13

\* The indexer reads the entry that is next.
LEMMA OnceIndex ==
  ASSUME Shapes, Once, IndexEntry, WrittenOnce
  PROVE  /\ ReflectsIndex(building.ix, building.entries)'
         /\ building'.at = "replay"
<1> DEFINE s == building.ix.seq + 1
           op == wal[s][1]
<1>1. PICK r \in Indexed(building, op) : building' = [r EXCEPT !.ix.seq = s]
  BY DEF IndexEntry
<1>2. /\ building.at = "replay" /\ building.ix.seq < building.upTo
      /\ UNCHANGED <<wal, documents, docSequences>>
  BY DEF IndexEntry, serverVars
<1>3. /\ building.ix.seq \in Nat /\ building.upTo \in Nat /\ building.upTo <= Len(wal)
      /\ Len(wal) \in Nat /\ DOMAIN wal = 1 .. Len(wal) /\ building \in Runs
  BY Positions DEF Shapes
<1>4. s \in Nat /\ s >= 1 /\ s - 1 = building.ix.seq /\ s \in DOMAIN wal
  BY <1>2, <1>3
<1>5. op \in Writes
  BY <1>3, <1>4, LogEntry DEF Shapes
<1>6. /\ Reflects(documents, docSequences, building.ix.map, building.ix.count,
                  building.entries, building.ix.seq)
      /\ Logged
  BY <1>2 DEF Once, ReflectsIndex
<1> HIDE DEF s
<1>7. op.doc # Absent /\ Plain(op) \in Ids /\ op.ids = {Plain(op)}
  BY <1>4, <1>5, WriteType DEF WrittenOnce
<1>8. documents[Plain(op)] = op.doc /\ docSequences[Plain(op)] = s
  BY <1>4, <1>6, <1>7 DEF Logged, Named
<1>9. ASSUME NEW j \in Ids, HasVec(documents[j]), docSequences[j] = s
      PROVE  j = Plain(op)
  <2>1. PICK t \in DOMAIN wal : Named(t, j)
    BY <1>6, <1>9 DEF Logged, HasVec
  <2>2. t = s
    BY <1>6, <1>9, <2>1 DEF Logged
  <2> QED BY <1>7, <2>1, <2>2 DEF Named
<1>10. docSequences \in [Ids -> Nat]
  BY DEF Shapes
<1> HIDE DEF op
<1>11. Reflects(documents, docSequences, r.ix.map, r.ix.count, r.entries, s)
  BY <1>1, <1>3, <1>4, <1>5, <1>6, <1>7, <1>8, <1>9, <1>10, IndexedReflects
<1>12. r \in Runs /\ r.at = building.at
  BY <1>1, <1>3, <1>5, IndexedType
<1>13. /\ building'.at = "replay" /\ building'.ix.seq = s /\ building'.ix.map = r.ix.map
       /\ building'.ix.count = r.ix.count /\ building'.entries = r.entries
  BY <1>1, <1>2, <1>12 DEF Runs, Indexes
<1> QED BY <1>2, <1>11, <1>13 DEF ReflectsIndex

\* Every step keeps Once.
LEMMA OnceStep == Shapes /\ Order /\ Once /\ [Next]_vars => Once'
<1> SUFFICES ASSUME Shapes, Order, Once, [Next]_vars
             PROVE  Once'
  OBVIOUS
<1>1. ASSUME NEW op \in Writes, WriteEntry(op)
      PROVE  Once'
  BY <1>1, OnceWrite
<1>2. ASSUME UNCHANGED wal
      PROVE  WrittenOnce' <=> WrittenOnce
  BY <1>2 DEF WrittenOnce, Named
<1>3. ASSUME UNCHANGED <<wal, documents, docSequences>>, Logged
      PROVE  Logged'
  BY <1>3 DEF Logged, Named
<1>4. CASE StartRun
  <2>1. /\ building.at = "idle" /\ building'.ix = stored /\ building'.entries = postings.entries
        /\ UNCHANGED <<wal, documents, docSequences, stored, postings>>
    BY <1>4 DEF StartRun, serverVars
  <2> QED BY <1>2, <1>3, <2>1 DEF Once, ReflectsIndex
<1>5. CASE IndexEntry
  <2>1. /\ UNCHANGED <<wal, documents, docSequences, stored, postings>>
        /\ building.at = "replay"
    BY <1>5 DEF IndexEntry, serverVars
  <2>2. WrittenOnce => /\ ReflectsIndex(building.ix, building.entries)'
                       /\ building'.at = "replay"
    BY <1>5, OnceIndex
  <2> QED BY <1>2, <1>3, <2>1, <2>2 DEF Once, ReflectsIndex
<1>6. CASE PutPostings
  <2>1. building \in Runs
    BY DEF Shapes
  <2>2. /\ building.at = "replay" /\ building'.at = "manifest"
        /\ building'.ix = building.ix /\ building'.entries = building.entries
        /\ UNCHANGED <<wal, documents, docSequences>>
    BY <1>6, <2>1 DEF PutPostings, serverVars, Runs
  <2> QED BY <1>2, <1>3, <2>2 DEF Once, ReflectsIndex
<1>7. CASE PutManifest
  <2>1. /\ building.at = "manifest" /\ stored' = building.ix /\ building' = NoRun
        /\ UNCHANGED <<wal, documents, docSequences, postings>>
    BY <1>7 DEF PutManifest, serverVars
  <2>2. postings.entries = building.entries
    BY <2>1 DEF Order
  <2>3. building'.at = "idle"
    BY <2>1 DEF NoRun
  <2> QED BY <1>2, <1>3, <2>1, <2>2, <2>3 DEF Once, ReflectsIndex
<1>8. CASE Reload
  <2>1. UNCHANGED <<wal, documents, docSequences, stored, postings, building>>
    BY <1>8 DEF Reload
  <2> QED BY <1>2, <1>3, <2>1 DEF Once, ReflectsIndex
<1>9. CASE UNCHANGED vars
  <2>1. UNCHANGED <<wal, documents, docSequences, stored, postings, building>>
    BY <1>9 DEF vars, serverVars
  <2> QED BY <1>2, <1>3, <2>1 DEF Once, ReflectsIndex
<1> QED BY <1>1, <1>4, <1>5, <1>6, <1>7, <1>8, <1>9 DEF Next, Finished

\* As long as no document is written twice, the store's index, and the copy a
\* run works on, have all vectors up to their positions and nothing else.
THEOREM ExactInductive == Spec => []ExactInv
<1>1. Init => ExactInv
  BY ShapesInit, OrderInit, OnceInit DEF ExactInv
<1>2. ExactInv /\ [Next]_vars => ExactInv'
  BY ShapesStep, OrderStep, OnceStep DEF ExactInv
<1> QED BY <1>1, <1>2, PTL DEF Spec

-----------------------------------------------------------------------------
(***************************************************************************)
(* Exactness: the nearest of a set.                                        *)
(***************************************************************************)

Lower(n, k) == IF n < k THEN n ELSE k

\* r holds k results of S, or all if there are fewer, in order, and what it
\* leaves out is no nearer.
Leads(r, S, k) ==
    /\ r \in Seq(S) /\ Sorted(r) /\ Len(r) = Lower(Cardinality(S), k)
    /\ \A i, j \in DOMAIN r : r[i] = r[j] => i = j
    /\ \A x \in S : \/ \E i \in DOMAIN r : r[i] = x
                    \/ \A i \in DOMAIN r : r[i].dist <= x.dist

\* The numbers 1 .. n are n.
LEMMA CountTo ==
  ASSUME NEW n \in Nat
  PROVE  IsFiniteSet(1 .. n) /\ Cardinality(1 .. n) = n
<1>1. 1 \in Int /\ n \in Int
  OBVIOUS
<1>2. IsFiniteSet(1 .. n) /\ Cardinality(1 .. n) = IF 1 > n THEN 0 ELSE n - 1 + 1
  BY <1>1, FS_Interval
<1> QED BY <1>2

\* A list of all of S without repetition has every element.
LEMMA ListsAll ==
  ASSUME NEW S, IsFiniteSet(S), NEW t \in [1 .. Cardinality(S) -> S],
         \A i, j \in 1 .. Cardinality(S) : t[i] = t[j] => i = j
  PROVE  \A x \in S : \E i \in 1 .. Cardinality(S) : t[i] = x
<1> DEFINE n == Cardinality(S)
<1>1. n \in Nat
  BY FS_CardinalityType
<1>2. IsFiniteSet(1 .. n) /\ Cardinality(1 .. n) = n
  BY <1>1, CountTo
<1>3. t \in Injection(1 .. n, S)
  BY DEF Injection, IsInjective
<1> HIDE DEF n
<1>4. t \in Surjection(1 .. n, S)
  BY <1>2, <1>3, FS_Injection DEF n
<1> QED BY <1>4 DEF Surjection, n

\* What Nearest keeps leads.
LEMMA NearestLeads ==
  ASSUME NEW S \in SUBSET Results, IsFiniteSet(S), NEW k \in Nat, NEW r \in Nearest(S, k)
  PROVE  Leads(r, S, k)
<1> DEFINE n == Cardinality(S)
<1>1. n \in Nat
  BY FS_CardinalityType
<1>2. PICK t \in [1 .. n -> S] : /\ \A i, j \in 1 .. n : i # j => t[i] # t[j]
                                 /\ Sorted(t) /\ r = Truncate(t, k)
  BY DEF Nearest, SetToSeqs
<1>3. \A x \in S : \E i \in 1 .. n : t[i] = x
  <2>1. \A i, j \in 1 .. Cardinality(S) : t[i] = t[j] => i = j
    BY <1>2
  <2>2. t \in [1 .. Cardinality(S) -> S]
    OBVIOUS
  <2>3. \A x \in S : \E i \in 1 .. Cardinality(S) : t[i] = x
    BY <2>1, <2>2, ListsAll
  <2> QED BY <2>3
<1> HIDE DEF n
<1>4. t \in Seq(S) /\ Len(t) = n /\ DOMAIN t = 1 .. n
  BY <1>1, <1>2, SeqDef
<1>5. /\ r \in Seq(S) /\ Len(r) = Lower(n, k)
      /\ \A i \in 1 .. Len(r) : i \in 1 .. n /\ r[i] = t[i]
  BY <1>2, <1>4, TruncateProps DEF Lower
<1>6. DOMAIN r = 1 .. Len(r) /\ Len(r) \in Nat
  BY <1>5
<1>7. Sorted(r) /\ \A i, j \in DOMAIN r : r[i] = r[j] => i = j
  BY <1>2, <1>4, <1>5, <1>6 DEF Sorted
<1>8. ASSUME NEW x \in S
      PROVE  \/ \E i \in DOMAIN r : r[i] = x
             \/ \A i \in DOMAIN r : r[i].dist <= x.dist
  <2>1. PICK j \in 1 .. n : t[j] = x
    BY <1>3
  <2>2. CASE j <= Len(r)
    <3>1. j \in 1 .. Len(r)
      BY <1>1, <1>6, <2>2
    <3> QED BY <1>5, <1>6, <2>1, <3>1
  <2>3. CASE ~(j <= Len(r))
    <3>1. \A i \in 1 .. Len(r) : i < j
      BY <1>1, <1>6, <2>3
    <3> QED BY <1>2, <1>4, <1>5, <1>6, <2>1, <3>1 DEF Sorted
  <2> QED BY <2>2, <2>3
<1> QED BY <1>5, <1>7, <1>8 DEF Leads, n

\* A finite set of results can be listed in order.
LEMMA SortedListing ==
  ASSUME NEW S \in SUBSET Results, IsFiniteSet(S)
  PROVE  \E u \in [1 .. Cardinality(S) -> S] :
            Sorted(u) /\ \A i, j \in 1 .. Cardinality(S) : u[i] = u[j] => i = j
<1> DEFINE n == Cardinality(S)
<1>1. n \in Nat /\ ExistsBijection(1 .. n, S)
  BY FS_CardinalityType
<1>2. PICK s \in [1 .. n -> S] : \A i, j \in 1 .. n : s[i] = s[j] => i = j
  BY <1>1 DEF ExistsBijection, Bijection, Injection, IsInjective
<1> HIDE DEF n
<1>3. s \in Seq(Results) /\ Len(s) = n /\ DOMAIN s = 1 .. n
  <2>1. s \in [1 .. n -> Results]
    BY <1>2
  <2> QED BY <1>1, <2>1, SeqDef
<1> DEFINE o == Ordered(s, DOMAIN s, Before(s))
<1>4. PICK place : /\ Places(place, DOMAIN s, Before(s)) /\ Cardinality(DOMAIN s) = Len(s)
                   /\ o = [p \in 1 .. Len(s) |-> s[place[p]]] /\ Sorted(o)
  BY <1>3, MergePlaces
<1>5. /\ place \in [1 .. n -> 1 .. n]
      /\ \A p, q \in 1 .. n : place[p] = place[q] => p = q
  BY <1>3, <1>4 DEF Places
<1> HIDE DEF o
<1>6. o \in [1 .. n -> S] /\ \A p \in 1 .. n : o[p] = s[place[p]]
  BY <1>2, <1>3, <1>4, <1>5
<1>7. \A p, q \in 1 .. n : o[p] = o[q] => p = q
  BY <1>2, <1>5, <1>6
<1> QED BY <1>4, <1>6, <1>7 DEF n

\* What leads is what Nearest keeps, with the rest listed after it.
LEMMA LeadsNearest ==
  ASSUME NEW S \in SUBSET Results, IsFiniteSet(S), NEW k \in Nat, NEW r, Leads(r, S, k)
  PROVE  r \in Nearest(S, k)
<1> DEFINE n == Cardinality(S)
           l == Len(r)
           R == {r[i] : i \in 1 .. l}
           rest == S \ R
           m == Cardinality(rest)
<1>1. n \in Nat
  BY FS_CardinalityType
<1>2. /\ r \in Seq(S) /\ l \in Nat /\ DOMAIN r = 1 .. l /\ l = Lower(n, k) /\ Sorted(r)
      /\ \A i, j \in 1 .. l : r[i] = r[j] => i = j
      /\ r \in [1 .. l -> S]
  BY DEF Leads
<1>3. R \in SUBSET S /\ IsFiniteSet(R) /\ Cardinality(R) = l
  <2>1. R \in SUBSET S
    BY <1>2
  <2>2. r \in Injection(1 .. l, R) /\ r \in Surjection(1 .. l, R)
    BY <1>2 DEF Injection, IsInjective, Surjection
  <2>3. ExistsBijection(1 .. l, R)
    BY <2>2 DEF ExistsBijection, Bijection
  <2>4. IsFiniteSet(1 .. l) /\ Cardinality(1 .. l) = l
    BY <1>2, CountTo
  <2> HIDE DEF R, l
  <2> QED BY <2>1, <2>3, <2>4, FS_Bijection
<1>4. IsFiniteSet(rest) /\ m = n - l /\ rest \in SUBSET Results
  <2>1. S \cap R = R
    BY <1>3
  <2> HIDE DEF R
  <2>2. IsFiniteSet(S \ R) /\ Cardinality(S \ R) = Cardinality(S) - Cardinality(S \cap R)
    BY FS_Difference
  <2> QED BY <1>3, <2>1, <2>2
<1>5. m \in Nat
  BY <1>4, FS_CardinalityType
<1>6. PICK u \in [1 .. m -> rest] :
         Sorted(u) /\ \A i, j \in 1 .. m : u[i] = u[j] => i = j
  <2> HIDE DEF rest
  <2> QED BY <1>4, SortedListing
<1>7. ASSUME NEW j \in 1 .. m
      PROVE  u[j] \in S /\ \A i \in 1 .. l : r[i] # u[j] /\ r[i].dist <= u[j].dist
  <2>1. u[j] \in S /\ u[j] \notin R
    BY <1>6
  <2>2. \A i \in 1 .. l : r[i] # u[j]
    BY <2>1
  <2> HIDE DEF R, rest, m, l
  <2> QED BY <1>2, <2>1, <2>2 DEF Leads
<1> HIDE DEF n, l, R, rest, m
<1> DEFINE t == r \o u
<1>8. u \in Seq(S) /\ Len(u) = m /\ DOMAIN u = 1 .. m
  <2>1. u \in [1 .. m -> S]
    BY <1>6, <1>7
  <2> QED BY <1>5, <2>1, SeqDef
<1>9. /\ t \in Seq(S) /\ Len(t) = n /\ DOMAIN t = 1 .. n
      /\ \A i \in 1 .. n : t[i] = IF i <= l THEN r[i] ELSE u[i - l]
  <2>1. /\ t \in Seq(S) /\ Len(t) = Len(r) + Len(u)
        /\ \A i \in 1 .. Len(r) + Len(u) : t[i] = IF i <= Len(r) THEN r[i] ELSE u[i - Len(r)]
    <3>1. \A b \in Seq(S) :
             /\ r \o b \in Seq(S) /\ Len(r \o b) = Len(r) + Len(b)
             /\ \A i \in 1 .. Len(r) + Len(b) :
                   (r \o b)[i] = IF i <= Len(r) THEN r[i] ELSE b[i - Len(r)]
      BY <1>2, ConcatProperties
    <3>2. u \in Seq(S)
      BY <1>8
    <3> QED BY <3>1, <3>2
  <2>2. Len(r) + Len(u) = n
    BY <1>1, <1>2, <1>4, <1>8 DEF l
  <2>3. DOMAIN t = 1 .. Len(t)
    <3> HIDE DEF t
    <3> QED BY <2>1
  <2> QED BY <2>1, <2>2, <2>3 DEF l
<1> HIDE DEF t
<1>10. \A i \in 1 .. n : ~(i <= l) => i - l \in 1 .. m
  BY <1>1, <1>2, <1>4
<1>11. \A i \in 1 .. n : i <= l => i \in 1 .. l
  BY <1>1, <1>2
<1>12. ASSUME NEW i \in 1 .. n, NEW j \in 1 .. n, t[i] = t[j]
       PROVE  i = j
  <2>1. CASE i <= l /\ j <= l
    BY <1>2, <1>9, <1>11, <1>12, <2>1
  <2>2. CASE ~(i <= l) /\ ~(j <= l)
    <3>1. i - l = j - l
      BY <1>6, <1>9, <1>10, <1>12, <2>2
    <3> QED BY <1>1, <1>2, <3>1
  <2>3. CASE i <= l /\ ~(j <= l)
    BY <1>7, <1>9, <1>10, <1>11, <1>12, <2>3
  <2>4. CASE ~(i <= l) /\ j <= l
    BY <1>7, <1>9, <1>10, <1>11, <1>12, <2>4
  <2> QED BY <2>1, <2>2, <2>3, <2>4
<1>13. Sorted(t)
  <2> SUFFICES ASSUME NEW i \in 1 .. n, NEW j \in 1 .. n, i < j
               PROVE  t[i].dist <= t[j].dist
    BY <1>9 DEF Sorted
  <2>1. CASE i <= l /\ j <= l
    BY <1>2, <1>9, <1>11, <2>1 DEF Sorted
  <2>2. CASE ~(i <= l) /\ ~(j <= l)
    <3>1. i - l < j - l
      BY <1>1, <1>2
    <3> QED BY <1>6, <1>8, <1>9, <1>10, <2>2, <3>1 DEF Sorted
  <2>3. CASE i <= l /\ ~(j <= l)
    BY <1>7, <1>9, <1>10, <1>11, <2>3
  <2>4. CASE ~(i <= l) /\ j <= l
    BY <1>1, <1>2, <2>4
  <2> QED BY <2>1, <2>2, <2>3, <2>4
<1>14. t \in SetToSeqs(S)
  <2>1. t \in [1 .. n -> S]
    BY <1>9
  <2> QED BY <1>12, <2>1 DEF SetToSeqs, n
<1>15. Truncate(t, k) = r
  <2> DEFINE c == Truncate(t, k)
  <2>1. /\ c \in Seq(S) /\ Len(c) = IF Len(t) < k THEN Len(t) ELSE k
        /\ \A i \in 1 .. Len(c) : i \in 1 .. Len(t) /\ c[i] = t[i]
    BY <1>9, TruncateProps
  <2> HIDE DEF c
  <2>2. Len(c) = l
    BY <1>2, <1>9, <2>1 DEF Lower
  <2>3. \A i \in 1 .. l : c[i] = r[i]
    <3>1. \A i \in 1 .. l : i <= l
      BY <1>2
    <3> QED BY <1>9, <2>1, <2>2, <3>1
  <2>4. c \in [1 .. l -> S]
    BY <2>1, <2>2
  <2>5. c = r
    BY <1>2, <2>3, <2>4
  <2> QED BY <2>5 DEF c
<1> QED BY <1>13, <1>14, <1>15 DEF Nearest

\* If k places of s are no farther than d, so are the first k in order.
LEMMA FirstAreNear ==
  ASSUME NEW s \in Seq(Results), NEW k \in Nat, NEW d \in Int,
         NEW g \in [1 .. k -> DOMAIN s],
         \A i, j \in 1 .. k : g[i] = g[j] => i = j,
         \A j \in 1 .. k : s[g[j]].dist <= d
  PROVE  \A i \in 1 .. Len(s) : i <= k => Ordered(s, DOMAIN s, Before(s))[i].dist <= d
<1> DEFINE o == Ordered(s, DOMAIN s, Before(s))
           n == Len(s)
<1>1. n \in Nat /\ DOMAIN s = 1 .. n
  OBVIOUS
<1>2. PICK place : /\ Places(place, DOMAIN s, Before(s)) /\ Cardinality(DOMAIN s) = Len(s)
                   /\ o = [p \in 1 .. Len(s) |-> s[place[p]]]
                   /\ o \in Seq(Results) /\ Len(o) = Len(s) /\ Sorted(o)
  BY MergePlaces
<1>3. /\ \A j \in 1 .. n : \E p \in 1 .. n : place[p] = j
      /\ place \in [1 .. n -> 1 .. n]
  BY <1>1, <1>2 DEF Places
<1> HIDE DEF o
<1>4. \A p \in 1 .. n : o[p] = s[place[p]] /\ o[p].dist \in Int
  <2>1. \A p \in 1 .. n : o[p] = s[place[p]] /\ o[p] \in Results
    BY <1>1, <1>2
  <2> QED BY <2>1 DEF Results
<1> SUFFICES ASSUME NEW i \in 1 .. n, i <= k, ~(o[i].dist <= d)
             PROVE  FALSE
  BY DEF o
<1> DEFINE f == [j \in 1 .. k |-> CHOOSE p \in 1 .. n : place[p] = g[j]]
<1>5. \A j \in 1 .. k : f[j] \in 1 .. n /\ place[f[j]] = g[j]
  BY <1>1, <1>3
<1> HIDE DEF f
<1>6. ASSUME NEW j \in 1 .. k
      PROVE  f[j] \in 1 .. i - 1
  <2>1. f[j] \in 1 .. n /\ o[f[j]].dist <= d /\ o[f[j]].dist \in Int /\ o[i].dist \in Int
    BY <1>4, <1>5
  <2>2. f[j] # i /\ ~(i < f[j])
    <3>1. DOMAIN o = 1 .. n
      BY <1>2
    <3>2. i < f[j] => o[i].dist <= o[f[j]].dist
      BY <1>2, <2>1, <3>1 DEF Sorted
    <3>3. f[j] # i
      BY <2>1, Zenon
    <3> DEFINE x == o[i].dist
               y == o[f[j]].dist
    <3>4. x \in Int /\ y \in Int /\ y <= d /\ ~(x <= d) /\ (i < f[j] => x <= y)
      BY <2>1, <3>2
    <3> HIDE DEF x, y
    <3>5. ~(x <= y)
      BY <3>4
    <3> QED BY <3>3, <3>4, <3>5
  <2> QED BY <1>1, <2>1, <2>2
<1>7. IsFiniteSet(1 .. k) /\ Cardinality(1 .. k) = k
  BY CountTo
<1>8. IsFiniteSet(1 .. i - 1) /\ Cardinality(1 .. i - 1) = i - 1
  <2>1. i - 1 \in Nat
    BY <1>1
  <2> HIDE DEF n
  <2> QED BY <2>1, CountTo
<1>9. f \in [1 .. k -> 1 .. i - 1]
  <2>1. f = [j \in 1 .. k |-> f[j]]
    BY DEF f
  <2> QED BY <1>6, <2>1
<1>10. Cardinality(1 .. i - 1) < Cardinality(1 .. k)
  BY <1>1, <1>7, <1>8
<1>11. \E x, y \in 1 .. k : x # y /\ f[x] = f[y]
  <2> DEFINE A == 1 .. k
             B == 1 .. i - 1
  <2>1. /\ IsFiniteSet(A) /\ IsFiniteSet(B) /\ Cardinality(B) < Cardinality(A)
        /\ f \in [A -> B]
    BY <1>7, <1>8, <1>9, <1>10
  <2> HIDE DEF A, B
  <2>2. \E x, y \in A : x # y /\ f[x] = f[y]
    BY <2>1, FS_PigeonHole
  <2> QED BY <2>2 DEF A
<1>12. PICK x \in 1 .. k, y \in 1 .. k : x # y /\ f[x] = f[y]
  BY <1>11
<1>13. g[x] = g[y]
  BY <1>5, <1>12
<1> QED BY <1>12, <1>13

\* A list that leads a set is all of it or has k results.
LEMMA LeadsAllOrK ==
  ASSUME NEW S, IsFiniteSet(S), NEW k \in Nat, NEW r, Leads(r, S, k),
         NEW x \in S, \A i \in DOMAIN r : r[i] # x
  PROVE  Len(r) = k /\ k <= Cardinality(S)
<1>1. Cardinality(S) \in Nat /\ r \in Seq(S) /\ Len(r) = Lower(Cardinality(S), k)
  BY FS_CardinalityType DEF Leads
<1>2. ASSUME Cardinality(S) < k
      PROVE  FALSE
  <2>1. Len(r) = Cardinality(S) /\ DOMAIN r = 1 .. Cardinality(S)
    BY <1>1, <1>2 DEF Lower
  <2>2. r \in [1 .. Cardinality(S) -> S]
    BY <1>1, <2>1
  <2>3. \A i, j \in 1 .. Cardinality(S) : r[i] = r[j] => i = j
    BY <2>1 DEF Leads
  <2>4. \A y \in S : \E i \in 1 .. Cardinality(S) : r[i] = y
    BY <2>2, <2>3, ListsAll
  <2> QED BY <2>1, <2>4
<1> QED BY <1>1, <1>2 DEF Lower

\* Merging what leads two sets without a common id leads both.
LEMMA MergeLeads ==
  ASSUME NEW S \in SUBSET Results, IsFiniteSet(S), \A x, y \in S : x.id = y.id => x = y,
         NEW T \in SUBSET Results, IsFiniteSet(T), \A x, y \in T : x.id = y.id => x = y,
         \A x \in S, y \in T : x.id # y.id,
         NEW k \in Nat, NEW a, NEW b, Leads(a, S, k), Leads(b, T, k)
  PROVE  Leads(MergeTopK(a, b, k), S \cup T, k)
<1> DEFINE s == a \o b
           o == Ordered(s, DOMAIN s, Before(s))
           t == Truncate(o, k)
<1>1. MergeTopK(a, b, k) = t
  BY DEF MergeTopK
<1>2. /\ a \in Seq(S) /\ b \in Seq(T) /\ a \in Seq(Results) /\ b \in Seq(Results)
      /\ Len(a) \in Nat /\ Len(b) \in Nat /\ DOMAIN a = 1 .. Len(a) /\ DOMAIN b = 1 .. Len(b)
  BY DEF Leads
<1>3. Listed(a) /\ Listed(b)
  BY <1>2 DEF Leads, Listed, OnceEach
<1>4. \A i \in DOMAIN a, j \in DOMAIN b : a[i].id # b[j].id
  BY <1>2
<1>5. Listed(t) /\ From(t, s)
  BY <1>1, <1>3, <1>4, MergeListed
<1>6. /\ s \in Seq(Results) /\ Len(s) = Len(a) + Len(b) /\ DOMAIN s = 1 .. Len(s)
      /\ \A i \in 1 .. Len(a) : i \in 1 .. Len(s) /\ s[i] = a[i]
      /\ \A j \in 1 .. Len(b) : Len(a) + j \in 1 .. Len(s) /\ s[Len(a) + j] = b[j]
      /\ \A i \in 1 .. Len(s) : \/ i \in 1 .. Len(a) /\ s[i] = a[i]
                                \/ i - Len(a) \in 1 .. Len(b) /\ s[i] = b[i - Len(a)]
  BY <1>2
<1> HIDE DEF s
<1>7. /\ o \in Seq(Results) /\ Len(o) = Len(s) /\ Sorted(o) /\ DOMAIN o = 1 .. Len(s)
      /\ \A j \in 1 .. Len(s) : \E p \in 1 .. Len(s) : o[p] = s[j]
  <2>1. PICK place : /\ Places(place, DOMAIN s, Before(s)) /\ Cardinality(DOMAIN s) = Len(s)
                     /\ o = [p \in 1 .. Len(s) |-> s[place[p]]]
                     /\ o \in Seq(Results) /\ Len(o) = Len(s) /\ Sorted(o)
    BY <1>6, MergePlaces
  <2>2. \A j \in 1 .. Len(s) : \E p \in 1 .. Len(s) : place[p] = j
    BY <1>6, <2>1 DEF Places
  <2> QED BY <2>1, <2>2
<1>8. /\ Len(t) = Lower(Len(s), k) /\ DOMAIN t = 1 .. Len(t)
      /\ \A i \in 1 .. Len(t) : i \in 1 .. Len(s) /\ t[i] = o[i]
  <2> HIDE DEF o
  <2>1. /\ t \in Seq(Results) /\ Len(t) = IF Len(o) < k THEN Len(o) ELSE k
        /\ \A i \in 1 .. Len(t) : i \in 1 .. Len(o) /\ t[i] = o[i]
    BY <1>7, TruncateProps
  <2> HIDE DEF t
  <2> QED BY <1>7, <2>1 DEF Lower
<1>9. /\ Cardinality(S) \in Nat /\ Cardinality(T) \in Nat
      /\ Cardinality(S \cup T) = Cardinality(S) + Cardinality(T)
  <2>1. S \cap T = {}
    OBVIOUS
  <2>2. Cardinality(S \cup T) = Cardinality(S) + Cardinality(T) - Cardinality(S \cap T)
    BY FS_Union
  <2>3. Cardinality(S \cap T) = 0
    BY <2>1, FS_EmptySet
  <2>4. Cardinality(S) \in Nat /\ Cardinality(T) \in Nat
    BY FS_CardinalityType
  <2> QED BY <2>2, <2>3, <2>4
<1>10. Len(t) = Lower(Cardinality(S \cup T), k)
  <2>1. Len(a) = Lower(Cardinality(S), k) /\ Len(b) = Lower(Cardinality(T), k)
    BY DEF Leads
  <2> HIDE DEF t
  <2> QED BY <1>6, <1>8, <1>9, <2>1 DEF Lower
<1> HIDE DEF t
<1>11. t \in Seq(S \cup T)
  <2>1. \A j \in 1 .. Len(s) : s[j] \in S \cup T
    BY <1>2, <1>6
  <2>2. \A i \in 1 .. Len(t) : t[i] \in S \cup T
    <3>1. \A i \in DOMAIN t : \E j \in DOMAIN s : t[i] = s[j]
      BY <1>5 DEF From
    <3>2. DOMAIN t = 1 .. Len(t) /\ DOMAIN s = 1 .. Len(s)
      BY <1>6, <1>8
    <3> QED BY <2>1, <3>1, <3>2
  <2>3. t \in Seq(Results)
    BY <1>5 DEF Listed
  <2>4. Len(t) \in Nat /\ t = [i \in 1 .. Len(t) |-> t[i]]
    BY <2>3
  <2>5. t \in [1 .. Len(t) -> S \cup T]
    BY <2>2, <2>4
  <2> QED BY <2>4, <2>5, SeqDef
<1>12. Sorted(t) /\ \A i, j \in DOMAIN t : t[i] = t[j] => i = j
  BY <1>5 DEF Listed, OnceEach
<1>13. ASSUME NEW g \in [1 .. k -> DOMAIN s], NEW x \in Results,
              \A i, j \in 1 .. k : g[i] = g[j] => i = j,
              \A j \in 1 .. k : s[g[j]].dist <= x.dist
       PROVE  \A i \in DOMAIN t : t[i].dist <= x.dist
  <2>1. x.dist \in Int
    BY DEF Results
  <2>2. \A i \in 1 .. Len(s) : i <= k => o[i].dist <= x.dist
    BY <1>6, <1>13, <2>1, FirstAreNear
  <2>3. \A i \in 1 .. Len(t) : i <= k
    BY <1>6, <1>2, <1>8 DEF Lower
  <2> QED BY <1>8, <2>2, <2>3
<1>14. ASSUME NEW j \in 1 .. Len(s)
       PROVE  \/ \E i \in DOMAIN t : t[i] = s[j]
              \/ \A i \in DOMAIN t : t[i].dist <= s[j].dist
  <2>1. PICK p \in 1 .. Len(s) : o[p] = s[j]
    BY <1>7
  <2>2. CASE p <= Len(t)
    <3>1. p \in 1 .. Len(t)
      BY <1>2, <1>6, <1>8, <2>2 DEF Lower
    <3> QED BY <1>8, <2>1, <3>1
  <2>3. CASE ~(p <= Len(t))
    <3>1. \A i \in 1 .. Len(t) : i < p
      BY <1>2, <1>6, <1>8, <2>3 DEF Lower
    <3> QED BY <1>7, <1>8, <2>1, <3>1 DEF Sorted
  <2> QED BY <2>2, <2>3
<1>15. ASSUME NEW x \in S \cup T
       PROVE  \/ \E i \in DOMAIN t : t[i] = x
              \/ \A i \in DOMAIN t : t[i].dist <= x.dist
  <2>1. CASE \E j \in 1 .. Len(s) : s[j] = x
    BY <1>14, <2>1
  <2>2. CASE x \in S /\ ~\E j \in 1 .. Len(s) : s[j] = x
    <3>1. \A i \in DOMAIN a : a[i] # x
      BY <1>2, <1>6, <2>2
    <3>2. Len(a) = k
      BY <2>2, <3>1, LeadsAllOrK
    <3>3. \A i \in DOMAIN a : a[i].dist <= x.dist
      BY <2>2, <3>1 DEF Leads
    <3> DEFINE g == [j \in 1 .. k |-> j]
    <3>4. g \in [1 .. k -> DOMAIN s] /\ \A j \in 1 .. k : g[j] = j /\ s[g[j]] = a[j]
      BY <1>6, <3>2
    <3> HIDE DEF g
    <3>5. \A j \in 1 .. k : s[g[j]].dist <= x.dist
      BY <1>2, <3>2, <3>3, <3>4
    <3>6. \A i, j \in 1 .. k : g[i] = g[j] => i = j
      BY <3>4
    <3> QED BY <1>13, <2>2, <3>4, <3>5, <3>6
  <2>3. CASE x \in T /\ ~\E j \in 1 .. Len(s) : s[j] = x
    <3>1. \A i \in DOMAIN b : b[i] # x
      BY <1>2, <1>6, <2>3
    <3>2. Len(b) = k
      BY <2>3, <3>1, LeadsAllOrK
    <3>3. \A i \in DOMAIN b : b[i].dist <= x.dist
      BY <2>3, <3>1 DEF Leads
    <3> DEFINE g == [j \in 1 .. k |-> Len(a) + j]
    <3>4. /\ g \in [1 .. k -> DOMAIN s]
          /\ \A j \in 1 .. k : g[j] = Len(a) + j /\ s[g[j]] = b[j]
      BY <1>6, <3>2
    <3> HIDE DEF g
    <3>5. \A j \in 1 .. k : s[g[j]].dist <= x.dist
      BY <1>2, <3>2, <3>3, <3>4
    <3>6. \A i, j \in 1 .. k : g[i] = g[j] => i = j
      BY <1>2, <3>4
    <3> QED BY <1>13, <2>3, <3>4, <3>5, <3>6
  <2> QED BY <2>1, <2>2, <2>3
<1> QED BY <1>1, <1>10, <1>11, <1>12, <1>15 DEF Leads

\* Taking out ids that no result has changes nothing.
LEMMA WithoutNone ==
  ASSUME NEW r, Listed(r), NEW ids, \A i \in DOMAIN r : r[i].id \notin ids
  PROVE  Without(r, ids) = r
<1> DEFINE D == DOMAIN r
           R == {p \in D \X D : p[1] < p[2]}
           n == Len(r)
<1>1. r \in Seq(Results) /\ n \in Nat /\ D = 1 .. n
  BY DEF Listed
<1>2. {i \in DOMAIN r : r[i].id \notin ids} = D
  OBVIOUS
<1>3. Without(r, ids) = Ordered(r, D, R)
  BY <1>2 DEF Without
<1>4. IsFiniteSet(D) /\ StrictOrder(D, R) /\ Cardinality(D) = n
  BY <1>1, PlacesOrdered, CountTo
<1> HIDE DEF D, R
<1>5. PICK place : /\ Places(place, D, R)
                   /\ Ordered(r, D, R) = [p \in 1 .. Cardinality(D) |-> r[place[p]]]
  BY <1>4, OrderedPlaces
<1> HIDE DEF n
<1>6. /\ place \in [1 .. n -> 1 .. n]
      /\ \A i \in 1 .. n : \E p \in 1 .. n : place[p] = i
      /\ \A p, q \in 1 .. n : p < q => place[p] < place[q]
      /\ \A p, q \in 1 .. n : place[p] = place[q] => p = q
  BY <1>1, <1>4, <1>5 DEF Places, R
<1>7. \A p \in 1 .. n : place[p] = p
  <2> DEFINE W == {p \in 1 .. n : place[p] # p}
  <2> SUFFICES ASSUME W # {}
               PROVE  FALSE
    OBVIOUS
  <2>1. W \in SUBSET Nat
    BY <1>1
  <2>2. PICK p \in W : \A q \in W : p <= q
    <3> HIDE DEF W
    <3> QED BY <2>1, MinExists
  <2>3. \A q \in 1 .. n : q < p => place[q] = q
    BY <1>1, <2>1, <2>2
  <2>4. p \in 1 .. n /\ place[p] \in 1 .. n /\ place[p] # p
    BY <1>6
  <2>5. PICK q \in 1 .. n : place[q] = p
    BY <1>6, <2>4
  <2>6. ~(q < p) /\ q # p
    BY <1>1, <2>3, <2>4, <2>5
  <2>7. place[p] < p
    BY <1>1, <1>6, <2>4, <2>5, <2>6
  <2>8. place[place[p]] = place[p]
    BY <2>3, <2>4, <2>7
  <2> QED BY <1>6, <2>4, <2>8
<1>8. r = [p \in 1 .. n |-> r[p]]
  BY <1>1 DEF D
<1> QED BY <1>3, <1>4, <1>5, <1>6, <1>7, <1>8

-----------------------------------------------------------------------------
(***************************************************************************)
(* Exactness: index and tail together are the log.                         *)
(***************************************************************************)

\* The documents that an index of position n has.
Upto(n) == {id \in Ids : docSequences[id] <= n}

\* A search of the postings scores what brute force over the documents does.
LEMMA FoundIsScores ==
  ASSUME Shapes, NEW E \in Entries, NEW map, NEW count, NEW n \in Nat,
         Reflects(documents, docSequences, map, count, E, n),
         NEW q \in Int, NEW m \in Metrics
  PROVE  Found(q, Live(E, map), m) = Scores(q, WithVector(Upto(n)), m)
<1> DEFINE L == Live(E, map)
           V == WithVector(Upto(n))
<1>1. L \in Entries /\ L \in SUBSET E /\ E \in SUBSET Entry
  BY EntriesSubset DEF Live, Entries
<1>2. /\ \A v \in V : v.id \in Upto(n) /\ v.vec = documents[v.id]
      /\ \A id \in Upto(n) : HasVec(documents[id]) => \E v \in V : v.id = id
      /\ \A v \in V : HasVec(documents[v.id])
  <2>1. Upto(n) \in SUBSET Ids
    BY DEF Upto
  <2>2. \A v \in V : HasVec(documents[v.id])
    BY DEF WithVector
  <2> QED BY <2>1, <2>2, WithVectorType DEF Shapes
<1>3. ASSUME NEW e \in E
      PROVE  HasVec(documents[e.id]) /\ e.vec = documents[e.id] /\ e.id \in Upto(n)
  BY <1>1 DEF Reflects, Upto, Entry
<1>4. \A v \in V : \E e \in L : e.id = v.id
  <2> SUFFICES ASSUME NEW v \in V
               PROVE  \E e \in L : e.id = v.id
    OBVIOUS
  <2>1. v.id \in Ids /\ HasVec(documents[v.id]) /\ docSequences[v.id] <= n
    BY <1>2 DEF Upto
  <2>2. PICK e \in E : e.id = v.id /\ Current(map, e)
    BY <2>1 DEF Reflects
  <2> QED BY <2>2 DEF Live, Current
<1> HIDE DEF L, V
<1>5. ASSUME NEW id \in {e.id : e \in L}
      PROVE  Best(q, L, m, id) = Distance(q, documents[id], m)
  <2>1. PICK e \in L : e.id = id /\ Best(q, L, m, id) = Distance(q, e.vec, m)
    BY <1>1, BestProps
  <2>2. e.vec = documents[id]
    BY <1>1, <1>3, <2>1
  <2> QED BY <2>1, <2>2
<1>6. ASSUME NEW x \in Found(q, L, m)
      PROVE  x \in Scores(q, V, m)
  <2>1. PICK id \in {e.id : e \in L} : x = Result(id, Best(q, L, m, id))
    BY DEF Found
  <2>2. HasVec(documents[id]) /\ id \in Upto(n)
    BY <1>1, <1>3
  <2>3. PICK v \in V : v.id = id
    BY <1>2, <2>2
  <2>4. x = Result(v.id, Distance(q, v.vec, m))
    BY <1>2, <1>5, <2>1, <2>3
  <2> QED BY <2>4 DEF Scores
<1>7. ASSUME NEW x \in Scores(q, V, m)
      PROVE  x \in Found(q, L, m)
  <2>1. PICK v \in V : x = Result(v.id, Distance(q, v.vec, m))
    BY DEF Scores
  <2>2. v.id \in {e.id : e \in L}
    BY <1>4
  <2>3. x = Result(v.id, Best(q, L, m, v.id))
    BY <1>2, <1>5, <2>1, <2>2
  <2> QED BY <2>2, <2>3 DEF Found
<1> QED BY <1>6, <1>7 DEF L, V

\* Without vectors the answer is empty.
LEMMA NearestOfNone ==
  ASSUME NEW k \in Nat
  PROVE  <<>> \in Nearest({}, k)
<1>1. IsFiniteSet({}) /\ Cardinality({}) = 0
  BY FS_EmptySet
<1>2. <<>> \in Seq({}) /\ DOMAIN <<>> = {} /\ Len(<<>>) = 0
  BY EmptySeq
<1>3. Leads(<<>>, {}, k)
  BY <1>1, <1>2 DEF Leads, Sorted, Lower
<1>4. {} \in SUBSET Results
  OBVIOUS
<1> QED BY <1>1, <1>3, <1>4, LeadsNearest

\* While the server's version map is that of the postings, the search of the
\* index is exact for the documents up to its position.
LEMMA FromIndexExact ==
  ASSUME ExactInv, Settled, WrittenOnce, NEW q \in Int, NEW k \in Nat,
         NEW a \in FromIndex(q, k)
  PROVE  a \in Nearest(Scores(q, WithVector(Upto(view.seq)), NsMetric), k)
<1>0. Shapes /\ Order /\ Once
  BY DEF ExactInv
<1>1. /\ view.seq \in Nat /\ stored.seq \in Nat /\ building.upTo \in Nat
      /\ postings.entries \in Entries
  BY <1>0, Positions DEF Shapes
<1>2. building.at # "manifest"
  <2> SUFFICES ASSUME building.at = "manifest"
               PROVE  FALSE
    OBVIOUS
  <2>1. /\ postings.seq = building.upTo /\ stored.seq < building.upTo
        /\ view.seq <= stored.seq /\ postings.seq = view.seq
    BY <1>0 DEF Order, Settled
  <2> QED BY <1>1, <2>1
<1>3. view = stored
  BY <1>0, <1>2 DEF Order, Settled
<1>4. Reflects(documents, docSequences, view.map, view.count, postings.entries, view.seq)
  BY <1>0, <1>2, <1>3 DEF Once, ReflectsIndex
<1> DEFINE L == Live(postings.entries, view.map)
           S == Scores(q, WithVector(Upto(view.seq)), NsMetric)
<1>5. Found(q, L, NsMetric) = S
  BY <1>0, <1>1, <1>4, MetricAssumption, FoundIsScores
<1> HIDE DEF S
<1>6. CASE view.count = 0
  <2>1. L = {}
    BY <1>4, <1>6 DEF Live, Reflects
  <2>2. S = {}
    <3>1. Found(q, {}, NsMetric) = {}
      BY DEF Found
    <3> HIDE DEF L
    <3> QED BY <1>5, <2>1, <3>1
  <2>3. a = <<>>
    BY <1>6 DEF FromIndex
  <2> QED BY <2>2, <2>3, NearestOfNone DEF S
<1>7. CASE view.count # 0
  <2>1. a \in Nearest(Found(q, L, NsMetric), k)
    BY <1>7, SearchIsNearest DEF FromIndex
  <2> HIDE DEF L
  <2> QED BY <1>5, <2>1 DEF S
<1> QED BY <1>6, <1>7

\* The documents are those of the index and those of the tail.
LEMMA IndexAndTail ==
  ASSUME Shapes
  PROVE  /\ WithVector(Ids) = WithVector(Upto(view.seq)) \cup Unindexed
         /\ \A v \in WithVector(Upto(view.seq)), u \in Unindexed : v.id # u.id
<1>1. view.seq \in Nat /\ \A id \in Ids : docSequences[id] \in Nat
  BY Positions DEF Shapes
<1>2. Ids = Upto(view.seq) \cup TailDocs /\ Upto(view.seq) \cap TailDocs = {}
  BY <1>1 DEF Upto, TailDocs
<1>3. Unindexed = WithVector(TailDocs) /\ TailDocs \in SUBSET Ids /\ Upto(view.seq) \in SUBSET Ids
  BY TailIds DEF Upto
<1> HIDE DEF TailDocs
<1>4. WithVector(Ids) = WithVector(Upto(view.seq)) \cup WithVector(TailDocs)
  BY <1>2 DEF WithVector
<1>5. /\ \A v \in WithVector(TailDocs) : v.id \in TailDocs
      /\ \A v \in WithVector(Upto(view.seq)) : v.id \in Upto(view.seq)
  BY <1>3, WithVectorType DEF Shapes
<1> QED BY <1>2, <1>3, <1>4, <1>5

\* Index and tail merged are exact.
LEMMA MergedExact ==
  ASSUME ExactInv, Settled, WrittenOnce, NEW q \in Int, NEW k \in Nat,
         NEW s \in Merged(q, NsMetric, k)
  PROVE  s \in Nearest(Scores(q, WithVector(Ids), NsMetric), k)
<1>0. Shapes /\ NsMetric \in Metrics
  BY MetricAssumption DEF ExactInv
<1> DEFINE O == WithVector(Upto(view.seq))
           U == Unindexed
           X == Scores(q, O, NsMetric)
           Y == Scores(q, U, NsMetric)
<1>1. PICK a \in FromIndex(q, k), b \in BruteForceKnn(q, Unindexed, NsMetric, k) :
         s = MergeTopK(Without(a, IdsOf(Unindexed)), b, k)
  BY DEF Merged
<1>2. a \in Nearest(X, k)
  BY FromIndexExact
<1>3. b \in Nearest(Y, k)
  BY DEF BruteForceKnn, Scores
<1>4. /\ WithVector(Ids) = O \cup U
      /\ \A v \in O, u \in U : v.id # u.id
  BY <1>0, IndexAndTail
<1>5. /\ O \in SUBSET VectorRecords /\ IsFiniteSet(O) /\ OnePerId(O)
      /\ U \in SUBSET VectorRecords /\ IsFiniteSet(U) /\ OnePerId(U)
  <2>1. Upto(view.seq) \in SUBSET Ids /\ TailDocs \in SUBSET Ids /\ Unindexed = WithVector(TailDocs)
    BY <1>0, TailIds DEF Upto
  <2>2. documents \in [Ids -> Contents \cup {Absent}]
    BY <1>0 DEF Shapes
  <2> QED BY <2>1, <2>2, WithVectorType
<1> HIDE DEF O, U
<1>6. /\ X \in SUBSET Results /\ IsFiniteSet(X) /\ \A x, y \in X : x.id = y.id => x = y
      /\ Y \in SUBSET Results /\ IsFiniteSet(Y) /\ \A x, y \in Y : x.id = y.id => x = y
  BY <1>0, <1>5, ScoresType
<1>7. /\ \A x \in X : \E v \in O : x.id = v.id
      /\ \A y \in Y : \E u \in U : y.id = u.id
  BY DEF Scores, Result
<1>8. \A x \in X, y \in Y : x.id # y.id
  BY <1>4, <1>7
<1>9. Scores(q, WithVector(Ids), NsMetric) = X \cup Y
  <2>1. Scores(q, O \cup U, NsMetric) = Scores(q, O, NsMetric) \cup Scores(q, U, NsMetric)
    BY DEF Scores
  <2> QED BY <1>4, <2>1
<1> HIDE DEF X, Y
<1>10. Without(a, IdsOf(Unindexed)) = a
  <2>1. Listed(a) /\ \A i \in DOMAIN a : a[i] \in X
    BY <1>2, <1>6, NearestListed
  <2>2. \A i \in DOMAIN a : a[i].id \notin IdsOf(Unindexed)
    BY <1>4, <1>7, <2>1 DEF IdsOf, U
  <2> QED BY <2>1, <2>2, WithoutNone
<1>11. Leads(a, X, k) /\ Leads(b, Y, k)
  BY <1>2, <1>3, <1>6, NearestLeads
<1>12. Leads(s, X \cup Y, k)
  <2>1. Leads(MergeTopK(a, b, k), X \cup Y, k)
    BY <1>6, <1>8, <1>11, MergeLeads
  <2> QED BY <1>1, <1>10, <2>1
<1>13. X \cup Y \in SUBSET Results /\ IsFiniteSet(X \cup Y)
  BY <1>6, FS_Union
<1> DEFINE Z == X \cup Y
<1> HIDE DEF Z
<1>14. s \in Nearest(Z, k)
  BY <1>12, <1>13, LeadsNearest DEF Z
<1> QED BY <1>9, <1>14 DEF Z

\* As long as no document is rewritten or deleted, and while the server's
\* version map is that of the postings, a query in the namespace's metric finds
\* exactly what brute force over all documents would.
THEOREM QueriesExact == Spec => []ExactWhenWrittenOnce
<1>1. ExactInv => ExactWhenWrittenOnce
  <2> SUFFICES ASSUME ExactInv, Settled, WrittenOnce, NEW q \in Vectors, NEW k \in TopKs,
                      NEW r \in Query(q, NsMetric, k)
               PROVE  r \in BruteForceKnn(q, WithVector(Ids), NsMetric, k)
    BY DEF ExactWhenWrittenOnce
  <2>0. q \in Int /\ k \in Nat /\ Shapes /\ NsMetric \in Metrics
    BY VectorsAssumption, BoundsAssumption, MetricAssumption DEF Vectors, TopKs, ExactInv
  <2> DEFINE gone == {id \in Ids : documents[id] = Absent}
             scored == IF view.seq = 0 THEN BruteForceKnn(q, WithVector(Ids), NsMetric, k)
                       ELSE IF Unindexed = {} THEN FromIndex(q, k)
                       ELSE Merged(q, NsMetric, k)
             S == Scores(q, WithVector(Ids), NsMetric)
  <2>1. PICK s \in scored : r = Without(s, gone)
    BY DEF Query
  <2>2. BruteForceKnn(q, WithVector(Ids), NsMetric, k) = Nearest(S, k)
    BY DEF BruteForceKnn, Scores
  <2>3. s \in Nearest(S, k)
    <3>1. CASE view.seq = 0
      BY <2>1, <2>2, <3>1
    <3>2. CASE view.seq # 0 /\ Unindexed = {}
      <4>1. s \in FromIndex(q, k)
        BY <3>2
      <4>2. WithVector(Ids) = WithVector(Upto(view.seq))
        BY <2>0, <3>2, IndexAndTail
      <4> QED BY <2>0, <4>1, <4>2, FromIndexExact
    <3>3. CASE view.seq # 0 /\ Unindexed # {}
      <4>1. s \in Merged(q, NsMetric, k)
        BY <3>3
      <4> QED BY <2>0, <4>1, MergedExact
    <3> QED BY <3>1, <3>2, <3>3
  <2> HIDE DEF scored
  <2>4. /\ S \in SUBSET Results /\ IsFiniteSet(S) /\ \A x, y \in S : x.id = y.id => x = y
        /\ \A x \in S : x.id \notin gone
    <3> DEFINE V == WithVector(Ids)
    <3>1. /\ V \in SUBSET VectorRecords /\ IsFiniteSet(V) /\ OnePerId(V)
      BY <2>0, WithVectorType DEF Shapes
    <3>2. \A v \in V : documents[v.id] # Absent
      BY DEF WithVector, HasVec
    <3>3. \A x \in S : \E v \in V : x.id = v.id
      BY DEF Scores, Result
    <3>4. \A x \in S : x.id \notin gone
      BY <3>2, <3>3
    <3> HIDE DEF V, gone
    <3>5. /\ S \in SUBSET Results /\ IsFiniteSet(S) /\ \A x, y \in S : x.id = y.id => x = y
      BY <2>0, <3>1, ScoresType DEF V
    <3> QED BY <3>4, <3>5
  <2> HIDE DEF S, gone
  <2>5. Listed(s) /\ \A i \in DOMAIN s : s[i] \in S
    BY <2>0, <2>3, <2>4, NearestListed
  <2>6. r = s
    BY <2>1, <2>4, <2>5, WithoutNone
  <2> QED BY <2>2, <2>3, <2>6
<1> QED BY <1>1, ExactInductive, PTL

-----------------------------------------------------------------------------
(***************************************************************************)
(* The index of documents that are rewritten and deleted.                  *)
(***************************************************************************)

\* What splits need and keep.
LEMMA SplitsKeep ==
  ASSUME NEW run \in Runs, NEW w, NEW n, Keeps(w, n, run.ix.map, run.entries),
         NEW x \in Splits(run)
  PROVE  Keeps(w, n, x.ix.map, x.entries)
<1> DEFINE V == {r \in Alike(run) : Keeps(w, n, r.ix.map, r.entries)}
<1>1. run \in V
  BY DEF Alike
<1>2. run.entries \in SUBSET Entry
  BY RunFields DEF Entries
<1>3. ASSUME NEW r \in V, NEW e \in Copies(run)
      PROVE  Moved(r, e) \in V
  <2>1. e \in Entry /\ e \in run.entries /\ ~run.ix.map[e.id].del
    BY <1>2 DEF Copies, Current
  <2>2. /\ r \in Alike(run) /\ r \in Runs /\ Keeps(w, n, r.ix.map, r.entries)
        /\ r.entries \in Entries /\ r.ix.map \in VersionMap
    BY RunFields DEF Alike
  <2> DEFINE v == NextVersion(r.ix.map[e.id].ver)
             map == [r.ix.map EXCEPT ![e.id] = [ver |-> v, del |-> r.ix.map[e.id].del]]
             copy == [id |-> e.id, ver |-> v, vec |-> e.vec]
             E == r.entries \cup {copy}
             m == [r EXCEPT !.ix.map = map, !.entries = E]
  <2>3. Moved(r, e) = m
    BY <2>1, <2>2, MovedForm
  <2>4. e.id \in Ids /\ e.id \in KeptAt(w, n)
    BY <2>1 DEF Keeps, Entry
  <2>5. copy.id = e.id /\ copy.ver = v
    OBVIOUS
  <2>6. /\ map[e.id].ver = v /\ map[e.id].del = r.ix.map[e.id].del
        /\ \A j \in Ids : j # e.id => map[j] = r.ix.map[j]
    <3>1. map[e.id] = [ver |-> v, del |-> r.ix.map[e.id].del]
      BY <2>2, <2>4 DEF VersionMap
    <3>2. \A j \in Ids : j # e.id => map[j] = r.ix.map[j]
      BY <2>2 DEF VersionMap
    <3> HIDE DEF map, v
    <3> QED BY <3>1, <3>2
  <2>7. m.ix.map = map /\ m.entries = E
    <3> HIDE DEF map, E
    <3> QED BY <2>2 DEF Runs, Indexes
  <2> HIDE DEF m, map, copy, v
  <2>8. ASSUME NEW j \in VectorsAt(w, n)
        PROVE  \E f \in E : f.id = j /\ Current(map, f)
    <3>1. PICK f \in r.entries : f.id = j /\ Current(r.ix.map, f)
      BY <2>2 DEF Keeps
    <3>2. CASE j = e.id
      <4>1. copy \in E /\ copy.id = j /\ Current(map, copy)
        BY <2>5, <2>6, <3>1, <3>2 DEF Current
      <4> QED BY <4>1
    <3>3. CASE j # e.id
      <4>1. f \in E /\ Current(map, f)
        BY <2>6, <3>1, <3>3 DEF Current, VectorsAt
      <4> QED BY <3>1, <4>1
    <3> QED BY <3>2, <3>3
  <2>9. ASSUME NEW f \in E, ~map[f.id].del
        PROVE  f.id \in KeptAt(w, n)
    <3>1. CASE f.id = e.id
      BY <2>4, <3>1
    <3>2. CASE f.id # e.id
      <4>1. f \in r.entries /\ f.id \in Ids
        BY <2>2, <2>5, <3>2 DEF Entries, Entry
      <4> QED BY <2>2, <2>6, <2>9, <3>2, <4>1 DEF Keeps
    <3> QED BY <3>1, <3>2
  <2>10. Keeps(w, n, m.ix.map, m.entries)
    <3> HIDE DEF E
    <3> QED BY <2>7, <2>8, <2>9 DEF Keeps
  <2>11. m \in Alike(run)
    BY <2>1, <2>2, <2>3, MovedType
  <2> QED BY <2>3, <2>10, <2>11
<1>4. ASSUME NEW r \in V, NEW F \in SUBSET r.entries, Copies(r) \subseteq F
      PROVE  [r EXCEPT !.entries = F] \in V
  <2> DEFINE m == [r EXCEPT !.entries = F]
  <2>1. /\ r \in Runs /\ r \in Alike(run) /\ r.entries \in Entries
        /\ Keeps(w, n, r.ix.map, r.entries)
    BY RunFields DEF Alike
  <2>2. m \in Runs
    BY <2>1, EntriesSubset, RunUpdates
  <2>3. m.at = r.at /\ m.upTo = r.upTo /\ m.ix = r.ix /\ m.entries = F
    BY <2>1 DEF Runs
  <2> HIDE DEF m
  <2>4. m \in Alike(run)
    BY <2>1, <2>2, <2>3 DEF Alike
  <2>5. Keeps(w, n, r.ix.map, F)
    <3>1. ASSUME NEW j \in VectorsAt(w, n)
          PROVE  \E f \in F : f.id = j /\ Current(r.ix.map, f)
      <4>1. PICK f \in r.entries : f.id = j /\ Current(r.ix.map, f)
        BY <2>1 DEF Keeps
      <4>2. f \in F
        BY <1>4, <4>1 DEF Copies
      <4> QED BY <4>1, <4>2
    <3> QED BY <2>1, <3>1 DEF Keeps
  <2> QED BY <2>3, <2>4, <2>5 DEF m
<1> HIDE DEF V
<1>5. Splits(run) \subseteq V
  BY <1>1, <1>3, <1>4, SplitsIn
<1> QED BY <1>5 DEF V

\* The last write once one more entry, of one document, is applied.
LEMMA LastStep ==
  ASSUME NEW w, NEW s \in Nat, s >= 1, NEW i, w[s][1].ids = {i}, NEW id, NEW t
  PROVE  LastWrite(w, s, id, t) <=> IF id = i THEN t = s ELSE LastWrite(w, s - 1, id, t)
<1>1. s \in 1 .. s /\ s + 1 .. s = {} /\ s \notin 1 .. s - 1
      /\ \A u \in 1 .. s : u = s \/ (u \in 1 .. s - 1 /\ s \in u + 1 .. s)
  OBVIOUS
<1>2. CASE id = i
  BY <1>1, <1>2 DEF LastWrite
<1>3. CASE id # i
  <2>1. ASSUME LastWrite(w, s, id, t)
        PROVE  LastWrite(w, s - 1, id, t)
    <3>1. t \in 1 .. s - 1
      BY <1>1, <1>3, <2>1 DEF LastWrite
    <3>2. \A u \in t + 1 .. s - 1 : u \in t + 1 .. s
      BY <3>1
    <3> QED BY <2>1, <3>1, <3>2 DEF LastWrite
  <2>2. ASSUME LastWrite(w, s - 1, id, t)
        PROVE  LastWrite(w, s, id, t)
    <3>1. t \in 1 .. s - 1
      BY <2>2 DEF LastWrite
    <3>2. t \in 1 .. s /\ \A u \in t + 1 .. s : u = s \/ u \in t + 1 .. s - 1
      BY <3>1
    <3> QED BY <1>3, <2>2, <3>1, <3>2 DEF LastWrite
  <2> QED BY <1>3, <2>1, <2>2
<1> QED BY <1>2, <1>3

\* ... and which documents there are, with and without a vector.
LEMMA StepAt ==
  ASSUME NEW w, NEW s \in Nat, s >= 1, NEW i \in Ids, w[s][1].ids = {i}
  PROVE  /\ VectorsAt(w, s) = IF HasVec(w[s][1].doc) THEN VectorsAt(w, s - 1) \cup {i}
                              ELSE VectorsAt(w, s - 1) \ {i}
         /\ KeptAt(w, s) = IF w[s][1].doc # Absent THEN KeptAt(w, s - 1) \cup {i}
                           ELSE KeptAt(w, s - 1) \ {i}
<1>1. ASSUME NEW id, NEW t
      PROVE  LastWrite(w, s, id, t) <=> IF id = i THEN t = s ELSE LastWrite(w, s - 1, id, t)
  BY LastStep
<1>2. s \in 1 .. s /\ \A t \in 1 .. s - 1 : t \in 1 .. s
  OBVIOUS
<1>3. ASSUME NEW id \in Ids, id # i
      PROVE  /\ id \in VectorsAt(w, s) <=> id \in VectorsAt(w, s - 1)
             /\ id \in KeptAt(w, s) <=> id \in KeptAt(w, s - 1)
  <2>1. \A t : LastWrite(w, s, id, t) <=> LastWrite(w, s - 1, id, t)
    BY <1>1, <1>3
  <2>2. \A t : LastWrite(w, s - 1, id, t) => t \in 1 .. s - 1
    BY DEF LastWrite
  <2> QED BY <1>2, <2>1, <2>2 DEF VectorsAt, KeptAt
<1>4. /\ i \in VectorsAt(w, s) <=> HasVec(w[s][1].doc)
      /\ i \in KeptAt(w, s) <=> w[s][1].doc # Absent
  BY <1>1, <1>2 DEF VectorsAt, KeptAt
<1>5. VectorsAt(w, s) \subseteq Ids /\ KeptAt(w, s) \subseteq Ids
      /\ VectorsAt(w, s - 1) \subseteq Ids /\ KeptAt(w, s - 1) \subseteq Ids
  BY DEF VectorsAt, KeptAt
<1> QED BY <1>3, <1>4, <1>5

\* The documents of a log are finitely many.
LEMMA VectorsFinite ==
  ASSUME NEW w, NEW n
  PROVE  IsFiniteSet(VectorsAt(w, n)) /\ Cardinality(VectorsAt(w, n)) \in Nat
<1>1. VectorsAt(w, n) \in SUBSET Ids
  BY DEF VectorsAt
<1> QED BY <1>1, IdsAssumption, FS_Subset, FS_CardinalityType

\* delete in the version map.
LEMMA DeletedMap ==
  ASSUME NEW run \in Runs, NEW id \in Ids
  PROVE  LET map == Deleted(run, id).ix.map
         IN  map[id].del /\ \A j \in Ids : j # id => map[j] = run.ix.map[j]
<1> DEFINE map == [run.ix.map EXCEPT ![id].del = TRUE]
<1>1. run.ix.map \in VersionMap
  BY RunFields
<1>2. map[id].del /\ \A j \in Ids : j # id => map[j] = run.ix.map[j]
  BY <1>1 DEF VersionMap
<1> HIDE DEF map
<1>3. Deleted(run, id).ix.map = map
  BY DEF Deleted, Runs, Indexes, map
<1> QED BY <1>2, <1>3

\* replay_into_index of entry s: the index keeps up with the documents, and the
\* count, if what is deleted had a vector.
LEMMA IndexedKeeps ==
  ASSUME NEW run \in Runs, NEW w, NEW s \in Nat, s >= 1, w[s][1] \in Writes,
         Keeps(w, s - 1, run.ix.map, run.entries),
         NEW r \in Indexed(run, w[s][1])
  PROVE  /\ Keeps(w, s, r.ix.map, r.entries)
         /\ Cardinality(VectorsAt(w, s - 1)) <= run.ix.count
            /\ (w[s][1].doc = Absent => w[s][1].ids \subseteq VectorsAt(w, s - 1))
            => Cardinality(VectorsAt(w, s)) <= r.ix.count
<1> DEFINE op == w[s][1]
           i == Plain(op)
<1>1. op \in Writes /\ i \in Ids /\ op.ids = {i}
  BY WriteType
<1>2. /\ VectorsAt(w, s) = IF HasVec(op.doc) THEN VectorsAt(w, s - 1) \cup {i}
                           ELSE VectorsAt(w, s - 1) \ {i}
      /\ KeptAt(w, s) = IF op.doc # Absent THEN KeptAt(w, s - 1) \cup {i}
                        ELSE KeptAt(w, s - 1) \ {i}
  BY <1>1, StepAt
<1>3. /\ run.ix.map \in VersionMap /\ run.ix.count \in Int
      /\ run.entries \in SUBSET Entry
      /\ IsFiniteSet(VectorsAt(w, s - 1)) /\ Cardinality(VectorsAt(w, s - 1)) \in Nat
      /\ Cardinality(VectorsAt(w, s)) \in Nat
      /\ VectorsAt(w, s - 1) \subseteq Ids
  BY RunFields, VectorsFinite DEF Entries, VectorsAt
<1> HIDE DEF op, i
<1>4. /\ \A j \in VectorsAt(w, s - 1) : \E e \in run.entries : e.id = j /\ Current(run.ix.map, e)
      /\ \A e \in run.entries : ~run.ix.map[e.id].del => e.id \in KeptAt(w, s - 1)
      /\ \A e \in run.entries : e.id \in Ids
  BY <1>3 DEF Keeps, Entry
<1>5. CASE op.doc = Absent
  <2>1. r = Deleted(run, i) /\ ~HasVec(op.doc)
    BY <1>5 DEF Indexed, Plain, op, i, HasVec
  <2>2. /\ r.ix.map[i].del /\ \A j \in Ids : j # i => r.ix.map[j] = run.ix.map[j]
        /\ r.entries = run.entries /\ r.ix.count = run.ix.count - 1
    BY <1>1, <2>1, DeletedMap, DeletedForm
  <2>3. VectorsAt(w, s) = VectorsAt(w, s - 1) \ {i} /\ KeptAt(w, s) = KeptAt(w, s - 1) \ {i}
    BY <1>2, <1>5, <2>1
  <2>4. ASSUME NEW j \in VectorsAt(w, s)
        PROVE  \E e \in r.entries : e.id = j /\ Current(r.ix.map, e)
    <3>1. j \in VectorsAt(w, s - 1) /\ j # i /\ j \in Ids
      BY <1>3, <2>3
    <3>2. PICK e \in run.entries : e.id = j /\ Current(run.ix.map, e)
      BY <1>4, <3>1
    <3>3. Current(r.ix.map, e)
      BY <2>2, <3>1, <3>2 DEF Current
    <3> QED BY <2>2, <3>2, <3>3
  <2>5. ASSUME NEW e \in r.entries, ~r.ix.map[e.id].del
        PROVE  e.id \in KeptAt(w, s)
    BY <1>4, <2>2, <2>3, <2>5
  <2>6. ASSUME i \in VectorsAt(w, s - 1), Cardinality(VectorsAt(w, s - 1)) <= run.ix.count
        PROVE  Cardinality(VectorsAt(w, s)) <= r.ix.count
    <3>1. Cardinality(VectorsAt(w, s - 1) \ {i}) = Cardinality(VectorsAt(w, s - 1)) - 1
      <4> DEFINE S == VectorsAt(w, s - 1)
      <4>1. IsFiniteSet(S) /\ i \in S
        BY <1>3, <2>6
      <4> HIDE DEF S
      <4>2. Cardinality(S \ {i}) = Cardinality(S) - 1
        BY <4>1, FS_RemoveElement
      <4> QED BY <4>2 DEF S
    <3>2. Cardinality(VectorsAt(w, s)) = Cardinality(VectorsAt(w, s - 1)) - 1
      BY <2>3, <3>1
    <3> QED BY <1>3, <2>2, <2>6, <3>2
  <2>7. Keeps(w, s, r.ix.map, r.entries)
    BY <2>4, <2>5 DEF Keeps
  <2> QED BY <1>1, <1>5, <2>6, <2>7 DEF op
<1>6. CASE op.doc # Absent /\ HasVec(op.doc)
  <2> DEFINE x == Inserted(run, i, op.doc)
             map == Initialized(run.ix.map, i)
             e == NewEntry(i, op.doc)
  <2>1. r \in Splits(x) /\ op.doc \in Vectors
    BY <1>1, <1>6, WriteType DEF Indexed, Plain, op, i
  <2>2. /\ x \in Runs /\ x.ix.count = run.ix.count + 1 /\ x.ix.map = map
        /\ x.entries = run.entries \cup {e}
    BY <1>1, <2>1, InsertedForm
  <2>3. e.id = i /\ e.ver = 1
    BY DEF NewEntry
  <2>4. map[i].ver = 1 /\ ~map[i].del /\ \A j \in Ids : j # i => map[j] = run.ix.map[j]
    <3>1. map[i] = [ver |-> 1, del |-> FALSE]
      BY <1>1, <1>3 DEF VersionMap, Initialized
    <3>2. \A j \in Ids : j # i => map[j] = run.ix.map[j]
      BY <1>3 DEF VersionMap, Initialized
    <3> HIDE DEF map
    <3> QED BY <3>1, <3>2
  <2> HIDE DEF x, map, e
  <2>5. VectorsAt(w, s) = VectorsAt(w, s - 1) \cup {i} /\ KeptAt(w, s) = KeptAt(w, s - 1) \cup {i}
    BY <1>2, <1>6
  <2>6. ASSUME NEW j \in VectorsAt(w, s)
        PROVE  \E f \in x.entries : f.id = j /\ Current(x.ix.map, f)
    <3>1. CASE j = i
      <4>1. e \in x.entries /\ e.id = j /\ Current(x.ix.map, e)
        BY <2>2, <2>3, <2>4, <3>1 DEF Current
      <4> QED BY <4>1
    <3>2. CASE j # i
      <4>1. j \in VectorsAt(w, s - 1) /\ j \in Ids
        BY <1>3, <2>5, <3>2
      <4>2. PICK f \in run.entries : f.id = j /\ Current(run.ix.map, f)
        BY <1>4, <4>1
      <4>3. Current(x.ix.map, f) /\ f \in x.entries
        BY <2>2, <2>4, <3>2, <4>1, <4>2 DEF Current
      <4> QED BY <4>2, <4>3
    <3> QED BY <3>1, <3>2
  <2>7. ASSUME NEW f \in x.entries, ~x.ix.map[f.id].del
        PROVE  f.id \in KeptAt(w, s)
    <3>1. CASE f.id = i
      BY <2>5, <3>1
    <3>2. CASE f.id # i
      <4>1. f \in run.entries
        BY <2>2, <2>3, <3>2
      <4> QED BY <1>4, <2>2, <2>4, <2>5, <2>7, <3>2, <4>1
    <3> QED BY <3>1, <3>2
  <2>8. Keeps(w, s, x.ix.map, x.entries)
    BY <2>6, <2>7 DEF Keeps
  <2>9. Keeps(w, s, r.ix.map, r.entries) /\ r.ix.count = run.ix.count + 1
    <3>1. r.ix.count = x.ix.count
      BY <2>1, <2>2, SplitsType DEF Alike
    <3> QED BY <2>1, <2>2, <2>8, <3>1, SplitsKeep
  <2>10. Cardinality(VectorsAt(w, s)) <= Cardinality(VectorsAt(w, s - 1)) + 1
    <3>1. \/ Cardinality(VectorsAt(w, s)) = Cardinality(VectorsAt(w, s - 1))
          \/ Cardinality(VectorsAt(w, s)) = Cardinality(VectorsAt(w, s - 1)) + 1
      BY <1>3, <2>5, FS_AddElement
    <3> QED BY <1>3, <3>1
  <2> QED BY <1>3, <2>9, <2>10
<1>7. CASE op.doc # Absent /\ ~HasVec(op.doc)
  <2>1. r = run
    BY <1>7 DEF Indexed, op
  <2>2. VectorsAt(w, s) = VectorsAt(w, s - 1) \ {i} /\ KeptAt(w, s) = KeptAt(w, s - 1) \cup {i}
    BY <1>2, <1>7
  <2>3. Keeps(w, s, r.ix.map, r.entries)
    BY <1>4, <2>1, <2>2 DEF Keeps
  <2>4. Cardinality(VectorsAt(w, s)) <= Cardinality(VectorsAt(w, s - 1))
    <3>1. VectorsAt(w, s) \in SUBSET VectorsAt(w, s - 1)
      BY <2>2
    <3> QED BY <1>3, <3>1, FS_Subset
  <2> QED BY <1>3, <2>1, <2>3, <2>4
<1> QED BY <1>5, <1>6, <1>7

\* What the first n entries leave depends on them only.
LEMMA KeptFrame ==
  ASSUME NEW w, NEW v, NEW n \in Nat, \A s \in 1 .. n : v[s] = w[s]
  PROVE  VectorsAt(v, n) = VectorsAt(w, n) /\ KeptAt(v, n) = KeptAt(w, n)
<1>1. ASSUME NEW id, NEW s \in 1 .. n
      PROVE  LastWrite(v, n, id, s) <=> LastWrite(w, n, id, s)
  <2>1. \A t \in s + 1 .. n : t \in 1 .. n
    OBVIOUS
  <2> QED BY <2>1 DEF LastWrite
<1> QED BY <1>1 DEF VectorsAt, KeptAt

\* A log whose deletions are orderly was so one entry before.
LEMMA OrderlyBefore ==
  ASSUME Shapes, NEW op \in Writes, WriteEntry(op), OrderlyDeletes'
  PROVE  OrderlyDeletes
<1> DEFINE n == Len(wal)
<1>1. wal' = Append(wal, <<op>>)
  BY DEF WriteEntry
<1>2. /\ wal' \in Seq({<<o>> : o \in Writes}) /\ Len(wal') = n + 1
      /\ \A s \in 1 .. n : wal'[s] = wal[s]
  BY <1>1, LogType DEF Shapes
<1>3. n \in Nat /\ DOMAIN wal = 1 .. n
  BY Positions
<1>4. DOMAIN wal' = 1 .. n + 1
  <2> DEFINE W == {<<o>> : o \in Writes}
  <2>1. wal' \in Seq(W)
    BY <1>2
  <2> HIDE DEF W
  <2> QED BY <1>2, <2>1
<1> HIDE DEF n
<1> SUFFICES ASSUME NEW s \in 1 .. n, wal[s][1].doc = Absent, NEW id \in wal[s][1].ids
             PROVE  \E t \in 1 .. s - 1 :
                       /\ Named(t, id) /\ HasVec(wal[t][1].doc)
                       /\ \A u \in t + 1 .. s - 1 : ~Named(u, id)
  BY <1>3 DEF OrderlyDeletes
<1>5. s \in 1 .. n + 1 /\ \A t \in 1 .. s - 1 : t \in 1 .. n
  BY <1>3
<1>6. PICK t \in 1 .. s - 1 :
              /\ id \in wal'[t][1].ids /\ HasVec(wal'[t][1].doc)
              /\ \A u \in t + 1 .. s - 1 : id \notin wal'[u][1].ids
  BY <1>2, <1>4, <1>5 DEF OrderlyDeletes, Named
<1>7. \A u \in t + 1 .. s - 1 : u \in 1 .. s - 1
  BY <1>3
<1> QED BY <1>2, <1>5, <1>6, <1>7 DEF Named

\* What an orderly deletion deletes had a vector.
LEMMA OrderlyIds ==
  ASSUME Shapes, OrderlyDeletes, NEW s \in DOMAIN wal, wal[s][1].doc = Absent
  PROVE  wal[s][1].ids \subseteq VectorsAt(wal, s - 1)
<1>1. wal[s][1].ids \subseteq Ids
  <2>1. wal[s][1] \in Writes
    BY Positions, LogEntry DEF Shapes
  <2> QED BY <2>1, WriteType
<1>2. ASSUME NEW id \in wal[s][1].ids
      PROVE  id \in VectorsAt(wal, s - 1)
  <2>1. PICK t \in 1 .. s - 1 :
                /\ Named(t, id) /\ HasVec(wal[t][1].doc)
                /\ \A u \in t + 1 .. s - 1 : ~Named(u, id)
    BY DEF OrderlyDeletes
  <2> QED BY <1>1, <2>1 DEF VectorsAt, LastWrite, Named
<1> QED BY <1>2

\* Nothing is indexed and no log is written at first.
LEMMA ShortInit == Init => Replayed /\ Kept
<1> SUFFICES ASSUME Init
             PROVE  Replayed /\ Kept
  OBVIOUS
<1>1. Len(wal) = 0 /\ 1 .. 0 = {}
  BY DEF Init
<1>2. Replayed
  BY <1>1 DEF Replayed, ReplayOf, Init, NoDocs, NoSeqs
<1>3. VectorsAt(wal, 0) = {} /\ Cardinality({}) = 0
  BY <1>1, FS_EmptySet DEF VectorsAt
<1>4. /\ building.at = "idle" /\ stored.seq = 0 /\ stored.count = 0
      /\ postings.entries = {}
  BY DEF Init, NoRun, NoIndex
<1> QED BY <1>2, <1>3, <1>4 DEF Kept, KeepsIndex, Keeps

\* A write is applied as start-up would apply it.
LEMMA ReplayedStep == Shapes /\ Replayed /\ [Next]_vars => Replayed'
<1> SUFFICES ASSUME Shapes, Replayed, [Next]_vars
             PROVE  Replayed'
  OBVIOUS
<1>1. ASSUME NEW op \in Writes, WriteEntry(op)
      PROVE  Replayed'
  <2> DEFINE n == Len(wal)
  <2>1. /\ wal' = Append(wal, <<op>>)
        /\ documents' = ApplyDocs(documents, <<op>>)
        /\ docSequences' = ApplySeqs(docSequences, <<op>>, Len(wal'))
    BY <1>1 DEF WriteEntry
  <2>2. /\ n \in Nat /\ Len(wal') = n + 1 /\ wal'[n + 1] = <<op>>
        /\ \A s \in 1 .. n : wal'[s] = wal[s]
    BY <2>1, LogType DEF Shapes
  <2> HIDE DEF n
  <2>3. ReplayOf(wal', n, documents, docSequences)
    BY <2>2, ReplayFrame DEF Replayed, n
  <2>4. wal'[n + 1] \in Seq(Op)
    BY <2>2, WriteType
  <2>5. ReplayOf(wal', n + 1, ApplyDocs(documents, wal'[n + 1]),
                              ApplySeqs(docSequences, wal'[n + 1], n + 1))
    BY <2>2, <2>3, <2>4, ReplayStep
  <2> QED BY <2>1, <2>2, <2>5 DEF Replayed
<1>2. ASSUME UNCHANGED <<wal, documents, docSequences>>
      PROVE  Replayed'
  BY <1>2 DEF Replayed
<1> QED BY <1>1, <1>2 DEF Next, StartRun, IndexEntry, PutPostings, PutManifest, Reload,
           Finished, vars, serverVars

\* The log beyond an index does not matter to it.
LEMMA KeptWrite ==
  ASSUME Shapes, Kept, NEW op \in Writes, WriteEntry(op)
  PROVE  Kept'
<1> DEFINE n == Len(wal)
<1>1. /\ wal' = Append(wal, <<op>>)
      /\ UNCHANGED <<postings, stored, building>>
  BY DEF WriteEntry
<1>2. n \in Nat /\ \A s \in 1 .. n : wal'[s] = wal[s]
  BY <1>1, LogType DEF Shapes
<1>3. OrderlyDeletes' => OrderlyDeletes
  BY OrderlyBefore
<1>4. ASSUME NEW ix, NEW E, ix.seq \in Nat, ix.seq <= n, KeepsIndex(ix, E)
      PROVE  /\ Keeps(wal', ix.seq, ix.map, E)
             /\ OrderlyDeletes' => Cardinality(VectorsAt(wal', ix.seq)) <= ix.count
  <2>1. \A s \in 1 .. ix.seq : wal'[s] = wal[s]
    BY <1>2, <1>4
  <2>2. VectorsAt(wal', ix.seq) = VectorsAt(wal, ix.seq)
        /\ KeptAt(wal', ix.seq) = KeptAt(wal, ix.seq)
    BY <1>4, <2>1, KeptFrame
  <2> QED BY <1>3, <1>4, <2>2 DEF KeepsIndex, Keeps
<1>5. /\ building.ix.seq \in Nat /\ building.ix.seq <= n
      /\ stored.seq \in Nat /\ stored.seq <= n
  <2>1. /\ building.ix.seq <= building.upTo /\ building.upTo <= n /\ stored.seq <= n
    BY DEF Shapes
  <2> QED BY <1>2, <2>1, Positions
<1> HIDE DEF n
<1>6. ASSUME building.at # "idle"
      PROVE  KeepsIndex(building.ix, building.entries)'
  <2>1. KeepsIndex(building.ix, building.entries)
    BY <1>6 DEF Kept
  <2> QED BY <1>1, <1>4, <1>5, <2>1 DEF KeepsIndex
<1>7. ASSUME building.at # "manifest"
      PROVE  KeepsIndex(stored, postings.entries)'
  <2>1. KeepsIndex(stored, postings.entries)
    BY <1>7 DEF Kept
  <2> QED BY <1>1, <1>4, <1>5, <2>1 DEF KeepsIndex
<1> QED BY <1>1, <1>6, <1>7 DEF Kept

\* The indexer reads the entry that is next.
LEMMA KeptIndex ==
  ASSUME Shapes, Kept, IndexEntry
  PROVE  /\ KeepsIndex(building.ix, building.entries)'
         /\ building'.at = "replay"
<1> DEFINE s == building.ix.seq + 1
           op == wal[s][1]
<1>1. PICK r \in Indexed(building, op) : building' = [r EXCEPT !.ix.seq = s]
  BY DEF IndexEntry
<1>2. /\ building.at = "replay" /\ building.ix.seq < building.upTo
      /\ UNCHANGED <<wal, documents, docSequences>>
  BY DEF IndexEntry, serverVars
<1>3. /\ building.ix.seq \in Nat /\ building.upTo \in Nat /\ building.upTo <= Len(wal)
      /\ Len(wal) \in Nat /\ DOMAIN wal = 1 .. Len(wal) /\ building \in Runs
  BY Positions DEF Shapes
<1>4. s \in Nat /\ s >= 1 /\ s - 1 = building.ix.seq /\ s \in DOMAIN wal
  BY <1>2, <1>3
<1>5. op \in Writes
  BY <1>3, <1>4, LogEntry DEF Shapes
<1>6. KeepsIndex(building.ix, building.entries)
  BY <1>2 DEF Kept
<1> HIDE DEF s
<1>7. OrderlyDeletes /\ op.doc = Absent => op.ids \subseteq VectorsAt(wal, s - 1)
  BY <1>4, OrderlyIds
<1>8. Keeps(wal, s - 1, building.ix.map, building.entries)
  BY <1>4, <1>6 DEF KeepsIndex
<1>9. /\ Keeps(wal, s, r.ix.map, r.entries)
      /\ Cardinality(VectorsAt(wal, s - 1)) <= building.ix.count
            /\ (op.doc = Absent => op.ids \subseteq VectorsAt(wal, s - 1))
            => Cardinality(VectorsAt(wal, s)) <= r.ix.count
  BY <1>1, <1>3, <1>4, <1>5, <1>8, IndexedKeeps
<1>10. r \in Runs /\ r.at = building.at
  BY <1>1, <1>3, <1>5, IndexedType
<1> HIDE DEF op
<1>11. /\ building'.at = "replay" /\ building'.ix.seq = s /\ building'.ix.map = r.ix.map
       /\ building'.ix.count = r.ix.count /\ building'.entries = r.entries
  BY <1>1, <1>2, <1>10 DEF Runs, Indexes
<1>12. OrderlyDeletes => Cardinality(VectorsAt(wal, s)) <= r.ix.count
  BY <1>4, <1>6, <1>7, <1>9 DEF KeepsIndex
<1>13. OrderlyDeletes' <=> OrderlyDeletes
  BY <1>2 DEF OrderlyDeletes, Named
<1> QED BY <1>2, <1>9, <1>11, <1>12, <1>13 DEF KeepsIndex

\* Every step keeps Kept.
LEMMA KeptStep == Shapes /\ Order /\ Kept /\ [Next]_vars => Kept'
<1> SUFFICES ASSUME Shapes, Order, Kept, [Next]_vars
             PROVE  Kept'
  OBVIOUS
<1>1. ASSUME NEW op \in Writes, WriteEntry(op)
      PROVE  Kept'
  BY <1>1, KeptWrite
<1>2. ASSUME UNCHANGED wal
      PROVE  OrderlyDeletes' <=> OrderlyDeletes
  BY <1>2 DEF OrderlyDeletes, Named
<1>3. CASE StartRun
  <2>1. /\ building.at = "idle" /\ building'.ix = stored /\ building'.entries = postings.entries
        /\ UNCHANGED <<wal, stored, postings>>
    BY <1>3 DEF StartRun, serverVars
  <2> QED BY <1>2, <2>1 DEF Kept, KeepsIndex
<1>4. CASE IndexEntry
  <2>1. UNCHANGED <<wal, stored, postings>> /\ building.at = "replay"
    BY <1>4 DEF IndexEntry, serverVars
  <2>2. /\ KeepsIndex(building.ix, building.entries)'
        /\ building'.at = "replay"
    BY <1>4, KeptIndex
  <2> QED BY <1>2, <2>1, <2>2 DEF Kept, KeepsIndex
<1>5. CASE PutPostings
  <2>1. building \in Runs
    BY DEF Shapes
  <2>2. /\ building.at = "replay" /\ building'.at = "manifest"
        /\ building'.ix = building.ix /\ building'.entries = building.entries
        /\ UNCHANGED wal
    BY <1>5, <2>1 DEF PutPostings, serverVars, Runs
  <2> QED BY <1>2, <2>2 DEF Kept, KeepsIndex
<1>6. CASE PutManifest
  <2>1. /\ building.at = "manifest" /\ stored' = building.ix /\ building' = NoRun
        /\ UNCHANGED <<wal, postings>>
    BY <1>6 DEF PutManifest, serverVars
  <2>2. postings.entries = building.entries
    BY <2>1 DEF Order
  <2>3. building'.at = "idle"
    BY <2>1 DEF NoRun
  <2> QED BY <1>2, <2>1, <2>2, <2>3 DEF Kept, KeepsIndex
<1>7. CASE Reload \/ UNCHANGED vars
  <2>1. UNCHANGED <<wal, stored, postings, building>>
    BY <1>7 DEF Reload, vars, serverVars
  <2> QED BY <1>2, <2>1 DEF Kept, KeepsIndex
<1> QED BY <1>1, <1>3, <1>4, <1>5, <1>6, <1>7 DEF Next, Finished

\* At any time the store's index and the copy a run works on have a current
\* entry of each vector that the log has up to their positions, and none that
\* is not deleted of a document that is.
THEOREM ShortInductive == Spec => []ShortInv
<1>1. Init => ShortInv
  BY ShapesInit, OrderInit, ShortInit DEF ShortInv
<1>2. ShortInv /\ [Next]_vars => ShortInv'
  BY ShapesStep, OrderStep, ReplayedStep, KeptStep DEF ShortInv
<1> QED BY <1>1, <1>2, PTL DEF Spec

-----------------------------------------------------------------------------
(***************************************************************************)
(* Shortfall: how many ids an answer has.                                  *)
(***************************************************************************)

\* A set whose elements are told apart by elements of T is no larger than T.
LEMMA InjectedSize ==
  ASSUME NEW S, NEW T, IsFiniteSet(T), NEW f \in [S -> T],
         \A x, y \in S : f[x] = f[y] => x = y
  PROVE  /\ IsFiniteSet(S) /\ Cardinality(S) <= Cardinality(T)
         /\ Cardinality(S) \in Nat /\ Cardinality(T) \in Nat
<1>1. f \in Injection(S, T)
  BY DEF Injection, IsInjective
<1>2. IsFiniteSet(S) /\ Cardinality(S) <= Cardinality(T)
  BY <1>1, FS_Injection
<1> QED BY <1>2, FS_CardinalityType

\* Two disjoint parts of a set count no more than it.
LEMMA PartsSize ==
  ASSUME NEW S, IsFiniteSet(S), NEW A \in SUBSET S, NEW B \in SUBSET S, A \cap B = {}
  PROVE  /\ IsFiniteSet(A) /\ IsFiniteSet(B)
         /\ Cardinality(A) \in Nat /\ Cardinality(B) \in Nat /\ Cardinality(S) \in Nat
         /\ Cardinality(A) + Cardinality(B) <= Cardinality(S)
<1>1. IsFiniteSet(A) /\ IsFiniteSet(B)
  BY FS_Subset
<1>2. Cardinality(A \cup B) = Cardinality(A) + Cardinality(B) - Cardinality(A \cap B)
  BY <1>1, FS_Union
<1>3. Cardinality(A \cap B) = 0
  BY FS_EmptySet
<1>4. A \cup B \in SUBSET S
  OBVIOUS
<1>5. Cardinality(A \cup B) <= Cardinality(S)
  BY <1>4, FS_Subset
<1>6. Cardinality(A) \in Nat /\ Cardinality(B) \in Nat /\ Cardinality(S) \in Nat
  BY <1>1, FS_CardinalityType
<1> QED BY <1>1, <1>2, <1>3, <1>5, <1>6

\* Taking ids out of results makes them shorter by no more than the ids taken
\* out that they have.
LEMMA WithoutShort ==
  ASSUME NEW r, Listed(r), NEW ids, NEW C, IsFiniteSet(C),
         \A i \in DOMAIN r : r[i].id \in ids => r[i].id \in C
  PROVE  /\ Len(r) \in Nat /\ Len(Without(r, ids)) \in Nat /\ Cardinality(C) \in Nat
         /\ Len(Without(r, ids)) >= Len(r) - Cardinality(C)
<1> DEFINE kept == {i \in DOMAIN r : r[i].id \notin ids}
           out == {i \in DOMAIN r : r[i].id \in ids}
           R == {p \in kept \X kept : p[1] < p[2]}
           o == Without(r, ids)
<1>1. r \in Seq(Results) /\ OnceEach(r)
  BY DEF Listed
<1>2. DOMAIN r = 1 .. Len(r) /\ Len(r) \in Nat
  BY <1>1
<1>3. kept \in SUBSET (DOMAIN r) /\ kept \cup out = DOMAIN r /\ kept \cap out = {}
  OBVIOUS
<1>4. IsFiniteSet(kept) /\ StrictOrder(kept, R)
  <2> HIDE DEF kept
  <2> QED BY <1>1, <1>3, PlacesOrdered
<1>5. o = Ordered(r, kept, R)
  BY DEF Without
<1> HIDE DEF o, R
<1>6. o = [p \in 1 .. Cardinality(kept) |-> o[p]]
  <2> HIDE DEF kept
  <2>1. \E place : o = [p \in 1 .. Cardinality(kept) |-> r[place[p]]]
    BY <1>4, <1>5, OrderedPlaces
  <2> QED BY <2>1
<1>7. /\ IsFiniteSet(out) /\ Cardinality(out) <= Cardinality(C)
      /\ Cardinality(out) \in Nat /\ Cardinality(C) \in Nat
  <2> DEFINE f == [i \in out |-> r[i].id]
  <2>1. f \in [out -> C]
    OBVIOUS
  <2>2. \A x, y \in out : f[x] = f[y] => x = y
    BY <1>1 DEF OnceEach
  <2> HIDE DEF f, out
  <2> QED BY <2>1, <2>2, InjectedSize
<1> HIDE DEF kept, out
<1>8. Cardinality(kept) \in Nat /\ Len(o) = Cardinality(kept)
  <2>1. Cardinality(kept) \in Nat
    BY <1>4, FS_CardinalityType
  <2> QED BY <1>6, <2>1
<1>9. Cardinality(kept \cup out) = Cardinality(kept) + Cardinality(out)
  <2>1. Cardinality(kept \cup out)
          = Cardinality(kept) + Cardinality(out) - Cardinality(kept \cap out)
    BY <1>4, <1>7, FS_Union
  <2>2. Cardinality(kept \cap out) = 0
    BY <1>3, FS_EmptySet
  <2> QED BY <1>7, <1>8, <2>1, <2>2
<1>10. Cardinality(kept \cup out) = Len(r)
  BY <1>2, <1>3, CountTo
<1> QED BY <1>2, <1>7, <1>8, <1>9, <1>10 DEF o

\* A merge has all it is given, or top_k.
LEMMA MergeSize ==
  ASSUME NEW a \in Seq(Results), NEW b \in Seq(Results), NEW k \in Nat
  PROVE  Len(MergeTopK(a, b, k)) = Lower(Len(a) + Len(b), k)
<1> DEFINE s == a \o b
           o == Ordered(s, DOMAIN s, Before(s))
<1>1. s \in Seq(Results) /\ Len(s) = Len(a) + Len(b)
  OBVIOUS
<1> HIDE DEF s
<1>2. o \in Seq(Results) /\ Len(o) = Len(s)
  BY <1>1, MergePlaces
<1>3. MergeTopK(a, b, k) = Truncate(o, k)
  BY DEF MergeTopK, s
<1> HIDE DEF o
<1> QED BY <1>1, <1>2, <1>3, TruncateProps DEF Lower

\* Brute force gives top_k of the vectors, or all of them.
LEMMA BruteSize ==
  ASSUME NEW V \in SUBSET VectorRecords, IsFiniteSet(V), OnePerId(V),
         NEW q \in Int, NEW m \in Metrics, NEW k \in Nat,
         NEW r \in BruteForceKnn(q, V, m, k)
  PROVE  Cardinality(V) \in Nat /\ Len(r) >= Lower(Cardinality(V), k)
<1> DEFINE S == Scores(q, V, m)
           f == [v \in V |-> Result(v.id, Distance(q, v.vec, m))]
<1>1. r \in Nearest(S, k)
  BY DEF BruteForceKnn, Scores
<1>2. S \in SUBSET Results /\ IsFiniteSet(S)
  BY ScoresType
<1>3. f \in [V -> S]
  BY DEF Scores
<1>4. \A v, u \in V : f[v] = f[u] => v = u
  BY DEF OnePerId, Result
<1> HIDE DEF f, S
<1>5. /\ Cardinality(V) <= Cardinality(S)
      /\ Cardinality(V) \in Nat /\ Cardinality(S) \in Nat
  BY <1>2, <1>3, <1>4, InjectedSize
<1>6. Len(r) = Lower(Cardinality(S), k)
  BY <1>1, <1>2, NearestLeads DEF Leads
<1> QED BY <1>5, <1>6 DEF Lower

\* The documents are what the last entry that names them says.
LEMMA DocumentsLogged ==
  ASSUME Shapes, Replayed, NEW id \in Ids
  PROVE  \/ /\ \A s \in 1 .. Len(wal) : ~Named(s, id)
            /\ documents[id] = Absent /\ docSequences[id] = 0
         \/ \E s \in 1 .. Len(wal) :
               /\ LastWrite(wal, Len(wal), id, s)
               /\ documents[id] = wal[s][1].doc
               /\ docSequences[id] = IF documents[id] = Absent THEN 0 ELSE s
<1>1. ASSUME NEW s \in 1 .. Len(wal)
      PROVE  /\ Touches(wal[s], id) <=> Named(s, id)
             /\ Named(s, id) => Effect(wal[s], id) = wal[s][1].doc
  <2>1. wal[s] = <<wal[s][1]>>
    BY LogEntry DEF Shapes
  <2>2. DOMAIN wal[s] = {1}
    BY <2>1
  <2>3. Touches(wal[s], id) <=> Named(s, id)
    BY <2>2 DEF Touches, Named
  <2>4. ASSUME Named(s, id)
        PROVE  Deciding(wal[s], id) = 1
    <3>1. \A j \in {1} : j <= 1
      OBVIOUS
    <3> QED BY <2>2, <2>4, <3>1 DEF Deciding, Named
  <2> QED BY <2>3, <2>4 DEF Effect
<1>2. CASE /\ \A s \in 1 .. Len(wal) : ~Touches(wal[s], id)
           /\ documents[id] = Absent /\ docSequences[id] = 0
  BY <1>1, <1>2
<1>3. ASSUME NEW s \in 1 .. Len(wal), Touches(wal[s], id),
             \A t \in s + 1 .. Len(wal) : ~Touches(wal[t], id),
             documents[id] = Effect(wal[s], id),
             docSequences[id] = IF documents[id] = Absent THEN 0 ELSE s
      PROVE  /\ LastWrite(wal, Len(wal), id, s)
             /\ documents[id] = wal[s][1].doc
  <2>1. \A t \in s + 1 .. Len(wal) : t \in 1 .. Len(wal)
    BY Positions
  <2> QED BY <1>1, <1>3, <2>1 DEF LastWrite, Named
<1> QED BY <1>1, <1>3 DEF Replayed, ReplayOf

\* The documents that a query may take out of the index's results: the index
\* has a vector for them, and they are newer or gone.
Stale == {id \in KeptAt(wal, view.seq) : docSequences[id] > view.seq}
Dropped == {id \in KeptAt(wal, view.seq) : documents[id] = Absent}

Changed ==
    {id \in Ids : /\ \E s \in 1 .. view.seq : Named(s, id)
                  /\ \E s \in view.seq + 1 .. Len(wal) : Named(s, id)}

\* ... are written or deleted since the index was built, and were before.
LEMMA StaleChanged ==
  ASSUME Shapes, Replayed
  PROVE  /\ Stale \in SUBSET Changed /\ Dropped \in SUBSET Changed
         /\ Stale \cap Dropped = {} /\ IsFiniteSet(Changed)
<1>1. view.seq \in Nat /\ Len(wal) \in Nat /\ view.seq <= Len(wal)
  BY Positions DEF Shapes
<1>2. ASSUME NEW id \in KeptAt(wal, view.seq),
             docSequences[id] > view.seq \/ documents[id] = Absent
      PROVE  id \in Changed
  <2>1. id \in Ids
    BY DEF KeptAt
  <2>2. PICK s \in 1 .. view.seq : LastWrite(wal, view.seq, id, s) /\ wal[s][1].doc # Absent
    BY DEF KeptAt
  <2>3. s \in 1 .. Len(wal) /\ Named(s, id)
    BY <1>1, <2>2 DEF LastWrite, Named
  <2>4. PICK t \in 1 .. Len(wal) :
               /\ LastWrite(wal, Len(wal), id, t)
               /\ documents[id] = wal[t][1].doc
               /\ docSequences[id] = IF documents[id] = Absent THEN 0 ELSE t
    BY <2>1, <2>3, DocumentsLogged
  <2>5. t > view.seq
    <3>1. CASE documents[id] # Absent
      <4>1. docSequences[id] = t /\ docSequences[id] > view.seq
        BY <1>2, <2>4, <3>1
      <4> QED BY <4>1
    <3>2. CASE documents[id] = Absent
      <4> SUFFICES ASSUME t <= view.seq
                   PROVE  FALSE
        BY <1>1
      <4>1. t \notin s + 1 .. view.seq
        BY <2>2, <2>4 DEF LastWrite
      <4>2. s \notin t + 1 .. Len(wal)
        BY <2>2, <2>4 DEF LastWrite
      <4>3. s = t
        BY <1>1, <2>3, <4>1, <4>2
      <4> QED BY <2>2, <2>4, <3>2, <4>3
    <3> QED BY <3>1, <3>2
  <2>6. t \in view.seq + 1 .. Len(wal) /\ Named(t, id)
    BY <1>1, <2>4, <2>5 DEF LastWrite, Named
  <2> QED BY <2>1, <2>3, <2>6 DEF Changed
<1>3. Stale \cap Dropped = {}
  <2> SUFFICES ASSUME NEW id \in Stale, id \in Dropped
               PROVE  FALSE
    OBVIOUS
  <2>1. id \in Ids /\ docSequences[id] > view.seq /\ documents[id] = Absent
    BY DEF Stale, Dropped, KeptAt
  <2>2. docSequences[id] = 0
    BY <2>1, DocumentsLogged
  <2> QED BY <1>1, <2>1, <2>2
<1>4. IsFiniteSet(Changed)
  <2>1. Changed \in SUBSET Ids
    BY DEF Changed
  <2> QED BY <2>1, IdsAssumption, FS_Subset
<1> QED BY <1>2, <1>3, <1>4 DEF Stale, Dropped

\* Index and tail have every document.
LEMMA DocumentsCounted ==
  ASSUME Shapes, Replayed
  PROVE  /\ Cardinality(WithVector(Ids)) \in Nat /\ Cardinality(Unindexed) \in Nat
         /\ Cardinality(VectorsAt(wal, view.seq)) \in Nat
         /\ Cardinality(WithVector(Ids))
              <= Cardinality(VectorsAt(wal, view.seq)) + Cardinality(Unindexed)
<1> DEFINE A == WithVector(Upto(view.seq))
           U == Unindexed
           W == VectorsAt(wal, view.seq)
<1>1. /\ view.seq \in Nat /\ Len(wal) \in Nat /\ view.seq <= Len(wal)
      /\ documents \in [Ids -> Contents \cup {Absent}]
  BY Positions DEF Shapes
<1>2. /\ Upto(view.seq) \in SUBSET Ids /\ TailDocs \in SUBSET Ids
      /\ U = WithVector(TailDocs)
  BY TailIds DEF Upto
<1>3. /\ OnePerId(A) /\ IsFiniteSet(A) /\ IsFiniteSet(U)
      /\ \A v \in A : v.id \in Upto(view.seq)
  BY <1>1, <1>2, WithVectorType
<1>4. WithVector(Ids) = A \cup U /\ A \cap U = {}
  BY IndexAndTail
<1>5. ASSUME NEW v \in A
      PROVE  v.id \in W
  <2>1. v.id \in Ids /\ docSequences[v.id] <= view.seq /\ HasVec(documents[v.id])
    BY <1>3 DEF Upto, WithVector
  <2>2. documents[v.id] # Absent
    BY <2>1 DEF HasVec
  <2>3. PICK t \in 1 .. Len(wal) :
               /\ LastWrite(wal, Len(wal), v.id, t)
               /\ documents[v.id] = wal[t][1].doc /\ docSequences[v.id] = t
    BY <2>1, <2>2, DocumentsLogged
  <2>4. t \in 1 .. view.seq /\ \A u \in t + 1 .. view.seq : u \in t + 1 .. Len(wal)
    BY <1>1, <2>1, <2>3
  <2>5. LastWrite(wal, view.seq, v.id, t)
    BY <2>3, <2>4 DEF LastWrite
  <2> QED BY <2>1, <2>3, <2>4, <2>5 DEF VectorsAt
<1>6. IsFiniteSet(W)
  BY VectorsFinite
<1> HIDE DEF A, U, W
<1>7. /\ Cardinality(A) <= Cardinality(W)
      /\ Cardinality(A) \in Nat /\ Cardinality(W) \in Nat
  <2> DEFINE f == [v \in A |-> v.id]
  <2>1. f \in [A -> W]
    BY <1>5
  <2>2. \A x, y \in A : f[x] = f[y] => x = y
    BY <1>3 DEF OnePerId
  <2> HIDE DEF f
  <2> QED BY <1>6, <2>1, <2>2, InjectedSize
<1>8. /\ Cardinality(A \cup U) = Cardinality(A) + Cardinality(U) - Cardinality(A \cap U)
      /\ Cardinality(A \cap U) = 0 /\ Cardinality(U) \in Nat
  BY <1>3, <1>4, FS_Union, FS_EmptySet, FS_CardinalityType
<1>9. Cardinality(A \cup U) \in Nat /\ Cardinality(A \cup U) <= Cardinality(W) + Cardinality(U)
  BY <1>7, <1>8
<1> QED BY <1>4, <1>7, <1>8, <1>9 DEF U, W

\* While the server's version map is that of the postings, the search of the
\* index gives top_k of the vectors it was built from, or as many as there are,
\* each under an id that was a document then.
LEMMA FromIndexSize ==
  ASSUME ShortInv, Settled, OrderlyDeletes, NEW q \in Int, NEW k \in Nat,
         NEW a \in FromIndex(q, k)
  PROVE  /\ Listed(a)
         /\ Len(a) >= Lower(Cardinality(VectorsAt(wal, view.seq)), k)
         /\ \A i \in DOMAIN a : a[i].id \in KeptAt(wal, view.seq)
<1>0. Shapes /\ Order /\ Kept
  BY DEF ShortInv
<1>1. /\ view.seq \in Nat /\ stored.seq \in Nat /\ building.upTo \in Nat
      /\ postings.entries \in Entries /\ view.count \in Int
  BY <1>0, Positions DEF Shapes, Indexes
<1>2. building.at # "manifest"
  <2> SUFFICES ASSUME building.at = "manifest"
               PROVE  FALSE
    OBVIOUS
  <2>1. /\ postings.seq = building.upTo /\ stored.seq < building.upTo
        /\ view.seq <= stored.seq /\ postings.seq = view.seq
    BY <1>0 DEF Order, Settled
  <2> QED BY <1>1, <2>1
<1>3. view = stored
  BY <1>0, <1>2 DEF Order, Settled
<1> DEFINE W == VectorsAt(wal, view.seq)
           L == Live(postings.entries, view.map)
           S == Found(q, L, NsMetric)
<1>4. /\ Keeps(wal, view.seq, view.map, postings.entries)
      /\ Cardinality(W) <= view.count
  BY <1>0, <1>2, <1>3 DEF Kept, KeepsIndex
<1>5. IsFiniteSet(W) /\ Cardinality(W) \in Nat
  BY VectorsFinite
<1>6. Listed(a)
  BY <1>0, FromIndexListed
<1>7. CASE view.count = 0
  <2>1. a = <<>> /\ Cardinality(W) = 0
    BY <1>1, <1>4, <1>5, <1>7 DEF FromIndex
  <2>2. Len(a) = 0 /\ DOMAIN a = {}
    BY <2>1
  <2> HIDE DEF W
  <2>3. Lower(0, k) = 0
    BY DEF Lower
  <2> QED BY <1>6, <2>1, <2>2, <2>3 DEF W
<1>8. CASE view.count # 0
  <2>1. a \in Nearest(S, k)
    BY <1>8, SearchIsNearest DEF FromIndex
  <2>2. L \in Entries /\ L \in SUBSET postings.entries
    BY <1>1, EntriesSubset DEF Live
  <2> DEFINE f == [id \in W |-> Result(id, Best(q, L, NsMetric, id))]
  <2>3. \A id \in W : \E e \in L : e.id = id
    BY <1>4 DEF Keeps, Live, Current
  <2>4. \A e \in L : e.id \in KeptAt(wal, view.seq)
    BY <1>4, <2>2 DEF Keeps, Live
  <2>5. f \in [W -> S]
    BY <2>3 DEF Found
  <2>6. \A x, y \in W : f[x] = f[y] => x = y
    BY DEF Result
  <2>7. \A x \in S : x.id \in KeptAt(wal, view.seq)
    BY <2>4 DEF Found, Result
  <2> HIDE DEF W, L, f
  <2>8. S \in SUBSET Results /\ IsFiniteSet(S)
        /\ \A x, y \in S : x.id = y.id => x = y
    BY <2>2, MetricAssumption, FoundType
  <2> HIDE DEF S
  <2>9. Cardinality(W) <= Cardinality(S) /\ Cardinality(S) \in Nat
    <3>1. IsFiniteSet(S)
      BY <2>8
    <3> QED BY <2>5, <2>6, <3>1, InjectedSize
  <2>10. Len(a) = Lower(Cardinality(S), k)
    BY <2>1, <2>8, NearestLeads DEF Leads
  <2>11. Len(a) >= Lower(Cardinality(W), k)
    BY <1>5, <2>9, <2>10 DEF Lower
  <2>12. \A i \in DOMAIN a : a[i] \in S
    BY <2>1, <2>8, NearestListed
  <2> QED BY <1>6, <2>7, <2>11, <2>12 DEF W
<1> QED BY <1>7, <1>8

\* A merge lacks no more than the ids of the tail that the index has too.
LEMMA MergedSize ==
  ASSUME ShortInv, Settled, OrderlyDeletes, NEW q \in Int, NEW m \in Metrics,
         NEW k \in Nat, NEW s \in Merged(q, m, k)
  PROVE  /\ Listed(s)
         /\ Len(s) >= Lower(Cardinality(WithVector(Ids)), k) - Cardinality(Stale)
         /\ \A i \in DOMAIN s : documents[s[i].id] = Absent => s[i].id \in Dropped
<1>0. Shapes /\ Replayed
  BY DEF ShortInv
<1> DEFINE v == Cardinality(VectorsAt(wal, view.seq))
           t == Cardinality(Unindexed)
           n == Cardinality(WithVector(Ids))
           c == Cardinality(Stale)
           tail == IdsOf(Unindexed)
<1>1. PICK a \in FromIndex(q, k), b \in BruteForceKnn(q, Unindexed, m, k) :
         s = MergeTopK(Without(a, tail), b, k)
  BY DEF Merged
<1> DEFINE w == Without(a, tail)
<1>2. /\ Listed(a) /\ Len(a) >= Lower(v, k)
      /\ \A i \in DOMAIN a : a[i].id \in KeptAt(wal, view.seq)
  BY FromIndexSize
<1>3. /\ TailDocs \in SUBSET Ids /\ Unindexed = WithVector(TailDocs)
      /\ tail \subseteq TailDocs
      /\ \A id \in tail : documents[id] # Absent
  <2>1. \A u \in Unindexed : HasVec(documents[u.id])
    BY DEF Unindexed, WithVector
  <2> QED BY <1>0, <2>1, TailIds DEF IdsOf, HasVec
<1>4. /\ Unindexed \in SUBSET VectorRecords /\ IsFiniteSet(Unindexed) /\ OnePerId(Unindexed)
  BY <1>0, <1>3, WithVectorType DEF Shapes
<1>5. Listed(b) /\ Len(b) >= Lower(t, k) /\ \A i \in DOMAIN b : b[i].id \in tail
  <2>1. Listed(b) /\ \A i \in DOMAIN b : \E u \in Unindexed :
                        b[i] = Result(u.id, Distance(q, u.vec, m))
    BY <1>4, BruteListed
  <2>2. Len(b) >= Lower(t, k)
    BY <1>4, BruteSize
  <2> QED BY <2>1, <2>2 DEF Result, IdsOf
<1>6. /\ n \in Nat /\ t \in Nat /\ v \in Nat /\ n <= v + t
  BY <1>0, DocumentsCounted
<1>7. IsFiniteSet(Stale)
  BY <1>0, StaleChanged, FS_Subset
<1>8. \A i \in DOMAIN a : a[i].id \in tail => a[i].id \in Stale
  BY <1>2, <1>3 DEF Stale, TailDocs
<1> HIDE DEF tail
<1>9. /\ Len(a) \in Nat /\ Len(w) \in Nat /\ c \in Nat
      /\ Len(w) >= Len(a) - c
  BY <1>2, <1>7, <1>8, WithoutShort
<1>10. /\ Listed(w) /\ From(w, a)
       /\ \A i \in DOMAIN w : w[i].id \notin tail
  BY <1>2, WithoutListed
<1> HIDE DEF w
<1>11. s = MergeTopK(w, b, k)
  BY <1>1 DEF w
<1>12. w \in Seq(Results) /\ b \in Seq(Results) /\ Len(b) \in Nat
  <2>1. w \in Seq(Results) /\ b \in Seq(Results)
    BY <1>5, <1>10 DEF Listed
  <2> QED BY <2>1
<1>13. Len(s) = Lower(Len(w) + Len(b), k)
  BY <1>11, <1>12, MergeSize
<1>14. Listed(s) /\ From(s, w \o b)
  BY <1>5, <1>10, <1>11, MergeListed
<1>15. ASSUME NEW i \in DOMAIN s, documents[s[i].id] = Absent
       PROVE  s[i].id \in Dropped
  <2>1. PICK j \in DOMAIN (w \o b) : s[i] = (w \o b)[j]
    BY <1>14 DEF From
  <2>2. CASE j \in 1 .. Len(w)
    <3>1. s[i] = w[j] /\ j \in DOMAIN w
      BY <1>12, <2>1, <2>2
    <3>2. PICK l \in DOMAIN a : w[j] = a[l]
      BY <1>10, <3>1 DEF From
    <3> QED BY <1>2, <1>15, <3>1, <3>2 DEF Dropped
  <2>3. CASE j \notin 1 .. Len(w)
    <3>1. j - Len(w) \in DOMAIN b /\ s[i] = b[j - Len(w)]
      BY <1>12, <2>1, <2>3
    <3> QED BY <1>3, <1>5, <1>15, <3>1
  <2> QED BY <2>2, <2>3
<1> HIDE DEF v, t, n, c
<1>16. Len(s) >= Lower(n, k) - c
  BY <1>2, <1>5, <1>6, <1>9, <1>12, <1>13 DEF Lower
<1> QED BY <1>14, <1>15, <1>16 DEF n, c

\* However documents are rewritten and deleted, an answer is short by no more
\* than the documents that were since the index was built.
THEOREM ShortfallAlwaysBounded == Spec => []ShortfallBounded
<1>1. ShortInv => ShortfallBounded
  <2> SUFFICES ASSUME ShortInv, Settled, OrderlyDeletes, NEW q \in Vectors,
                      NEW m \in Metrics, NEW k \in TopKs, NEW r \in Query(q, m, k)
               PROVE  Len(r) >= Lower(Cardinality(WithVector(Ids)), k) - Cardinality(Changed)
    BY DEF ShortfallBounded, Changed, Lower
  <2>0. q \in Int /\ k \in Nat /\ Shapes /\ Replayed
    BY VectorsAssumption, BoundsAssumption DEF Vectors, TopKs, ShortInv
  <2> DEFINE gone == {id \in Ids : documents[id] = Absent}
             scored == IF view.seq = 0 THEN BruteForceKnn(q, WithVector(Ids), m, k)
                       ELSE IF Unindexed = {} THEN FromIndex(q, k)
                       ELSE Merged(q, m, k)
             n == Cardinality(WithVector(Ids))
             c == Cardinality(Stale)
             d == Cardinality(Dropped)
  <2>1. PICK s \in scored : r = Without(s, gone)
    BY DEF Query
  <2>2. /\ IsFiniteSet(Dropped) /\ c \in Nat /\ d \in Nat /\ Cardinality(Changed) \in Nat
        /\ c + d <= Cardinality(Changed)
    BY <2>0, StaleChanged, PartsSize
  <2>3. /\ n \in Nat /\ Cardinality(Unindexed) \in Nat
        /\ Cardinality(VectorsAt(wal, view.seq)) \in Nat
        /\ n <= Cardinality(VectorsAt(wal, view.seq)) + Cardinality(Unindexed)
    BY <2>0, DocumentsCounted
  <2>4. /\ Listed(s) /\ Len(s) >= Lower(n, k) - c
        /\ \A i \in DOMAIN s : documents[s[i].id] = Absent => s[i].id \in Dropped
    <3>1. CASE view.seq = 0
      <4> DEFINE V == WithVector(Ids)
      <4>1. /\ V \in SUBSET VectorRecords /\ IsFiniteSet(V) /\ OnePerId(V)
            /\ s \in BruteForceKnn(q, V, m, k)
        BY <2>0, <3>1, WithVectorType DEF Shapes
      <4>2. \A v \in V : documents[v.id] # Absent
        BY DEF WithVector, HasVec
      <4> HIDE DEF V
      <4>3. Listed(s) /\ \A i \in DOMAIN s : \E v \in V : s[i] = Result(v.id, Distance(q, v.vec, m))
        BY <2>0, <4>1, BruteListed
      <4>4. Len(s) >= Lower(Cardinality(V), k)
        BY <2>0, <4>1, BruteSize
      <4>5. \A i \in DOMAIN s : documents[s[i].id] # Absent
        BY <4>2, <4>3 DEF Result
      <4>6. Len(s) \in Nat
        <5>1. s \in Seq(Results)
          BY <4>3 DEF Listed
        <5> QED BY <5>1
      <4>7. Len(s) >= Lower(n, k)
        BY <4>4 DEF V
      <4> HIDE DEF n, c
      <4>8. Len(s) >= Lower(n, k) - c
        BY <2>0, <2>2, <2>3, <4>6, <4>7 DEF Lower
      <4> QED BY <4>3, <4>5, <4>8
    <3>2. CASE view.seq # 0 /\ Unindexed = {}
      <4>1. /\ Listed(s) /\ Len(s) >= Lower(Cardinality(VectorsAt(wal, view.seq)), k)
            /\ \A i \in DOMAIN s : s[i].id \in KeptAt(wal, view.seq)
        BY <2>0, <3>2, FromIndexSize
      <4>2. Len(s) \in Nat
        <5>1. s \in Seq(Results)
          BY <4>1 DEF Listed
        <5> QED BY <5>1
      <4>3. Cardinality(Unindexed) = 0
        BY <3>2, FS_EmptySet
      <4> HIDE DEF n, c
      <4>4. Len(s) >= Lower(n, k) - c
        BY <2>0, <2>2, <2>3, <4>1, <4>2, <4>3 DEF Lower
      <4> QED BY <4>1, <4>4 DEF Dropped
    <3>3. CASE view.seq # 0 /\ Unindexed # {}
      <4>1. s \in Merged(q, m, k)
        BY <3>3
      <4> QED BY <2>0, <4>1, MergedSize
    <3> QED BY <3>1, <3>2, <3>3
  <2> HIDE DEF scored
  <2>5. \A i \in DOMAIN s : s[i].id \in gone => s[i].id \in Dropped
    BY <2>4
  <2> HIDE DEF gone
  <2>6. Len(s) \in Nat /\ Len(r) \in Nat /\ Len(r) >= Len(s) - d
    BY <2>1, <2>2, <2>4, <2>5, WithoutShort
  <2> HIDE DEF n, c, d
  <2>7. Lower(n, k) \in Nat
    BY <2>0, <2>3 DEF Lower
  <2> QED BY <2>2, <2>4, <2>6, <2>7 DEF n
<1> QED BY <1>1, ShortInductive, PTL
=============================================================================
