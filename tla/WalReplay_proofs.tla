--------------------------- MODULE WalReplay_proofs ---------------------------
(***************************************************************************)
(* What the modules that replay a WAL need to know of WalReplay: the       *)
(* operations of an entry, the dimension check, and the replay of a log    *)
(* one entry further.                                                      *)
(***************************************************************************)
EXTENDS WalReplay, TLAPS, WellFoundedInduction, FiniteSetTheorems

-----------------------------------------------------------------------------
(***************************************************************************)
(* Natural numbers.                                                        *)
(***************************************************************************)

\* A non-empty set of naturals has a least element: Deciding, AdoptedDim and
\* Min of WritePath name elements that exist.
LEMMA MinExists ==
  ASSUME NEW S \in SUBSET Nat, S # {}
  PROVE  \E x \in S : \A y \in S : x <= y
<1> DEFINE R == {p \in Nat \X Nat : p[1] < p[2]}
<1>1. IsWellFoundedOn(R, Nat)
  BY NatLessThanWellFounded, Zenon DEF OpToRel
<1>2. \E x \in S : \A y \in S : ~ (<<y, x>> \in R)
  <2> HIDE DEF R
  <2> QED BY <1>1, WFMin
<1>3. PICK x \in S : \A y \in S : ~ (<<y, x>> \in R)
  BY <1>2
<1>4. \A y \in S : <<y, x>> \in Nat \X Nat
  OBVIOUS
<1>5. \A y \in S : ~ (y < x)
  BY <1>3, <1>4
<1> QED BY <1>5

\* A non-empty set of naturals with a bound has a greatest element.
LEMMA MaxExists ==
  ASSUME NEW n \in Nat, NEW S \in SUBSET (0 .. n), S # {}
  PROVE  \E x \in S : \A y \in S : y <= x
<1> DEFINE T == {n - y : y \in S}
<1>1. T \in SUBSET Nat /\ T # {}
  <2>1. \A y \in S : y \in 0 .. n
    OBVIOUS
  <2>2. \A y \in S : n - y \in Nat
    BY <2>1
  <2> QED BY <2>2
<1>2. PICK z \in T : \A y \in T : z <= y
  BY <1>1, MinExists
<1>3. PICK x \in S : z = n - x
  OBVIOUS
<1>4. \A y \in S : n - y \in T
  OBVIOUS
<1> HIDE DEF T
<1>5. ASSUME NEW y \in S
      PROVE  y <= x
  <2>1. n - x <= n - y
    BY <1>2, <1>3, <1>4
  <2>2. x \in Int /\ y \in Int
    OBVIOUS
  <2> QED BY <2>1, <2>2
<1> QED BY <1>5

\* The number of elements of an interval.
LEMMA IntervalSize ==
  ASSUME NEW k \in Nat, NEW n \in Nat, k <= n
  PROVE  Cardinality(k + 1 .. n) = n - k
<1>1. k + 1 \in Int /\ n \in Int
  OBVIOUS
<1>2. Cardinality(k + 1 .. n) = IF k + 1 > n THEN 0 ELSE n - (k + 1) + 1
  BY <1>1, FS_Interval
<1> QED BY <1>2

\* Induction, for a set of natural numbers.
LEMMA SetInduction ==
  ASSUME NEW S, 0 \in S, \A n \in Nat : n \in S => n + 1 \in S
  PROVE  Nat \subseteq S
<1> SUFFICES ASSUME Nat \ S # {}
             PROVE  FALSE
  OBVIOUS
<1>1. PICK m \in Nat \ S : \A y \in Nat \ S : m <= y
  BY MinExists
<1>2. m # 0 /\ m - 1 \in Nat
  BY <1>1
<1>3. m - 1 \in S
  BY <1>1, <1>2
<1> QED BY <1>1, <1>2, <1>3

Steps(V) == [Nat \X V -> V]

Iterates(f, v, step) ==
    \A n \in Nat : f[n] = IF n = 0 THEN v ELSE step[<<n, f[n - 1]>>]

\* A step that yields the next value from its number and the last value can be
\* taken for ever.
LEMMA Iteration ==
  ASSUME NEW V, NEW v \in V, NEW step \in Steps(V)
  PROVE  \E f \in [Nat -> V] : Iterates(f, v, step)
<1> USE DEF Steps, Iterates
<1> DEFINE Good(g, n) == \A i \in 0 .. n : g[i] = IF i = 0 THEN v ELSE step[<<i, g[i - 1]>>]
           S == {n \in Nat : \E g \in [0 .. n -> V] : Good(g, n)}
<1>1. 0 \in S
  <2> DEFINE g == [i \in 0 .. 0 |-> v]
  <2>1. g \in [0 .. 0 -> V] /\ Good(g, 0)
    OBVIOUS
  <2> QED BY <2>1
<1>2. ASSUME NEW n \in Nat, n \in S
      PROVE  n + 1 \in S
  <2>1. PICK g \in [0 .. n -> V] : Good(g, n)
    BY <1>2
  <2> DEFINE h == [i \in 0 .. n + 1 |-> IF i = n + 1 THEN step[<<n + 1, g[n]>>] ELSE g[i]]
  <2>2. g[n] \in V /\ <<n + 1, g[n]>> \in Nat \X V
    OBVIOUS
  <2>3. step[<<n + 1, g[n]>>] \in V
    BY <2>2
  <2>4. h \in [0 .. n + 1 -> V]
    BY <2>3
  <2>5. \A i \in 0 .. n : h[i] = g[i]
    OBVIOUS
  <2>6. ASSUME NEW i \in 0 .. n + 1
        PROVE  h[i] = IF i = 0 THEN v ELSE step[<<i, h[i - 1]>>]
    <3>1. CASE i = 0
      <4>1. 0 \in 0 .. n
        OBVIOUS
      <4>2. h[0] = g[0] /\ g[0] = v
        BY <2>1, <2>5, <4>1
      <4> QED BY <3>1, <4>2
    <3>2. CASE i = n + 1
      <4>1. i # 0 /\ i - 1 = n /\ h[i - 1] = g[n]
        BY <3>2
      <4> QED BY <3>2, <4>1
    <3>3. CASE i # 0 /\ i # n + 1
      <4>1. i \in 0 .. n /\ i - 1 \in 0 .. n
        BY <3>3
      <4>2. g[i] = step[<<i, g[i - 1]>>]
        BY <2>1, <3>3, <4>1
      <4> QED BY <2>5, <3>3, <4>1, <4>2
    <3> QED BY <3>1, <3>2, <3>3
  <2>7. Good(h, n + 1)
    BY <2>6
  <2> HIDE DEF h
  <2>8. n + 1 \in Nat /\ \E k \in [0 .. n + 1 -> V] : Good(k, n + 1)
    BY <2>4, <2>7
  <2> QED BY <2>8
<1>3. Nat \subseteq S
  BY <1>1, <1>2, SetInduction
\* Two such beginnings agree as far as both go.
<1>4. ASSUME NEW m \in Nat, NEW n \in Nat, NEW g, NEW h, Good(g, m), Good(h, n)
      PROVE  \A i \in Nat : i <= m /\ i <= n => g[i] = h[i]
  <2> DEFINE E == {i \in Nat : i <= m /\ i <= n => g[i] = h[i]}
  <2>1. 0 \in E
    <3>1. 0 \in 0 .. m /\ 0 \in 0 .. n
      OBVIOUS
    <3> QED BY <1>4, <3>1
  <2>2. ASSUME NEW i \in Nat, i \in E
        PROVE  i + 1 \in E
    <3> SUFFICES ASSUME i + 1 <= m, i + 1 <= n
                 PROVE  g[i + 1] = h[i + 1]
      OBVIOUS
    <3>1. g[i] = h[i] /\ i + 1 # 0 /\ (i + 1) - 1 = i
      BY <2>2
    <3>2. i + 1 \in 0 .. m /\ i + 1 \in 0 .. n
      OBVIOUS
    <3>3. g[i + 1] = step[<<i + 1, g[i]>>] /\ h[i + 1] = step[<<i + 1, h[i]>>]
      BY <1>4, <3>1, <3>2
    <3> QED BY <3>1, <3>3
  <2>3. Nat \subseteq E
    BY <2>1, <2>2, SetInduction
  <2> QED BY <2>3
<1> DEFINE G(n) == CHOOSE g \in [0 .. n -> V] : Good(g, n)
           f == [n \in Nat |-> G(n)[n]]
<1>5. ASSUME NEW n \in Nat
      PROVE  G(n) \in [0 .. n -> V] /\ Good(G(n), n)
  BY <1>3
<1>6. f \in [Nat -> V]
  <2>1. \A n \in Nat : G(n)[n] \in V
    BY <1>5
  <2> QED BY <2>1
<1>7. ASSUME NEW n \in Nat
      PROVE  f[n] = IF n = 0 THEN v ELSE step[<<n, f[n - 1]>>]
  <2>1. n \in 0 .. n /\ f[n] = G(n)[n]
    OBVIOUS
  <2>2. CASE n = 0
    <3> HIDE DEF G, f
    <3>1. Good(G(n), n) /\ 0 \in 0 .. n
      BY <1>5
    <3>2. G(n)[0] = v
      BY <3>1
    <3> QED BY <2>1, <2>2, <3>2
  <2>3. CASE n # 0
    <3>1. n - 1 \in Nat /\ n - 1 <= n /\ n - 1 <= n - 1
      BY <2>3
    <3>2. Good(G(n), n) /\ Good(G(n - 1), n - 1)
      BY <1>5, <3>1
    <3> HIDE DEF G
    <3>3. G(n)[n - 1] = G(n - 1)[n - 1]
      <4> HIDE DEF Good
      <4> QED BY <1>4, <3>1, <3>2
    <3>4. f[n - 1] = G(n - 1)[n - 1]
      BY <3>1
    <3>5. G(n)[n] = step[<<n, G(n)[n - 1]>>]
      BY <2>1, <2>3, <3>2
    <3> QED BY <2>1, <2>3, <3>3, <3>4, <3>5
  <2> QED BY <2>2, <2>3
<1> HIDE DEF f
<1> QED BY <1>6, <1>7

-----------------------------------------------------------------------------
(***************************************************************************)
(* Entries and their replay.                                               *)
(***************************************************************************)

\* The operation that decides the fate of an id exists, is the last to name
\* it, and leaves a payload or nothing.
LEMMA DecidingProps ==
  ASSUME NEW ops \in Seq(Op), NEW id, Touches(ops, id)
  PROVE  /\ Deciding(ops, id) \in DOMAIN ops
         /\ id \in ops[Deciding(ops, id)].ids
         /\ Effect(ops, id) \in Contents \cup {Absent}
<1> DEFINE S == {i \in DOMAIN ops : id \in ops[i].ids}
<1>1. DOMAIN ops = 1 .. Len(ops) /\ Len(ops) \in Nat
  OBVIOUS
<1>2. S \in SUBSET (0 .. Len(ops)) /\ S # {}
  BY <1>1 DEF Touches
<1>3. \E i \in S : \A j \in S : j <= i
  BY <1>1, <1>2, MaxExists
<1>4. /\ Deciding(ops, id) \in DOMAIN ops
      /\ id \in ops[Deciding(ops, id)].ids
  BY <1>3 DEF Deciding
<1>5. ops[Deciding(ops, id)] \in Op
  BY <1>4
<1> QED BY <1>4, <1>5 DEF Effect, Op

\* apply_wal_entry keeps the types of documents and doc_sequences.
LEMMA ApplyType ==
  ASSUME NEW docs \in [Ids -> Contents \cup {Absent}], NEW seqs \in [Ids -> Nat],
         NEW ops \in Seq(Op), NEW s \in Nat
  PROVE  /\ ApplyDocs(docs, ops) \in [Ids -> Contents \cup {Absent}]
         /\ ApplySeqs(seqs, ops, s) \in [Ids -> Nat]
BY DecidingProps DEF ApplyDocs, ApplySeqs

\* The dimension the check adopts is a number.
LEMMA AdoptedDimType ==
  ASSUME NEW d \in Nat, NEW ops \in Seq(Op)
  PROVE  AdoptedDim(d, ops) \in Nat
<1> DEFINE S == {i \in DOMAIN ops : HasVector(ops, i)}
<1>1. CASE d # NoDim \/ VectorDims(ops) = {}
  BY <1>1 DEF AdoptedDim
<1>2. CASE ~ (d # NoDim \/ VectorDims(ops) = {})
  <2>1. DOMAIN ops = 1 .. Len(ops) /\ Len(ops) \in Nat
    OBVIOUS
  <2>2. S # {}
    BY <1>2 DEF VectorDims, HasVector
  <2>3. S \in SUBSET Nat
    BY <2>1
  <2>4. \E i \in S : \A j \in S : i <= j
    BY <2>2, <2>3, MinExists
  <2> DEFINE P(i) == /\ HasVector(ops, i)
                     /\ \A j \in DOMAIN ops : HasVector(ops, j) => i <= j
             m == CHOOSE i \in DOMAIN ops : P(i)
  <2>5. m \in DOMAIN ops /\ HasVector(ops, m)
    <3>1. \E i \in DOMAIN ops : P(i)
      BY <2>4
    <3> QED BY <3>1
  <2>6. ops[m].doc \in Contents
    <3>1. ops[m] \in Op
      BY <2>5
    <3> QED BY <2>5, <3>1 DEF Op, HasVector
  <2>7. Dim[ops[m].doc] \in Nat
    BY <2>6, DimAssumption
  <2>8. AdoptedDim(d, ops) = Dim[ops[m].doc]
    BY <1>2 DEF AdoptedDim
  <2> QED BY <2>7, <2>8
<1> QED BY <1>1, <1>2

\* What the replay of n entries leaves depends on those entries only.
LEMMA ReplayFrame ==
  ASSUME NEW w, NEW v, NEW n \in Nat, NEW docs, NEW seqs,
         \A s \in 1 .. n : v[s] = w[s],
         ReplayOf(w, n, docs, seqs)
  PROVE  ReplayOf(v, n, docs, seqs)
BY DEF ReplayOf

\* One application of apply_wal_entry extends a replay by one entry.
LEMMA ReplayStep ==
  ASSUME NEW w, NEW n \in Nat, NEW docs, NEW seqs,
         w[n + 1] \in Seq(Op),
         ReplayOf(w, n, docs, seqs)
  PROVE  ReplayOf(w, n + 1, ApplyDocs(docs, w[n + 1]),
                            ApplySeqs(seqs, w[n + 1], n + 1))
<1> DEFINE ops == w[n + 1]
           d == ApplyDocs(docs, ops)
           q == ApplySeqs(seqs, ops, n + 1)
<1> SUFFICES ASSUME NEW id \in Ids
             PROVE  \/ /\ \A s \in 1 .. n + 1 : ~Touches(w[s], id)
                       /\ d[id] = Absent
                       /\ q[id] = 0
                    \/ \E s \in 1 .. n + 1 :
                          /\ Touches(w[s], id)
                          /\ \A t \in s + 1 .. n + 1 : ~Touches(w[t], id)
                          /\ d[id] = Effect(w[s], id)
                          /\ q[id] = IF d[id] = Absent THEN 0 ELSE s
  BY DEF ReplayOf
<1>1. CASE Touches(ops, id)
  <2>1. d[id] = Effect(ops, id) /\ q[id] = IF d[id] = Absent THEN 0 ELSE n + 1
    BY <1>1 DEF ApplyDocs, ApplySeqs
  <2>2. n + 1 \in 1 .. n + 1 /\ n + 2 .. n + 1 = {}
    OBVIOUS
  <2> QED BY <1>1, <2>1, <2>2
<1>2. CASE ~Touches(ops, id)
  <2>1. d[id] = docs[id] /\ q[id] = seqs[id]
    BY <1>2 DEF ApplyDocs, ApplySeqs
  <2>2. \A s \in 1 .. n + 1 : s \in 1 .. n \/ s = n + 1
    OBVIOUS
  <2>3. CASE \A s \in 1 .. n : ~Touches(w[s], id)
    <3>1. docs[id] = Absent /\ seqs[id] = 0
      BY <2>3 DEF ReplayOf
    <3> QED BY <1>2, <2>1, <2>2, <2>3, <3>1
  <2>4. CASE ~ \A s \in 1 .. n : ~Touches(w[s], id)
    <3>1. PICK s \in 1 .. n :
            /\ Touches(w[s], id)
            /\ \A t \in s + 1 .. n : ~Touches(w[t], id)
            /\ docs[id] = Effect(w[s], id)
            /\ seqs[id] = IF docs[id] = Absent THEN 0 ELSE s
      BY <2>4 DEF ReplayOf
    <3>2. \A t \in s + 1 .. n + 1 : t \in s + 1 .. n \/ t = n + 1
      OBVIOUS
    <3>3. s \in 1 .. n + 1
      OBVIOUS
    <3> QED BY <1>2, <2>1, <3>1, <3>2, <3>3
  <2> QED BY <2>3, <2>4
<1> QED BY <1>1, <1>2
=============================================================================
