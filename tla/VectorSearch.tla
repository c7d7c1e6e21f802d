----------------------------- MODULE VectorSearch -----------------------------
(***************************************************************************)
(* The searches over vectors that queries and the index share.             *)
(*                                                                         *)
(* A vector is one coordinate, an integer: the three metrics are exact on  *)
(* such vectors and order them in three different ways.  A result is an id *)
(* (of a document or of a head) with its distance.  What a HashMap yields  *)
(* comes in any order, so that ties end up in any order.                   *)
(***************************************************************************)
EXTENDS Integers, SequencesExt

Metrics == {"cosine_distance", "euclidean_squared", "dot_product"}

Sign(x) == IF x < 0 THEN -1 ELSE IF x = 0 THEN 0 ELSE 1

\* search::distance.  The angle between two points of a line is 0 or 180
\* degrees; a vector without a direction has distance 1 from all.
Distance(a, b, metric) ==
    CASE metric = "euclidean_squared" -> (a - b) * (a - b)
      [] metric = "dot_product"       -> -(a * b)
      [] metric = "cosine_distance"   -> 1 - Sign(a * b)

Result(id, dist) == [id |-> id, dist |-> dist]

Sorted(s) == \A i, j \in DOMAIN s : i < j => s[i].dist <= s[j].dist

Truncate(s, k) == SubSeq(s, 1, IF Len(s) < k THEN Len(s) ELSE k)

\* Sorting the results of S by distance, in whatever order they are met, and
\* keeping the first k.
Nearest(S, k) == {Truncate(s, k) : s \in {t \in SetToSeqs(S) : Sorted(t)}}

\* vectors: records of an id and its vec.
BruteForceKnn(q, vectors, metric, k) ==
    Nearest({Result(v.id, Distance(q, v.vec, metric)) : v \in vectors}, k)

\* The elements of s at the places of I, in the order that the pairs of before
\* say.
Ordered(s, I, before) ==
    LET rank(i) == 1 + Cardinality({j \in I : <<j, i>> \in before})
    IN  [p \in 1 .. Cardinality(I) |-> s[CHOOSE i \in I : rank(i) = p]]

\* Which result comes first, by distance, in a stable sort of s.
Before(s) == {p \in (DOMAIN s) \X (DOMAIN s) :
                 \/ s[p[1]].dist < s[p[2]].dist
                 \/ s[p[1]].dist = s[p[2]].dist /\ p[1] < p[2]}

\* The stable sort of a, then b: a tie goes to a.
MergeTopK(a, b, k) == Truncate(Ordered(a \o b, DOMAIN (a \o b), Before(a \o b)), k)

\* The best distance of each id that has an entry of the version the version
\* map gives it.
SearchPostings(q, entries, versionMap, metric, k) ==
    LET current == {e \in entries : ~versionMap[e.id].del /\ versionMap[e.id].ver = e.ver}
        dists(id) == {Distance(q, e.vec, metric) : e \in {c \in current : c.id = id}}
        best(id) == CHOOSE d \in dists(id) : \A other \in dists(id) : d <= other
    IN  Nearest({Result(id, best(id)) : id \in {e.id : e \in current}}, k)
=============================================================================
