---------------------------- MODULE MCHybridQuery -----------------------------
(***************************************************************************)
(* Small instances of HybridQuery for TLC.                                 *)
(***************************************************************************)
EXTENDS HybridQuery, TLC

CONSTANT plain   \* a payload without a vector

\* Two vectors whose order from either depends on the metric.
MCVectors == {-1, 2}

MCContents == MCVectors \cup {plain}

MCDim == [c \in MCContents |-> IF c = plain THEN NoDim ELSE 1]

MCWrites == [req : {0}, ids : {{id} : id \in Ids}, doc : MCContents \cup {Absent}]

Symmetry == Permutations(Ids)
=============================================================================
