----------------------------- MODULE MCIndexStore -----------------------------
(***************************************************************************)
(* Small instances of IndexStore for TLC.                                  *)
(***************************************************************************)
EXTENDS IndexStoreInv, TLC

Symmetry == Permutations(Indexers)
=============================================================================
