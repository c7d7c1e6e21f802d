----------------------------- MODULE MCHotReload ------------------------------
(***************************************************************************)
(* Small instances of HotReload for TLC.                                   *)
(***************************************************************************)
EXTENDS HotReloadInv, TLC

Symmetry == Permutations(Indexers)
=============================================================================
