------------------------------ MODULE MCSPFresh ------------------------------
(***************************************************************************)
(* Small instances of SPFresh for TLC.                                     *)
(***************************************************************************)
EXTENDS SPFreshInv, TLC

Symmetry == Permutations(Threads) \cup Permutations(Ids)
=============================================================================
