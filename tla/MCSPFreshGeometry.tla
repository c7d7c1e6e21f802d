-------------------------- MODULE MCSPFreshGeometry ---------------------------
(***************************************************************************)
(* A small instance of SPFreshGeometry for TLC.                            *)
(***************************************************************************)
EXTENDS SPFreshGeometry

Symmetry == Permutations(Ids)
=============================================================================
