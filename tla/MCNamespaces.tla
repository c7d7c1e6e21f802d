----------------------------- MODULE MCNamespaces -----------------------------
(***************************************************************************)
(* A small instance of Namespaces for TLC.                                 *)
(***************************************************************************)
EXTENDS Namespaces, TLC

CONSTANTS a, plain   \* a document id and a payload

MCDim == plain :> 0

\* Upsert the document; what deletions of documents do is WritePath's.
MCWrites == {[ids |-> {a}, doc |-> plain]}
=============================================================================
