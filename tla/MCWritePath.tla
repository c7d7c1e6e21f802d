----------------------------- MODULE MCWritePath -----------------------------
(***************************************************************************)
(* Small instances of WritePath for TLC.                                   *)
(***************************************************************************)
EXTENDS WritePathInv, TLC

CONSTANTS a, b,        \* document ids
          short, long, \* payloads with vectors of different lengths
          plain        \* a payload without a vector

MCDim == (short :> 2) @@ (long :> 3) @@ (plain :> 0)

\* Upsert one id, upsert both with a vector of another length, delete one:
\* later writes overwrite and remove what earlier ones wrote, and a batch may
\* mix lengths or meet a namespace with another one.
MCWritesMixed == {[ids |-> {a}, doc |-> short],
                  [ids |-> {a, b}, doc |-> long],
                  [ids |-> {a}, doc |-> Absent]}

\* Two vector lengths and a payload without a vector.
MCWritesPlain == {[ids |-> {a}, doc |-> short],
                  [ids |-> {a}, doc |-> long],
                  [ids |-> {b}, doc |-> plain]}

Symmetry == Permutations(Reqs)
=============================================================================
