------------------------------- MODULE MCBTree -------------------------------
(* Model-checking instances of BTree. *)
EXTENDS BTree

\* All entries are of one size; every fourth one is larger; or the last key's
\* fills page 0.
UniformCells == [k \in Keys |-> 1]
MixedCells   == [k \in Keys |-> IF k % 4 = 0 THEN 3 ELSE 2]
OneBigCell   == [k \in Keys |-> IF \A j \in Keys : j <= k THEN ZeroUsable - 1 ELSE 1]
=============================================================================
