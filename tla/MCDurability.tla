---------------------------- MODULE MCDurability ----------------------------
(* Model-checking instances of Durability. *)
EXTENDS Durability

CONSTANTS g1, g2

\* Guard variables are interchangeable.
Symmetry == Permutations({g1, g2})
=============================================================================
