----------------------------- MODULE MCBTreePool -----------------------------
(* Model-checking instances of BTreePool. *)
EXTENDS BTreePool, MCBTree
=============================================================================
