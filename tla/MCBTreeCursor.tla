---------------------------- MODULE MCBTreeCursor ----------------------------
(* Model-checking instances of BTreeCursor. *)
EXTENDS BTreeCursor, MCBTree
=============================================================================
