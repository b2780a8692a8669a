----------------------------- MODULE OrderedMap -----------------------------
(***************************************************************************)
(* What the tree promises its clients (src/src/btree/btree.h, cursor.h): a *)
(* set of keys, and a cursor that is at one of them or at none.  A value   *)
(* goes with its key and needs no mention.                                 *)
(***************************************************************************)
EXTENDS Integers

CONSTANTS Keys,   \* the keys, positive integers
          NoKey   \* where a cursor is that is not valid

VARIABLES keys, at

mapVars == <<keys, at>>

\* The first of a set of keys, and the last of it.
Lowest(s)  == IF s = {} THEN NoKey ELSE CHOOSE k \in s : \A j \in s : k <= j
Highest(s) == IF s = {} THEN NoKey ELSE CHOOSE k \in s : \A j \in s : k >= j

Put(k)    == k \notin keys /\ keys' = keys \cup {k} /\ UNCHANGED at
Delete(k) == k \in keys /\ keys' = keys \ {k} /\ UNCHANGED at

MoveTo(k) == at' = k /\ UNCHANGED keys

Seek(k)  == MoveTo(Lowest({j \in keys : j >= k}))
First    == MoveTo(Lowest(keys))
Latest   == MoveTo(Highest(keys))
Forward  == at # NoKey /\ MoveTo(Lowest({j \in keys : j > at}))
Backward == at # NoKey /\ MoveTo(Highest({j \in keys : j < at}))
Drop     == MoveTo(NoKey)

MapInit == keys = {} /\ at = NoKey

MapNext ==
  \/ \E k \in Keys : Put(k) \/ Delete(k) \/ Seek(k)
  \/ First \/ Latest \/ Forward \/ Backward \/ Drop

MapSpec == MapInit /\ [][MapNext]_mapVars
=============================================================================
