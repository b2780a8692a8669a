---------------------------- MODULE DurableStore ----------------------------
(***************************************************************************)
(* A PageStore that survives the death of its process: what the comment    *)
(* "Durability" of pager.h leads a client to expect of flushAll and close. *)
(* A page that was there when the last of them was done is there after a   *)
(* crash, with what it contained then or with something written to it      *)
(* since: pages reach the file one by one and at any time, by eviction.    *)
(*                                                                         *)
(* Durability shows that LRUPager implements it (DurableStoreOfPager).     *)
(***************************************************************************)
EXTENDS PageStore

VARIABLE kept  \* the pages a crash will leave, and what each may contain then

durableVars == <<storeVars, kept>>

KeptTypeOK ==
  \E S \in SUBSET Pages : kept \in [S -> SUBSET Contents]

DurableInit == Init /\ kept = [q \in {} |-> {}]

\* Everything there is has been put in safety.
KeepAll == kept' = [p \in DOMAIN store' |-> {store'[p]}]

Sync ==
  /\ running
  /\ UNCHANGED storeVars
  /\ KeepAll

\* A session that has only read puts nothing in safety.
StopSynced == Stop /\ (KeepAll \/ UNCHANGED kept)

DieKeeping ==
  /\ Die
  /\ DOMAIN store' = DOMAIN kept
  /\ \A p \in DOMAIN kept : store'[p] \in kept[p]
  /\ KeepAll

\* A page may be left with anything it has contained since.
Change ==
  /\ Use
  /\ kept' = [p \in DOMAIN kept \cap DOMAIN store' |-> kept[p] \cup {store'[p]}]

DurableNext == Sync \/ StopSynced \/ DieKeeping \/ Change

DurableSpec == DurableInit /\ [][DurableNext]_durableVars
=============================================================================
