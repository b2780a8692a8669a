------------------------------ MODULE BTreePool ------------------------------
(***************************************************************************)
(* The tree over a buffer pool that evicts: BTree with, for each page,     *)
(* what is on file and whether the pager knows that the page has changed.  *)
(*                                                                         *)
(* The tree changes pages in two ways: through PageGuard::span, which      *)
(* marks the page dirty, and through PageGuard::setHeader, which does not  *)
(* (page_guard.cpp).  A page that changes only through setHeader goes back *)
(* to what is on file when the pool drops it.  Between two operations the  *)
(* pager may write or drop any page; the pages an insertion still needs    *)
(* are pinned, and that others leave the pool before or after it is all    *)
(* the same.                                                               *)
(***************************************************************************)
EXTENDS BTree

VARIABLE clean  \* what is on file of the pages that are not marked dirty

vars == <<treeVars, clean>>

Dirty(p) == p \in DOMAIN pages \ DOMAIN clean

PoolTypeOK ==
  /\ TypeOK
  /\ DOMAIN clean \in SUBSET DOMAIN pages
  /\ \A p \in DOMAIN clean : clean[p] \in Page

-----------------------------------------------------------------------------
\* The operation has had a span() of each of the pages ps.
Marks(ps) == clean' = [q \in DOMAIN clean \ ps |-> clean[q]]

\* newPage marks the page it makes.
Made == DOMAIN pages' \ DOMAIN pages

\* Mutant: the left page of a split changes with setHeader only.
OnlyMade(p) == Made

\* A split has rewritten page p and filled a new one.  splitLeaf changes the leaf
\* after it too, with setHeader.
SplitMarks(p) == {p} \cup Made

PooledInsertion(k) ==
  /\ MayInsert(k)
  /\ LET at == Search(k) IN
     \/ InsertKey(k, at) /\ Marks({at.leaf})
     \/ (SplitLeaf(k, at) \/ SplitLeafFails(k, at)) /\ Marks(SplitMarks(at.leaf))
     \/ (InsertThrows(k, at) \/ InsertAborts(k, at) \/ SplitLeafDies(k, at)) /\ Marks({})

PooledStep ==
  \/ InsertSeparator /\ Marks({Parent})
  \/ SplitInner /\ Marks(SplitMarks(Parent))
  \/ PromoteRoot /\ Marks(SplitMarks(root_))
  \/ (SplitInnerAborts \/ ClimbFails) /\ Marks({})

\* remove has a span() of the leaf only if it has slots to move.
PooledRemoval(k) ==
  /\ MayRemove(k)
  /\ LET at == Search(k)
         moves == at.index < pages[at.leaf].slotCount - 1
     IN \/ /\ moves \/ "lastSlot" \in Usage
           /\ RemoveKey(k, at)
           /\ Marks(IF moves THEN {at.leaf} ELSE {})
        \/ (RemoveNothing(k, at) \/ RemoveThrows(k, at)) /\ Marks({})

\* The pager writes a page that is marked dirty.
WriteBack(p) ==
  /\ Ready
  /\ Dirty(p)
  /\ clean' = [q \in DOMAIN clean \cup {p} |-> IF q = p THEN pages[p] ELSE clean[q]]
  /\ UNCHANGED treeVars

\* The pager drops a page that is not, and reads it again when it is fetched.
Drop(p) ==
  /\ Ready
  /\ p \in DOMAIN clean
  /\ pages' = [pages EXCEPT ![p] = clean[p]]
  /\ UNCHANGED <<call, status, answer, clean>>

PoolInit == TreeInit /\ clean = [p \in {} |-> NewPage]

PoolNext ==
  \/ \E k \in Keys : PooledInsertion(k) \/ PooledRemoval(k)
  \/ PooledStep
  \/ SearchFails /\ UNCHANGED clean
  \/ \E p \in PageNum : WriteBack(p) \/ Drop(p)

PoolSpec == PoolInit /\ [][PoolNext]_vars

-----------------------------------------------------------------------------
(* Properties. *)

\* A page as far as a page that is dropped may be counted on: splitLeaf mends the
\* prev of the leaf after the new one without marking it, and search makes a new
\* root a leaf in the same way.
Durable(pg) == [pg EXCEPT !.prev = INVALID_PAGE,
                          !.level = IF @ = INVALID_TREE_LEVEL THEN 0 ELSE @]

\* A page that is not marked is on file as the tree has left it, but for those
\* two fields: whatever insert, split, promotion and the removal of an entry that
\* is not in the last slot change, they mark.
UnmarkedIsOnFile ==
  \A p \in DOMAIN clean : Durable(clean[p]) = Durable(pages[p])

\* The prev of a leaf may be stale, but leads to a leaf further left, or to the
\* root, which has been the leftmost leaf, and is there for every leaf but the
\* first: a walk back may pass over leaves, yet it ends.
PrevLeadsLeft ==
  \A n \in DOMAIN Chain :
    IF n = 1 THEN pages[Chain[n]].prev = INVALID_PAGE
    ELSE pages[Chain[n]].prev \in {Chain[m] : m \in 1 .. n - 1} \cup {root_}

\* Over a pool that evicts, the tree is a sorted set of keys as before.
PooledMap == INSTANCE OrderedMap WITH keys <- ToSet(Scan), at <- NoKey

ImplementsPooledMap == PooledMap!MapSpec
=============================================================================
