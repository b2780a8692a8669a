----------------------------- MODULE BTreeCursor -----------------------------
(***************************************************************************)
(* The tree and one cursor into it: BTree::seek, first and last            *)
(* (src/src/btree/btree.cpp) and Cursor (cursor.h, cursor.cpp).            *)
(*                                                                         *)
(* A cursor is a leaf and a slot, and does not notice when the tree        *)
(* changes: clients drop it before they insert or remove.  They also drop  *)
(* it before they get a new one, a Cursor not being assignable.            *)
(***************************************************************************)
EXTENDS BTree

VARIABLE cursor

vars == <<treeVars, cursor>>

NoCursor == [valid |-> FALSE, leaf |-> INVALID_PAGE, slot |-> 0]

CursorAt(l, i) == [valid |-> TRUE, leaf |-> l, slot |-> i]

\* The cursor is invalid or at a slot of a leaf, one past the last at most.
CursorTypeOK ==
  \/ cursor = NoCursor
  \/ /\ cursor \in [valid : {TRUE}, leaf : DOMAIN pages, slot : 0 .. Usable]
     /\ pages[cursor.leaf].level = 0
     /\ cursor.slot <= pages[cursor.leaf].slotCount

-----------------------------------------------------------------------------
(* What the tree returns. *)

Return(c) == cursor' = c /\ answer' = "ok" /\ UNCHANGED <<call, status>>

\* seek: the index search returns, be it past the last entry.
SeekCursor(k) ==
  /\ Ready
  /\ ~Separator(k) \/ "separator" \in Usage
  /\ LET at == Search(k) IN
     /\ ~SearchThrows(at)
     /\ at.index < pages[at.leaf].slotCount \/ "seekEnd" \in Usage
     /\ pages' = Searched
     /\ Return(CursorAt(at.leaf, at.index))

SeekThrows(k) ==
  /\ Ready
  /\ ~Separator(k) \/ "separator" \in Usage
  /\ SearchThrows(Search(k))
  /\ answer' = "throws"
  /\ UNCHANGED <<pages, call, status, cursor>>

FirstCursor ==
  /\ Ready
  /\ UNCHANGED pages
  /\ Return(IF EmptyRoot THEN NoCursor ELSE CursorAt(FirstLeaf, 0))

\* The leaf that the rightmost children lead to.
LastLeaf ==
  LET to[p \in DOMAIN pages] == IF SepCount(pages[p]) = 0 THEN p ELSE to[pages[p].next]
  IN to[root_]

\* last: in an empty leaf slotCount - 1 wraps around to INVALID_SLOT.
LastCursor ==
  LET n == pages[LastLeaf].slotCount IN
  /\ Ready
  /\ UNCHANGED pages
  /\ Return(IF EmptyRoot \/ n = 0 THEN NoCursor ELSE CursorAt(LastLeaf, n - 1))

-----------------------------------------------------------------------------
(* Cursor. *)

\* The key the cursor is at, past the last entry what the slot there names.
CursorKey == IF cursor.valid THEN KeyAt(pages[cursor.leaf], cursor.slot) ELSE NoKey

\* The cursor is at an entry, not past the last one of its leaf.
OnEntry == cursor.valid /\ cursor.slot < pages[cursor.leaf].slotCount

\* The cursor in the leaf it moves on to: nowhere, if that has no entries.
Enter(l, slot) ==
  IF l = INVALID_PAGE \/ pages[l].slotCount = 0 THEN NoCursor ELSE CursorAt(l, slot)

\* Cursor::next
NextEntry ==
  LET l == cursor.leaf IN
  /\ Ready /\ cursor.valid
  /\ UNCHANGED pages
  /\ Return(IF cursor.slot < pages[l].slotCount - 1 THEN [cursor EXCEPT !.slot = @ + 1]
            ELSE Enter(pages[l].next, 0))

\* Mutant: prev enters a leaf at its first entry.
PrevToFirst == IF cursor.slot > 0 THEN [cursor EXCEPT !.slot = @ - 1]
               ELSE Enter(pages[cursor.leaf].prev, 0)

\* Where Cursor::prev moves to.
Before ==
  LET l == pages[cursor.leaf].prev IN
  IF cursor.slot > 0 THEN [cursor EXCEPT !.slot = @ - 1]
  ELSE IF l = INVALID_PAGE THEN NoCursor
  ELSE Enter(l, pages[l].slotCount - 1)

PrevEntry ==
  /\ Ready /\ cursor.valid
  /\ UNCHANGED pages
  /\ Return(Before)

\* The pager fails to fetch the leaf the cursor would move on to, or the pages on
\* the way to the entry it would be put at: it stays where it is.
CursorFails == SearchFails /\ UNCHANGED cursor

\* The client destroys its cursor.
DropCursor ==
  /\ cursor.valid
  /\ cursor' = NoCursor
  /\ UNCHANGED treeVars

Init == TreeInit /\ cursor = NoCursor

Next ==
  \/ /\ cursor = NoCursor
     /\ \/ TreeNext /\ UNCHANGED cursor
        \/ \E k \in Keys : SeekCursor(k) \/ SeekThrows(k)
        \/ FirstCursor \/ LastCursor
  \/ NextEntry \/ PrevEntry \/ CursorFails
  \/ DropCursor

Spec == Init /\ [][Next]_vars
-----------------------------------------------------------------------------
(* Properties. *)

\* The tree under one cursor is a sorted map: insert and remove do to the keys of
\* the leaves what they do to a set of keys, the splits of leaves and inner pages
\* in between leave it alone, and a cursor is at a key of the set or at none.
Map == INSTANCE OrderedMap WITH keys <- ToSet(Scan), at <- CursorKey

ImplementsMap == Map!MapSpec

\* Each operation moves the cursor to where the sorted map has it: seek to the
\* first key not below the one it is given, in whatever leaf that is, first and
\* last to the ends, next and prev to the neighbours across leaves.
CursorMovesAsInMap ==
  [][/\ \A k \in Keys : SeekCursor(k) => Map!Seek(k)
     /\ FirstCursor => Map!First
     /\ LastCursor => Map!Latest
     /\ NextEntry => Map!Forward
     /\ PrevEntry => Map!Backward]_vars

\* While no leaf is empty, next goes through the entries of the leaves one by one,
\* from whatever entry it starts, and ends after the last; prev goes back the same
\* way.  This is so whatever splits have failed in between.
WalksInOrder ==
  [][LET s == Scan IN
     (\A l \in ToSet(Chain) : pages[l].slotCount > 0) =>
       \A i \in DOMAIN s : (OnEntry /\ s[i] = CursorKey) =>
         /\ NextEntry => CursorKey' = (IF i = Len(s) THEN NoKey ELSE s[i + 1])
         /\ PrevEntry => CursorKey' = (IF i = 1 THEN NoKey ELSE s[i - 1])]_vars
=============================================================================
