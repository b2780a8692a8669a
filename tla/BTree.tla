-------------------------------- MODULE BTree --------------------------------
(***************************************************************************)
(* BTree (src/src/btree/btree.cpp): a B+ tree over the pages of a Pager,   *)
(* its leaves doubly linked.  The pager is taken to keep what is written   *)
(* to a page (PageStore); that it may fail is part of the model.           *)
(*                                                                         *)
(* insert takes one step for the leaf and one for each level that it has   *)
(* to change above: between two of them a call of the pager may fail and   *)
(* leave the tree as it is.  `call' is the insertion in progress.          *)
(***************************************************************************)
EXTENDS SlottedPage

CONSTANTS
  MaxPage,       \* bound: the largest page number a run allocates
  INVALID_PAGE,  \* the page number that names no page
  Usage          \* what clients and the pager do, of AllUsage

\* What a run may add to clients that insert new keys and remove present ones.
AllUsage == {
  "absent",      \* removing a key that is not in the tree
  "separator",   \* removing or seeking a key that is a separator of an inner page
  "emptyLeaf",   \* removing the last entry of a leaf
  "innerEdge",   \* splitting an inner page other than at or below its new entry
  "seekEnd",     \* seeking a position after the last entry of a leaf
  "lastSlot",    \* removing the entry in the last slot of a leaf, over a pool
  "pagerFails" } \* newPage or fetchPage may fail

ASSUME TreeAssumption ==
  /\ MaxPage \in Nat
  /\ INVALID_PAGE \in Nat
  /\ INVALID_PAGE > MaxPage
  /\ Usage \subseteq AllUsage

\* Any page has room for one separator.
ASSUME RoomAssumption == ZeroUsable >= SepNeed

root_ == 0

VARIABLES
  pages,   \* the pages allocated so far, numbered from 0
  call,    \* the insertion in progress
  status,  \* "ok"; "aborted" by an assertion; "corrupt": a page has overflowed
  answer   \* what the last operation returned

treeVars == <<pages, call, status, answer>>

PageNum  == 0 .. MaxPage
PageLink == PageNum \cup {INVALID_PAGE}

Page == [room : {ZeroUsable, Usable}, level : Nat,
         slots : Seq(Nat \ {0}), slotCount : Nat,
         area : Seq(Keys \cup {NoKey}),
         seps : Seq([key : Keys, child : PageLink]),
         next : PageLink, prev : PageLink]
Call == [active : BOOLEAN, parents : Seq(PageNum),
         key : Keys \cup {NoKey}, left : PageLink, right : PageLink]

NoCall == [active |-> FALSE, parents |-> <<>>, key |-> NoKey,
           left |-> INVALID_PAGE, right |-> INVALID_PAGE]

\* A page as newPage returns it.
NewPage == [room |-> Usable, level |-> INVALID_TREE_LEVEL, slots |-> <<>>,
            slotCount |-> 0, area |-> <<>>, seps |-> <<>>, next |-> INVALID_PAGE,
            prev |-> INVALID_PAGE]

\* The root, which is page 0, when it is empty.
NewRoot == [NewPage EXCEPT !.room = ZeroUsable]

\* Type correctness: what is in a page is within its bounds.
TypeOK ==
  /\ DOMAIN pages \in {0 .. n : n \in PageNum}
  /\ \A p \in DOMAIN pages : /\ pages[p] \in Page
                             /\ FreeSpace(pages[p]) >= 0
                             /\ InnerFree(pages[p]) >= 0
  /\ call \in Call
  /\ status \in {"ok", "aborted", "corrupt"}
  /\ answer \in {"none", "ok", "yes", "no", "error", "throws"}

-----------------------------------------------------------------------------
(* search *)

Ready == status = "ok" /\ ~call.active

NextPageNum == Cardinality(DOMAIN pages)

\* The keys of an inner page.
SepKeys(pg) == [i \in 1 .. SepCount(pg) |-> pg.seps[i].key]

\* The child of an inner page that searchInner chooses for k.
DescendTo(pg, k) == ChildOf(pg, SearchIn(SepKeys(pg), k))

\* The pages from the root to the leaf in which search looks for k.
Path(k) ==
  LET to[p \in DOMAIN pages] ==
        IF pages[p].level \in {0, INVALID_TREE_LEVEL} THEN <<p>>
        ELSE <<p>> \o to[DescendTo(pages[p], k)]
  IN to[root_]

\* search: the way to the place of k.
Search(k) ==
  LET path == Path(k)
      leaf == Last(path)
  IN  [parents |-> Front(path), leaf |-> leaf,
       index |-> SearchIn(LiveKeys(pages[leaf]), k)]

\* searchLeaf on a leaf with no entries reads a slot out of range: it throws.
\* For the root search does not get that far.
SearchThrows(at) == at.leaf # root_ /\ pages[at.leaf].slotCount = 0

EmptyRoot == pages[root_].slotCount = 0 /\ SepCount(pages[root_]) = 0

\* search makes an empty root a leaf.
Searched ==
  IF EmptyRoot THEN [pages EXCEPT ![root_].level = 0] ELSE pages

\* search cannot fetch a page on its way.
SearchFails ==
  /\ "pagerFails" \in Usage
  /\ Ready
  /\ answer' = "error"
  /\ UNCHANGED <<pages, call, status>>

-----------------------------------------------------------------------------
(* What the tree contains. *)

\* Mutant: first stays at the root.
RootLeaf == root_

\* first: the leaf that the leftmost children lead to.
FirstLeaf ==
  LET to[p \in DOMAIN pages] ==
        IF SepCount(pages[p]) = 0 THEN p ELSE to[ChildOf(pages[p], 0)]
  IN to[root_]

\* Where Cursor::next may come to, and how many leaves it may still go.
Stops == (DOMAIN pages \cup {INVALID_PAGE}) \X (0 .. MaxPage + 1)

\* The sequences h of the leaves that Cursor::next goes through, one after the other.
Along(h) ==
  LET from[at \in Stops] ==
        IF at[1] = INVALID_PAGE \/ at[2] = 0 THEN <<>>
        ELSE h[at[1]] \o from[<<pages[at[1]].next, at[2] - 1>>]
  IN from[<<FirstLeaf, MaxPage + 1>>]

\* The leaves themselves.
Chain == Along([p \in DOMAIN pages |-> <<p>>])

\* The keys of the leaves, in the order of the leaves.
Scan == Along([p \in DOMAIN pages |-> LiveKeys(pages[p])])

\* Whether some leaf has an entry for k, and some inner page a separator.
Present(k)   == \E p \in DOMAIN pages : k \in ToSet(LiveKeys(pages[p]))
Separator(k) == \E p \in DOMAIN pages : k \in ToSet(SepKeys(pages[p]))

-----------------------------------------------------------------------------
(* insert: the leaf.  `at' is what search returned. *)

MayInsert(k) == Ready /\ ~Present(k)

\* The entry of k fits in the page as it is.
Fits(pg, k) == EntrySize(k) <= FreeSpace(pg)

\* insert compacts a leaf that has no space for k, which compactPage can only
\* do if the leaf has entries and has not been filled to the last slot.
HasSpace(pg, k)   == Fits(pg, k) \/ (pg.slotCount > 0 /\ Compactable(pg) /\ Fits(Compact(pg), k))
MustSplit(pg, k)  == ~Fits(pg, k) /\ pg.slotCount > 0 /\ Compactable(pg) /\ ~Fits(Compact(pg), k)

InsertKey(k, at) ==
  LET pg == Searched[at.leaf] IN
  /\ ~SearchThrows(at)
  /\ HasSpace(pg, k)
  /\ pages' = [Searched EXCEPT ![at.leaf] =
                 InsertIntoLeaf(IF Fits(pg, k) THEN pg ELSE Compact(pg), at.index, k)]
  /\ answer' = "ok"
  /\ UNCHANGED <<call, status>>

\* The leaf is empty, or so full that it cannot be compacted: out_of_range.
InsertThrows(k, at) ==
  LET pg == pages[at.leaf] IN
  /\ \/ SearchThrows(at)
     \/ ~Fits(pg, k) /\ pg.slotCount > 0 /\ ~Compactable(pg)
  /\ answer' = "throws"
  /\ UNCHANGED <<pages, call, status>>

\* compactPage asserts that the page has an entry: not so for a root whose
\* entries have all been removed.
InsertAborts(k, at) ==
  /\ ~SearchThrows(at)
  /\ pages[at.leaf].slotCount = 0
  /\ ~Fits(pages[at.leaf], k)
  /\ status' = "aborted"
  /\ UNCHANGED <<pages, call, answer>>

\* The physical slots that stay in a page split at `at'.
StayBelow(index, at) == IF index < at THEN at - 1 ELSE at

\* A leaf that is to be split: its entries with k among them, how many stay, the
\* two pages it becomes, and how many of the entries that stay it has already.
LeafSplit(k, at) ==
  LET pg     == pages[at.leaf]
      merged == InsertAt(LiveKeys(pg), at.index + 1, k)
      split  == SplitIndex(pg, [i \in DOMAIN merged |-> EntrySize(merged[i])])
      stay   == StayBelow(at.index, split)
      kept   == Compact([Compact(pg) EXCEPT !.slotCount = stay, !.next = NextPageNum])
  IN  [stay  |-> stay,
       key   |-> merged[split + 1],
       left  |-> IF at.index < split THEN InsertIntoLeaf(kept, at.index, k) ELSE kept,
       right |-> [FillLeaf(NewPage, SubSeq(merged, split + 1, Len(merged))) EXCEPT
                    !.level = 0, !.next = pg.next, !.prev = at.leaf]]

NeedsSplit(k, at) ==
  /\ ~SearchThrows(at)
  /\ MustSplit(pages[at.leaf], k)
  /\ NextPageNum <= MaxPage

\* Mutant: the leaf after the new one keeps its prev.
NextUnlinked(p, right) == pages[p]

\* Mutant: its prev names the leaf itself.
LinkedToItself(p, right) == [pages[p] EXCEPT !.prev = p]

\* The leaf after the new one.
Relinked(p, right) == [pages[p] EXCEPT !.prev = right]

SplitLeaf(k, at) ==
  /\ NeedsSplit(k, at)
  /\ LET new == LeafSplit(k, at)
         l   == at.leaf
         r   == NextPageNum
     IN  /\ FreeSpace(new.right) >= 0
         /\ new.stay > 0
         /\ pages' = [p \in 0 .. r |->
                        IF p = l THEN new.left
                        ELSE IF p = r THEN new.right
                        ELSE IF p = pages[l].next THEN Relinked(p, r)
                        ELSE pages[p]]
         /\ call' = [active |-> TRUE, parents |-> at.parents,
                     key |-> new.key, left |-> l, right |-> r]
  /\ UNCHANGED <<status, answer>>

\* The right page is filled without a check, or the left one keeps no entry for
\* compactPage.
SplitLeafDies(k, at) ==
  /\ NeedsSplit(k, at)
  /\ LET new == LeafSplit(k, at) IN
     \/ FreeSpace(new.right) < 0 /\ status' = "corrupt"
     \/ FreeSpace(new.right) >= 0 /\ new.stay = 0 /\ status' = "aborted"
  /\ UNCHANGED <<pages, call, answer>>

\* newPage fails, or the fetch of the next leaf: then the right page is filled
\* and belongs to nobody.
SplitLeafFails(k, at) ==
  /\ "pagerFails" \in Usage
  /\ NeedsSplit(k, at)
  /\ LET new == LeafSplit(k, at)
         l   == at.leaf
         compacted == [pages EXCEPT ![l] = Compact(@)]
     IN \/ pages' = compacted
        \/ /\ pages[l].next # INVALID_PAGE
           /\ FreeSpace(new.right) >= 0
           /\ pages' = [p \in 0 .. NextPageNum |->
                          IF p = NextPageNum THEN new.right ELSE compacted[p]]
  /\ answer' = "error"
  /\ UNCHANGED <<call, status>>

-----------------------------------------------------------------------------
(* insert: the levels above (splitAndInsert). *)

Climbing == status = "ok" /\ call.active

Parent      == Last(call.parents)
ParentIndex == SearchIn(SepKeys(pages[Parent]), call.key)

InsertSeparator ==
  /\ Climbing
  /\ call.parents # <<>>
  /\ InnerFree(pages[Parent]) >= SepNeed
  /\ pages' = [pages EXCEPT ![Parent] =
                 InsertIntoInner(@, ParentIndex, call.key, call.left, call.right)]
  /\ call' = NoCall
  /\ answer' = "ok"
  /\ UNCHANGED status

InnerSplitAt ==
  SplitIndex(pages[Parent], [i \in 1 .. SepCount(pages[Parent]) + 1 |-> SepSize + 1])

\* splitInner's logicalEntry: entry i of the seps s with the new one at its index.
Logical(s, i) ==
  CASE i = ParentIndex -> [key |-> call.key, child |-> call.left]
    [] i < ParentIndex -> s[i + 1]
    [] i = ParentIndex + 1 -> [s[i] EXCEPT !.child = call.right]
    [] i > ParentIndex + 1 -> s[i]

\* Before the entries are moved, the slot at the split has its child replaced.
SetSplitChild(s) ==
  IF InnerSplitAt < Len(s) THEN [s EXCEPT ![InnerSplitAt + 1].child = call.left] ELSE s

NeedsInnerSplit ==
  /\ Climbing
  /\ call.parents # <<>>
  /\ InnerFree(pages[Parent]) < SepNeed
  /\ \/ InnerSplitAt <= ParentIndex /\ ParentIndex < SepCount(pages[Parent])
     \/ "innerEdge" \in Usage
  /\ NextPageNum <= MaxPage

RightInner ==
  LET s == SetSplitChild(pages[Parent].seps) IN
  [NewPage EXCEPT
     !.level = pages[Parent].level,
     !.next = pages[Parent].next,
     !.seps = [i \in 1 .. Len(s) - InnerSplitAt |-> Logical(s, i + InnerSplitAt)]]

LeftInner ==
  LET kept == [pages[Parent] EXCEPT
                 !.seps = SubSeq(@, 1, StayBelow(ParentIndex, InnerSplitAt)),
                 !.next = Logical(pages[Parent].seps, InnerSplitAt).child]
  IN  IF ParentIndex < InnerSplitAt
      THEN InsertIntoInner(kept, ParentIndex, call.key, call.left, call.right)
      ELSE kept

SplitInner ==
  /\ NeedsInnerSplit
  /\ StayBelow(ParentIndex, InnerSplitAt) > 0
  /\ pages' = [p \in 0 .. NextPageNum |->
                 IF p = Parent THEN LeftInner
                 ELSE IF p = NextPageNum THEN RightInner ELSE pages[p]]
  /\ call' = [active |-> TRUE, parents |-> Front(call.parents),
              key |-> Logical(pages[Parent].seps, InnerSplitAt).key,
              left |-> Parent, right |-> NextPageNum]
  /\ UNCHANGED <<status, answer>>

\* compactPage asserts that the left page keeps an entry.
SplitInnerAborts ==
  /\ NeedsInnerSplit
  /\ StayBelow(ParentIndex, InnerSplitAt) = 0
  /\ status' = "aborted"
  /\ UNCHANGED <<pages, call, answer>>

\* Mutant: the copy of the root is not linked to the leaf after it.
RootCopyUnlinked ==
  LET pg == pages[root_] IN
  [FillLeaf(NewPage, LiveKeys(pg)) EXCEPT !.level = pg.level, !.seps = pg.seps]

\* The root has been split: a copy of it becomes the left child of the root.
RootCopy ==
  LET pg == pages[root_] IN
  [FillLeaf(NewPage, LiveKeys(pg)) EXCEPT
     !.level = pg.level, !.seps = pg.seps, !.next = pg.next]

PromotedRoot(left) ==
  InsertIntoInner([NewRoot EXCEPT !.level = pages[root_].level + 1, !.next = call.right],
                  0, call.key, left, call.right)

PromoteRoot ==
  LET left == NextPageNum IN
  /\ Climbing
  /\ call.parents = <<>>
  /\ left <= MaxPage
  /\ pages' = [p \in 0 .. left |->
                 IF p = root_ THEN PromotedRoot(left)
                 ELSE IF p = left THEN RootCopy
                 ELSE IF p = call.right /\ pages[p].level = 0 THEN Relinked(p, left)
                 ELSE pages[p]]
  /\ call' = NoCall
  /\ answer' = "ok"
  /\ UNCHANGED status

\* newPage fails in splitInner or promoteRoot: the page below stays split.
ClimbFails ==
  /\ "pagerFails" \in Usage
  /\ Climbing
  /\ call.parents = <<>> \/ NeedsInnerSplit
  /\ call' = NoCall
  /\ answer' = "error"
  /\ UNCHANGED <<pages, status>>

-----------------------------------------------------------------------------
(* remove *)

MayRemove(k) ==
  /\ Ready
  /\ Present(k) \/ "absent" \in Usage
  /\ ~Separator(k) \/ "separator" \in Usage

\* What remove finds at the place of k: past the last entry, a stale slot.
Found(k, at) == KeyAt(pages[at.leaf], at.index) = k

RemoveKey(k, at) ==
  LET l == at.leaf IN
  /\ ~SearchThrows(at)
  /\ Found(k, at)
  /\ pages[l].slotCount # 1 \/ "emptyLeaf" \in Usage
  /\ IF pages[l].slotCount = 0
     THEN status' = "corrupt" /\ UNCHANGED pages
     ELSE pages' = [pages EXCEPT ![l] = RemoveFromLeaf(@, at.index)] /\ UNCHANGED status
  /\ answer' = "yes"
  /\ UNCHANGED call

RemoveNothing(k, at) ==
  /\ ~SearchThrows(at)
  /\ ~Found(k, at)
  /\ pages' = Searched
  /\ answer' = "no"
  /\ UNCHANGED <<call, status>>

RemoveThrows(k, at) ==
  /\ SearchThrows(at)
  /\ answer' = "throws"
  /\ UNCHANGED <<pages, call, status>>

-----------------------------------------------------------------------------
TreeInit ==
  /\ pages = [p \in {root_} |-> NewRoot]
  /\ call = NoCall
  /\ status = "ok"
  /\ answer = "none"

Insertion(k) ==
  /\ MayInsert(k)
  /\ LET at == Search(k) IN
     \/ InsertKey(k, at) \/ InsertThrows(k, at) \/ InsertAborts(k, at)
     \/ SplitLeaf(k, at) \/ SplitLeafDies(k, at) \/ SplitLeafFails(k, at)

InsertStep == InsertSeparator \/ SplitInner \/ SplitInnerAborts \/ PromoteRoot \/ ClimbFails

Removal(k) ==
  /\ MayRemove(k)
  /\ LET at == Search(k) IN
     RemoveKey(k, at) \/ RemoveNothing(k, at) \/ RemoveThrows(k, at)

TreeNext == (\E k \in Keys : Insertion(k) \/ Removal(k)) \/ InsertStep \/ SearchFails

TreeSpec == TreeInit /\ [][TreeNext]_treeVars
-----------------------------------------------------------------------------
(* Properties. *)

\* The leaves under page p, from left to right.
LeavesUnder(p) ==
  LET under[q \in DOMAIN pages] ==
        IF SepCount(pages[q]) = 0 THEN <<q>>
        ELSE FlattenSeq([i \in 1 .. SepCount(pages[q]) + 1 |->
                           under[ChildOf(pages[q], i - 1)]])
  IN under[p]

KeysUnder(p) ==
  UNION {ToSet(LiveKeys(pages[l])) : l \in ToSet(LeavesUnder(p))}

\* Inner pages tell their children apart: the keys under a child are below the
\* separator to its right and not below the one to its left, and children are
\* one level further down.
SeparatorsSeparate ==
  ~call.active =>
    \A p \in DOMAIN pages : \A i \in 1 .. SepCount(pages[p]) :
      LET sep == pages[p].seps[i].key
          l == ChildOf(pages[p], i - 1)
          r == ChildOf(pages[p], i)
      IN  /\ \A k \in KeysUnder(l) : k < sep
          /\ \A k \in KeysUnder(r) : k >= sep
          /\ pages[l].level = pages[p].level - 1
          /\ pages[r].level = pages[p].level - 1

\* Between insertions, Cursor::next visits exactly the leaves that search can
\* descend to, from left to right, and no page has been lost on the way: every
\* page but the inner ones is on the chain.
ChainIsTree ==
  ~call.active =>
    /\ Chain = LeavesUnder(root_)
    /\ {p \in DOMAIN pages : SepCount(pages[p]) = 0} = ToSet(Chain)

\* The leaves are doubly linked, through every split and every failed split.
ChainLinked ==
  /\ IsInjective(Chain)
  /\ \A n \in DOMAIN Chain :
       /\ pages[Chain[n]].prev = IF n = 1 THEN INVALID_PAGE ELSE Chain[n - 1]
       /\ pages[Chain[n]].level \in {0, INVALID_TREE_LEVEL}

\* A scan of the leaves finds the keys in ascending order.
ScanAscending == LET s == Scan IN \A i \in 1 .. Len(s) - 1 : s[i] < s[i + 1]

\* A step adds one entry to those that a scan finds, or takes one away, or
\* leaves them as they are: splitting, compacting and promoting a page neither
\* loses an entry, nor doubles one, nor puts it elsewhere.
OneEntryAtATime ==
  [][LET old == Scan
         new == Scan'
     IN  \/ new = old
         \/ \E i \in DOMAIN new : RemoveAt(new, i) = old
         \/ \E i \in DOMAIN old : RemoveAt(old, i) = new]_treeVars

\* A key that is in a leaf is found by seek (notes/lilium_db_notes.txt:155: "Seek to
\* a key that exists, verify key() and value() match").  It is not if it is a
\* separator too: searchInner returns the child on the separator's left.
SeekFindsPresentKey ==
  Ready => \A k \in Keys : Present(k) => LET at == Search(k) IN ~SearchThrows(at) /\ Found(k, at)

\* remove leaves the tree as it is if the key is not in it (btree.cpp:56: "return
\* false if exact key not found").  It does not after that key has been removed
\* from the end of a leaf: the slot past the last entry still names it.
RemoveOfAbsentKeepsEntries ==
  [][\A k \in Keys : ~Present(k) /\ Removal(k) => Scan' = Scan]_treeVars
=============================================================================
