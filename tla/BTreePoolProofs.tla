-------------------------- MODULE BTreePoolProofs --------------------------
(******************************************************************************)
(* The tree over a pool that writes and drops pages (BTreePool): it is type   *)
(* correct, what it changes it marks, a walk back along prev ends             *)
(* (PrevLeadsLeft), and to its clients it is a sorted map as without the pool *)
(* (ImplementsPooledMap).                                                     *)
(*                                                                            *)
(* Dropping a page puts an old one in the place of a newer one, which TreeInv *)
(* does not survive by itself: PoolInv adds that a page that is not marked    *)
(* would, as it is on file, still be a node of the tree at its level.  The    *)
(* steps of the tree keep that because no page but the root ever changes its  *)
(* level (LevelsKept): a page on file that was over pages at the level below  *)
(* still is.  The root changes its level only in steps that mark it, or to    *)
(* become a leaf.                                                             *)
(*                                                                            *)
(* That prev leads back to where next has come from (Backed) is lost when a   *)
(* leaf is dropped that was linked anew after it had been written.            *)
(* PoolChainInv has the rest of ChainInv instead, and for each leaf that the  *)
(* prev it has, and the one it would have if it were dropped, leads left      *)
(* (Left); steps of the tree keep that of old versions (LeftKept), as ranges  *)
(* are only ever cut, and a new leaf is to the right of the old one.          *)
(******************************************************************************)
EXTENDS BTreePool, BTreeChainProofs

\* A page that may be dropped is a node of the tree as it is on file, and unless it
\* is the root, at the level it has.
DroppedOK(p) ==
  /\ clean[p].level = pages[p].level \/ p = root_
  /\ NodeOK([pages EXCEPT ![p] = clean[p]], p)

\* The inductive invariant.
PoolInv ==
  /\ TreeInv
  /\ DOMAIN clean \subseteq DOMAIN pages
  /\ \A p \in DOMAIN clean : DroppedOK(p)

\* It implies type correctness.
LEMMA PoolInvImplies == PoolInv => PoolTypeOK
<1> SUFFICES ASSUME PoolInv PROVE PoolTypeOK
  OBVIOUS
<1>1. ASSUME NEW p \in DOMAIN clean PROVE clean[p] \in Page
  <2> DEFINE ps == [pages EXCEPT ![p] = clean[p]]
  <2>1. p \in DOMAIN pages /\ NodeOK(ps, p)
    BY DEF PoolInv, DroppedOK
  <2>2. ps[p] = clean[p]
    BY <2>1
  <2> HIDE DEF ps
  <2> QED BY <2>1, <2>2 DEF NodeOK, PageOK
<1> QED BY <1>1, InvImpliesTypeOK DEF PoolInv, PoolTypeOK

\* A page that a step leaves unmarked may still be dropped.
LEMMA DroppedKept ==
  ASSUME PoolInv, LevelsKept, TreeInv', NEW p \in DOMAIN clean, p \in DOMAIN clean',
         clean'[p] = clean[p]
  PROVE  DroppedOK(p)'
<1> DEFINE ps == [pages EXCEPT ![p] = clean[p]]
           qs == [pages' EXCEPT ![p] = clean[p]]
<1>1. /\ p \in DOMAIN pages /\ DroppedOK(p)
      /\ DOMAIN pages \subseteq DOMAIN pages'
      /\ \A q \in DOMAIN pages \ {root_} : pages'[q].level = pages[q].level
  BY DEF PoolInv, LevelsKept
<1>2. clean'[p].level = pages'[p].level \/ p = root_
  BY <1>1 DEF DroppedOK
<1>3. /\ DOMAIN ps = DOMAIN pages /\ DOMAIN qs = DOMAIN pages'
      /\ ps[p] = clean[p] /\ qs[p] = clean[p]
      /\ \A q \in DOMAIN pages : q # p => ps[q] = pages[q] /\ qs[q] = pages'[q]
  BY <1>1
<1>4. NodeOK(ps, p)
  BY <1>1 DEF DroppedOK
<1> HIDE DEF ps, qs
<1>5. /\ DOMAIN ps \subseteq DOMAIN qs /\ p \in DOMAIN ps
      /\ \A q \in DOMAIN ps \ {root_} : qs[q].level = ps[q].level
      /\ PageOK(qs[p]) /\ qs[p].level = ps[p].level /\ qs[p].seps = ps[p].seps
      /\ qs[p].next = ps[p].next /\ qs[p].slotCount = ps[p].slotCount
  BY <1>1, <1>3, <1>4 DEF NodeOK
<1>6. NodeOK(qs, p)
  BY <1>4, <1>5, NodeKept
<1> QED BY <1>2, <1>6 DEF DroppedOK, qs

\* A step marks some pages and writes none.
CleanLess ==
  /\ DOMAIN clean' \subseteq DOMAIN clean
  /\ \A p \in DOMAIN clean' : clean'[p] = clean[p]

\* The invariant holds of an empty tree.
LEMMA PoolInitInv == PoolInit => PoolInv
BY InitInv DEF PoolInit, PoolInv

\* A step of the tree marks some pages.
LEMMA TreeStep ==
  ASSUME PoolInv, [TreeNext]_treeVars, LevelsFit' \/ MaxPage < INVALID_TREE_LEVEL,
         CleanLess
  PROVE  PoolInv'
<1>1. TreeInv' /\ LevelsKept
  BY StepInv DEF PoolInv
<1>2. DOMAIN clean' \subseteq DOMAIN clean /\ \A p \in DOMAIN clean' : clean'[p] = clean[p]
  BY DEF CleanLess
<1>3. DOMAIN clean' \subseteq DOMAIN pages'
  BY <1>1, <1>2 DEF PoolInv, LevelsKept
<1>4. ASSUME NEW p \in DOMAIN clean' PROVE DroppedOK(p)'
  <2>1. p \in DOMAIN clean /\ clean'[p] = clean[p]
    BY <1>2
  <2> QED BY <1>1, <2>1, DroppedKept
<1> QED BY <1>1, <1>3, <1>4 DEF PoolInv

\* A page that the pager writes may be dropped: it is on file as it is.
LEMMA WriteBackStep ==
  ASSUME PoolInv, NEW p \in PageNum, WriteBack(p)
  PROVE  PoolInv'
<1>1. /\ p \in DOMAIN pages /\ UNCHANGED treeVars
      /\ clean' = [q \in DOMAIN clean \cup {p} |-> IF q = p THEN pages[p] ELSE clean[q]]
  BY DEF WriteBack, Dirty
<1>2. DOMAIN clean' = DOMAIN clean \cup {p}
  BY <1>1
<1>3. TreeInv'
  BY <1>1 DEF treeVars, TreeInv, PoolInv
<1>4. LevelsKept
  BY <1>1 DEF treeVars, LevelsKept
<1>5. ASSUME NEW q \in DOMAIN clean' PROVE DroppedOK(q)'
  <2>1. CASE q = p
    <3>1. clean'[p] = pages[p] /\ pages' = pages
      BY <1>1 DEF treeVars
    <3> DEFINE qs == [pages EXCEPT ![p] = pages[p]]
    <3>2. NodeOK(pages, p)
      BY <1>1 DEF PoolInv, TreeInv, Nodes
    <3>3. DOMAIN qs = DOMAIN pages /\ \A r \in DOMAIN pages : qs[r] = pages[r]
      BY <1>1
    <3> HIDE DEF qs
    <3>4. /\ DOMAIN pages \subseteq DOMAIN qs
          /\ \A r \in DOMAIN pages \ {root_} : qs[r].level = pages[r].level
          /\ PageOK(qs[p]) /\ qs[p].level = pages[p].level /\ qs[p].seps = pages[p].seps
          /\ qs[p].next = pages[p].next /\ qs[p].slotCount = pages[p].slotCount
      BY <1>1, <3>2, <3>3 DEF NodeOK
    <3>5. NodeOK(qs, p)
      BY <1>1, <3>2, <3>4, NodeKept
    <3> QED BY <2>1, <3>1, <3>5 DEF DroppedOK, qs
  <2>2. CASE q # p
    <3>1. q \in DOMAIN clean /\ clean'[q] = clean[q]
      BY <1>1, <1>2, <2>2
    <3> QED BY <1>3, <1>4, <3>1, DroppedKept
  <2> QED BY <2>1, <2>2
<1>6. DOMAIN clean' \subseteq DOMAIN pages'
  BY <1>1, <1>2 DEF PoolInv, treeVars
<1> QED BY <1>3, <1>5, <1>6 DEF PoolInv

\* A page that is dropped leaves the tree in order.
LEMMA DropStep ==
  ASSUME PoolInv, NEW p \in PageNum, Drop(p)
  PROVE  PoolInv'
<1>1. /\ Ready /\ p \in DOMAIN clean /\ p \in DOMAIN pages
      /\ pages' = [pages EXCEPT ![p] = clean[p]]
      /\ UNCHANGED <<call, status, answer, clean>>
  BY DEF Drop, PoolInv
<1>2. /\ DOMAIN pages' = DOMAIN pages /\ pages'[p] = clean[p]
      /\ \A q \in DOMAIN pages : q # p => pages'[q] = pages[q]
  BY <1>1
<1>3. Nodes(pages')
  <2> DEFINE qs == pages'
  <2>1. (clean[p].level = pages[p].level \/ p = root_) /\ NodeOK(qs, p)
    BY <1>1 DEF PoolInv, DroppedOK
  <2>2. Nodes(pages)
    BY DEF PoolInv, TreeInv
  <2>3. /\ DOMAIN qs = DOMAIN pages /\ qs[p] = clean[p]
        /\ \A q \in DOMAIN pages : q # p => qs[q] = pages[q]
    BY <1>2
  <2> HIDE DEF qs
  <2>4. Nodes(qs)
    BY <1>1, <2>1, <2>2, <2>3, NodeReplaced
  <2> QED BY <2>4 DEF qs
<1>4. TreeInv'
  BY <1>1, <1>3 DEF PoolInv, TreeInv, CallOK, Ready
<1>5. LevelsKept
  BY <1>1, <1>2 DEF LevelsKept, PoolInv, DroppedOK
<1>6. ASSUME NEW q \in DOMAIN clean' PROVE DroppedOK(q)'
  BY <1>1, <1>4, <1>5, DroppedKept
<1>7. DOMAIN clean' \subseteq DOMAIN pages'
  BY <1>1, <1>2 DEF PoolInv
<1> QED BY <1>4, <1>6, <1>7 DEF PoolInv

\* What the span()s of an operation do.
LEMMA MarksAre ==
  ASSUME NEW ps, Marks(ps)
  PROVE  CleanLess /\ DOMAIN clean' = DOMAIN clean \ ps
BY DEF Marks, CleanLess

\* A step of the pool is one of the tree, which marks pages, or one of the pager.
LEMMA PoolSteps ==
  ASSUME [PoolNext]_vars
  PROVE  \/ [TreeNext]_treeVars /\ CleanLess
         \/ \E p \in PageNum : WriteBack(p) \/ Drop(p)
<1>1. ASSUME NEW k \in Keys, PooledInsertion(k) PROVE TreeNext /\ CleanLess
  <2>1. Insertion(k)
    BY <1>1 DEF PooledInsertion, Insertion
  <2>2. \E ps : Marks(ps)
    BY <1>1, Zenon DEF PooledInsertion
  <2> QED BY <2>1, <2>2, MarksAre DEF TreeNext
<1>2. ASSUME NEW k \in Keys, PooledRemoval(k) PROVE TreeNext /\ CleanLess
  <2>1. Removal(k)
    BY <1>2 DEF PooledRemoval, Removal
  <2>2. \E ps : Marks(ps)
    BY <1>2, Zenon DEF PooledRemoval
  <2> QED BY <2>1, <2>2, MarksAre DEF TreeNext
<1>3. ASSUME PooledStep PROVE TreeNext /\ CleanLess
  <2>1. InsertStep
    BY <1>3 DEF PooledStep, InsertStep
  <2>2. \E ps : Marks(ps)
    BY <1>3, Zenon DEF PooledStep
  <2> QED BY <2>1, <2>2, MarksAre DEF TreeNext
<1>4. ASSUME SearchFails, UNCHANGED clean PROVE TreeNext /\ CleanLess
  BY <1>4 DEF TreeNext, CleanLess
<1>5. ASSUME UNCHANGED vars PROVE UNCHANGED treeVars /\ CleanLess
  BY <1>5 DEF vars, CleanLess
<1> QED BY <1>1, <1>2, <1>3, <1>4, <1>5 DEF PoolNext

\* Every step keeps the invariant.
LEMMA PoolStepInv ==
  ASSUME PoolInv, [PoolNext]_vars, LevelsFit' \/ MaxPage < INVALID_TREE_LEVEL
  PROVE  PoolInv'
BY PoolSteps, TreeStep, WriteBackStep, DropStep

\* Over a pool that writes and drops pages as it likes, the tree is type correct as
\* before, for any client: a page that is changed with setHeader only, and so is not
\* marked dirty, goes back to what is on file when it is dropped, and that is still a
\* page in order (page_guard.cpp).
THEOREM PoolTypeCorrect == PoolSpec /\ []LevelsFit => []PoolTypeOK
<1>1. PoolInv /\ [PoolNext]_vars /\ LevelsFit' => PoolInv'
  BY PoolStepInv
<1>2. PoolSpec /\ []LevelsFit => []PoolInv
  BY <1>1, PoolInitInv, PTL DEF PoolSpec
<1> QED BY <1>2, PoolInvImplies, PTL

-----------------------------------------------------------------------------
\* c has what pg has, but for prev and the level of an empty root.
SameContent(pg, c) ==
  /\ c.room = pg.room /\ c.slots = pg.slots /\ c.slotCount = pg.slotCount
  /\ c.area = pg.area /\ c.seps = pg.seps /\ c.next = pg.next
  /\ \/ c.level = pg.level
     \/ c.level = 0 /\ pg.level \in {0, INVALID_TREE_LEVEL}

\* Such a page is the same as far as a page that is dropped may be counted on.
LEMMA SameDurable ==
  ASSUME NEW pg \in Page, NEW c \in Page, SameContent(pg, c)
  PROVE  Durable(c) = Durable(pg)
<1> DEFINE level(x) == IF x = INVALID_TREE_LEVEL THEN 0 ELSE x
           D(x) == [room |-> x.room, level |-> level(x.level), slots |-> x.slots,
                    slotCount |-> x.slotCount, area |-> x.area, seps |-> x.seps,
                    next |-> x.next, prev |-> INVALID_PAGE]
<1>1. ASSUME NEW x \in Page PROVE Durable(x) = D(x)
  <2> DEFINE lev == level(x.level)
  <2>1. Durable(x) = [x EXCEPT !.prev = INVALID_PAGE, !.level = lev]
    BY DEF Durable
  <2> HIDE DEF lev
  <2>2. Durable(x) = [room |-> x.room, level |-> lev, slots |-> x.slots,
                      slotCount |-> x.slotCount, area |-> x.area, seps |-> x.seps,
                      next |-> x.next, prev |-> INVALID_PAGE]
    BY <2>1 DEF Page
  <2> QED BY <2>2 DEF lev
<1>2. level(c.level) = level(pg.level)
  BY DEF SameContent, INVALID_TREE_LEVEL
<1> HIDE DEF level
<1>3. D(c) = D(pg)
  BY <1>2 DEF SameContent
<1> HIDE DEF D
<1> QED BY <1>1, <1>3

\* The prev of a leaf is not counted on.
LEMMA RelinkedDurable ==
  ASSUME TreeInv, NEW p \in DOMAIN pages, NEW r \in PageLink
  PROVE  Durable(Relinked(p, r)) = Durable(pages[p])
<1> DEFINE pg == pages[p]
           c  == [pg EXCEPT !.prev = r]
<1>1. pg \in Page
  BY DEF TreeInv, Nodes, NodeOK, PageOK
<1> HIDE DEF pg
<1>2. /\ c \in Page /\ c.level = pg.level /\ c.seps = pg.seps
      /\ c.room = pg.room /\ c.next = pg.next
      /\ c.slotCount = pg.slotCount /\ c.slots = pg.slots /\ c.area = pg.area
  BY <1>1 DEF Page
<1> HIDE DEF c
<1>3. Durable(c) = Durable(pg)
  <2>1. SameContent(pg, c)
    BY <1>2 DEF SameContent
  <2> QED BY <1>1, <1>2, <2>1, SameDurable
<1> QED BY <1>3 DEF c, pg, Relinked

\* Nor is that search has made an empty root a leaf.
LEMMA SearchedDurable ==
  ASSUME TreeInv, NEW p \in DOMAIN pages
  PROVE  Durable(Searched[p]) = Durable(pages[p])
<1>1. CASE p = root_ /\ EmptyRoot
  <2> DEFINE pg == pages[root_]
             c == [pg EXCEPT !.level = 0]
  <2>1. Searched[p] = c
    BY <1>1 DEF Searched
  <2>2. pg \in Page /\ NodeOK(pages, root_) /\ PageOK(pg)
    BY <1>1 DEF TreeInv, Nodes, NodeOK, PageOK
  <2>3. pg.seps = <<>>
    <3>1. Len(pg.seps) = 0 /\ pg.seps \in Seq(Sep)
      BY <1>1, <2>2, SepsAre DEF EmptyRoot, SepCount
    <3> QED BY <3>1, EmptySeq
  <2>4. pg.level \in {0, INVALID_TREE_LEVEL}
    BY <2>2, <2>3 DEF NodeOK
  <2>5. /\ c \in Page /\ c.level = 0 /\ c.seps = pg.seps
        /\ c.room = pg.room /\ c.next = pg.next
        /\ c.slotCount = pg.slotCount /\ c.slots = pg.slots /\ c.area = pg.area
    BY <2>2 DEF Page
  <2> HIDE DEF c, pg
  <2>6. Durable(c) = Durable(pg)
    <3>1. SameContent(pg, c)
      BY <2>4, <2>5 DEF SameContent
    <3> QED BY <2>2, <2>5, <3>1, SameDurable
  <2> QED BY <1>1, <2>1, <2>6 DEF pg
<1>2. CASE ~(p = root_ /\ EmptyRoot)
  <2>1. Searched[p] = pages[p]
    BY <1>2 DEF Searched
  <2> QED BY <2>1
<1> QED BY <1>1, <1>2

\* insert marks the pages that it changes.
LEMMA InsertionMarks ==
  ASSUME TreeInv, NEW k \in Keys, PooledInsertion(k)
  PROVE  \A p \in DOMAIN clean' : p \in DOMAIN pages => Durable(pages'[p]) = Durable(pages[p])
<1> DEFINE at == Search(k)
           l == at.leaf
<1>1. \/ InsertKey(k, at) /\ Marks({l})
      \/ (SplitLeaf(k, at) \/ SplitLeafFails(k, at)) /\ Marks(SplitMarks(l))
      \/ (InsertThrows(k, at) \/ InsertAborts(k, at) \/ SplitLeafDies(k, at)) /\ Marks({})
  BY DEF PooledInsertion
<1>2. CASE InsertKey(k, at) /\ Marks({l})
  <2> SUFFICES ASSUME NEW p \in DOMAIN clean', p \in DOMAIN pages
               PROVE  Durable(pages'[p]) = Durable(pages[p])
    OBVIOUS
  <2>1. p # l
    BY <1>2, MarksAre
  <2>2. pages'[p] = Searched[p]
    BY <1>2, <2>1, SearchedKeeps DEF InsertKey
  <2> QED BY <2>2, SearchedDurable
<1>3. CASE (SplitLeaf(k, at) \/ SplitLeafFails(k, at)) /\ Marks(SplitMarks(l))
  <2> SUFFICES ASSUME NEW p \in DOMAIN clean', p \in DOMAIN pages
               PROVE  Durable(pages'[p]) = Durable(pages[p])
    OBVIOUS
  <2>1. p # l
    <3>1. l \in SplitMarks(l)
      BY Zenon DEF SplitMarks
    <3>2. DOMAIN clean' = DOMAIN clean \ SplitMarks(l)
      BY <1>3, MarksAre, Zenon
    <3> QED BY <3>1, <3>2, Zenon
  <2>2. NeedsSplit(k, at)
    BY <1>3 DEF SplitLeaf, SplitLeafFails
  <2>3. NextPageNum \in PageLink /\ p # NextPageNum /\ p \in 0 .. NextPageNum
    <3>1. NextPageNum <= MaxPage /\ Nodes(pages)
      BY <2>2 DEF NeedsSplit, TreeInv
    <3>2. /\ NextPageNum \in PageNum /\ NextPageNum \notin DOMAIN pages
          /\ 0 .. NextPageNum = DOMAIN pages \cup {NextPageNum}
      BY <3>1, NextPageIs
    <3> QED BY <3>2 DEF PageLink
  <2>4. Durable(Relinked(p, NextPageNum)) = Durable(pages[p])
    BY <2>3, RelinkedDurable
  <2>5. CASE SplitLeaf(k, at)
    <3>1. pages'[p] \in {Relinked(p, NextPageNum), pages[p]}
      BY <2>1, <2>3, <2>5 DEF SplitLeaf
    <3> QED BY <2>4, <3>1
  <2>6. CASE SplitLeafFails(k, at)
    <3>1. pages'[p] = pages[p]
      BY <2>1, <2>3, <2>6 DEF SplitLeafFails
    <3> QED BY <3>1
  <2> QED BY <1>3, <2>5, <2>6
<1>4. CASE InsertThrows(k, at) \/ InsertAborts(k, at) \/ SplitLeafDies(k, at)
  <2>1. pages' = pages
    BY <1>4 DEF InsertThrows, InsertAborts, SplitLeafDies
  <2> QED BY <2>1
<1> QED BY <1>1, <1>2, <1>3, <1>4

\* remove marks the leaf, unless the entry is in its last slot.
LEMMA RemovalMarks ==
  ASSUME TreeInv, NEW k \in Keys, PooledRemoval(k), "lastSlot" \notin Usage
  PROVE  \A p \in DOMAIN clean' : p \in DOMAIN pages => Durable(pages'[p]) = Durable(pages[p])
<1> SUFFICES ASSUME NEW p \in DOMAIN clean', p \in DOMAIN pages
             PROVE  Durable(pages'[p]) = Durable(pages[p])
  OBVIOUS
<1> DEFINE at == Search(k)
           l == at.leaf
           moves == at.index < pages[l].slotCount - 1
<1>1. \/ moves /\ RemoveKey(k, at) /\ Marks({l})
      \/ RemoveNothing(k, at) \/ RemoveThrows(k, at)
  BY DEF PooledRemoval
<1>2. CASE RemoveKey(k, at) /\ Marks({l})
  <2>1. p # l
    <3>1. DOMAIN clean' = DOMAIN clean \ {l}
      BY <1>2, MarksAre, Zenon
    <3> QED BY <3>1
  <2>2. pages'[p] = pages[p]
    <3>1. \/ pages' = pages
          \/ pages' = [pages EXCEPT ![l] = RemoveFromLeaf(pages[l], at.index)]
      BY <1>2, Zenon DEF RemoveKey
    <3> QED BY <2>1, <3>1
  <2> QED BY <2>2
<1>3. CASE RemoveNothing(k, at)
  BY <1>3, SearchedDurable DEF RemoveNothing
<1>4. CASE RemoveThrows(k, at)
  BY <1>4 DEF RemoveThrows
<1> QED BY <1>1, <1>2, <1>3, <1>4

\* The steps above the leaf mark the pages they change.
LEMMA StepMarks ==
  ASSUME TreeInv, PooledStep
  PROVE  \A p \in DOMAIN clean' : p \in DOMAIN pages => Durable(pages'[p]) = Durable(pages[p])
<1> SUFFICES ASSUME NEW p \in DOMAIN clean', p \in DOMAIN pages
             PROVE  Durable(pages'[p]) = Durable(pages[p])
  OBVIOUS
<1>1. ASSUME NextPageNum <= MaxPage
      PROVE  NextPageNum \in PageLink /\ p # NextPageNum /\ p \in 0 .. NextPageNum
  <2>1. /\ NextPageNum \in PageNum /\ NextPageNum \notin DOMAIN pages
        /\ 0 .. NextPageNum = DOMAIN pages \cup {NextPageNum}
    BY <1>1, NextPageIs DEF TreeInv
  <2> QED BY <2>1 DEF PageLink
<1>2. CASE InsertSeparator /\ Marks({Parent})
  <2>1. p # Parent
    BY <1>2, MarksAre
  <2>2. pages'[p] = pages[p]
    BY <1>2, <2>1 DEF InsertSeparator
  <2> QED BY <2>2
<1>3. CASE SplitInner /\ Marks(SplitMarks(Parent))
  <2>1. p # Parent
    BY <1>3, MarksAre DEF SplitMarks
  <2>2. NextPageNum <= MaxPage
    BY <1>3 DEF SplitInner, NeedsInnerSplit
  <2>3. pages'[p] = pages[p]
    BY <1>1, <1>3, <2>1, <2>2 DEF SplitInner
  <2> QED BY <2>3
<1>4. CASE PromoteRoot /\ Marks(SplitMarks(root_))
  <2>1. p # root_
    BY <1>4, MarksAre DEF SplitMarks
  <2>2. NextPageNum <= MaxPage
    BY <1>4 DEF PromoteRoot
  <2>3. pages'[p] \in {Relinked(p, NextPageNum), pages[p]}
    BY <1>1, <1>4, <2>1, <2>2 DEF PromoteRoot
  <2>4. Durable(Relinked(p, NextPageNum)) = Durable(pages[p])
    BY <1>1, <2>2, RelinkedDurable
  <2> QED BY <2>3, <2>4
<1>5. CASE SplitInnerAborts \/ ClimbFails
  BY <1>5 DEF SplitInnerAborts, ClimbFails
<1> QED BY <1>2, <1>3, <1>4, <1>5 DEF PooledStep

\* A page that is not marked stays what it is on file.
LEMMA UnmarkedStep ==
  ASSUME PoolInv, UnmarkedIsOnFile, [PoolNext]_vars, "lastSlot" \notin Usage
  PROVE  UnmarkedIsOnFile'
<1>1. ASSUME CleanLess,
             \A p \in DOMAIN clean' : p \in DOMAIN pages => Durable(pages'[p]) = Durable(pages[p])
      PROVE  UnmarkedIsOnFile'
  BY <1>1 DEF UnmarkedIsOnFile, CleanLess, PoolInv
<1>2. TreeInv
  BY DEF PoolInv
<1>3. ASSUME NEW k \in Keys, PooledInsertion(k) PROVE UnmarkedIsOnFile'
  <2>1. \E ps : Marks(ps)
    BY <1>3, Zenon DEF PooledInsertion
  <2> QED BY <1>1, <1>2, <1>3, <2>1, MarksAre, InsertionMarks
<1>4. ASSUME NEW k \in Keys, PooledRemoval(k) PROVE UnmarkedIsOnFile'
  <2>1. \E ps : Marks(ps)
    BY <1>4, Zenon DEF PooledRemoval
  <2> QED BY <1>1, <1>2, <1>4, <2>1, MarksAre, RemovalMarks
<1>5. CASE PooledStep
  <2>1. \E ps : Marks(ps)
    BY <1>5, Zenon DEF PooledStep
  <2> QED BY <1>1, <1>2, <1>5, <2>1, MarksAre, StepMarks
<1>6. CASE SearchFails /\ UNCHANGED clean
  BY <1>6 DEF SearchFails, UnmarkedIsOnFile
<1>7. ASSUME NEW p \in PageNum, WriteBack(p) PROVE UnmarkedIsOnFile'
  <2>1. /\ pages' = pages
        /\ clean' = [q \in DOMAIN clean \cup {p} |-> IF q = p THEN pages[p] ELSE clean[q]]
    BY <1>7 DEF WriteBack, treeVars
  <2>2. ASSUME NEW q \in DOMAIN clean' PROVE Durable(clean'[q]) = Durable(pages[q])
    <3>1. q \in DOMAIN clean \cup {p} /\ clean'[q] = IF q = p THEN pages[p] ELSE clean[q]
      BY <2>1
    <3> QED BY <3>1 DEF UnmarkedIsOnFile
  <2> QED BY <2>1, <2>2 DEF UnmarkedIsOnFile
<1>8. ASSUME NEW p \in PageNum, Drop(p) PROVE UnmarkedIsOnFile'
  <2>1. pages' = [pages EXCEPT ![p] = clean[p]] /\ clean' = clean /\ p \in DOMAIN clean
    BY <1>8 DEF Drop
  <2>2. ASSUME NEW q \in DOMAIN clean PROVE Durable(clean[q]) = Durable(pages'[q])
    <3>1. q \in DOMAIN pages
      BY DEF PoolInv
    <3>2. pages'[q] = IF q = p THEN clean[q] ELSE pages[q]
      BY <2>1, <3>1
    <3> QED BY <3>2 DEF UnmarkedIsOnFile
  <2> QED BY <2>1, <2>2 DEF UnmarkedIsOnFile
<1>9. CASE UNCHANGED vars
  BY <1>9 DEF vars, treeVars, UnmarkedIsOnFile
<1> QED BY <1>3, <1>4, <1>5, <1>6, <1>7, <1>8, <1>9 DEF PoolNext

\* Unless a client removes the entry in the last slot of a leaf, which remove does
\* with setHeader only, a page that is not marked dirty is on file as the tree has
\* left it, but for the prev of a leaf and the level of an empty root: dropping it
\* loses no key and no separator (UnmarkedIsOnFile).
THEOREM UnmarkedPagesAreOnFile ==
  ASSUME "lastSlot" \notin Usage
  PROVE  PoolSpec /\ []LevelsFit => []UnmarkedIsOnFile
<1>1. PoolInit => UnmarkedIsOnFile
  BY DEF PoolInit, UnmarkedIsOnFile
<1>2. PoolInv /\ [PoolNext]_vars /\ LevelsFit' => PoolInv'
  BY PoolStepInv
<1>3. PoolInv /\ UnmarkedIsOnFile /\ [PoolNext]_vars => UnmarkedIsOnFile'
  BY UnmarkedStep
<1> QED BY <1>1, <1>2, <1>3, PoolInitInv, PTL DEF PoolSpec

-----------------------------------------------------------------------------
(* The chain of leaves. *)

\* What Durable does not hide of a page.
LEMMA DurableIs ==
  ASSUME NEW pg \in Page, NEW c \in Page, Durable(c) = Durable(pg)
  PROVE  /\ c.slots = pg.slots /\ c.slotCount = pg.slotCount /\ c.area = pg.area
         /\ c.seps = pg.seps /\ c.next = pg.next
         /\ Inner(c) <=> Inner(pg)
<1> DEFINE level(x) == IF x = INVALID_TREE_LEVEL THEN 0 ELSE x
<1>1. ASSUME NEW x \in Page
      PROVE  /\ Durable(x).slots = x.slots /\ Durable(x).slotCount = x.slotCount
             /\ Durable(x).area = x.area /\ Durable(x).seps = x.seps
             /\ Durable(x).next = x.next /\ Durable(x).level = level(x.level)
  <2> DEFINE lev == level(x.level)
  <2>1. Durable(x) = [x EXCEPT !.prev = INVALID_PAGE, !.level = lev]
    BY DEF Durable
  <2> HIDE DEF lev
  <2>2. Durable(x) = [room |-> x.room, level |-> lev, slots |-> x.slots,
                      slotCount |-> x.slotCount, area |-> x.area, seps |-> x.seps,
                      next |-> x.next, prev |-> INVALID_PAGE]
    BY <2>1 DEF Page
  <2> QED BY <2>2 DEF lev
<1>2. level(c.level) = level(pg.level)
  BY <1>1
<1>3. Inner(c) <=> Inner(pg)
  BY <1>2 DEF Inner
<1> HIDE DEF level
<1> QED BY <1>1, <1>3

\* Any page is one, and so is what is on file of it.
LEMMA PoolPages ==
  ASSUME PoolInv
  PROVE  /\ \A p \in DOMAIN pages : pages[p] \in Page
         /\ \A p \in DOMAIN clean : p \in DOMAIN pages /\ clean[p] \in Page
<1>1. PoolTypeOK
  BY PoolInvImplies
<1> QED BY <1>1 DEF PoolTypeOK, TypeOK, PoolInv

\* A root that has no children is alone.
LEMMA LoneRoot ==
  ASSUME TreeInv, ~call.active, NEW R, InOrder(pages, call, R), ~Inner(pages[root_])
  PROVE  DOMAIN pages = {root_}
<1>1. root_ \in DOMAIN pages /\ \A p \in DOMAIN pages : pages[p].level \in Nat
  BY DomainIs DEF TreeInv, Nodes, NodeOK, PageOK, Page
<1>2. ASSUME NEW p \in DOMAIN pages \ {root_} PROVE FALSE
  <2>1. pages[root_].level = 0 /\ pages[p].level <= pages[root_].level
    BY DEF InOrder, RootAbove, Inner
  <2>2. pages[p].level = pages[root_].level
    BY <1>1, <2>1
  <2>3. R[p] # {} /\ R[p] \in SUBSET Keys /\ R[p] \cap R[root_] = {}
    BY <1>1, <2>2 DEF InOrder, RangesOf
  <2>4. R[root_] = Keys
    BY DEF InOrder, Owned
  <2> QED BY <2>3, <2>4
<1> QED BY <1>1, <1>2

\* A tree that is a leaf is in order if its leaf is.
LEMMA LoneOrder ==
  ASSUME NEW ps, DOMAIN ps = {root_}, ~Inner(ps[root_]), SepCount(ps[root_]) = 0,
         NEW c, ~c.active, NEW R, R \in [{root_} -> SUBSET Keys], R[root_] = Keys,
         LeafIn(ps[root_], R[root_])
  PROVE  InOrder(ps, c, R)
<1>1. RangesOf(ps, R)
  BY DEF RangesOf
<1>2. Owned(R, c)[root_] = Keys
  BY DEF Owned
<1>3. \A p \in DOMAIN ps : LeafIn(ps[p], R[p]) /\ InnerIn(ps[p], R[p], Owned(R, c))
  BY DEF InnerIn
<1>4. RootAbove(ps) /\ SepsPresent(ps) /\ ClimbIn(ps, c, R)
  BY DEF RootAbove, SepsPresent, ClimbIn
<1> QED BY <1>1, <1>2, <1>3, <1>4 DEF InOrder

\* Each prev leads left, and would if its leaf were dropped.
Left(R) ==
  \A l \in LeafPages(pages) :
    /\ LeadsLeft(pages, R, l, pages[l].prev)
    /\ l \in DOMAIN clean => LeadsLeft(pages, R, l, clean[l].prev)

\* The inductive invariant: what is dropped is in the same order and in the same chain
\* along next, and its prev leads left.
PoolChainInv ==
  /\ PoolInv /\ UnmarkedIsOnFile
  /\ \E R : ChainIn(pages, call, R) /\ Left(R)

LEMMA PoolChainNext == PoolChainInv => NextInv
BY DEF PoolChainInv, PoolInv, NextInv

LEMMA PoolChainInit == PoolInit => PoolChainInv
<1> SUFFICES ASSUME PoolInit PROVE PoolChainInv
  OBVIOUS
<1>1. PoolInv /\ UnmarkedIsOnFile /\ DOMAIN clean = {}
  BY PoolInitInv DEF PoolInit, UnmarkedIsOnFile
<1>2. ChainInv
  BY ChainInit DEF PoolInit
<1>3. PICK R : ChainIn(pages, call, R)
  BY <1>2 DEF ChainInv
<1>4. DOMAIN pages = {root_} /\ pages[root_].prev = INVALID_PAGE
  BY DEF PoolInit, TreeInit, NewRoot, NewPage
<1>5. Left(R)
  BY <1>1, <1>4 DEF Left, LeadsLeft, LeafPages
<1> QED BY <1>1, <1>3, <1>5 DEF PoolChainInv

\* A step of the tree leads left what it links anew, and marks what it splits.
LEMMA TreeLeft ==
  ASSUME Orderly, PoolChainInv, [TreeNext]_treeVars, CleanLess, PoolInv', UnmarkedIsOnFile'
  PROVE  PoolChainInv'
<1>1. TreeInv /\ TreeInv' /\ PoolInv
  BY DEF PoolChainInv, PoolInv
<1>2. PICK R : ChainIn(pages, call, R) /\ Left(R)
  BY DEF PoolChainInv
<1>3. PICK Q : ChainIn(pages', call', Q) /\ ChainKept(pages, R, pages', Q)
  BY <1>1, <1>2, StepChainIn
<1>4. LeftKept(pages, R, pages', Q)
  BY <1>3 DEF ChainKept
<1>5. ASSUME NEW l \in LeafPages(pages') PROVE LeadsLeft(pages', Q, l, pages'[l].prev)
  <2>1. CASE l \in LeafPages(pages) /\ pages'[l].prev = pages[l].prev
    <3>1. LeadsLeft(pages, R, l, pages[l].prev)
      BY <1>2, <2>1 DEF Left
    <3> QED BY <1>4, <1>5, <2>1, <3>1, Zenon DEF LeftKept
  <2> QED BY <1>4, <2>1 DEF LeftKept
<1>6. ASSUME NEW l \in LeafPages(pages'), l \in DOMAIN clean'
      PROVE  LeadsLeft(pages', Q, l, clean'[l].prev)
  <2>1. l \in DOMAIN clean /\ clean'[l] = clean[l]
    BY <1>6 DEF CleanLess
  <2>2. l \in DOMAIN pages /\ pages[l] \in Page /\ clean[l] \in Page
    BY <1>1, <2>1, PoolPages
  <2>3. l \in DOMAIN pages' /\ pages'[l] \in Page /\ ~Inner(pages'[l])
    BY <1>1, <1>6 DEF LeafPages, TreeInv, Nodes, NodeOK, PageOK
  <2>4. Durable(clean[l]) = Durable(pages[l]) /\ Durable(clean[l]) = Durable(pages'[l])
    BY <1>6, <2>1 DEF UnmarkedIsOnFile, PoolChainInv
  <2>5. l \in LeafPages(pages)
    BY <2>2, <2>3, <2>4, DurableIs DEF LeafPages
  <2>6. LeadsLeft(pages, R, l, clean[l].prev)
    BY <1>2, <2>1, <2>5 DEF Left
  <2>7. LeadsLeft(pages', Q, l, clean[l].prev)
    BY <1>4, <1>6, <2>5, <2>6 DEF LeftKept
  <2> QED BY <2>1, <2>7
<1>7. Left(Q)'
  BY <1>5, <1>6 DEF Left
<1> QED BY <1>3, <1>7 DEF PoolChainInv

\* So does a page that is written.
LEMMA WriteBackLeft ==
  ASSUME PoolChainInv, NEW p \in PageNum, WriteBack(p), PoolInv', UnmarkedIsOnFile'
  PROVE  PoolChainInv'
<1>1. /\ pages' = pages /\ call' = call
      /\ clean' = [q \in DOMAIN clean \cup {p} |-> IF q = p THEN pages[p] ELSE clean[q]]
  BY DEF WriteBack, treeVars
<1>2. PICK R : ChainIn(pages, call, R) /\ Left(R)
  BY DEF PoolChainInv
<1>3. ASSUME NEW l \in LeafPages(pages), l \in DOMAIN clean'
      PROVE  LeadsLeft(pages, R, l, clean'[l].prev)
  <2>1. clean'[l] = pages[l] \/ (l \in DOMAIN clean /\ clean'[l] = clean[l])
    BY <1>1, <1>3
  <2> QED BY <1>2, <2>1 DEF Left
<1>4. Left(R)'
  BY <1>1, <1>2, <1>3 DEF Left
<1> QED BY <1>1, <1>2, <1>4 DEF PoolChainInv

\* A page that is dropped has the keys and the links that it had, but for its prev.
LEMMA DropSame ==
  ASSUME PoolInv, UnmarkedIsOnFile, NEW p \in PageNum, Drop(p)
  PROVE  /\ DOMAIN pages' = DOMAIN pages
         /\ \A q \in DOMAIN pages :
              /\ LiveKeys(pages'[q]) = LiveKeys(pages[q])
              /\ pages'[q].slotCount = pages[q].slotCount
              /\ pages'[q].seps = pages[q].seps /\ pages'[q].next = pages[q].next
              /\ Inner(pages'[q]) <=> Inner(pages[q])
              /\ pages'[q].level = pages[q].level \/ q = root_
<1>1. pages' = [pages EXCEPT ![p] = clean[p]] /\ p \in DOMAIN clean
  BY DEF Drop
<1>2. p \in DOMAIN pages /\ clean[p] \in Page /\ pages[p] \in Page
  BY <1>1, PoolPages
<1>3. Durable(clean[p]) = Durable(pages[p])
  BY <1>1 DEF UnmarkedIsOnFile
<1>4. /\ clean[p].slots = pages[p].slots /\ clean[p].slotCount = pages[p].slotCount
      /\ clean[p].area = pages[p].area
      /\ clean[p].seps = pages[p].seps /\ clean[p].next = pages[p].next
      /\ Inner(clean[p]) <=> Inner(pages[p])
  BY <1>2, <1>3, DurableIs
<1>5. LiveKeys(clean[p]) = LiveKeys(pages[p])
  BY <1>4, LiveKeysSame
<1>6. clean[p].level = pages[p].level \/ p = root_
  BY <1>1 DEF PoolInv, DroppedOK
<1>7. DOMAIN pages' = DOMAIN pages
      /\ \A q \in DOMAIN pages : pages'[q] = IF q = p THEN clean[p] ELSE pages[q]
  BY <1>1
<1> QED BY <1>4, <1>5, <1>6, <1>7

\* So it leaves the tree in order.
LEMMA DropOrder ==
  ASSUME PoolInv, UnmarkedIsOnFile, NEW p \in PageNum, Drop(p), NEW R, InOrder(pages, call, R)
  PROVE  InOrder(pages', call', R) /\ SameKeys(pages, pages')
<1>1. /\ DOMAIN pages' = DOMAIN pages
      /\ \A q \in DOMAIN pages :
           /\ LiveKeys(pages'[q]) = LiveKeys(pages[q])
           /\ pages'[q].slotCount = pages[q].slotCount
           /\ pages'[q].seps = pages[q].seps /\ pages'[q].next = pages[q].next
           /\ Inner(pages'[q]) <=> Inner(pages[q])
           /\ pages'[q].level = pages[q].level \/ q = root_
  BY DropSame
<1>2. TreeInv /\ ~call.active /\ call' = call /\ root_ \in DOMAIN pages
  BY DomainIs DEF Drop, Ready, PoolInv, TreeInv, Nodes
<1>3. \A q \in DOMAIN pages : LeafIn(pages'[q], R[q])
  BY <1>1 DEF InOrder, LeafIn
<1>4. \A x : HasKey(pages', x) <=> HasKey(pages, x)
  BY <1>1 DEF HasKey
<1>5. SameKeys(pages, pages')
  BY <1>4 DEF SameKeys
<1>6. CASE pages'[root_].level = pages[root_].level
  <2>1. SameTree(pages, pages')
    BY <1>1, <1>6 DEF SameTree
  <2>2. \A q \in DOMAIN pages : \A i \in 1 .. SepCount(pages[q]) :
          HasKey(pages', pages[q].seps[i].key)
    BY <1>4 DEF InOrder, SepsPresent
  <2>3. InOrder(pages', call, R)
    BY <1>2, <1>3, <2>1, <2>2, EntriesChanged
  <2> QED BY <1>2, <1>5, <2>3
<1>7. CASE pages'[root_].level # pages[root_].level
  <2>1. ~Inner(pages[root_]) /\ ~Inner(pages'[root_])
    <3>1. p = root_ /\ pages' = [pages EXCEPT ![p] = clean[p]] /\ p \in DOMAIN clean
      BY <1>2, <1>7 DEF Drop
    <3>2. clean[root_] \in Page /\ pages[root_] \in Page
      BY <3>1, PoolPages
    <3>3. Durable(clean[root_]).level = Durable(pages[root_]).level
      BY <3>1 DEF UnmarkedIsOnFile
    <3>4. pages'[root_].level = clean[root_].level
      BY <1>2, <3>1
    <3> DEFINE level(x) == IF x = INVALID_TREE_LEVEL THEN 0 ELSE x
    <3>5. ASSUME NEW x \in Page PROVE Durable(x).level = level(x.level)
      BY DEF Durable, Page
    <3>6. level(clean[root_].level) = level(pages[root_].level)
      BY <3>2, <3>3, <3>5
    <3> QED BY <1>7, <3>4, <3>6 DEF Inner
  <2>2. DOMAIN pages = {root_}
    BY <1>2, <2>1, LoneRoot
  <2>3. SepCount(pages[root_]) = 0
    BY <1>2, <2>1, InnerSeps DEF LeafPages
  <2>4. SepCount(pages'[root_]) = 0
    BY <1>1, <1>2, <2>3 DEF SepCount
  <2>5. R \in [{root_} -> SUBSET Keys] /\ R[root_] = Keys
    BY <1>2, <2>2 DEF InOrder, RangesOf, Owned
  <2>6. InOrder(pages', call, R)
    BY <1>1, <1>2, <1>3, <2>1, <2>2, <2>4, <2>5, LoneOrder
  <2> QED BY <1>2, <1>5, <2>6
<1> QED BY <1>6, <1>7

\* And its leaves in their chain.
LEMMA DropLeft ==
  ASSUME PoolChainInv, NEW p \in PageNum, Drop(p), PoolInv', UnmarkedIsOnFile'
  PROVE  PoolChainInv'
<1>1. PoolInv /\ UnmarkedIsOnFile
  BY DEF PoolChainInv
<1>2. PICK R : ChainIn(pages, call, R) /\ Left(R)
  BY DEF PoolChainInv
<1>3. InOrder(pages', call', R)
  BY <1>1, <1>2, DropOrder DEF ChainIn
<1>4. /\ DOMAIN pages' = DOMAIN pages
      /\ \A q \in DOMAIN pages : /\ pages'[q].next = pages[q].next
                                 /\ Inner(pages'[q]) <=> Inner(pages[q])
  BY <1>1, DropSame
<1>5. LeafPages(pages') = LeafPages(pages)
  BY <1>4 DEF LeafPages
<1>6. NextKept(pages, pages')
  BY <1>4, <1>5 DEF NextKept, LeafPages
<1>7. Chained(pages', R)
  BY <1>2, <1>6, NextSame DEF ChainIn
<1>8. SplitChained(pages', call')
  BY DEF Drop, Ready, SplitChained
<1>9. /\ pages' = [pages EXCEPT ![p] = clean[p]] /\ clean' = clean /\ p \in DOMAIN clean
  BY DEF Drop
<1>10. ASSUME NEW l, NEW v, LeadsLeft(pages, R, l, v) PROVE LeadsLeft(pages', R, l, v)
  BY <1>5, <1>10, Zenon DEF LeadsLeft
<1>11. ASSUME NEW l \in LeafPages(pages)
       PROVE  /\ LeadsLeft(pages', R, l, pages'[l].prev)
              /\ l \in DOMAIN clean => LeadsLeft(pages', R, l, clean[l].prev)
  <2>1. l \in DOMAIN pages
    BY DEF LeafPages
  <2>2. pages'[l] = IF l = p THEN clean[l] ELSE pages[l]
    BY <1>9, <2>1
  <2>3. /\ LeadsLeft(pages, R, l, pages[l].prev)
        /\ l \in DOMAIN clean => LeadsLeft(pages, R, l, clean[l].prev)
    BY <1>2 DEF Left
  <2>4. LeadsLeft(pages, R, l, pages'[l].prev)
    BY <1>9, <2>2, <2>3
  <2> QED BY <1>10, <2>3, <2>4
<1>12. Left(R)'
  BY <1>5, <1>9, <1>11 DEF Left
<1> QED BY <1>3, <1>7, <1>8, <1>12 DEF ChainIn, PoolChainInv

\* Every step keeps the invariant.
LEMMA PoolChainStep ==
  ASSUME Orderly, "lastSlot" \notin Usage, PoolChainInv, [PoolNext]_vars, LevelsFit'
  PROVE  PoolChainInv'
<1>1. PoolInv' /\ UnmarkedIsOnFile'
  BY PoolStepInv, UnmarkedStep DEF PoolChainInv
<1> QED BY <1>1, PoolSteps, TreeLeft, WriteBackLeft, DropLeft

-----------------------------------------------------------------------------
(* What it is to clients. *)

\* Of two leaves only one is lower.
LEMMA OneLower ==
  ASSUME TreeInv, NEW R, InOrder(pages, call, R), NEW l \in LeafPages(pages), l # root_,
         NEW m \in LeafPages(pages), AllBelow(R[m], R[l])
  PROVE  m # l /\ ~AllBelow(R[l], R[m])
<1>1. FullRanges(pages, R)
  BY FullRangesIs
<1>2. /\ R[l] \in SUBSET Keys /\ R[m] \in SUBSET Keys /\ R[l] # {}
      /\ m # l => R[m] # {}
  BY <1>1 DEF FullRanges, LeafPages
<1>3. m # l
  <2> SUFFICES ASSUME m = l PROVE FALSE
    OBVIOUS
  <2> QED BY <1>2, NotLowerBoth
<1> QED BY <1>2, <1>3, NotLowerBoth

LEMMA LeftImpliesLeads ==
  ASSUME TreeInv, NEW R, InOrder(pages, call, R), Chained(pages, R), Left(R)
  PROVE  PrevLeadsLeft
<1> DEFINE L == LeafPages(pages)
           F == FirstLeaf
           s == Chain
<1>1. /\ s \in Seq(L) /\ Len(s) \in Nat /\ Len(s) >= 1 /\ DOMAIN s = 1 .. Len(s)
      /\ s[1] = F
      /\ \A i, j \in 1 .. Len(s) : i < j => s[j] # root_ /\ AllBelow(R[s[i]], R[s[j]])
  BY ChainIs DEF Walk
<1>2. ToSet(s) = L
  BY ChainHasAll
<1>3. F \in L /\ \A m \in L \ {F} : AllBelow(R[F], R[m])
  BY FirstIs, FirstLowest
<1> HIDE DEF s, F
<1>4. ASSUME NEW n \in DOMAIN s
      PROVE  IF n = 1 THEN pages[s[n]].prev = INVALID_PAGE
             ELSE pages[s[n]].prev \in {s[m] : m \in 1 .. n - 1} \cup {root_}
  <2> DEFINE l == s[n]
             v == pages[l].prev
  <2>1. l \in L
    BY <1>1
  <2>2. LeadsLeft(pages, R, l, v)
    BY <2>1 DEF Left
  <2>3. \A m \in L : l # root_ /\ AllBelow(R[m], R[l]) => m # l /\ ~AllBelow(R[l], R[m])
    BY <2>1, OneLower
  <2>4. CASE n = 1
    <3>1. l = F
      BY <1>1, <2>4
    <3>2. \A m \in L : l # root_ => ~AllBelow(R[m], R[l])
      BY <1>3, <2>3, <3>1
    <3>3. v = INVALID_PAGE
      BY <2>2, <3>2 DEF LeadsLeft
    <3> QED BY <2>4, <3>3
  <2>5. CASE n # 1
    <3>1. 1 \in 1 .. Len(s) /\ n \in 1 .. Len(s) /\ 1 < n
      BY <1>1, <2>5
    <3>2. l # root_ /\ AllBelow(R[F], R[l])
      BY <1>1, <3>1
    <3>3. ~(v = INVALID_PAGE /\ \A m \in L \ {l} : AllBelow(R[l], R[m]))
      BY <1>3, <2>3, <3>2
    <3>4. ASSUME v \in L, AllBelow(R[v], R[l]) PROVE v \in {s[m] : m \in 1 .. n - 1}
      <4>1. PICK m \in 1 .. Len(s) : s[m] = v
        BY <1>1, <1>2, <3>4 DEF ToSet
      <4>2. v # l /\ ~AllBelow(R[l], R[v])
        BY <2>3, <3>2, <3>4
      <4>3. m # n /\ ~(n < m)
        BY <1>1, <3>1, <4>1, <4>2
      <4>4. m \in 1 .. n - 1
        BY <1>1, <3>1, <4>3
      <4> QED BY <4>1, <4>4
    <3>5. v \in {s[m] : m \in 1 .. n - 1} \/ v = root_
      BY <2>2, <3>3, <3>4 DEF LeadsLeft
    <3> QED BY <2>5, <3>5
  <2> QED BY <2>4, <2>5
<1> QED BY <1>4 DEF PrevLeadsLeft, s

\* A scan finds the keys of the tree.
LEMMA PoolScanIsKeys == PoolChainInv => ScanIsKeys
BY PoolChainNext, NextImpliesScanIsKeys

\* Every step is one of the map, or changes nothing in it.
LEMMA PoolStepMap ==
  ASSUME Orderly, PoolChainInv, PoolChainInv', [PoolNext]_vars
  PROVE  [PooledMap!MapNext]_(PooledMap!mapVars)
<1>1. NextInv /\ ScanIsKeys /\ PoolInv /\ UnmarkedIsOnFile
  BY PoolChainNext, PoolScanIsKeys DEF PoolChainInv
<1>2. TreeInv' /\ ScanIsKeys'
  <2>1. PoolChainInv' => ScanIsKeys'
    BY PoolScanIsKeys, PTL
  <2> QED BY <2>1 DEF PoolChainInv, PoolInv
<1>4. ASSUME SameKeys(pages, pages') PROVE UNCHANGED PooledMap!mapVars
  <2>1. ToSet(Scan)' = ToSet(Scan)
    BY <1>1, <1>2, <1>4, KeysFollow
  <2> QED BY <2>1 DEF PooledMap!mapVars
<1>5. CASE [TreeNext]_treeVars
  <2>1. KeysStep
    BY <1>1, <1>2, <1>5, StepKeys
  <2>2. ASSUME NEW k \in Keys, ~HasKey(pages, k), GainsKey(pages, pages', k)
        PROVE  PooledMap!Put(k)
    <3>1. ToSet(Scan)' = ToSet(Scan) \cup {k} /\ k \notin ToSet(Scan)
      BY <1>1, <1>2, <2>2, KeysFollow DEF ScanIsKeys
    <3> QED BY <3>1 DEF PooledMap!Put
  <2>3. ASSUME NEW k \in Keys, HasKey(pages, k), LosesKey(pages, pages', k)
        PROVE  PooledMap!Delete(k)
    <3>1. ToSet(Scan)' = ToSet(Scan) \ {k} /\ k \in ToSet(Scan)
      BY <1>1, <1>2, <2>3, KeysFollow DEF ScanIsKeys
    <3> QED BY <3>1 DEF PooledMap!Delete
  <2> QED BY <1>4, <2>1, <2>2, <2>3 DEF KeysStep, PooledMap!MapNext
<1>6. ASSUME NEW p \in PageNum, WriteBack(p) PROVE UNCHANGED PooledMap!mapVars
  <2>1. SameKeys(pages, pages')
    BY <1>6 DEF WriteBack, treeVars, SameKeys
  <2> QED BY <1>4, <2>1
<1>7. ASSUME NEW p \in PageNum, Drop(p) PROVE UNCHANGED PooledMap!mapVars
  <2>1. SameKeys(pages, pages')
    BY <1>1, <1>7, DropOrder DEF NextInv, ChainIn
  <2> QED BY <1>4, <2>1
<1> QED BY <1>5, <1>6, <1>7, PoolSteps

LEMMA PoolMapInit ==
  ASSUME PoolInit
  PROVE  PooledMap!MapInit
<1>1. ScanIsKeys
  BY PoolChainInit, PoolScanIsKeys
<1>2. DOMAIN pages = {root_} /\ pages[root_].slotCount = 0
  BY DEF PoolInit, TreeInit, NewRoot, NewPage
<1>3. \A x : ~HasKey(pages, x)
  BY <1>2 DEF HasKey
<1>4. ToSet(Scan) = {}
  BY <1>1, <1>3 DEF ScanIsKeys
<1> QED BY <1>4 DEF PooledMap!MapInit

\* The prev of a leaf, which a split sets in the leaf after it without marking it, may be
\* that of an older version of the leaf, but leads to a leaf further left or to the root,
\* and is there for every leaf but the first (PrevLeadsLeft): a walk back with
\* Cursor::prev ends.
THEOREM BackwardWalksEnd ==
  ASSUME Orderly, "lastSlot" \notin Usage
  PROVE  PoolSpec /\ []LevelsFit => []PrevLeadsLeft
<1>1. PoolChainInv /\ [PoolNext]_vars /\ LevelsFit' => PoolChainInv'
  BY PoolChainStep
<1>2. PoolChainInv => PrevLeadsLeft
  BY LeftImpliesLeads DEF PoolChainInv, PoolInv, ChainIn
<1> QED BY <1>1, <1>2, PoolChainInit, PTL DEF PoolSpec

\* Over a pool that writes and drops pages as it likes, the tree implements the sorted
\* map (ImplementsPooledMap): no key is lost with a page that was not marked dirty.
THEOREM PoolImplementsMap ==
  ASSUME Orderly, "lastSlot" \notin Usage
  PROVE  PoolSpec /\ []LevelsFit => ImplementsPooledMap
<1>1. PoolChainInv /\ [PoolNext]_vars /\ LevelsFit' => PoolChainInv'
  BY PoolChainStep
<1>2. PoolSpec /\ []LevelsFit => []PoolChainInv
  BY <1>1, PoolChainInit, PTL DEF PoolSpec
<1>3. PoolChainInv /\ PoolChainInv' /\ [PoolNext]_vars
        => [PooledMap!MapNext]_(PooledMap!mapVars)
  BY PoolStepMap
<1> QED BY <1>2, <1>3, PoolMapInit, PTL DEF PoolSpec, ImplementsPooledMap, PooledMap!MapSpec
=============================================================================
