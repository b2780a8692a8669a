--------------------------- MODULE BTreeMapProofs ---------------------------
(***************************************************************************)
(* What the tree and a cursor are to their clients, for any number of      *)
(* pages, any keys and any sizes: a cursor is always at a slot of a leaf   *)
(* (CursorTypeOK), next and prev walk through the entries in order         *)
(* (WalksInOrder), and, with clients that leave no leaf empty              *)
(* (Disciplined), tree and cursor implement the sorted map of OrderedMap   *)
(* (ImplementsMap), each operation of the cursor that of the map           *)
(* (CursorMovesAsInMap).                                                   *)
(*                                                                         *)
(* The mapping takes the keys that a scan finds for those of the map       *)
(* (ScanIsKeys), and a step of the tree for what it does to them           *)
(* (KeysFollow).                                                           *)
(*                                                                         *)
(* A cursor's neighbours are local: the next key above the entry it is at  *)
(* is in its leaf, or first in the leaf that Chained has after it.  That   *)
(* this is the next of all keys is because leaves are below or above each  *)
(* other as their ranges are (LowestIs, HighestIs).  The invariants:       *)
(*   - CursorInv: ChainInv, and the cursor is at a slot of a leaf;         *)
(*   - MapInv: besides, no leaf is empty but a root that is alone          *)
(*     (Filled), and the cursor is at an entry.                            *)
(***************************************************************************)
EXTENDS BTreeCursor, BTreeChainProofs

-----------------------------------------------------------------------------
(* The last leaf. *)

\* What LastLeaf reads.
LastFrom ==
  CHOOSE f : f = [p \in DOMAIN pages |->
                    IF SepCount(pages[p]) = 0 THEN p ELSE f[pages[p].next]]

\* The last child of a page is its next.
LEMMA LastChild ==
  ASSUME Nodes(pages), NEW p \in DOMAIN pages, SepCount(pages[p]) # 0
  PROVE  /\ Below(pages, p, pages[p].next)
         /\ SepCount(pages[p]) \in Nat /\ ChildOf(pages[p], SepCount(pages[p])) = pages[p].next
<1>1. /\ SepCount(pages[p]) \in Nat
      /\ \A i \in 0 .. SepCount(pages[p]) : Below(pages, p, ChildOf(pages[p], i))
  BY ParentsAreInner
<1>2. ChildOf(pages[p], SepCount(pages[p])) = pages[p].next
  BY DEF ChildOf
<1>3. SepCount(pages[p]) \in 0 .. SepCount(pages[p])
  BY <1>1
<1> QED BY <1>1, <1>2, <1>3

\* The recursive function of LastLeaf exists.
LEMMA LastFromExists ==
  ASSUME Nodes(pages)
  PROVE  LastFrom = [p \in DOMAIN pages |->
                       IF SepCount(pages[p]) = 0 THEN p ELSE LastFrom[pages[p].next]]
<1> DEFINE down == [p \in DOMAIN pages |-> pages[p].next]
<1>1. \A p \in DOMAIN pages : down[p] = pages[p].next
  OBVIOUS
<1> HIDE DEF down
<1>2. \A p \in DOMAIN pages : SepCount(pages[p]) # 0 => Below(pages, p, down[p])
  BY <1>1, LastChild
<1>3. PICK f : f = [p \in DOMAIN pages |-> IF SepCount(pages[p]) = 0 THEN p ELSE f[down[p]]]
  BY <1>2, DownExists
<1>4. f = [p \in DOMAIN pages |-> IF SepCount(pages[p]) = 0 THEN p ELSE f[pages[p].next]]
  BY <1>1, <1>3
<1> QED BY <1>4, Zenon DEF LastFrom

\* S is a last part of T.
LastPart(S, T) == S \subseteq T /\ \A x \in T : \A y \in S : y <= x => x \in S

\* The leaf that the last children lead to has the last keys of all.
LEMMA LastIs ==
  ASSUME TreeInv, NEW R, InOrder(pages, call, R), ~call.active
  PROVE  /\ LastLeaf \in LeafPages(pages)
         /\ LastPart(R[LastLeaf], Keys)
<1> DEFINE f == LastFrom
           Is(p) == f[p] \in LeafPages(pages) /\ LastPart(R[f[p]], R[p])
           M == {m \in Nat : \A p \in DOMAIN pages : pages[p].level <= m => Is(p)}
<1>1. Nodes(pages) /\ root_ \in DOMAIN pages
  BY DomainIs DEF TreeInv, Nodes
<1>2. f = [p \in DOMAIN pages |->
             IF SepCount(pages[p]) = 0 THEN p ELSE f[pages[p].next]]
  BY <1>1, LastFromExists
<1>3. \A p \in DOMAIN pages : pages[p].level \in Nat
  BY <1>1 DEF Nodes, NodeOK, PageOK, Page
<1> HIDE DEF f
<1>4. ASSUME NEW p \in DOMAIN pages, SepCount(pages[p]) = 0 PROVE Is(p)
  <2>1. f[p] = p /\ ~Inner(pages[p])
    BY <1>2, <1>4, InnerSeps
  <2> QED BY <2>1 DEF LastPart, LeafPages
<1>5. ASSUME NEW p \in DOMAIN pages, SepCount(pages[p]) # 0
      PROVE  LET ch == pages[p].next IN
             /\ f[p] = f[ch] /\ ch \in DOMAIN pages /\ pages[ch].level + 1 = pages[p].level
             /\ LastPart(R[ch], R[p])
  <2> DEFINE pg == pages[p]
             ch == pg.next
             F == SepKeys(pg)
             m == SepCount(pg)
  <2>1. /\ Inner(pg) /\ m \in Nat \ {0} /\ Divided(F, m, Kids(pg), R[p], R)
    BY <1>5, InnerSeps DEF Owned
  <2>2. Below(pages, p, ch) /\ ChildOf(pg, m) = ch
    BY <1>1, <1>5, LastChild
  <2>3. F \in [1 .. m -> Keys] /\ Kids(pg)[m] = ch
    BY <1>1, <2>1, <2>2, InnerIs
  <2>4. R[ch] = Between(F, m, m, R[p])
    BY <2>1, <2>3 DEF Divided
  <2>5. Keys \subseteq Int /\ F[m] \in Keys /\ R[p] \subseteq Keys
    BY <2>1, <2>3, SlotsAssumption DEF InOrder, RangesOf
  <2>6. ch \in DOMAIN pages /\ pages[ch].level + 1 = pages[p].level
    BY <2>2 DEF Below
  <2>7. f[p] = f[ch]
    BY <1>2, <1>5
  <2> HIDE DEF pg, F, m, ch
  <2>8. LastPart(R[ch], R[p])
    <3>1. R[ch] = {k \in R[p] : F[m] <= k}
      BY <2>1, <2>4 DEF Between
    <3>2. ASSUME NEW x \in R[p], NEW y \in R[p], y <= x, F[m] <= y PROVE F[m] <= x
      <4>1. x \in Int /\ y \in Int /\ F[m] \in Int
        BY <2>5
      <4> QED BY <3>2, <4>1
    <3> QED BY <3>1, <3>2 DEF LastPart
  <2> QED BY <2>6, <2>7, <2>8 DEF ch, pg
<1>6. 0 \in M
  <2> SUFFICES ASSUME NEW p \in DOMAIN pages, pages[p].level <= 0 PROVE Is(p)
    OBVIOUS
  <2>1. CASE SepCount(pages[p]) = 0
    BY <1>4, <2>1
  <2>2. CASE SepCount(pages[p]) # 0
    BY <1>3, <1>5, <2>2
  <2> QED BY <2>1, <2>2
<1>7. ASSUME NEW m \in M PROVE m + 1 \in M
  <2> SUFFICES ASSUME NEW p \in DOMAIN pages, pages[p].level <= m + 1 PROVE Is(p)
    OBVIOUS
  <2>1. CASE SepCount(pages[p]) = 0
    BY <1>4, <2>1
  <2>2. CASE SepCount(pages[p]) # 0
    <3> DEFINE ch == pages[p].next
    <3>1. /\ f[p] = f[ch] /\ ch \in DOMAIN pages /\ pages[ch].level + 1 = pages[p].level
          /\ LastPart(R[ch], R[p])
      BY <1>5, <2>2
    <3> HIDE DEF ch
    <3>2. Is(ch)
      BY <1>3, <3>1
    <3>3. LastPart(R[f[ch]], R[p])
      BY <3>1, <3>2, Zenon DEF LastPart
    <3> QED BY <3>1, <3>2, <3>3
  <2> QED BY <2>1, <2>2
<1>8. M = Nat
  <2>1. M \in SUBSET Nat
    OBVIOUS
  <2> HIDE DEF M
  <2> QED BY <1>6, <1>7, <2>1, NatInductive
<1>9. Is(root_)
  <2>1. pages[root_].level \in M
    BY <1>1, <1>3, <1>8
  <2>2. pages[root_].level <= pages[root_].level
    BY <1>1, <1>3
  <2> HIDE DEF Is
  <2> QED BY <1>1, <2>1, <2>2
<1>10. LastLeaf = f[root_]
  BY DEF LastLeaf, LastFrom, f
<1>11. R[root_] = Keys
  BY OrderedIs
<1> QED BY <1>9, <1>10, <1>11

\* Of two leaves one is below the other.
LEMMA OneIsBelow ==
  ASSUME TreeInv, NEW R, InOrder(pages, call, R), Chained(pages, R),
         NEW l \in LeafPages(pages), NEW m \in LeafPages(pages), l # m
  PROVE  AllBelow(R[l], R[m]) \/ AllBelow(R[m], R[l])
<1>1. FullRanges(pages, R)
  BY FullRangesIs
<1> DEFINE n == pages[l].next
<1>2. \/ AllBelow(R[m], R[l])
      \/ n # INVALID_PAGE /\ (m = n \/ AllBelow(R[n], R[m]))
  BY DEF Chained
<1>3. ASSUME n # INVALID_PAGE
      PROVE  n \in LeafPages(pages) \ {root_} /\ AllBelow(R[l], R[n])
  BY <1>3 DEF Chained
<1> HIDE DEF n
<1>4. ASSUME n # INVALID_PAGE, AllBelow(R[n], R[m]) PROVE AllBelow(R[l], R[m])
  <2>1. R[n] # {} /\ R[n] \in SUBSET Keys /\ R[l] \in SUBSET Keys /\ R[m] \in SUBSET Keys
    BY <1>1, <1>3, <1>4 DEF FullRanges, LeafPages
  <2> QED BY <1>3, <1>4, <2>1, LowerTwice
<1> QED BY <1>2, <1>3, <1>4

\* The last leaf has the highest keys.
LEMMA LastHighest ==
  ASSUME TreeInv, NEW R, InOrder(pages, call, R), ~call.active
  PROVE  \A m \in LeafPages(pages) \ {LastLeaf} : AllBelow(R[m], R[LastLeaf])
<1> DEFINE l == LastLeaf
<1>1. l \in LeafPages(pages) /\ LastPart(R[l], Keys)
  BY LastIs
<1> SUFFICES ASSUME NEW m \in LeafPages(pages) \ {l}, NEW x \in R[m], NEW y \in R[l]
             PROVE  x < y
  BY DEF AllBelow
<1> HIDE DEF l
<1>2. R[m] \cap R[l] = {}
  BY <1>1, LeavesApart
<1>3. x \in Keys /\ y \in Keys
  BY <1>1 DEF InOrder, RangesOf, LeafPages
<1>4. Keys \subseteq Int
  BY SlotsAssumption
<1>5. x \in Int /\ y \in Int
  BY <1>3, <1>4
<1>6. ~(y <= x)
  BY <1>1, <1>2, <1>3 DEF LastPart
<1> QED BY <1>5, <1>6

-----------------------------------------------------------------------------
(* The keys around an entry. *)

\* The least and the greatest of a set of keys.
LEMMA LowestOf ==
  ASSUME NEW s \in SUBSET Keys, NEW x \in s, \A y \in s : x <= y
  PROVE  Map!Lowest(s) = x
<1>1. Keys \subseteq Int
  BY SlotsAssumption
<1> DEFINE z == CHOOSE k \in s : \A j \in s : k <= j
<1>2. z \in s /\ \A j \in s : z <= j
  OBVIOUS
<1>3. Map!Lowest(s) = z
  BY DEF Map!Lowest
<1> HIDE DEF z
<1>4. x \in Int /\ z \in Int /\ x <= z /\ z <= x
  BY <1>1, <1>2
<1> QED BY <1>3, <1>4

LEMMA HighestOf ==
  ASSUME NEW s \in SUBSET Keys, NEW x \in s, \A y \in s : x >= y
  PROVE  Map!Highest(s) = x
<1>1. Keys \subseteq Int
  BY SlotsAssumption
<1> DEFINE z == CHOOSE k \in s : \A j \in s : k >= j
<1>2. z \in s /\ \A j \in s : z >= j
  OBVIOUS
<1>3. Map!Highest(s) = z
  BY DEF Map!Highest
<1> HIDE DEF z
<1>4. x \in Int /\ z \in Int /\ x >= z /\ z >= x
  BY <1>1, <1>2
<1> QED BY <1>3, <1>4

\* The neighbours of a key in an ascending sequence.
LEMMA NeighboursIn ==
  ASSUME NEW s \in Seq(Keys), Ascending(s), NEW i \in DOMAIN s
  PROVE  /\ Map!Lowest({j \in ToSet(s) : j > s[i]})
              = IF i = Len(s) THEN Map!Lowest({}) ELSE s[i + 1]
         /\ Map!Highest({j \in ToSet(s) : j < s[i]})
              = IF i = 1 THEN Map!Highest({}) ELSE s[i - 1]
<1> DEFINE n == Len(s)
           up == {j \in ToSet(s) : j > s[i]}
           down == {j \in ToSet(s) : j < s[i]}
<1>1. n \in Nat /\ DOMAIN s = 1 .. n /\ \A a, b \in 1 .. n : a < b => s[a] < s[b]
  BY DEF Ascending
<1>2. \A a \in 1 .. n : s[a] \in Keys
  OBVIOUS
<1>3. Keys \subseteq Int
  BY SlotsAssumption
<1>4. \A a \in 1 .. n : s[a] \in Int
  BY <1>2, <1>3
<1> HIDE DEF n
<1>5. /\ \A x \in up : \E a \in 1 .. n : s[a] = x /\ i < a
      /\ \A x \in down : \E a \in 1 .. n : s[a] = x /\ a < i
  <2>1. ASSUME NEW a \in 1 .. n, s[a] > s[i] PROVE i < a
    <3>1. ~(a = i) /\ ~(a < i)
      BY <1>1, <1>4, <2>1
    <3> QED BY <1>1, <3>1
  <2>2. ASSUME NEW a \in 1 .. n, s[a] < s[i] PROVE a < i
    <3>1. ~(a = i) /\ ~(i < a)
      BY <1>1, <1>4, <2>2
    <3> QED BY <1>1, <3>1
  <2> QED BY <1>1, <2>1, <2>2 DEF ToSet
<1>6. up \in SUBSET Keys /\ down \in SUBSET Keys
  BY <1>1, <1>2 DEF ToSet
<1>7. Map!Lowest(up) = IF i = n THEN Map!Lowest({}) ELSE s[i + 1]
  <2>1. CASE i = n
    <3>1. up = {}
      BY <1>1, <1>5, <2>1
    <3> QED BY <2>1, <3>1, Zenon
  <2>2. CASE i # n
    <3>1. i + 1 \in 1 .. n /\ i < i + 1 /\ i \in 1 .. n
      BY <1>1, <2>2
    <3>2. s[i + 1] \in up
      BY <1>1, <1>4, <3>1 DEF ToSet
    <3>3. ASSUME NEW y \in up PROVE s[i + 1] <= y
      <4>1. PICK a \in 1 .. n : s[a] = y /\ i < a
        BY <1>5
      <4>2. a = i + 1 \/ i + 1 < a
        BY <1>1, <3>1, <4>1
      <4> QED BY <1>1, <1>4, <3>1, <4>1, <4>2
    <3> HIDE DEF up
    <3>4. Map!Lowest(up) = s[i + 1]
      BY <1>6, <3>2, <3>3, LowestOf
    <3> QED BY <2>2, <3>4
  <2> QED BY <2>1, <2>2
<1>8. Map!Highest(down) = IF i = 1 THEN Map!Highest({}) ELSE s[i - 1]
  <2>1. CASE i = 1
    <3>1. down = {}
      BY <1>1, <1>5, <2>1
    <3> QED BY <2>1, <3>1, Zenon
  <2>2. CASE i # 1
    <3>1. i - 1 \in 1 .. n /\ i - 1 < i /\ i \in 1 .. n
      BY <1>1, <2>2
    <3>2. s[i - 1] \in down
      BY <1>1, <1>4, <3>1 DEF ToSet
    <3>3. ASSUME NEW y \in down PROVE s[i - 1] >= y
      <4>1. PICK a \in 1 .. n : s[a] = y /\ a < i
        BY <1>5
      <4>2. a = i - 1 \/ a < i - 1
        BY <1>1, <3>1, <4>1
      <4> QED BY <1>1, <1>4, <3>1, <4>1, <4>2
    <3> HIDE DEF down
    <3>4. Map!Highest(down) = s[i - 1]
      BY <1>6, <3>2, <3>3, HighestOf
    <3> QED BY <2>2, <3>4
  <2> QED BY <2>1, <2>2
<1> QED BY <1>7, <1>8 DEF n

\* Entry i of leaf l is x.
EntryIs(l, i, x) ==
  l \in LeafPages(pages) /\ i \in 1 .. pages[l].slotCount /\ LiveKeys(pages[l])[i] = x

\* A key of the tree is an entry of a leaf.
LEMMA EntryOf ==
  ASSUME TreeInv, NEW x, HasKey(pages, x)
  PROVE  \E l, i : EntryIs(l, i, x)
<1>1. PICK l \in DOMAIN pages : \E i \in 1 .. pages[l].slotCount : LiveKeys(pages[l])[i] = x
  BY DEF HasKey
<1>2. PICK i \in 1 .. pages[l].slotCount : LiveKeys(pages[l])[i] = x
  BY <1>1
<1>3. NodeOK(pages, l)
  BY DEF TreeInv, Nodes
<1>4. pages[l].slotCount # 0
  BY <1>2
<1>5. l \in LeafPages(pages)
  BY <1>3, <1>4 DEF NodeOK, LeafPages, Inner
<1> QED BY <1>2, <1>5 DEF EntryIs

\* And the other way round.
LEMMA EntryHas ==
  ASSUME NEW l, NEW i, NEW x, EntryIs(l, i, x)
  PROVE  HasKey(pages, x)
BY DEF EntryIs, HasKey, LeafPages

\* What is known of an entry.
LEMMA EntryFacts ==
  ASSUME TreeInv, NEW R, InOrder(pages, call, R), NEW l, NEW i, NEW x, EntryIs(l, i, x)
  PROVE  /\ x \in R[l] /\ x \in Keys /\ x \in Int /\ i \in Nat /\ R[l] \in SUBSET Keys
         /\ pages[l].slotCount \in Nat
         /\ KeyAt(pages[l], i - 1) = x
         /\ \A j \in 1 .. pages[l].slotCount : LiveKeys(pages[l])[j] \in Int
<1>1. l \in DOMAIN pages /\ PageOK(pages[l]) /\ LeafIn(pages[l], R[l])
      /\ R[l] \in SUBSET Keys
  BY DEF TreeInv, Nodes, NodeOK, EntryIs, LeafPages, InOrder, RangesOf
<1> DEFINE ks == LiveKeys(pages[l])
<1>2. /\ ks \in Seq(Keys) /\ Len(ks) = pages[l].slotCount /\ pages[l].slotCount \in Nat
      /\ \A j \in 1 .. pages[l].slotCount : ks[j] \in R[l]
  BY <1>1, LeafAscending
<1>3. Keys \subseteq Int
  BY SlotsAssumption
<1>4. ks[i] = KeyAt(pages[l], i - 1)
  BY DEF EntryIs, LiveKeys
<1>5. i \in 1 .. pages[l].slotCount /\ ks[i] = x
  BY DEF EntryIs
<1> HIDE DEF ks
<1>6. \A j \in 1 .. pages[l].slotCount : ks[j] \in Int
  BY <1>1, <1>2, <1>3
<1>7. x \in R[l] /\ x \in Keys /\ x \in Int
  BY <1>1, <1>2, <1>3, <1>5
<1>8. i \in Nat
  BY <1>2, <1>5
<1>9. KeyAt(pages[l], i - 1) = x
  BY <1>4, <1>5
<1> QED BY <1>1, <1>2, <1>6, <1>7, <1>8, <1>9, Zenon DEF ks

\* Entries of a leaf are in order.
LEMMA EntriesOrdered ==
  ASSUME TreeInv, NEW R, InOrder(pages, call, R), NEW l, NEW i, NEW x, EntryIs(l, i, x),
         NEW j, NEW y, EntryIs(l, j, y), i < j
  PROVE  x < y
BY DEF EntryIs, LeafPages, InOrder, LeafIn

\* What there is to know of a tree in order.
Sorted(R) ==
  /\ TreeInv /\ InOrder(pages, call, R) /\ Chained(pages, R) /\ Backed(pages)
  /\ ScanIsKeys

LEMMA SortedIs == ChainInv => \E R : Sorted(R)
BY InvImpliesScanIsKeys DEF ChainInv, ChainIn, Sorted

\* Where leaf m is lower than leaf l, so are its keys.
LEMMA LeavesOrdered ==
  ASSUME NEW R, Sorted(R), NEW l, NEW i, NEW x, EntryIs(l, i, x),
         NEW m, NEW j, NEW y, EntryIs(m, j, y), AllBelow(R[m], R[l])
  PROVE  y < x
BY EntryFacts DEF AllBelow, Sorted

\* If entry x has what is asked (Q), and nothing before it in its leaf and in leaves below
\* has, then it is the lowest key that has.
LEMMA LowestIs ==
  ASSUME NEW R, Sorted(R), NEW l, NEW i, NEW x, EntryIs(l, i, x), NEW Q, x \in Q,
         \A j, y : j < i /\ EntryIs(l, j, y) => y \notin Q,
         \A m \in LeafPages(pages) \ {l} : AllBelow(R[m], R[l]) =>
           \A j, y : EntryIs(m, j, y) => y \notin Q
  PROVE  Map!Lowest({y \in ToSet(Scan) : y \in Q}) = x
<1> DEFINE s == {y \in ToSet(Scan) : y \in Q}
<1>1. /\ \A y : y \in s <=> y \in Q /\ HasKey(pages, y)
      /\ s \in SUBSET Keys
  <2>1. Scan \in Seq(Keys) /\ \A y : y \in ToSet(Scan) <=> HasKey(pages, y)
    BY DEF Sorted, ScanIsKeys
  <2>2. ToSet(Scan) \subseteq Keys
    BY <2>1 DEF ToSet
  <2> QED BY <2>1, <2>2
<1> HIDE DEF s
<1>2. x \in s
  BY <1>1, EntryHas
<1>3. ASSUME NEW y \in s PROVE x <= y
  <2>1. PICK m, j : EntryIs(m, j, y)
    BY <1>1, EntryOf DEF Sorted
  <2>2. CASE m = l
    <3>1. /\ x \in Int /\ y \in Int /\ i \in Nat /\ j \in Nat
      BY <2>1, <2>2, EntryFacts DEF Sorted
    <3>2. ~(j < i)
      BY <1>1, <2>1, <2>2
    <3>3. CASE i = j
      BY <2>1, <2>2, <3>1, <3>3 DEF EntryIs
    <3>4. CASE i < j
      BY <2>1, <2>2, <3>1, <3>4, EntriesOrdered DEF Sorted
    <3> QED BY <3>1, <3>2, <3>3, <3>4
  <2>3. CASE m # l
    <3>1. l \in LeafPages(pages) /\ m \in LeafPages(pages)
      BY <2>1 DEF EntryIs
    <3>2. ~AllBelow(R[m], R[l])
      BY <1>1, <2>1, <2>3, <3>1
    <3>3. AllBelow(R[l], R[m])
      BY <2>3, <3>1, <3>2, OneIsBelow DEF Sorted
    <3>4. x < y
      BY <2>1, <3>3, LeavesOrdered
    <3>5. x \in Int /\ y \in Int
      BY <2>1, EntryFacts DEF Sorted
    <3> QED BY <3>4, <3>5
  <2> QED BY <2>2, <2>3
<1>4. Map!Lowest(s) = x
  BY <1>1, <1>2, <1>3, LowestOf
<1> QED BY <1>4 DEF s

\* And if nothing after it has, the highest.
LEMMA HighestIs ==
  ASSUME NEW R, Sorted(R), NEW l, NEW i, NEW x, EntryIs(l, i, x), NEW Q, x \in Q,
         \A j, y : i < j /\ EntryIs(l, j, y) => y \notin Q,
         \A m \in LeafPages(pages) \ {l} : AllBelow(R[l], R[m]) =>
           \A j, y : EntryIs(m, j, y) => y \notin Q
  PROVE  Map!Highest({y \in ToSet(Scan) : y \in Q}) = x
<1> DEFINE s == {y \in ToSet(Scan) : y \in Q}
<1>1. /\ \A y : y \in s <=> y \in Q /\ HasKey(pages, y)
      /\ s \in SUBSET Keys
  <2>1. Scan \in Seq(Keys) /\ \A y : y \in ToSet(Scan) <=> HasKey(pages, y)
    BY DEF Sorted, ScanIsKeys
  <2>2. ToSet(Scan) \subseteq Keys
    BY <2>1 DEF ToSet
  <2> QED BY <2>1, <2>2
<1> HIDE DEF s
<1>2. x \in s
  BY <1>1, EntryHas
<1>3. ASSUME NEW y \in s PROVE x >= y
  <2>1. PICK m, j : EntryIs(m, j, y)
    BY <1>1, EntryOf DEF Sorted
  <2>2. CASE m = l
    <3>1. /\ x \in Int /\ y \in Int /\ i \in Nat /\ j \in Nat
      BY <2>1, <2>2, EntryFacts DEF Sorted
    <3>2. ~(i < j)
      BY <1>1, <2>1, <2>2
    <3>3. CASE i = j
      BY <2>1, <2>2, <3>1, <3>3 DEF EntryIs
    <3>4. CASE j < i
      BY <2>1, <2>2, <3>1, <3>4, EntriesOrdered DEF Sorted
    <3> QED BY <3>1, <3>2, <3>3, <3>4
  <2>3. CASE m # l
    <3>1. l \in LeafPages(pages) /\ m \in LeafPages(pages)
      BY <2>1 DEF EntryIs
    <3>2. ~AllBelow(R[l], R[m])
      BY <1>1, <2>1, <2>3, <3>1
    <3>3. AllBelow(R[m], R[l])
      BY <2>3, <3>1, <3>2, OneIsBelow DEF Sorted
    <3>4. y < x
      BY <2>1, <3>3, LeavesOrdered
    <3>5. x \in Int /\ y \in Int
      BY <2>1, EntryFacts DEF Sorted
    <3> QED BY <3>4, <3>5
  <2> QED BY <2>2, <2>3
<1>4. Map!Highest(s) = x
  BY <1>1, <1>2, <1>3, HighestOf
<1> QED BY <1>4 DEF s

\* Nothing has what no entry has.
LEMMA NothingIs ==
  ASSUME NEW R, Sorted(R), NEW Q, \A m, j, y : EntryIs(m, j, y) => y \notin Q
  PROVE  {y \in ToSet(Scan) : y \in Q} = {}
<1> SUFFICES ASSUME NEW y \in ToSet(Scan), y \in Q PROVE FALSE
  OBVIOUS
<1>1. HasKey(pages, y)
  BY DEF Sorted, ScanIsKeys
<1>2. PICK m, j : EntryIs(m, j, y)
  BY <1>1, EntryOf DEF Sorted
<1> QED BY <1>2

-----------------------------------------------------------------------------
(* The cursor. *)

\* c is no cursor, or at a slot of a leaf of ps, one past the last at most.
CursorIn(ps, c) ==
  \/ c = NoCursor
  \/ /\ c \in [valid : {TRUE}, leaf : DOMAIN ps, slot : 0 .. Usable]
     /\ ps[c.leaf].level = 0
     /\ c.slot <= ps[c.leaf].slotCount

\* A page has no more entries than space.
LEMMA SlotsBounded ==
  ASSUME NEW pg, PageOK(pg)
  PROVE  pg.slotCount \in 0 .. Usable
<1>1. pg.room \in {ZeroUsable, Usable} /\ pg.slotCount \in Nat /\ Len(pg.area) \in Nat
  BY PageFields DEF PageOK, Page
<1>2. pg.room - pg.slotCount - Len(pg.area) >= 0
  BY DEF PageOK, FreeSpace
<1> QED BY <1>1, <1>2, SlotsAssumption

LEMMA CursorInAt ==
  ASSUME NEW ps, NEW l \in DOMAIN ps, PageOK(ps[l]), ps[l].level = 0,
         NEW i \in Nat, i <= ps[l].slotCount
  PROVE  CursorIn(ps, CursorAt(l, i))
<1>1. ps[l].slotCount \in 0 .. Usable /\ Usable \in Nat
  BY SlotsBounded, SlotsAssumption
<1>2. i \in 0 .. Usable
  BY <1>1
<1> QED BY <1>2 DEF CursorIn, CursorAt

\* A leaf that has entries, or is not an empty root, has its level.
LEMMA LeafLevel ==
  ASSUME TreeInv, NEW l \in LeafPages(pages), pages[l].slotCount # 0 \/ ~EmptyRoot
  PROVE  l \in DOMAIN pages /\ PageOK(pages[l]) /\ pages[l].level = 0
         /\ pages[l].slotCount \in Nat
<1>1. l \in DOMAIN pages /\ pages[l].level \in {0, INVALID_TREE_LEVEL} /\ NodeOK(pages, l)
  BY DEF LeafPages, Inner, TreeInv, Nodes
<1>2. ASSUME pages[l].level = INVALID_TREE_LEVEL PROVE FALSE
  <2>1. l = root_ /\ pages[l].slotCount = 0 /\ pages[l].seps = <<>>
    BY <1>1, <1>2 DEF NodeOK
  <2>2. EmptyRoot
    BY <2>1 DEF EmptyRoot, SepCount
  <2> QED BY <2>1, <2>2
<1>3. PageOK(pages[l])
  BY <1>1 DEF NodeOK
<1>4. pages[l].slotCount \in Nat
  BY <1>3, PageFields DEF PageOK
<1> QED BY <1>1, <1>2, <1>3, <1>4

\* A step that changes no more of the tree than search does.
QuietStep ==
  /\ Ready
  /\ pages' = pages \/ pages' = Searched
  /\ UNCHANGED <<call, status>>
  /\ answer' \in {"none", "ok", "yes", "no", "error", "throws"}

\* A step is one of the tree or a quiet one.
LEMMA NextKinds ==
  ASSUME [Next]_vars
  PROVE  [TreeNext]_treeVars \/ QuietStep
<1>1. CASE UNCHANGED vars
  BY <1>1 DEF vars, treeVars
<1>2. CASE cursor = NoCursor /\ TreeNext /\ UNCHANGED cursor
  BY <1>2
<1>3. ASSUME NEW k \in Keys, SeekCursor(k) \/ SeekThrows(k) PROVE QuietStep
  BY <1>3 DEF SeekCursor, SeekThrows, QuietStep, Return
<1>4. CASE FirstCursor \/ LastCursor
  BY <1>4 DEF FirstCursor, LastCursor, QuietStep, Return
<1>5. CASE NextEntry \/ PrevEntry
  BY <1>5 DEF NextEntry, PrevEntry, QuietStep, Return
<1>6. CASE CursorFails
  BY <1>6 DEF CursorFails, SearchFails, QuietStep
<1>7. CASE DropCursor
  BY <1>7 DEF DropCursor
<1> QED BY <1>1, <1>2, <1>3, <1>4, <1>5, <1>6, <1>7 DEF Next

\* search makes an empty root a leaf, if anything.
LEMMA SearchedInv ==
  ASSUME TreeInv, Ready, pages' = Searched, UNCHANGED <<call, status>>,
         answer' \in {"none", "ok", "yes", "no", "error", "throws"}
  PROVE  TreeInv'
<1>1. Nodes(pages')
  BY SearchedIs DEF TreeInv
<1>2. ~call.active /\ call' = call /\ call \in Call
      /\ status' \in {"ok", "aborted", "corrupt"}
  BY DEF Ready, TreeInv
<1> QED BY <1>1, <1>2 DEF TreeInv, CallOK

\* A quiet step leaves the tree in order and its leaves in their chain.
LEMMA QuietChain ==
  ASSUME ChainInv, QuietStep
  PROVE  ChainInv'
<1>1. TreeInv /\ Ready /\ ~call.active /\ call' = call /\ Nodes(pages)
  BY DEF ChainInv, QuietStep, Ready, TreeInv
<1>2. PICK R : ChainIn(pages, call, R)
  BY DEF ChainInv
<1>3. /\ InOrder(pages, call, R) /\ Chained(pages, R) /\ SplitChained(pages, call)
      /\ Backed(pages)
  BY <1>2 DEF ChainIn, ChainInv
<1>4. CASE pages' = pages
  <2>1. status' \in {"ok", "aborted", "corrupt"}
    BY DEF QuietStep, TreeInv, ChainInv
  <2>2. TreeInv'
    BY <1>1, <1>4, <2>1, SamePages DEF QuietStep
  <2>3. ChainIn(pages', call', R) /\ Backed(pages')
    BY <1>1, <1>2, <1>3, <1>4
  <2> QED BY <2>2, <2>3 DEF ChainInv
<1>5. CASE pages' = Searched
  <2>1. TreeInv'
    BY <1>1, <1>5, SearchedInv DEF QuietStep
  <2>2. InOrder(pages', call', R)
    BY <1>1, <1>3, <1>5, SearchedOrder
  <2>3. LinksKept(pages, pages')
    BY <1>1, <1>5, SearchedLinks
  <2>4. Chained(pages', R) /\ Backed(pages')
    BY <1>3, <2>3, ChainSame DEF ChainKept
  <2>5. SplitChained(pages', call')
    BY <1>1 DEF SplitChained
  <2> QED BY <2>1, <2>2, <2>4, <2>5 DEF ChainIn, ChainInv
<1> QED BY <1>4, <1>5 DEF QuietStep

CursorInv == ChainInv /\ CursorTypeOK

\* A cursor that moves on goes to an entry of a leaf.
LEMMA EnterIs ==
  ASSUME TreeInv, NEW l, l # INVALID_PAGE => l \in LeafPages(pages), NEW i,
         l # INVALID_PAGE /\ pages[l].slotCount # 0 => i \in Nat /\ i <= pages[l].slotCount
  PROVE  CursorIn(pages, Enter(l, i))
<1>1. CASE l = INVALID_PAGE \/ pages[l].slotCount = 0
  BY <1>1 DEF Enter, CursorIn
<1>2. CASE l # INVALID_PAGE /\ pages[l].slotCount # 0
  <2>1. l \in DOMAIN pages /\ PageOK(pages[l]) /\ pages[l].level = 0
    BY <1>2, LeafLevel
  <2>2. CursorIn(pages, CursorAt(l, i))
    BY <1>2, <2>1, CursorInAt
  <2> QED BY <1>2, <2>2 DEF Enter
<1> QED BY <1>1, <1>2

\* Where the cursor goes.
LEMMA CursorStep ==
  ASSUME CursorInv, [Next]_vars
  PROVE  CursorTypeOK'
<1> DEFINE l == cursor.leaf
           i == cursor.slot
<1>1. TreeInv /\ Nodes(pages)
  BY DEF CursorInv, ChainInv, TreeInv
<1>2. PICK R : InOrder(pages, call, R) /\ Chained(pages, R) /\ Backed(pages)
  BY DEF CursorInv, ChainInv, ChainIn
<1>3. SUFFICES CursorIn(pages', cursor')
  BY DEF CursorIn, CursorTypeOK
<1>4. CursorIn(pages, cursor)
  BY DEF CursorInv, CursorTypeOK, CursorIn
<1>5. CASE cursor' = NoCursor
  BY <1>5 DEF CursorIn
<1>6. CASE UNCHANGED <<pages, cursor>>
  BY <1>4, <1>6
<1>7. ASSUME cursor.valid
      PROVE  /\ l \in LeafPages(pages) /\ l \in DOMAIN pages
             /\ PageOK(pages[l]) /\ pages[l].level = 0
             /\ i \in Nat /\ i <= pages[l].slotCount /\ pages[l].slotCount \in Nat
             /\ cursor = CursorAt(l, i)
  <2>1. cursor # NoCursor
    BY <1>7 DEF NoCursor
  <2>2. /\ cursor \in [valid : {TRUE}, leaf : DOMAIN pages, slot : 0 .. Usable]
        /\ pages[l].level = 0 /\ i <= pages[l].slotCount
    BY <1>4, <2>1 DEF CursorIn
  <2>3. l \in DOMAIN pages /\ i \in 0 .. Usable /\ Usable \in Nat
    BY <2>2, SlotsAssumption
  <2>4. i \in Nat
    BY <2>3
  <2>5. cursor = CursorAt(l, i)
    BY <2>2 DEF CursorAt
  <2>6. PageOK(pages[l])
    BY <1>1, <2>3 DEF Nodes, NodeOK
  <2>7. pages[l].slotCount \in Nat
    BY <2>6, PageFields DEF PageOK
  <2>8. l \in LeafPages(pages)
    BY <2>2, <2>3 DEF LeafPages, Inner
  <2> QED BY <2>2, <2>3, <2>4, <2>5, <2>6, <2>7, <2>8
<1>8. ASSUME NEW k \in Keys, SeekCursor(k) PROVE CursorIn(pages', cursor')
  <2> DEFINE at == Search(k)
  <2>1. pages' = Searched /\ cursor' = CursorAt(at.leaf, at.index)
    BY <1>8 DEF SeekCursor, Return
  <2>2. /\ at.leaf \in DOMAIN Searched /\ PageOK(Searched[at.leaf])
        /\ Searched[at.leaf].level = 0 /\ at.index \in 0 .. Searched[at.leaf].slotCount
    BY <1>1, SearchedIs
  <2>3. Searched[at.leaf].slotCount \in Nat
    BY <2>2, PageFields DEF PageOK
  <2> QED BY <2>1, <2>2, <2>3, CursorInAt
<1>9. CASE FirstCursor
  <2>1. pages' = pages
    BY <1>9 DEF FirstCursor
  <2>2. CASE EmptyRoot
    BY <1>5, <1>9, <2>2 DEF FirstCursor, Return
  <2>3. CASE ~EmptyRoot
    <3>1. cursor' = CursorAt(FirstLeaf, 0)
      BY <1>9, <2>3 DEF FirstCursor, Return
    <3>2. FirstLeaf \in LeafPages(pages)
      BY <1>1, <1>2, FirstIs
    <3>3. /\ FirstLeaf \in DOMAIN pages /\ PageOK(pages[FirstLeaf])
          /\ pages[FirstLeaf].level = 0 /\ pages[FirstLeaf].slotCount \in Nat
      BY <1>1, <2>3, <3>2, LeafLevel
    <3> QED BY <2>1, <3>1, <3>3, CursorInAt
  <2> QED BY <2>2, <2>3
<1>10. CASE LastCursor
  <2> DEFINE n == pages[LastLeaf].slotCount
  <2>1. pages' = pages /\ ~call.active
    BY <1>10 DEF LastCursor, Ready
  <2>2. CASE EmptyRoot \/ n = 0
    BY <1>5, <1>10, <2>2 DEF LastCursor, Return
  <2>3. CASE ~(EmptyRoot \/ n = 0)
    <3>1. cursor' = CursorAt(LastLeaf, n - 1)
      BY <1>10, <2>3 DEF LastCursor, Return
    <3>2. LastLeaf \in LeafPages(pages)
      BY <1>1, <1>2, <2>1, LastIs
    <3>3. /\ LastLeaf \in DOMAIN pages /\ PageOK(pages[LastLeaf])
          /\ pages[LastLeaf].level = 0 /\ n \in Nat
      BY <1>1, <2>3, <3>2, LeafLevel
    <3>4. n - 1 \in Nat /\ n - 1 <= n
      BY <2>3, <3>3
    <3> QED BY <2>1, <3>1, <3>3, <3>4, CursorInAt
  <2> QED BY <2>2, <2>3
<1>11. CASE NextEntry
  <2>1. pages' = pages /\ cursor.valid
    BY <1>11 DEF NextEntry
  <2>2. CASE i < pages[l].slotCount - 1
    <3>1. cursor' = [CursorAt(l, i) EXCEPT !.slot = @ + 1]
      BY <1>7, <1>11, <2>1, <2>2 DEF NextEntry, Return
    <3>2. cursor' = CursorAt(l, i + 1)
      BY <3>1 DEF CursorAt
    <3> QED BY <1>7, <2>1, <2>2, <3>2, CursorInAt
  <2>3. CASE ~(i < pages[l].slotCount - 1)
    <3>1. cursor' = Enter(pages[l].next, 0)
      BY <1>11, <2>3 DEF NextEntry, Return
    <3>2. pages[l].next # INVALID_PAGE => pages[l].next \in LeafPages(pages)
      BY <1>2, <1>7, <2>1 DEF Chained
    <3>3. pages[l].next # INVALID_PAGE => pages[pages[l].next].slotCount \in Nat
      <4> SUFFICES ASSUME pages[l].next # INVALID_PAGE
                   PROVE  pages[pages[l].next].slotCount \in Nat
        OBVIOUS
      <4>1. PageOK(pages[pages[l].next])
        BY <1>1, <3>2 DEF LeafPages, Nodes, NodeOK
      <4> QED BY <4>1, PageFields DEF PageOK
    <3>4. CursorIn(pages, Enter(pages[l].next, 0))
      BY <1>1, <3>2, <3>3, EnterIs
    <3> QED BY <2>1, <3>1, <3>4
  <2> QED BY <2>2, <2>3
<1>12. CASE PrevEntry
  <2> DEFINE m == pages[l].prev
  <2>1. pages' = pages /\ cursor.valid /\ cursor' = Before
    BY <1>12 DEF PrevEntry, Return
  <2>2. CASE i > 0
    <3>1. cursor' = [CursorAt(l, i) EXCEPT !.slot = @ - 1]
      BY <1>7, <2>1, <2>2 DEF Before
    <3>2. cursor' = CursorAt(l, i - 1)
      BY <3>1 DEF CursorAt
    <3>3. i - 1 \in Nat /\ i - 1 <= pages[l].slotCount
      BY <1>7, <2>1, <2>2
    <3> QED BY <1>7, <2>1, <3>2, <3>3, CursorInAt
  <2>3. CASE ~(i > 0) /\ m = INVALID_PAGE
    BY <1>5, <2>1, <2>3 DEF Before
  <2>4. CASE ~(i > 0) /\ m # INVALID_PAGE
    <3>1. cursor' = Enter(m, pages[m].slotCount - 1)
      BY <2>1, <2>4 DEF Before
    <3>2. m \in LeafPages(pages)
      BY <1>2, <1>7, <2>1, <2>4 DEF Backed
    <3>3. pages[m].slotCount \in Nat
      <4>1. PageOK(pages[m])
        BY <1>1, <3>2 DEF LeafPages, Nodes, NodeOK
      <4> QED BY <4>1, PageFields DEF PageOK
    <3>4. pages[m].slotCount # 0 =>
            pages[m].slotCount - 1 \in Nat /\ pages[m].slotCount - 1 <= pages[m].slotCount
      BY <3>3
    <3>5. CursorIn(pages, Enter(m, pages[m].slotCount - 1))
      BY <1>1, <3>2, <3>4, EnterIs
    <3> QED BY <2>1, <3>1, <3>5
  <2> QED BY <2>2, <2>3, <2>4
<1>13. CASE UNCHANGED vars
  BY <1>6, <1>13 DEF vars, treeVars
<1>14. CASE cursor = NoCursor /\ TreeNext /\ UNCHANGED cursor
  BY <1>5, <1>14
<1>15. ASSUME NEW k \in Keys, SeekThrows(k) PROVE UNCHANGED <<pages, cursor>>
  BY <1>15 DEF SeekThrows
<1>16. CASE CursorFails
  BY <1>6, <1>16 DEF CursorFails, SearchFails
<1>17. CASE DropCursor
  BY <1>5, <1>17 DEF DropCursor
<1> QED BY <1>6, <1>8, <1>9, <1>10, <1>11, <1>12, <1>13, <1>14, <1>15, <1>16, <1>17 DEF Next

\* Every step keeps the invariant.
LEMMA StepCursorInv ==
  ASSUME Orderly, CursorInv, [Next]_vars, LevelsFit'
  PROVE  CursorInv'
<1>1. ChainInv /\ TreeInv
  BY DEF CursorInv, ChainInv
<1>2. ASSUME [TreeNext]_treeVars PROVE ChainInv'
  BY <1>1, <1>2, StepInv, StepChain
<1>3. ChainInv'
  BY <1>1, <1>2, NextKinds, QuietChain
<1> QED BY <1>3, CursorStep DEF CursorInv

LEMMA CursorInit == Init => CursorInv
BY ChainInit DEF Init, CursorInv, CursorTypeOK

\* A cursor is invalid or at a slot of a leaf, one past the last at most (CursorTypeOK,
\* for seek, first, last, next and prev): for any number of pages, any keys and sizes.
THEOREM CursorTypeCorrect ==
  ASSUME Orderly
  PROVE  Spec /\ []LevelsFit => []CursorTypeOK
<1>1. CursorInv /\ [Next]_vars /\ LevelsFit' => CursorInv'
  BY StepCursorInv
<1>2. Spec /\ []LevelsFit => []CursorInv
  BY <1>1, CursorInit, PTL DEF Spec
<1>3. CursorInv => CursorTypeOK
  BY DEF CursorInv
<1> QED BY <1>2, <1>3, PTL

-----------------------------------------------------------------------------
(* next and prev. *)

\* What the slots of a leaf name.
LEMMA SlotEntry ==
  ASSUME NEW l \in LeafPages(pages), NEW i \in 1 .. pages[l].slotCount
  PROVE  EntryIs(l, i, KeyAt(pages[l], i - 1))
BY DEF EntryIs, LiveKeys

LEMMA KeyAtCursor ==
  ASSUME NEW l, NEW i, pages' = pages, cursor' = CursorAt(l, i)
  PROVE  CursorKey' = KeyAt(pages[l], i)
BY DEF CursorKey, CursorAt

LEMMA KeyAtNone ==
  ASSUME cursor' = NoCursor
  PROVE  CursorKey' = NoKey
BY DEF CursorKey, NoCursor

\* A cursor that is valid, and the entry it is at.
LEMMA CursorPlace ==
  ASSUME TreeInv, CursorTypeOK, cursor.valid
  PROVE  /\ cursor.leaf \in LeafPages(pages) /\ cursor.slot \in Nat
         /\ pages[cursor.leaf].slotCount \in Nat
         /\ cursor = CursorAt(cursor.leaf, cursor.slot)
<1>1. cursor # NoCursor
  BY DEF NoCursor
<1>2. /\ cursor \in [valid : {TRUE}, leaf : DOMAIN pages, slot : 0 .. Usable]
      /\ pages[cursor.leaf].level = 0
  BY <1>1 DEF CursorTypeOK
<1>3. cursor.leaf \in DOMAIN pages /\ cursor.slot \in 0 .. Usable /\ Usable \in Nat
  BY <1>2, SlotsAssumption
<1>4. cursor.slot \in Nat
  BY <1>3
<1>5. cursor.leaf \in LeafPages(pages)
  BY <1>2, <1>3 DEF LeafPages, Inner
<1>6. cursor = CursorAt(cursor.leaf, cursor.slot)
  BY <1>2 DEF CursorAt
<1>7. PageOK(pages[cursor.leaf])
  BY <1>3 DEF TreeInv, Nodes, NodeOK
<1>8. pages[cursor.leaf].slotCount \in Nat
  BY <1>7, PageFields DEF PageOK
<1> QED BY <1>4, <1>5, <1>6, <1>8

LEMMA CursorEntry ==
  ASSUME TreeInv, CursorTypeOK, OnEntry
  PROVE  EntryIs(cursor.leaf, cursor.slot + 1, CursorKey)
<1> DEFINE l == cursor.leaf
           i == cursor.slot
<1>1. cursor.valid /\ i < pages[l].slotCount
  BY DEF OnEntry
<1>2. l \in LeafPages(pages) /\ i \in Nat /\ pages[l].slotCount \in Nat
  BY <1>1, CursorPlace
<1>3. i + 1 \in 1 .. pages[l].slotCount /\ (i + 1) - 1 = i
  BY <1>1, <1>2
<1>4. EntryIs(l, i + 1, KeyAt(pages[l], (i + 1) - 1))
  BY <1>2, <1>3, SlotEntry
<1>5. CursorKey = KeyAt(pages[l], i)
  BY <1>1 DEF CursorKey
<1> QED BY <1>3, <1>4, <1>5

\* The keys of a set that are above x, and those below it.
AboveKey(x) == {y \in Keys : y > x}
BelowKey(x) == {y \in Keys : y < x}

\* No two leaves with entries are below each other.
LEMMA EntriesApart ==
  ASSUME NEW R, Sorted(R), NEW l, NEW i, NEW x, EntryIs(l, i, x),
         NEW m, NEW j, NEW y, EntryIs(m, j, y), AllBelow(R[l], R[m])
  PROVE  ~AllBelow(R[m], R[l])
<1>1. x < y /\ x \in Int /\ y \in Int
  BY LeavesOrdered, EntryFacts DEF Sorted
<1>2. ASSUME AllBelow(R[m], R[l]) PROVE y < x
  BY <1>2, LeavesOrdered
<1> QED BY <1>1, <1>2

\* In one leaf, what is at or before an entry is not above it, and the other way round.
LEMMA SameLeaf ==
  ASSUME NEW R, Sorted(R), NEW l, NEW i, NEW x, EntryIs(l, i, x),
         NEW j, NEW y, EntryIs(l, j, y)
  PROVE  /\ j <= i => y \notin AboveKey(x)
         /\ j >= i => y \notin BelowKey(x)
<1>1. x \in Int /\ y \in Int /\ i \in Nat /\ j \in Nat
  BY EntryFacts DEF Sorted
<1>2. i = j => x = y
  BY DEF EntryIs
<1>3. i < j => x < y
  BY EntriesOrdered DEF Sorted
<1>4. j < i => y < x
  BY EntriesOrdered DEF Sorted
<1> QED BY <1>1, <1>2, <1>3, <1>4 DEF AboveKey, BelowKey

\* In a leaf below, nothing is above it; in a leaf above, nothing is below it.
LEMMA OtherLeaf ==
  ASSUME NEW R, Sorted(R), NEW l, NEW i, NEW x, EntryIs(l, i, x),
         NEW m, NEW j, NEW y, EntryIs(m, j, y)
  PROVE  /\ AllBelow(R[m], R[l]) => y \notin AboveKey(x)
         /\ AllBelow(R[l], R[m]) => y \in AboveKey(x) /\ y \notin BelowKey(x)
         /\ AllBelow(R[m], R[l]) => y \in BelowKey(x)
<1>1. x \in Int /\ y \in Int /\ y \in Keys
  BY EntryFacts DEF Sorted
<1>2. AllBelow(R[m], R[l]) => y < x
  BY LeavesOrdered
<1>3. AllBelow(R[l], R[m]) => x < y
  BY LeavesOrdered
<1> QED BY <1>1, <1>2, <1>3 DEF AboveKey, BelowKey

\* Every leaf has entries.
LeavesFull == \A l \in LeafPages(pages) : pages[l].slotCount > 0

\* next moves the cursor to the next key of the tree, be it in the next leaf.
LEMMA NextMoves ==
  ASSUME NEW R, Sorted(R), CursorTypeOK, OnEntry, LeavesFull, NextEntry
  PROVE  CursorKey' = Map!Lowest({y \in ToSet(Scan) : y \in AboveKey(CursorKey)})
<1> DEFINE l == cursor.leaf
           i == cursor.slot
           n == pages[l].slotCount
           q == pages[l].next
           x == CursorKey
           up == Map!Lowest({y \in ToSet(Scan) : y \in AboveKey(x)})
<1>1. TreeInv /\ Chained(pages, R)
  BY DEF Sorted
<1>2. EntryIs(l, i + 1, x) /\ l \in LeafPages(pages) /\ i \in Nat /\ n \in Nat /\ i < n
      /\ cursor = CursorAt(l, i)
  BY <1>1, CursorEntry, CursorPlace DEF OnEntry
<1>3. pages' = pages
  BY DEF NextEntry
<1>4. \A m \in LeafPages(pages) \ {l} :
        \/ AllBelow(R[m], R[l])
        \/ /\ q # INVALID_PAGE
           /\ m = q \/ AllBelow(R[q], R[m])
  BY <1>1, <1>2 DEF Chained
<1> HIDE DEF x
<1>5. CASE i < n - 1
  <2> DEFINE z == KeyAt(pages[l], i + 1)
  <2>1. cursor' = [CursorAt(l, i) EXCEPT !.slot = @ + 1]
    BY <1>2, <1>5 DEF NextEntry, Return
  <2>2. cursor' = CursorAt(l, i + 1)
    BY <2>1 DEF CursorAt
  <2>3. i + 2 \in 1 .. n /\ (i + 2) - 1 = i + 1 /\ i + 1 < i + 2
    BY <1>2, <1>5
  <2>4. EntryIs(l, i + 2, KeyAt(pages[l], (i + 2) - 1))
    BY <1>2, <2>3, SlotEntry
  <2>5. EntryIs(l, i + 2, z)
    BY <2>3, <2>4
  <2> HIDE DEF z
  <2>6. z \in AboveKey(x)
    <3>1. x < z
      BY <1>1, <1>2, <2>3, <2>5, EntriesOrdered DEF Sorted
    <3>2. z \in Keys /\ z \in Int /\ x \in Int
      BY <1>1, <1>2, <2>5, EntryFacts DEF Sorted
    <3> QED BY <3>1, <3>2 DEF AboveKey
  <2>7. ASSUME NEW j, NEW y, j < i + 2, EntryIs(l, j, y) PROVE y \notin AboveKey(x)
    <3>1. j \in Nat
      BY <1>1, <2>7, EntryFacts DEF Sorted
    <3>2. j <= i + 1
      BY <1>2, <2>7, <3>1
    <3> QED BY <1>2, <2>7, <3>2, SameLeaf
  <2>8. ASSUME NEW m \in LeafPages(pages) \ {l}, AllBelow(R[m], R[l]), NEW j, NEW y,
               EntryIs(m, j, y)
        PROVE  y \notin AboveKey(x)
    BY <1>2, <2>8, OtherLeaf
  <2>9. up = z
    BY <2>5, <2>6, <2>7, <2>8, LowestIs
  <2> QED BY <1>3, <2>2, <2>9, KeyAtCursor DEF z, x
<1>6. CASE ~(i < n - 1) /\ q = INVALID_PAGE
  <2>1. cursor' = NoCursor
    BY <1>6 DEF NextEntry, Return, Enter
  <2>2. ASSUME NEW m, NEW j, NEW y, EntryIs(m, j, y) PROVE y \notin AboveKey(x)
    <3>1. CASE m = l
      <4>1. j \in 1 .. n
        BY <2>2, <3>1 DEF EntryIs
      <4>2. j <= i + 1
        BY <1>2, <1>6, <4>1
      <4> QED BY <1>2, <2>2, <3>1, <4>2, SameLeaf
    <3>2. CASE m # l
      <4>1. AllBelow(R[m], R[l])
        BY <1>4, <1>6, <2>2, <3>2 DEF EntryIs
      <4> QED BY <1>2, <2>2, <4>1, OtherLeaf
    <3> QED BY <3>1, <3>2
  <2>3. {y \in ToSet(Scan) : y \in AboveKey(x)} = {}
    BY <2>2, NothingIs
  <2>4. up = NoKey
    BY <2>3 DEF Map!Lowest
  <2> QED BY <2>1, <2>4, KeyAtNone DEF x
<1>7. CASE ~(i < n - 1) /\ q # INVALID_PAGE
  <2> DEFINE z == KeyAt(pages[q], 0)
  <2>1. q \in LeafPages(pages) /\ AllBelow(R[l], R[q])
    BY <1>1, <1>2, <1>7 DEF Chained
  <2>2. pages[q].slotCount > 0 /\ pages[q].slotCount \in Nat
    <3>1. PageOK(pages[q])
      BY <1>1, <2>1 DEF LeafPages, TreeInv, Nodes, NodeOK
    <3> QED BY <2>1, <3>1, PageFields DEF LeavesFull, PageOK
  <2>3. cursor' = CursorAt(q, 0)
    BY <1>7, <2>2 DEF NextEntry, Return, Enter
  <2>4. EntryIs(q, 1, KeyAt(pages[q], 1 - 1))
    BY <2>1, <2>2, SlotEntry
  <2>5. EntryIs(q, 1, z)
    BY <2>4
  <2> HIDE DEF z
  <2>6. z \in AboveKey(x)
    BY <1>2, <2>1, <2>5, OtherLeaf
  <2>7. ASSUME NEW j, NEW y, j < 1, EntryIs(q, j, y) PROVE y \notin AboveKey(x)
    <3>1. j \in 1 .. pages[q].slotCount
      BY <2>7 DEF EntryIs
    <3> QED BY <2>7, <3>1
  <2>8. ASSUME NEW m \in LeafPages(pages) \ {q}, AllBelow(R[m], R[q]), NEW j, NEW y,
               EntryIs(m, j, y)
        PROVE  y \notin AboveKey(x)
    <3>1. CASE m = l
      <4>1. j \in 1 .. n
        BY <2>8, <3>1 DEF EntryIs
      <4>2. j <= i + 1
        BY <1>2, <1>7, <4>1
      <4> QED BY <1>2, <2>8, <3>1, <4>2, SameLeaf
    <3>2. CASE m # l
      <4>1. ~AllBelow(R[q], R[m])
        BY <2>5, <2>8, EntriesApart
      <4>2. AllBelow(R[m], R[l])
        BY <1>4, <2>8, <3>2, <4>1
      <4> QED BY <1>2, <2>8, <4>2, OtherLeaf
    <3> QED BY <3>1, <3>2
  <2>9. up = z
    BY <2>5, <2>6, <2>7, <2>8, LowestIs
  <2> QED BY <1>3, <2>3, <2>9, KeyAtCursor DEF z, x
<1> QED BY <1>5, <1>6, <1>7

\* Only the first leaf has no leaf before it.
LEMMA NoPrevIsFirst ==
  ASSUME TreeInv, NEW R, InOrder(pages, call, R), Chained(pages, R), ChainLinked,
         NEW l \in LeafPages(pages), pages[l].prev = INVALID_PAGE
  PROVE  l = FirstLeaf
<1>1. ToSet(Chain) = LeafPages(pages)
  BY ChainHasAll
<1>2. Walk(R, FirstLeaf, Chain)
  BY ChainIs
<1>3. Chain \in Seq(LeafPages(pages)) /\ Len(Chain) \in Nat /\ Chain[1] = FirstLeaf
  BY <1>2 DEF Walk
<1>4. PICK n \in DOMAIN Chain : Chain[n] = l
  BY <1>1, <1>3 DEF ToSet
<1>5. pages[l].prev = IF n = 1 THEN INVALID_PAGE ELSE Chain[n - 1]
  BY <1>4 DEF ChainLinked
<1>6. n \in 1 .. Len(Chain)
  BY <1>3, <1>4
<1>7. CASE n # 1
  <2>1. n - 1 \in 1 .. Len(Chain)
    BY <1>3, <1>6, <1>7
  <2>2. Chain[n - 1] \in LeafPages(pages)
    BY <1>3, <2>1
  <2>3. Chain[n - 1] \in PageNum
    BY <2>2, DomainIs DEF LeafPages, TreeInv, Nodes
  <2> QED BY <1>5, <1>7, <2>3, LinkIsPage
<1> QED BY <1>3, <1>4, <1>7

\* prev moves it to the key before, be it in the leaf before.
LEMMA PrevMoves ==
  ASSUME NEW R, Sorted(R), ChainLinked, CursorTypeOK, OnEntry, LeavesFull, PrevEntry
  PROVE  CursorKey' = Map!Highest({y \in ToSet(Scan) : y \in BelowKey(CursorKey)})
<1> DEFINE l == cursor.leaf
           i == cursor.slot
           q == pages[l].prev
           x == CursorKey
           down == Map!Highest({y \in ToSet(Scan) : y \in BelowKey(x)})
<1>1. TreeInv /\ Chained(pages, R) /\ Backed(pages) /\ InOrder(pages, call, R)
  BY DEF Sorted
<1>2. EntryIs(l, i + 1, x) /\ l \in LeafPages(pages) /\ i \in Nat
      /\ cursor = CursorAt(l, i)
  BY <1>1, CursorEntry, CursorPlace DEF OnEntry
<1>3. pages' = pages /\ cursor' = Before
  BY DEF PrevEntry, Return
<1> HIDE DEF x
<1>4. CASE i > 0
  <2> DEFINE z == KeyAt(pages[l], i - 1)
  <2>1. cursor' = [CursorAt(l, i) EXCEPT !.slot = @ - 1]
    BY <1>2, <1>3, <1>4 DEF Before
  <2>2. cursor' = CursorAt(l, i - 1)
    BY <2>1 DEF CursorAt
  <2>3. i \in 1 .. pages[l].slotCount /\ i < i + 1
    <3>1. i + 1 \in 1 .. pages[l].slotCount /\ pages[l].slotCount \in Nat
      BY <1>1, <1>2, EntryFacts DEF EntryIs
    <3> QED BY <1>2, <1>4, <3>1
  <2>4. EntryIs(l, i, z)
    BY <1>2, <2>3, SlotEntry
  <2> HIDE DEF z
  <2>5. z \in BelowKey(x)
    <3>1. z < x
      BY <1>1, <1>2, <2>3, <2>4, EntriesOrdered
    <3>2. z \in Keys
      BY <1>1, <2>4, EntryFacts
    <3> QED BY <3>1, <3>2 DEF BelowKey
  <2>6. ASSUME NEW j, NEW y, i < j, EntryIs(l, j, y) PROVE y \notin BelowKey(x)
    <3>1. j \in Nat
      BY <1>1, <2>6, EntryFacts
    <3>2. j >= i + 1
      BY <1>2, <2>6, <3>1
    <3> QED BY <1>2, <2>6, <3>2, SameLeaf
  <2>7. ASSUME NEW m \in LeafPages(pages) \ {l}, AllBelow(R[l], R[m]), NEW j, NEW y,
               EntryIs(m, j, y)
        PROVE  y \notin BelowKey(x)
    BY <1>2, <2>7, OtherLeaf
  <2>8. down = z
    BY <2>4, <2>5, <2>6, <2>7, HighestIs
  <2> QED BY <1>3, <2>2, <2>8, KeyAtCursor DEF z, x
<1>5. CASE ~(i > 0) /\ q = INVALID_PAGE
  <2>1. cursor' = NoCursor
    BY <1>3, <1>5 DEF Before
  <2>2. \A m \in LeafPages(pages) \ {l} : AllBelow(R[l], R[m])
    BY <1>1, <1>2, <1>5, NoPrevIsFirst, FirstLowest
  <2>3. ASSUME NEW m, NEW j, NEW y, EntryIs(m, j, y) PROVE y \notin BelowKey(x)
    <3>1. CASE m = l
      <4>1. j \in 1 .. pages[l].slotCount
        BY <2>3, <3>1 DEF EntryIs
      <4>2. j >= i + 1
        BY <1>2, <1>5, <4>1
      <4> QED BY <1>2, <2>3, <3>1, <4>2, SameLeaf
    <3>2. CASE m # l
      <4>1. AllBelow(R[l], R[m])
        BY <2>2, <2>3, <3>2 DEF EntryIs
      <4> QED BY <1>2, <2>3, <4>1, OtherLeaf
    <3> QED BY <3>1, <3>2
  <2>4. {y \in ToSet(Scan) : y \in BelowKey(x)} = {}
    BY <2>3, NothingIs
  <2>5. down = NoKey
    BY <2>4 DEF Map!Highest
  <2> QED BY <2>1, <2>5, KeyAtNone DEF x
<1>6. CASE ~(i > 0) /\ q # INVALID_PAGE
  <2> DEFINE n == pages[q].slotCount
             z == KeyAt(pages[q], n - 1)
  <2>1. q \in LeafPages(pages) /\ pages[q].next = l
    BY <1>1, <1>2, <1>6 DEF Backed
  <2>2. n > 0 /\ n \in Nat
    <3>1. PageOK(pages[q])
      BY <1>1, <2>1 DEF LeafPages, TreeInv, Nodes, NodeOK
    <3> QED BY <2>1, <3>1, PageFields DEF LeavesFull, PageOK
  <2>3. cursor' = CursorAt(q, n - 1)
    BY <1>3, <1>6, <2>2 DEF Before, Enter
  <2>4. l # INVALID_PAGE
    BY <1>2, DomainIs, LinkIsPage DEF LeafPages, TreeInv, Nodes, Sorted
  <2>5. AllBelow(R[q], R[l])
    BY <1>1, <2>1, <2>4 DEF Chained
  <2>6. \A m \in LeafPages(pages) \ {q} : AllBelow(R[m], R[q]) \/ m = l \/ AllBelow(R[l], R[m])
    BY <1>1, <2>1 DEF Chained
  <2>7. n \in 1 .. n
    BY <2>2
  <2>8. EntryIs(q, n, z)
    BY <2>1, <2>7, SlotEntry
  <2> HIDE DEF z
  <2>9. z \in BelowKey(x)
    BY <1>2, <2>5, <2>8, OtherLeaf
  <2>10. ASSUME NEW j, NEW y, n < j, EntryIs(q, j, y) PROVE y \notin BelowKey(x)
    <3>1. j \in 1 .. n
      BY <2>10 DEF EntryIs
    <3> QED BY <2>2, <2>10, <3>1
  <2>11. ASSUME NEW m \in LeafPages(pages) \ {q}, AllBelow(R[q], R[m]), NEW j, NEW y,
                EntryIs(m, j, y)
         PROVE  y \notin BelowKey(x)
    <3>1. CASE m = l
      <4>1. j \in 1 .. pages[l].slotCount
        BY <2>11, <3>1 DEF EntryIs
      <4>2. j >= i + 1
        BY <1>2, <1>6, <4>1
      <4> QED BY <1>2, <2>11, <3>1, <4>2, SameLeaf
    <3>2. CASE m # l
      <4>1. ~AllBelow(R[m], R[q])
        BY <2>8, <2>11, EntriesApart
      <4>2. AllBelow(R[l], R[m])
        BY <2>6, <2>11, <3>2, <4>1
      <4> QED BY <1>2, <2>11, <4>2, OtherLeaf
    <3> QED BY <3>1, <3>2
  <2>12. down = z
    BY <2>8, <2>9, <2>10, <2>11, HighestIs
  <2> QED BY <1>3, <2>3, <2>12, KeyAtCursor DEF z, x
<1> QED BY <1>4, <1>5, <1>6

\* The keys of a scan above x, as the map has them.
LEMMA AboveIs ==
  ASSUME ScanIsKeys, NEW x
  PROVE  /\ {y \in ToSet(Scan) : y \in AboveKey(x)} = {j \in ToSet(Scan) : j > x}
         /\ {y \in ToSet(Scan) : y \in BelowKey(x)} = {j \in ToSet(Scan) : j < x}
<1>1. ToSet(Scan) \subseteq Keys
  BY DEF ScanIsKeys, ToSet
<1> QED BY <1>1 DEF AboveKey, BelowKey

\* While the leaves are full, next and prev go from one entry of a scan to the next.
LEMMA StepWalks ==
  ASSUME CursorInv, [Next]_vars, \A l \in ToSet(Chain) : pages[l].slotCount > 0,
         NEW i \in DOMAIN Scan, OnEntry, Scan[i] = CursorKey
  PROVE  /\ NextEntry => CursorKey' = IF i = Len(Scan) THEN NoKey ELSE Scan[i + 1]
         /\ PrevEntry => CursorKey' = IF i = 1 THEN NoKey ELSE Scan[i - 1]
<1>1. ChainInv /\ CursorTypeOK /\ ChainLinked
  BY InvImpliesLinked DEF CursorInv
<1>2. PICK R : Sorted(R)
  BY <1>1, SortedIs
<1>3. TreeInv /\ InOrder(pages, call, R) /\ Chained(pages, R) /\ ScanIsKeys
  BY <1>2 DEF Sorted
<1>4. LeavesFull
  BY <1>3, ChainHasAll DEF LeavesFull
<1>5. Scan \in Seq(Keys) /\ Ascending(Scan)
  BY <1>3 DEF ScanIsKeys
<1>6. Map!Lowest({}) = NoKey /\ Map!Highest({}) = NoKey
  BY DEF Map!Lowest, Map!Highest
<1>7. /\ Map!Lowest({j \in ToSet(Scan) : j > Scan[i]})
           = IF i = Len(Scan) THEN NoKey ELSE Scan[i + 1]
      /\ Map!Highest({j \in ToSet(Scan) : j < Scan[i]})
           = IF i = 1 THEN NoKey ELSE Scan[i - 1]
  BY <1>5, <1>6, NeighboursIn
<1>8. /\ {y \in ToSet(Scan) : y \in AboveKey(CursorKey)} = {j \in ToSet(Scan) : j > Scan[i]}
      /\ {y \in ToSet(Scan) : y \in BelowKey(CursorKey)} = {j \in ToSet(Scan) : j < Scan[i]}
  BY <1>3, AboveIs
<1>9. NextEntry => CursorKey' = Map!Lowest({y \in ToSet(Scan) : y \in AboveKey(CursorKey)})
  BY <1>1, <1>2, <1>4, NextMoves
<1>10. PrevEntry => CursorKey' = Map!Highest({y \in ToSet(Scan) : y \in BelowKey(CursorKey)})
  BY <1>1, <1>2, <1>4, PrevMoves
<1>11. NextEntry => CursorKey' = IF i = Len(Scan) THEN NoKey ELSE Scan[i + 1]
  BY <1>7, <1>8, <1>9, Zenon
<1>12. PrevEntry => CursorKey' = IF i = 1 THEN NoKey ELSE Scan[i - 1]
  BY <1>7, <1>8, <1>10, Zenon
<1> QED BY <1>11, <1>12

\* While no leaf is empty, next goes through the entries of the leaves one by one and ends
\* after the last; prev goes back the same way (WalksInOrder).
THEOREM CursorWalksInOrder ==
  ASSUME Orderly
  PROVE  Spec /\ []LevelsFit => WalksInOrder
<1> DEFINE Walks ==
      LET s == Scan IN
      (\A l \in ToSet(Chain) : pages[l].slotCount > 0) =>
        \A i \in DOMAIN s : (OnEntry /\ s[i] = CursorKey) =>
          /\ NextEntry => CursorKey' = (IF i = Len(s) THEN NoKey ELSE s[i + 1])
          /\ PrevEntry => CursorKey' = (IF i = 1 THEN NoKey ELSE s[i - 1])
<1>1. CursorInv /\ [Next]_vars /\ LevelsFit' => CursorInv'
  BY StepCursorInv
<1>2. Spec /\ []LevelsFit => []CursorInv
  BY <1>1, CursorInit, PTL DEF Spec
<1>3. CursorInv /\ [Next]_vars => Walks
  BY StepWalks, Zenon
<1>4. CursorInv /\ [Next]_vars => [Walks]_vars
  BY <1>3
<1> HIDE DEF Walks
<1>5. Spec /\ []LevelsFit => [][Walks]_vars
  BY <1>2, <1>4, PTL DEF Spec
<1> QED BY <1>5, PTL DEF WalksInOrder, Walks

-----------------------------------------------------------------------------
(* No leaf is empty. *)

\* What clients do besides that: nobody removes the last entry of a leaf, or seeks a place
\* after the last entry of one.
Disciplined == Orderly /\ Usage \cap {"emptyLeaf", "seekEnd"} = {}

\* Only a root that is a leaf may have no entries, and not while it is being split.
Filled == \A l \in LeafPages(pages) : pages[l].slotCount = 0 => l = root_ /\ ~call.active

\* A step that empties no leaf, nor begins a split.
LEMMA FilledKept ==
  ASSUME Filled, LeafPages(pages') = LeafPages(pages),
         \A l \in LeafPages(pages) : pages'[l].slotCount = 0 => pages[l].slotCount = 0,
         call'.active => call.active
  PROVE  Filled'
BY DEF Filled

\* A root that is a leaf is the only one.
LEMMA RootAlone ==
  ASSUME TreeInv, NEW R, InOrder(pages, call, R), ~call.active, root_ \in LeafPages(pages),
         NEW m \in LeafPages(pages)
  PROVE  m = root_
<1>1. R[root_] = Keys
  BY OrderedIs
<1>2. m \in DOMAIN pages /\ R \in [DOMAIN pages -> SUBSET Keys]
  BY DEF LeafPages, InOrder, RangesOf
<1>3. ASSUME m # root_ PROVE FALSE
  <2>1. R[m] # {}
    BY <1>2, <1>3 DEF InOrder, RangesOf
  <2>2. R[root_] \cap R[m] = {}
    BY <1>3, LeavesApart
  <2> QED BY <1>1, <1>2, <2>1, <2>2
<1> QED BY <1>3

\* search adds no entries.
LEMMA SearchedSlots ==
  ASSUME TreeInv
  PROVE  /\ LeafPages(Searched) = LeafPages(pages)
         /\ \A p \in DOMAIN pages : Searched[p].slotCount = pages[p].slotCount
<1>1. Nodes(pages) /\ root_ \in DOMAIN pages /\ pages[root_] \in Page
  BY DomainIs DEF TreeInv, Nodes, NodeOK, PageOK
<1>2. LeafPages(Searched) = LeafPages(pages)
  BY <1>1, SearchedLinks DEF LinksKept
<1>3. Searched[root_].slotCount = pages[root_].slotCount
  BY <1>1 DEF Searched, Page
<1> QED BY <1>2, <1>3, SearchedKeeps

LEMMA InsertKeyFilled ==
  ASSUME TreeInv, Filled, NEW k \in Keys, InsertKey(k, Search(k))
  PROVE  Filled'
<1> DEFINE at == Search(k)
           l  == at.leaf
           pg == Searched[l]
           on == RoomMade(pg, k)
           c  == InsertIntoLeaf(on, at.index, k)
<1>1. Nodes(pages)
  BY DEF TreeInv
<1>2. HasSpace(pg, k) /\ pages' = [Searched EXCEPT ![l] = c] /\ call' = call
  BY DEF InsertKey, RoomMade
<1>3. l \in DOMAIN pages /\ l \in DOMAIN Searched /\ PageOK(pg) /\ at.index \in 0 .. pg.slotCount
  BY <1>1, SearchedIs
<1> HIDE DEF at, pg
<1>4. /\ PageOK(on) /\ on.slotCount = pg.slotCount /\ EntrySize(k) <= FreeSpace(on)
  BY <1>2, <1>3, RoomMadeIs
<1>5. on.slotCount \in Nat
  BY <1>4, PageFields DEF PageOK
<1> HIDE DEF on
<1>6. c.slotCount = on.slotCount + 1
  BY <1>3, <1>4, InsertIntoLeafIs
<1> HIDE DEF c
<1>7. LeafPages(pages') = LeafPages(pages)
  BY InsertKeyLinks DEF LinksKept
<1>8. ASSUME NEW p \in LeafPages(pages), pages'[p].slotCount = 0 PROVE pages[p].slotCount = 0
  <2>1. p # l
    BY <1>2, <1>3, <1>5, <1>6, <1>8
  <2>2. pages'[p] = Searched[p] /\ p \in DOMAIN pages
    BY <1>2, <2>1, SearchedKeeps DEF LeafPages
  <2> QED BY <1>8, <2>2, SearchedSlots
<1> QED BY <1>2, <1>7, <1>8, FilledKept

LEMMA RemovalFilled ==
  ASSUME Disciplined, TreeInv, Filled, NEW k \in Keys, Removal(k)
  PROVE  Filled'
<1> DEFINE at == Search(k)
           l  == at.leaf
           pg == pages[l]
           c  == RemoveFromLeaf(pg, at.index)
<1>1. Nodes(pages)
  BY DEF TreeInv
<1>2. LeafPages(pages') = LeafPages(pages)
  BY RemovalLinks DEF LinksKept
<1>3. RemoveKey(k, at) \/ RemoveNothing(k, at) \/ RemoveThrows(k, at)
  BY DEF Removal
<1>4. call' = call
  BY <1>3 DEF RemoveKey, RemoveNothing, RemoveThrows
<1>5. l \in DOMAIN pages /\ PageOK(pg) /\ at.index \in 0 .. pg.slotCount /\ pg.slotCount \in Nat
  <2>1. l \in DOMAIN pages /\ at.index \in 0 .. pg.slotCount
    BY <1>1, SearchIs
  <2>2. PageOK(pg)
    BY <1>1, <2>1 DEF Nodes, NodeOK
  <2> QED BY <2>1, <2>2, PageFields DEF PageOK
<1>6. CASE pages' = pages
  BY <1>2, <1>4, <1>6, FilledKept
<1>7. CASE pages' = Searched
  BY <1>2, <1>4, <1>7, SearchedSlots, FilledKept DEF LeafPages
<1>8. CASE RemoveKey(k, at) /\ pg.slotCount # 0
  <2>1. pg.slotCount # 1 /\ pages' = [pages EXCEPT ![l] = c]
    BY <1>8 DEF RemoveKey, Disciplined
  <2> HIDE DEF at, pg
  <2>2. c.slotCount = pg.slotCount - 1
    BY <1>5, <1>8, RemoveFromLeafIs
  <2> HIDE DEF c
  <2>3. c.slotCount # 0
    BY <1>5, <2>1, <2>2
  <2>4. pages'[l] = c /\ \A p \in DOMAIN pages \ {l} : pages'[p] = pages[p]
    BY <1>5, <2>1
  <2>5. \A p \in LeafPages(pages) : pages'[p].slotCount = 0 => pages[p].slotCount = 0
    BY <2>3, <2>4 DEF LeafPages
  <2> QED BY <1>2, <1>4, <2>5, FilledKept
<1> QED BY <1>3, <1>6, <1>7, <1>8 DEF RemoveKey, RemoveNothing, RemoveThrows

LEMMA SplitLeafFilled ==
  ASSUME TreeInv, Filled, Ready, NEW R, InOrder(pages, call, R),
         NEW k \in Keys, SplitLeaf(k, Search(k))
  PROVE  Filled'
<1> DEFINE at  == Search(k)
           l   == at.leaf
           pg  == pages[l]
           r   == NextPageNum
           new == LeafSplit(k, at)
           qs  == pages'
<1>1. /\ NeedsSplit(k, at) /\ Nodes(pages) /\ ~call.active
      /\ new.stay > 0 /\ FreeSpace(new.right) >= 0
  BY DEF SplitLeaf, TreeInv, Ready
<1>2. /\ l \in DOMAIN pages /\ PageOK(pg) /\ pg.level = 0 /\ pg.seps = <<>> /\ pg.slotCount > 0
      /\ at.index \in 0 .. pg.slotCount /\ MustSplit(pg, k)
      /\ r \in PageNum /\ DOMAIN pages \subseteq PageNum
  BY <1>1, SplitLeafIs
<1>3. r \notin DOMAIN pages /\ 0 .. r = DOMAIN pages \cup {r}
  BY <1>1, NextPageIs DEF NeedsSplit
<1>4. qs = [p \in 0 .. r |->
                 IF p = l THEN new.left ELSE IF p = r THEN new.right
                 ELSE IF p = pages[l].next THEN Relinked(p, r) ELSE pages[p]]
  BY DEF SplitLeaf
<1>5. PICK split \in 0 .. pg.slotCount :
        Halves(new, InsertAt(LiveKeys(pg), at.index + 1, k), split)
  BY <1>2, LeafSplitIs
<1>6. LiveKeys(pg) \in Seq(Keys) /\ Len(LiveKeys(pg)) = pg.slotCount /\ pg.slotCount \in Nat
  BY <1>2, LiveKeysType, PageFields DEF PageOK
<1>7. Len(InsertAt(LiveKeys(pg), at.index + 1, k)) = pg.slotCount + 1
  <2> DEFINE ks == LiveKeys(pg)
  <2>1. at.index + 1 \in 1 .. Len(ks) + 1
    BY <1>2, <1>6
  <2> QED BY <1>6, <2>1, InsertAtIs
<1>8. new.left.slotCount # 0 /\ new.right.slotCount # 0
  <2>1. split > 0 /\ new.left.slotCount = split
    BY <1>1, <1>5 DEF Halves
  <2>2. new.right.slotCount = (pg.slotCount + 1) - split
    BY <1>1, <1>5, <1>7 DEF Halves
  <2> QED BY <1>5, <1>6, <2>1, <2>2
<1> HIDE DEF new, qs
<1>9. /\ DOMAIN qs = DOMAIN pages \cup {r} /\ qs[l] = new.left /\ qs[r] = new.right
      /\ \A p \in DOMAIN pages \ {l} :
           qs[p] = IF p = pages[l].next THEN Relinked(p, r) ELSE pages[p]
  BY <1>2, <1>3, <1>4
<1> HIDE DEF r, l
<1>10. \A p \in LeafPages(pages) : pages[p].slotCount # 0
  <2> SUFFICES ASSUME NEW p \in LeafPages(pages), pages[p].slotCount = 0 PROVE FALSE
    OBVIOUS
  <2>1. p = root_
    BY DEF Filled
  <2>2. l \in LeafPages(pages)
    BY <1>2 DEF LeafPages, Inner
  <2>3. l = root_
    BY <1>1, <2>1, <2>2, RootAlone
  <2> QED BY <1>2, <2>1, <2>3
<1>11. ASSUME NEW p \in LeafPages(qs) PROVE qs[p].slotCount # 0
  <2>1. CASE p = l \/ p = r
    BY <1>8, <1>9, <2>1
  <2>2. CASE p # l /\ p # r
    <3>1. p \in DOMAIN pages \ {l}
      BY <1>9, <2>2 DEF LeafPages
    <3>2. (Inner(qs[p]) <=> Inner(pages[p])) /\ qs[p].slotCount = pages[p].slotCount
      <4>1. pages[p] \in Page
        BY <1>1, <3>1 DEF Nodes, NodeOK, PageOK
      <4>2. (Inner(Relinked(p, r)) <=> Inner(pages[p]))
            /\ Relinked(p, r).slotCount = pages[p].slotCount
        BY <4>1 DEF Relinked, Page, Inner
      <4> QED BY <1>9, <3>1, <4>2
    <3>3. p \in LeafPages(pages)
      BY <1>11, <3>1, <3>2 DEF LeafPages
    <3> QED BY <1>10, <3>2, <3>3
  <2> QED BY <2>1, <2>2
<1> QED BY <1>11 DEF Filled, qs

LEMMA SplitInnerFilled ==
  ASSUME TreeInv, Filled, SplitInner
  PROVE  Filled'
<1> DEFINE P   == Parent
           pg  == pages[P]
           r   == NextPageNum
           lft == LeftInner
           rgt == RightInner
           qs  == pages'
<1>1. /\ Climbing /\ call.parents # <<>> /\ r <= MaxPage /\ Nodes(pages) /\ call.active
      /\ qs = [q \in 0 .. r |-> IF q = P THEN lft ELSE IF q = r THEN rgt ELSE pages[q]]
  BY DEF SplitInner, NeedsInnerSplit, TreeInv, Climbing
<1>2. P \in DOMAIN pages /\ Inner(pg) /\ pg \in Page
  BY <1>1, ParentIs DEF Inner, PageOK
<1>3. r \notin DOMAIN pages /\ 0 .. r = DOMAIN pages \cup {r}
  BY <1>1, NextPageIs
<1>4. rgt.level = pg.level
  BY DEF RightInner, NewPage
<1>5. lft.level = pg.level
  BY <1>2 DEF LeftInner, InsertIntoInner, Page
<1> HIDE DEF P, r, lft, rgt, qs
<1>6. /\ DOMAIN qs = DOMAIN pages \cup {r} /\ qs[P] = lft /\ qs[r] = rgt
      /\ \A p \in DOMAIN pages \ {P} : qs[p] = pages[p]
  BY <1>1, <1>2, <1>3
<1>7. Inner(qs[P]) /\ Inner(qs[r])
  BY <1>2, <1>4, <1>5, <1>6 DEF Inner
<1>8. LeafPages(qs) = LeafPages(pages)
  BY <1>2, <1>3, <1>6, <1>7 DEF LeafPages
<1>9. \A p \in LeafPages(pages) : p \in DOMAIN pages \ {P} /\ qs[p] = pages[p]
  BY <1>2, <1>6 DEF LeafPages
<1> QED BY <1>1, <1>8, <1>9, FilledKept DEF qs

LEMMA InsertSeparatorFilled ==
  ASSUME TreeInv, Filled, InsertSeparator
  PROVE  Filled'
<1> DEFINE P == Parent
           c == InsertIntoInner(pages[P], ParentIndex, call.key, call.left, call.right)
<1>1. Climbing /\ call.parents # <<>> /\ pages' = [pages EXCEPT ![P] = c] /\ ~call'.active
  BY DEF InsertSeparator, NoCall
<1>2. P \in DOMAIN pages /\ Inner(pages[P])
  BY <1>1, ParentIs DEF Inner
<1> HIDE DEF P, c
<1>3. \A p \in LeafPages(pages) : pages'[p] = pages[p]
  BY <1>1, <1>2 DEF LeafPages
<1>4. LeafPages(pages') = LeafPages(pages)
  BY InsertSeparatorLinks DEF LinksKept
<1> QED BY <1>1, <1>3, <1>4, FilledKept

LEMMA PromoteRootFilled ==
  ASSUME TreeInv, TreeInv', Filled, PromoteRoot
  PROVE  Filled'
<1> DEFINE pg  == pages[root_]
           r   == NextPageNum
           x   == call.right
           new == PromotedRoot(r)
           cp  == RootCopy
           qs  == pages'
<1>1. /\ Climbing /\ call.parents = <<>> /\ r <= MaxPage /\ call' = NoCall
      /\ Nodes(pages) /\ Nodes(qs) /\ call.active
      /\ qs = [p \in 0 .. r |->
                 IF p = root_ THEN new
                 ELSE IF p = r THEN cp
                 ELSE IF p = x /\ pages[p].level = 0 THEN Relinked(p, r)
                 ELSE pages[p]]
  BY DEF PromoteRoot, TreeInv, Climbing
<1>2. /\ r \in PageNum /\ r \notin DOMAIN pages /\ 0 .. r = DOMAIN pages \cup {r}
      /\ DOMAIN pages \subseteq PageNum /\ root_ \in DOMAIN pages /\ r # root_
  BY <1>1, NextPageIs
<1>3. /\ call.key \in Keys /\ x \in DOMAIN pages \ {root_}
      /\ Len(Cells(LiveKeys(pg))) <= Len(pg.area)
  <2>1. call.left = root_ /\ CallOK(pages, call)
    BY <1>1 DEF TreeInv, CallOK, IsWayTo
  <2> QED BY <1>1, <2>1 DEF CallOK
<1>4. PageOK(pg) /\ pg \in Page
  BY <1>1, <1>2 DEF Nodes, NodeOK, PageOK
<1>5. pg.level \in Nat /\ pg.room <= Usable /\ r \in PageLink /\ x \in PageLink
  <2>1. pg.room \in {ZeroUsable, Usable}
    BY <1>4 DEF Page
  <2>2. pg.room <= Usable
    BY <2>1, SlotsAssumption
  <2> QED BY <1>2, <1>3, <1>4, <2>2, PageFields DEF PageLink
<1>6. cp.level = pg.level /\ cp.slotCount = pg.slotCount
  BY <1>3, <1>4, <1>5, RootCopyIs
<1>7. new.level = pg.level + 1 /\ new.seps # <<>>
  BY <1>3, <1>5, PromotedRootIs
<1> HIDE DEF new, cp, r, qs
<1>8. /\ DOMAIN qs = DOMAIN pages \cup {r} /\ qs[root_] = new /\ qs[r] = cp
      /\ \A p \in DOMAIN pages \ {root_} :
           qs[p] = IF p = x /\ pages[p].level = 0 THEN Relinked(p, r) ELSE pages[p]
  BY <1>1, <1>2
<1>9. Inner(qs[root_])
  <2>1. NodeOK(qs, root_)
    BY <1>1, <1>2, <1>8 DEF Nodes
  <2> QED BY <1>5, <1>7, <1>8, <2>1 DEF NodeOK, Inner
<1>10. \A p \in LeafPages(pages) : pages[p].slotCount # 0
  BY <1>1 DEF Filled
<1>11. ASSUME NEW p \in LeafPages(qs) PROVE qs[p].slotCount # 0
  <2>1. p \in DOMAIN qs /\ p # root_ /\ ~Inner(qs[p])
    BY <1>9, <1>11 DEF LeafPages
  <2>2. CASE p = r
    <3>1. root_ \in LeafPages(pages)
      BY <1>2, <1>6, <1>8, <2>1, <2>2 DEF LeafPages, Inner
    <3> QED BY <1>6, <1>8, <1>10, <2>2, <3>1
  <2>3. CASE p # r
    <3>1. p \in DOMAIN pages \ {root_}
      BY <1>8, <2>1, <2>3
    <3>2. (Inner(qs[p]) <=> Inner(pages[p])) /\ qs[p].slotCount = pages[p].slotCount
      <4>1. pages[p] \in Page
        BY <1>1, <3>1 DEF Nodes, NodeOK, PageOK
      <4>2. (Inner(Relinked(p, r)) <=> Inner(pages[p]))
            /\ Relinked(p, r).slotCount = pages[p].slotCount
        BY <4>1 DEF Relinked, Page, Inner
      <4> QED BY <1>8, <3>1, <4>2
    <3>3. p \in LeafPages(pages)
      BY <2>1, <3>1, <3>2 DEF LeafPages
    <3> QED BY <1>10, <3>2, <3>3
  <2> QED BY <2>2, <2>3
<1> QED BY <1>11 DEF Filled, qs

\* No step empties a leaf.
LEMMA StepFilled ==
  ASSUME Disciplined, ChainInv, Filled, [TreeNext]_treeVars \/ QuietStep, TreeInv'
  PROVE  Filled'
<1>1. TreeInv /\ Orderly
  BY DEF ChainInv, Disciplined
<1>2. PICK R : InOrder(pages, call, R)
  BY DEF ChainInv, ChainIn
<1>3. ASSUME pages' = pages, call' = call \/ ~call'.active PROVE Filled'
  BY <1>3, FilledKept
<1>4. ASSUME QuietStep PROVE Filled'
  <2>1. CASE pages' = pages
    BY <1>3, <1>4, <2>1 DEF QuietStep
  <2>2. CASE pages' = Searched
    BY <1>1, <1>4, <2>2, SearchedSlots, FilledKept DEF QuietStep, LeafPages
  <2> QED BY <1>4, <2>1, <2>2 DEF QuietStep
<1>5. CASE UNCHANGED treeVars
  BY <1>3, <1>5 DEF treeVars
<1>6. ASSUME NEW k \in Keys, Insertion(k) PROVE Filled'
  <2> DEFINE at == Search(k)
  <2>1. Ready
    BY <1>6 DEF Insertion, MayInsert
  <2>2. \/ InsertKey(k, at) \/ InsertThrows(k, at) \/ InsertAborts(k, at)
        \/ SplitLeaf(k, at) \/ SplitLeafDies(k, at) \/ SplitLeafFails(k, at)
    BY <1>6 DEF Insertion
  <2>3. CASE InsertKey(k, at)
    BY <1>1, <2>3, InsertKeyFilled
  <2>4. CASE InsertThrows(k, at)
    BY <1>3, <2>4 DEF InsertThrows
  <2>5. CASE InsertAborts(k, at)
    BY <1>3, <2>5 DEF InsertAborts
  <2>6. CASE SplitLeaf(k, at)
    BY <1>1, <1>2, <2>1, <2>6, SplitLeafFilled
  <2>7. CASE SplitLeafDies(k, at)
    BY <1>3, <2>7 DEF SplitLeafDies
  <2>8. ~SplitLeafFails(k, at)
    BY <1>1 DEF SplitLeafFails, Orderly
  <2> QED BY <2>2, <2>3, <2>4, <2>5, <2>6, <2>7, <2>8
<1>7. ASSUME NEW k \in Keys, Removal(k) PROVE Filled'
  BY <1>1, <1>7, RemovalFilled
<1>8. ASSUME InsertStep PROVE Filled'
  <2>1. CASE InsertSeparator
    BY <1>1, <2>1, InsertSeparatorFilled
  <2>2. CASE SplitInner
    BY <1>1, <2>2, SplitInnerFilled
  <2>3. CASE SplitInnerAborts
    BY <1>3, <2>3 DEF SplitInnerAborts
  <2>4. CASE PromoteRoot
    BY <1>1, <2>4, PromoteRootFilled
  <2>5. ~ClimbFails
    BY <1>1 DEF ClimbFails, Orderly
  <2> QED BY <1>8, <2>1, <2>2, <2>3, <2>4, <2>5 DEF InsertStep
<1>9. ~SearchFails
  BY <1>1 DEF SearchFails, Orderly
<1> QED BY <1>4, <1>5, <1>6, <1>7, <1>8, <1>9 DEF TreeNext

-----------------------------------------------------------------------------
(* seek, first and last. *)

\* The root has no entries and no separators: neither has the tree any.
LEMMA EmptyTree ==
  ASSUME NEW R, Sorted(R), ~call.active, EmptyRoot
  PROVE  \A m, j, y : ~EntryIs(m, j, y)
<1>1. TreeInv /\ InOrder(pages, call, R) /\ root_ \in DOMAIN pages /\ NodeOK(pages, root_)
  BY DomainIs DEF Sorted, TreeInv, Nodes
<1>2. pages[root_].seps \in Seq([key : Keys, child : PageLink])
  BY <1>1 DEF NodeOK, PageOK, Page
<1>3. pages[root_].seps = <<>> /\ pages[root_].slotCount = 0
  BY <1>2 DEF EmptyRoot, SepCount
<1>4. root_ \in LeafPages(pages)
  BY <1>1, <1>3 DEF NodeOK, LeafPages, Inner
<1> SUFFICES ASSUME NEW m, NEW j, NEW y, EntryIs(m, j, y) PROVE FALSE
  OBVIOUS
<1>5. m \in LeafPages(pages) /\ j \in 1 .. pages[m].slotCount
  BY DEF EntryIs
<1>6. m = root_
  BY <1>1, <1>4, <1>5, RootAlone
<1> QED BY <1>3, <1>5, <1>6

\* Otherwise every leaf has entries.
LEMMA LeafFull ==
  ASSUME TreeInv, Filled, ~EmptyRoot
  PROVE  LeavesFull /\ \A l \in LeafPages(pages) : pages[l].slotCount \in Nat
<1> SUFFICES ASSUME NEW l \in LeafPages(pages)
             PROVE  pages[l].slotCount > 0 /\ pages[l].slotCount \in Nat
  BY DEF LeavesFull
<1>1. l \in DOMAIN pages /\ NodeOK(pages, l) /\ pages[l].level \in {0, INVALID_TREE_LEVEL}
  BY DEF TreeInv, Nodes, LeafPages, Inner
<1>2. pages[l].slotCount \in Nat
  BY <1>1, PageFields DEF NodeOK, PageOK
<1>3. pages[l].seps = <<>>
  BY <1>1 DEF NodeOK
<1>4. ASSUME pages[l].slotCount = 0 PROVE FALSE
  <2>1. l = root_
    BY <1>4 DEF Filled
  <2> QED BY <1>3, <1>4, <2>1 DEF EmptyRoot, SepCount
<1> QED BY <1>2, <1>4

\* first moves the cursor to the lowest key.
LEMMA FirstMoves ==
  ASSUME NEW R, Sorted(R), Filled, FirstCursor
  PROVE  /\ CursorKey' = Map!Lowest(ToSet(Scan))
         /\ cursor'.valid => cursor'.slot < pages[cursor'.leaf].slotCount
<1>1. TreeInv /\ InOrder(pages, call, R) /\ Chained(pages, R) /\ ScanIsKeys
  BY DEF Sorted
<1>2. pages' = pages /\ ~call.active
  BY DEF FirstCursor, Ready
<1>3. {y \in ToSet(Scan) : y \in Keys} = ToSet(Scan)
  BY <1>1 DEF ScanIsKeys, ToSet
<1>4. CASE EmptyRoot
  <2>1. cursor' = NoCursor
    BY <1>4 DEF FirstCursor, Return
  <2>2. {y \in ToSet(Scan) : y \in Keys} = {}
    BY <1>2, <1>4, EmptyTree, NothingIs
  <2>3. Map!Lowest(ToSet(Scan)) = NoKey
    BY <1>3, <2>2 DEF Map!Lowest
  <2> QED BY <2>1, <2>3, KeyAtNone DEF NoCursor
<1>5. CASE ~EmptyRoot
  <2> DEFINE q == FirstLeaf
             z == KeyAt(pages[q], 0)
  <2>1. cursor' = CursorAt(q, 0)
    BY <1>5 DEF FirstCursor, Return
  <2>2. q \in LeafPages(pages)
    BY <1>1, FirstIs
  <2>3. pages[q].slotCount > 0 /\ pages[q].slotCount \in Nat
    BY <1>1, <1>5, <2>2, LeafFull DEF LeavesFull
  <2>4. EntryIs(q, 1, KeyAt(pages[q], 1 - 1))
    BY <2>2, <2>3, SlotEntry
  <2>5. EntryIs(q, 1, z)
    BY <2>4
  <2>6. \A m \in LeafPages(pages) \ {q} : AllBelow(R[q], R[m])
    BY <1>1, FirstLowest
  <2> HIDE DEF z, q
  <2>7. z \in Keys
    BY <1>1, <2>5, EntryFacts
  <2>8. ASSUME NEW j, NEW y, j < 1, EntryIs(q, j, y) PROVE y \notin Keys
    <3>1. j \in 1 .. pages[q].slotCount
      BY <2>8 DEF EntryIs
    <3> QED BY <2>8, <3>1
  <2>9. ASSUME NEW m \in LeafPages(pages) \ {q}, AllBelow(R[m], R[q]), NEW j, NEW y,
               EntryIs(m, j, y)
        PROVE  y \notin Keys
    BY <2>5, <2>6, <2>9, EntriesApart
  <2>10. Map!Lowest({y \in ToSet(Scan) : y \in Keys}) = z
    BY <2>5, <2>7, <2>8, <2>9, LowestIs
  <2>11. CursorKey' = z
    BY <1>2, <2>1, KeyAtCursor DEF z
  <2>12. cursor'.leaf = q /\ cursor'.slot = 0
    BY <2>1 DEF CursorAt
  <2> QED BY <1>3, <2>3, <2>10, <2>11, <2>12
<1> QED BY <1>4, <1>5

\* last moves it to the highest.
LEMMA LastMoves ==
  ASSUME NEW R, Sorted(R), Filled, LastCursor
  PROVE  /\ CursorKey' = Map!Highest(ToSet(Scan))
         /\ cursor'.valid => cursor'.slot < pages[cursor'.leaf].slotCount
<1>1. TreeInv /\ InOrder(pages, call, R) /\ Chained(pages, R) /\ ScanIsKeys
  BY DEF Sorted
<1>2. pages' = pages /\ ~call.active
  BY DEF LastCursor, Ready
<1>3. {y \in ToSet(Scan) : y \in Keys} = ToSet(Scan)
  BY <1>1 DEF ScanIsKeys, ToSet
<1>4. CASE EmptyRoot
  <2>1. cursor' = NoCursor
    BY <1>4 DEF LastCursor, Return
  <2>2. {y \in ToSet(Scan) : y \in Keys} = {}
    BY <1>2, <1>4, EmptyTree, NothingIs
  <2>3. Map!Highest(ToSet(Scan)) = NoKey
    BY <1>3, <2>2 DEF Map!Highest
  <2> QED BY <2>1, <2>3, KeyAtNone DEF NoCursor
<1>5. CASE ~EmptyRoot
  <2> DEFINE q == LastLeaf
             n == pages[q].slotCount
             z == KeyAt(pages[q], n - 1)
  <2>1. q \in LeafPages(pages)
    BY <1>1, <1>2, LastIs
  <2>2. n > 0 /\ n \in Nat
    BY <1>1, <1>5, <2>1, LeafFull DEF LeavesFull
  <2>3. cursor' = CursorAt(q, n - 1)
    BY <1>5, <2>2 DEF LastCursor, Return
  <2>4. n \in 1 .. n
    BY <2>2
  <2>5. EntryIs(q, n, z)
    BY <2>1, <2>4, SlotEntry
  <2>6. \A m \in LeafPages(pages) \ {q} : AllBelow(R[m], R[q])
    BY <1>1, <1>2, LastHighest
  <2> HIDE DEF z, q
  <2>7. z \in Keys
    BY <1>1, <2>5, EntryFacts
  <2>8. ASSUME NEW j, NEW y, n < j, EntryIs(q, j, y) PROVE y \notin Keys
    <3>1. j \in 1 .. n
      BY <2>8 DEF EntryIs
    <3> QED BY <2>2, <2>8, <3>1
  <2>9. ASSUME NEW m \in LeafPages(pages) \ {q}, AllBelow(R[q], R[m]), NEW j, NEW y,
               EntryIs(m, j, y)
        PROVE  y \notin Keys
    BY <2>5, <2>6, <2>9, EntriesApart
  <2>10. Map!Highest({y \in ToSet(Scan) : y \in Keys}) = z
    BY <2>5, <2>7, <2>8, <2>9, HighestIs
  <2>11. CursorKey' = z
    BY <1>2, <2>3, KeyAtCursor DEF z
  <2>12. cursor'.leaf = q /\ cursor'.slot = n - 1 /\ n - 1 < n
    BY <2>2, <2>3 DEF CursorAt
  <2>13. cursor'.slot < pages[cursor'.leaf].slotCount
    BY <2>12
  <2> QED BY <1>3, <2>10, <2>11, <2>13
<1> QED BY <1>4, <1>5

\* The keys not below k.
FromKey(k) == {y \in Keys : y >= k}

LEMMA FromIs ==
  ASSUME ScanIsKeys, NEW k
  PROVE  {y \in ToSet(Scan) : y \in FromKey(k)} = {j \in ToSet(Scan) : j >= k}
<1>1. ToSet(Scan) \subseteq Keys
  BY DEF ScanIsKeys, ToSet
<1> QED BY <1>1 DEF FromKey

\* seek moves it to the first key that is not below the one it is given.
LEMMA SeekMoves ==
  ASSUME Disciplined, NEW R, Sorted(R), NEW k \in Keys, SeekCursor(k)
  PROVE  /\ CursorKey' = Map!Lowest({y \in ToSet(Scan) : y \in FromKey(k)})
         /\ cursor'.valid => cursor'.slot < pages'[cursor'.leaf].slotCount
<1> DEFINE at == Search(k)
           l  == at.leaf
           pg == pages[l]
           i  == at.index
           ks == LiveKeys(pg)
           z  == KeyAt(pg, i)
<1>1. TreeInv /\ InOrder(pages, call, R) /\ Nodes(pages)
  BY DEF Sorted, TreeInv
<1>2. /\ Ready /\ ~Separator(k) /\ i < pg.slotCount
      /\ pages' = Searched /\ cursor' = CursorAt(l, i)
  BY DEF SeekCursor, Return, Disciplined, Orderly
<1>3. \A p \in DOMAIN pages : \A j \in 1 .. SepCount(pages[p]) : pages[p].seps[j].key # k
  BY <1>1, <1>2, SeparatorIs
<1>4. l \in DOMAIN pages /\ k \in R[l]
  BY <1>1, <1>2, <1>3, LeafOwns
<1>5. i \in 0 .. pg.slotCount /\ pg.level \in {0, INVALID_TREE_LEVEL} /\ l \in LeafPages(pages)
  BY <1>1, SearchIs DEF LeafPages, Inner
<1>6. PageOK(pg) /\ LeafIn(pg, R[l]) /\ pg.slotCount \in Nat
  <2>1. PageOK(pg)
    BY <1>1, <1>4 DEF Nodes, NodeOK
  <2> QED BY <1>1, <1>4, <2>1, PageFields DEF InOrder, PageOK
<1>7. i \in Nat /\ pg.slotCount > 0 /\ i + 1 \in 1 .. pg.slotCount /\ (i + 1) - 1 = i
  BY <1>2, <1>5, <1>6
<1>8. pages'[l] = pg
  BY <1>1, <1>2, <1>7, SearchedIs
<1>9. CursorKey' = z
  BY <1>2, <1>8 DEF CursorKey, CursorAt
<1>10. EntryIs(l, i + 1, KeyAt(pages[l], (i + 1) - 1))
  BY <1>5, <1>7, SlotEntry
<1>11. EntryIs(l, i + 1, z)
  BY <1>7, <1>10
<1>12. Keys \subseteq Int /\ k \in Int
  BY SlotsAssumption
<1>13. /\ \A j \in 1 .. i : ks[j] < k
       /\ \A j \in i + 1 .. pg.slotCount : ks[j] >= k
  <2>1. ks \in Seq(Keys) /\ Len(ks) = pg.slotCount /\ Ascending(ks)
    BY <1>6, LeafAscending
  <2>2. i = SearchIn(ks, k)
    BY DEF Search
  <2> HIDE DEF ks, i
  <2>3. ks \in Seq(Int)
    <3>1. ks \in [1 .. Len(ks) -> Keys] /\ Len(ks) \in Nat
      BY <2>1
    <3>2. ks \in [1 .. Len(ks) -> Int]
      BY <1>12, <3>1
    <3> QED BY <3>1, <3>2, SeqDef
  <2>4. \A a, b \in 1 .. Len(ks) : a < b => ks[a] < ks[b]
    BY <2>1 DEF Ascending
  <2>5. /\ \A j \in 1 .. SearchIn(ks, k) : ks[j] < k
        /\ \A j \in SearchIn(ks, k) + 1 .. Len(ks) : ks[j] >= k
    BY <1>12, <2>3, <2>4, SearchSeparates
  <2> QED BY <2>1, <2>2, <2>5
<1> HIDE DEF z, at
<1>14. z \in FromKey(k)
  <2>1. z \in Keys /\ z = ks[i + 1]
    BY <1>1, <1>11, EntryFacts DEF EntryIs
  <2>2. i + 1 \in i + 1 .. pg.slotCount
    BY <1>7
  <2> QED BY <1>13, <2>1, <2>2 DEF FromKey
<1>15. ASSUME NEW j, NEW y, j < i + 1, EntryIs(l, j, y) PROVE y \notin FromKey(k)
  <2>1. j \in 1 .. pg.slotCount /\ ks[j] = y /\ y \in Int
    BY <1>1, <1>15, EntryFacts DEF EntryIs
  <2>2. j \in 1 .. i
    BY <1>6, <1>7, <1>15, <2>1
  <2>3. y < k
    BY <1>13, <2>1, <2>2
  <2> QED BY <1>12, <2>1, <2>3 DEF FromKey
<1>16. ASSUME NEW m \in LeafPages(pages) \ {l}, AllBelow(R[m], R[l]), NEW j, NEW y,
              EntryIs(m, j, y)
       PROVE  y \notin FromKey(k)
  <2>1. y \in R[m] /\ y \in Int
    BY <1>1, <1>16, EntryFacts
  <2>2. y < k
    BY <1>4, <1>16, <2>1 DEF AllBelow
  <2> QED BY <1>12, <2>1, <2>2 DEF FromKey
<1>17. Map!Lowest({y \in ToSet(Scan) : y \in FromKey(k)}) = z
  BY <1>11, <1>14, <1>15, <1>16, LowestIs
<1>18. cursor'.leaf = l /\ cursor'.slot = i
  BY <1>2 DEF CursorAt
<1> QED BY <1>2, <1>8, <1>9, <1>17, <1>18

-----------------------------------------------------------------------------
(* The tree under a cursor is a sorted map. *)

\* A disciplined client's cursor is at an entry, in a tree whose leaves have entries.
MapInv == CursorInv /\ Filled /\ (cursor.valid => OnEntry)

LEMMA MapInitInv == Init => MapInv
<1> SUFFICES ASSUME Init PROVE MapInv
  OBVIOUS
<1>1. CursorInv
  BY CursorInit
<1>2. DOMAIN pages = {root_} /\ ~call.active /\ ~cursor.valid
  BY DEF Init, TreeInit, NoCall, NoCursor
<1>3. Filled
  BY <1>2 DEF Filled, LeafPages
<1> QED BY <1>1, <1>2, <1>3 DEF MapInv

\* Where a cursor that is entered into a leaf is.
LEMMA EnterPlace ==
  ASSUME NEW l, NEW i, Enter(l, i).valid,
         l # INVALID_PAGE /\ pages[l].slotCount # 0 => i < pages[l].slotCount
  PROVE  Enter(l, i).slot < pages[Enter(l, i).leaf].slotCount
<1>1. ~(l = INVALID_PAGE \/ pages[l].slotCount = 0)
  BY DEF Enter, NoCursor
<1>2. Enter(l, i) = CursorAt(l, i)
  BY <1>1 DEF Enter
<1> QED BY <1>1, <1>2 DEF CursorAt

\* next and prev leave the cursor at an entry, or at none.
LEMMA MovedOnEntry ==
  ASSUME CursorInv, OnEntry, NextEntry \/ PrevEntry, cursor'.valid
  PROVE  cursor'.slot < pages[cursor'.leaf].slotCount
<1> DEFINE l == cursor.leaf
           i == cursor.slot
<1>1. TreeInv /\ CursorTypeOK /\ Backed(pages) /\ \E R : Chained(pages, R)
  BY DEF CursorInv, ChainInv, ChainIn
<1>2. /\ l \in LeafPages(pages) /\ i \in Nat /\ pages[l].slotCount \in Nat
      /\ cursor = CursorAt(l, i) /\ i < pages[l].slotCount
  BY <1>1, CursorPlace DEF OnEntry
<1>3. \A m \in LeafPages(pages) : pages[m].slotCount \in Nat
  <2> SUFFICES ASSUME NEW m \in LeafPages(pages) PROVE pages[m].slotCount \in Nat
    OBVIOUS
  <2>1. PageOK(pages[m])
    BY <1>1 DEF LeafPages, TreeInv, Nodes, NodeOK
  <2> QED BY <2>1, PageFields DEF PageOK
<1>4. /\ pages[l].next # INVALID_PAGE => pages[l].next \in LeafPages(pages)
      /\ pages[l].prev # INVALID_PAGE => pages[l].prev \in LeafPages(pages)
  BY <1>1, <1>2 DEF Chained, Backed
<1>5. CASE NextEntry
  <2>1. CASE i < pages[l].slotCount - 1
    <3>1. cursor' = [CursorAt(l, i) EXCEPT !.slot = @ + 1]
      BY <1>2, <1>5, <2>1 DEF NextEntry, Return
    <3>2. cursor'.leaf = l /\ cursor'.slot = i + 1
      BY <3>1 DEF CursorAt
    <3> QED BY <1>2, <2>1, <3>2
  <2>2. CASE ~(i < pages[l].slotCount - 1)
    <3>1. cursor' = Enter(pages[l].next, 0)
      BY <1>5, <2>2 DEF NextEntry, Return
    <3>2. pages[l].next # INVALID_PAGE /\ pages[pages[l].next].slotCount # 0 =>
            0 < pages[pages[l].next].slotCount
      BY <1>3, <1>4
    <3> QED BY <3>1, <3>2, EnterPlace
  <2> QED BY <2>1, <2>2
<1>6. CASE PrevEntry
  <2> DEFINE m == pages[l].prev
             n == pages[m].slotCount
  <2>1. cursor' = Before
    BY <1>6 DEF PrevEntry, Return
  <2>2. CASE i > 0
    <3>1. cursor' = [CursorAt(l, i) EXCEPT !.slot = @ - 1]
      BY <1>2, <2>1, <2>2 DEF Before
    <3>2. cursor'.leaf = l /\ cursor'.slot = i - 1 /\ i - 1 < pages[l].slotCount
      BY <1>2, <3>1 DEF CursorAt
    <3> QED BY <3>2
  <2>3. CASE ~(i > 0)
    <3>1. m # INVALID_PAGE /\ cursor' = Enter(m, n - 1)
      BY <2>1, <2>3 DEF Before, NoCursor
    <3>2. n - 1 < n
      BY <1>3, <1>4, <3>1
    <3> QED BY <3>1, <3>2, EnterPlace
  <2> QED BY <2>2, <2>3
<1> QED BY <1>5, <1>6

\* An entry of a tree that has one is not in an empty root: all leaves have entries.
LEMMA OnEntryFull ==
  ASSUME MapInv, Ready, cursor.valid
  PROVE  OnEntry /\ LeavesFull
<1>1. TreeInv /\ CursorTypeOK /\ OnEntry /\ ~call.active /\ \E R : Sorted(R)
  BY SortedIs DEF MapInv, CursorInv, ChainInv, Ready
<1>2. EntryIs(cursor.leaf, cursor.slot + 1, CursorKey)
  BY <1>1, CursorEntry
<1>3. ~EmptyRoot
  BY <1>1, <1>2, EmptyTree
<1> QED BY <1>1, <1>3, LeafFull DEF MapInv

\* A quiet step changes none.
LEMMA QuietKeys ==
  ASSUME ChainInv, QuietStep \/ UNCHANGED pages, ScanIsKeys'
  PROVE  ToSet(Scan)' = ToSet(Scan)
<1>1. TreeInv /\ ScanIsKeys
  BY InvImpliesScanIsKeys DEF ChainInv
<1>2. PICK R : InOrder(pages, call, R)
  BY DEF ChainInv, ChainIn
<1>3. SameKeys(pages, pages')
  <2>1. CASE pages' = pages
    BY <2>1 DEF SameKeys
  <2>2. CASE QuietStep /\ pages' = Searched
    BY <1>1, <1>2, <2>2, SearchedOrder DEF QuietStep
  <2> QED BY <2>1, <2>2 DEF QuietStep
<1> QED BY <1>1, <1>3, KeysFollow

\* Each operation of the cursor is that of the map.
LEMMA MovesAsInMap ==
  ASSUME Disciplined, MapInv, ScanIsKeys'
  PROVE  /\ \A k \in Keys : SeekCursor(k) => Map!Seek(k)
         /\ FirstCursor => Map!First
         /\ LastCursor => Map!Latest
         /\ NextEntry => Map!Forward
         /\ PrevEntry => Map!Backward
<1>1. ChainInv /\ ChainLinked /\ CursorTypeOK /\ TreeInv /\ Filled
  BY InvImpliesLinked DEF MapInv, CursorInv, ChainInv
<1>2. PICK R : Sorted(R)
  BY <1>1, SortedIs
<1>3. ScanIsKeys /\ answer \in {"none", "ok", "yes", "no", "error", "throws"}
  BY <1>1, <1>2 DEF Sorted, TreeInv
<1>4. ASSUME NEW k \in Keys, SeekCursor(k) PROVE Map!Seek(k)
  <2>1. QuietStep
    BY <1>4 DEF SeekCursor, QuietStep, Return
  <2>2. CursorKey' = Map!Lowest({y \in ToSet(Scan) : y \in FromKey(k)})
    BY <1>2, <1>4, SeekMoves
  <2>3. ToSet(Scan)' = ToSet(Scan)
    BY <1>1, <2>1, QuietKeys
  <2>4. {y \in ToSet(Scan) : y \in FromKey(k)} = {j \in ToSet(Scan) : j >= k}
    BY <1>3, FromIs
  <2> QED BY <2>2, <2>3, <2>4, Zenon DEF Map!Seek, Map!MoveTo
<1>5. ASSUME UNCHANGED pages PROVE ToSet(Scan)' = ToSet(Scan)
  BY <1>1, <1>5, QuietKeys
<1>6. ASSUME FirstCursor PROVE Map!First
  <2>1. CursorKey' = Map!Lowest(ToSet(Scan))
    BY <1>1, <1>2, <1>6, FirstMoves
  <2>2. ToSet(Scan)' = ToSet(Scan)
    BY <1>5, <1>6 DEF FirstCursor
  <2> QED BY <2>1, <2>2, Zenon DEF Map!First, Map!MoveTo
<1>7. ASSUME LastCursor PROVE Map!Latest
  <2>1. CursorKey' = Map!Highest(ToSet(Scan))
    BY <1>1, <1>2, <1>7, LastMoves
  <2>2. ToSet(Scan)' = ToSet(Scan)
    BY <1>5, <1>7 DEF LastCursor
  <2> QED BY <2>1, <2>2, Zenon DEF Map!Latest, Map!MoveTo
<1>8. ASSUME NextEntry \/ PrevEntry
      PROVE  OnEntry /\ LeavesFull /\ CursorKey # NoKey /\ ToSet(Scan)' = ToSet(Scan)
  <2>1. Ready /\ cursor.valid /\ UNCHANGED pages
    BY <1>8 DEF NextEntry, PrevEntry
  <2>2. OnEntry /\ LeavesFull
    BY <2>1, OnEntryFull
  <2>3. CursorKey \in Keys
    BY <1>1, <1>2, <2>2, CursorEntry, EntryFacts DEF Sorted
  <2>4. CursorKey # NoKey
    BY <2>3, SlotsAssumption DEF NoKey
  <2> QED BY <1>5, <2>1, <2>2, <2>4
<1>9. /\ {y \in ToSet(Scan) : y \in AboveKey(CursorKey)} = {j \in ToSet(Scan) : j > CursorKey}
      /\ {y \in ToSet(Scan) : y \in BelowKey(CursorKey)} = {j \in ToSet(Scan) : j < CursorKey}
  BY <1>3, AboveIs
<1>10. ASSUME NextEntry PROVE Map!Forward
  <2>1. CursorKey' = Map!Lowest({y \in ToSet(Scan) : y \in AboveKey(CursorKey)})
    BY <1>1, <1>2, <1>8, <1>10, NextMoves
  <2>2. CursorKey' = Map!Lowest({j \in ToSet(Scan) : j > CursorKey})
    BY <1>9, <2>1, Zenon
  <2> QED BY <1>8, <1>10, <2>2, Zenon DEF Map!Forward, Map!MoveTo
<1>11. ASSUME PrevEntry PROVE Map!Backward
  <2>1. CursorKey' = Map!Highest({y \in ToSet(Scan) : y \in BelowKey(CursorKey)})
    BY <1>1, <1>2, <1>8, <1>11, PrevMoves
  <2>2. CursorKey' = Map!Highest({j \in ToSet(Scan) : j < CursorKey})
    BY <1>9, <2>1, Zenon
  <2> QED BY <1>8, <1>11, <2>2, Zenon DEF Map!Backward, Map!MoveTo
<1> QED BY <1>4, <1>6, <1>7, <1>10, <1>11

\* Every step keeps the invariant.
LEMMA StepMapInv ==
  ASSUME Disciplined, MapInv, [Next]_vars, LevelsFit'
  PROVE  MapInv'
<1>1. CursorInv /\ ChainInv /\ Filled /\ Orderly /\ (cursor.valid => OnEntry)
  BY DEF MapInv, CursorInv, Disciplined
<1>2. CursorInv'
  BY <1>1, StepCursorInv
<1>3. TreeInv'
  BY <1>2 DEF CursorInv, ChainInv
<1>4. Filled'
  BY <1>1, <1>3, NextKinds, StepFilled
<1>5. PICK R : Sorted(R)
  BY <1>1, SortedIs
<1> DEFINE AtEntry == cursor'.valid => cursor'.slot < pages'[cursor'.leaf].slotCount
<1>6. ASSUME UNCHANGED <<pages, cursor>> PROVE AtEntry
  BY <1>1, <1>6 DEF OnEntry
<1>7. ASSUME cursor' = NoCursor PROVE AtEntry
  BY <1>7 DEF NoCursor
<1>8. ASSUME UNCHANGED vars PROVE AtEntry
  BY <1>6, <1>8 DEF vars, treeVars
<1>9. ASSUME cursor = NoCursor, TreeNext, UNCHANGED cursor PROVE AtEntry
  BY <1>7, <1>9
<1>10. ASSUME NEW k \in Keys, SeekCursor(k) PROVE AtEntry
  BY <1>5, <1>10, SeekMoves
<1>11. ASSUME NEW k \in Keys, SeekThrows(k) PROVE AtEntry
  BY <1>6, <1>11 DEF SeekThrows
<1>12. ASSUME FirstCursor PROVE AtEntry
  BY <1>1, <1>5, <1>12, FirstMoves DEF FirstCursor
<1>13. ASSUME LastCursor PROVE AtEntry
  BY <1>1, <1>5, <1>13, LastMoves DEF LastCursor
<1>14. ASSUME NextEntry \/ PrevEntry PROVE AtEntry
  BY <1>1, <1>14, MovedOnEntry DEF NextEntry, PrevEntry
<1>15. ASSUME CursorFails PROVE AtEntry
  BY <1>6, <1>15 DEF CursorFails, SearchFails
<1>16. ASSUME DropCursor PROVE AtEntry
  BY <1>7, <1>16 DEF DropCursor
<1> HIDE DEF AtEntry
<1>17. AtEntry
  BY <1>8, <1>9, <1>10, <1>11, <1>12, <1>13, <1>14, <1>15, <1>16 DEF Next
<1>18. (cursor.valid => OnEntry)'
  BY <1>17 DEF AtEntry, OnEntry
<1> QED BY <1>2, <1>4, <1>18 DEF MapInv

\* A scan of the tree has all its keys, in order.
LEMMA MapInvScan == MapInv => ScanIsKeys
BY InvImpliesScanIsKeys DEF MapInv, CursorInv

\* Every step of the tree and the cursor is one of the map, or changes nothing in it.
LEMMA StepMap ==
  ASSUME Disciplined, MapInv, MapInv', ScanIsKeys', [Next]_vars
  PROVE  [Map!MapNext]_(Map!mapVars)
<1>1. CursorInv /\ ChainInv /\ ScanIsKeys /\ Orderly /\ TreeInv'
  BY MapInvScan DEF MapInv, CursorInv, ChainInv, Disciplined
<1>2. ASSUME UNCHANGED pages PROVE ToSet(Scan)' = ToSet(Scan)
  BY <1>1, <1>2, QuietKeys
<1>3. ASSUME UNCHANGED <<pages, cursor>> PROVE UNCHANGED Map!mapVars
  <2>1. CursorKey' = CursorKey
    BY <1>3 DEF CursorKey
  <2> QED BY <1>2, <1>3, <2>1 DEF Map!mapVars
<1>4. CASE UNCHANGED vars
  BY <1>3, <1>4 DEF vars, treeVars
<1>5. ASSUME cursor = NoCursor, TreeNext, UNCHANGED cursor PROVE [Map!MapNext]_(Map!mapVars)
  <2>1. CursorKey' = CursorKey
    BY <1>5 DEF CursorKey, NoCursor
  <2>2. KeysStep
    BY <1>1, <1>5, StepKeys DEF ChainInv, NextInv
  <2>3. CASE SameKeys(pages, pages')
    <3>1. ToSet(Scan)' = ToSet(Scan)
      BY <1>1, <2>3, KeysFollow
    <3> QED BY <2>1, <3>1 DEF Map!mapVars
  <2>4. ASSUME NEW k \in Keys, ~HasKey(pages, k), GainsKey(pages, pages', k) PROVE Map!Put(k)
    <3>1. ToSet(Scan)' = ToSet(Scan) \cup {k} /\ k \notin ToSet(Scan)
      BY <1>1, <2>4, KeysFollow DEF ScanIsKeys
    <3> QED BY <2>1, <3>1 DEF Map!Put
  <2>5. ASSUME NEW k \in Keys, HasKey(pages, k), LosesKey(pages, pages', k) PROVE Map!Delete(k)
    <3>1. ToSet(Scan)' = ToSet(Scan) \ {k} /\ k \in ToSet(Scan)
      BY <1>1, <2>5, KeysFollow DEF ScanIsKeys
    <3> QED BY <2>1, <3>1 DEF Map!Delete
  <2> QED BY <2>2, <2>3, <2>4, <2>5 DEF KeysStep, Map!MapNext
<1>6. /\ \A k \in Keys : SeekCursor(k) => Map!Seek(k)
      /\ FirstCursor => Map!First
      /\ LastCursor => Map!Latest
      /\ NextEntry => Map!Forward
      /\ PrevEntry => Map!Backward
  BY MovesAsInMap
<1>7. ASSUME NEW k \in Keys, SeekThrows(k) PROVE UNCHANGED Map!mapVars
  BY <1>3, <1>7 DEF SeekThrows
<1>8. ASSUME CursorFails PROVE UNCHANGED Map!mapVars
  BY <1>3, <1>8 DEF CursorFails, SearchFails
<1>9. ASSUME DropCursor PROVE Map!Drop
  <2>1. UNCHANGED pages /\ cursor' = NoCursor
    BY <1>9 DEF DropCursor, treeVars
  <2>2. CursorKey' = NoKey
    BY <2>1, KeyAtNone
  <2> QED BY <1>2, <2>1, <2>2 DEF Map!Drop, Map!MoveTo
<1> QED BY <1>4, <1>5, <1>6, <1>7, <1>8, <1>9 DEF Next, Map!MapNext

\* An empty tree is an empty map.
LEMMA MapInitIs ==
  ASSUME Init
  PROVE  Map!MapInit
<1>1. MapInv /\ ScanIsKeys /\ TreeInv
  BY MapInitInv, MapInvScan DEF MapInv, CursorInv, ChainInv
<1>2. DOMAIN pages = {root_} /\ pages[root_].slotCount = 0 /\ CursorKey = NoKey
  BY DEF Init, TreeInit, NewRoot, NewPage, CursorKey, NoCursor
<1>3. \A x : ~HasKey(pages, x)
  BY <1>2 DEF HasKey
<1>4. ToSet(Scan) = {}
  BY <1>1, <1>3 DEF ScanIsKeys
<1> QED BY <1>2, <1>4 DEF Map!MapInit

\* Each operation moves the cursor to where the sorted map has it, seek to the first key
\* not below the one it is given, in whatever leaf that is, next and prev across leaves
\* (CursorMovesAsInMap).
THEOREM CursorMoves ==
  ASSUME Disciplined
  PROVE  Spec /\ []LevelsFit => CursorMovesAsInMap
<1> DEFINE Moves == /\ \A k \in Keys : SeekCursor(k) => Map!Seek(k)
                    /\ FirstCursor => Map!First
                    /\ LastCursor => Map!Latest
                    /\ NextEntry => Map!Forward
                    /\ PrevEntry => Map!Backward
<1>1. MapInv /\ [Next]_vars /\ LevelsFit' => MapInv'
  BY StepMapInv
<1>2. Spec /\ []LevelsFit => []MapInv
  BY <1>1, MapInitInv, PTL DEF Spec
<1>3. MapInv /\ ScanIsKeys' => Moves
  BY MovesAsInMap
<1> HIDE DEF Moves
<1>4. Spec /\ []LevelsFit => [][Moves]_vars
  BY <1>2, <1>3, MapInvScan, PTL DEF Spec
<1> QED BY <1>4, PTL DEF CursorMovesAsInMap, Moves

\* The tree under one cursor implements the sorted map (ImplementsMap): an insertion puts
\* its key when it puts it in a leaf, a removal deletes it, and splitting leaves and inner
\* pages and raising the root change nothing.
THEOREM TreeImplementsMap ==
  ASSUME Disciplined
  PROVE  Spec /\ []LevelsFit => ImplementsMap
<1>1. MapInv /\ [Next]_vars /\ LevelsFit' => MapInv'
  BY StepMapInv
<1>2. Spec /\ []LevelsFit => []MapInv
  BY <1>1, MapInitInv, PTL DEF Spec
<1>3. MapInv /\ MapInv' /\ ScanIsKeys' /\ [Next]_vars => [Map!MapNext]_(Map!mapVars)
  BY StepMap
<1>4. Init => Map!MapInit
  BY MapInitIs
<1> QED BY <1>2, <1>3, <1>4, MapInvScan, PTL DEF Spec, ImplementsMap, Map!MapSpec
=============================================================================
