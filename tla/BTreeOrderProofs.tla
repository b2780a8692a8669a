------------------------- MODULE BTreeOrderProofs -------------------------
(***************************************************************************)
(* The separators of the tree separate (SeparatorsSeparate), for any       *)
(* number of pages, any keys and any sizes, with a client and a pager that *)
(* are Orderly.                                                            *)
(*                                                                         *)
(* SeparatorsSeparate is about the keys that are under a child. It is not  *)
(* inductive: a child without keys would tell nothing about the key that   *)
(* is inserted there next. The inductive invariant OrderInv says that      *)
(* there is a function R which gives every page a range, a set of keys,    *)
(* such that (InOrder)                                                     *)
(*   - the root's range is all keys; pages of a level have ranges that do  *)
(*     not meet, and only the root's may be empty (RangesOf);              *)
(*   - the keys in a leaf are in its range, in ascending order (LeafIn);   *)
(*   - the separators of an inner page divide its range among its children *)
(*     (InnerIn, Divided);                                                 *)
(*   - every separator is a key of some leaf (SepsPresent), which is why   *)
(*     a key that is inserted is no separator, so that no range is cut     *)
(*     into an empty one.                                                  *)
(* While an insertion is going up, a page has been split and its range cut *)
(* at call.key, but the inner page above still gives all of it to the left *)
(* half. Inner pages are therefore held against Owned, in which the left   *)
(* half has both; ClimbIn says that the two are what the cut has made, and *)
(* that the ranges on the way up hold them. A step of the insertion makes  *)
(* its page know the new one, and may cut that page in turn.               *)
(*                                                                         *)
(* The lemmas: what dividing a set among children means; that search goes  *)
(* down to the leaf whose range has the key (SearchOwns); what insertion   *)
(* and removal do in a leaf; cutting a range (CutIs); inserting into and   *)
(* cutting a divided range (DividedMore, DividedCut); a lemma for each     *)
(* step; and that KeysUnder(p) is within R[p] (KeysUnderIs).               *)
(***************************************************************************)
EXTENDS BTreeProofs

\* What clients and the pager do in a tree whose separators hold: nobody removes a key
\* that is absent or a separator, no inner page is split but at or below its new entry,
\* and the pager does not fail.
Orderly == Usage \cap {"absent", "separator", "innerEdge", "pagerFails"} = {}

\* The keys of a sequence grow.
Ascending(s) == \A i, j \in 1 .. Len(s) : i < j => s[i] < s[j]

\* The keys of S that are not below F[i] and below F[i + 1], of m separators F.
Between(F, m, i, S) == {k \in S : (0 < i => F[i] <= k) /\ (i < m => k < F[i + 1])}

\* The m separators F divide the keys S among the pages G: T[p] are those of page p.
Divided(F, m, G, S, T) ==
  /\ \A i \in 1 .. m : F[i] \in S
  /\ \A i, j \in 1 .. m : i < j => F[i] < F[j]
  /\ \A i \in 0 .. m : T[G[i]] = Between(F, m, i, S)

Inner(pg) == pg.level \notin {0, INVALID_TREE_LEVEL}
Kids(pg)  == [i \in 0 .. SepCount(pg) |-> ChildOf(pg, i)]

\* The keys of S may be in the page, in ascending order.
LeafIn(pg, S) ==
  /\ \A i \in 1 .. pg.slotCount : LiveKeys(pg)[i] \in S
  /\ \A i, j \in 1 .. pg.slotCount : i < j => LiveKeys(pg)[i] < LiveKeys(pg)[j]

\* The separators of an inner page divide S among its children.
InnerIn(pg, S, T) ==
  Inner(pg) => SepCount(pg) >= 1 /\ Divided(SepKeys(pg), SepCount(pg), Kids(pg), S, T)

\* Some page has an entry for k.
HasKey(ps, k) == \E p \in DOMAIN ps : \E i \in 1 .. ps[p].slotCount : LiveKeys(ps[p])[i] = k

\* What a step from ps to qs does to the keys.
SameKeys(ps, qs)    == \A x : HasKey(qs, x) <=> HasKey(ps, x)
GainsKey(ps, qs, k) == \A x : HasKey(qs, x) <=> HasKey(ps, x) \/ x = k
LosesKey(ps, qs, k) == \A x : HasKey(qs, x) <=> HasKey(ps, x) /\ x # k

\* R gives each page a range of keys, and the pages of a level different ones.
RangesOf(ps, R) ==
  /\ R \in [DOMAIN ps -> SUBSET Keys]
  /\ \A p \in DOMAIN ps \ {root_} : R[p] # {}
  /\ \A p, q \in DOMAIN ps : p # q /\ ps[p].level = ps[q].level => R[p] \cap R[q] = {}

\* The ranges as inner pages know them: a page that has been split still counts for
\* its new sibling.
Owned(R, c) ==
  IF c.active THEN [R EXCEPT ![c.left] = R[c.left] \cup R[c.right]] ELSE R

\* No page is above the root.
RootAbove(ps) ==
  \A p \in DOMAIN ps \ {root_} : /\ ps[root_].level # INVALID_TREE_LEVEL
                                 /\ ps[p].level <= ps[root_].level

SepsPresent(ps) ==
  \A p \in DOMAIN ps : \A i \in 1 .. SepCount(ps[p]) : HasKey(ps, ps[p].seps[i].key)

\* The ranges on a way down from the root are each part of the one above.
Nested(ps, R, way) ==
  \A i, j \in 1 .. Len(way) :
    i < j => R[way[j]] \subseteq R[way[i]] /\ ps[way[j]].level < ps[way[i]].level

\* The insertion in progress has divided a range at its key, and no inner page knows
\* of the right half.
ClimbIn(ps, c, R) ==
  c.active =>
    /\ R[c.left] # {} /\ c.key \in R[c.right]
    /\ \A k \in R[c.left] : k < c.key
    /\ \A k \in R[c.right] : c.key <= k
    /\ HasKey(ps, c.key)
    /\ \A p \in DOMAIN ps : Inner(ps[p]) =>
         \A i \in 0 .. SepCount(ps[p]) : ChildOf(ps[p], i) # c.right
    /\ Nested(ps, R, c.parents)
    /\ \A i \in 1 .. Len(c.parents) : R[c.left] \cup R[c.right] \subseteq R[c.parents[i]]

\* What the ranges R of the pages ps are, while c is in progress.
InOrder(ps, c, R) ==
  /\ RangesOf(ps, R)
  /\ Owned(R, c)[root_] = Keys
  /\ \A p \in DOMAIN ps : LeafIn(ps[p], R[p]) /\ InnerIn(ps[p], R[p], Owned(R, c))
  /\ RootAbove(ps)
  /\ SepsPresent(ps)
  /\ ClimbIn(ps, c, R)

-----------------------------------------------------------------------------
\* A key of S lies between two separators, or before the first or after the last.
LEMMA Placed ==
  ASSUME NEW m \in Nat, NEW F \in [1 .. m -> Keys], \A i, j \in 1 .. m : i < j => F[i] < F[j],
         NEW S \in SUBSET Keys, NEW k \in S
  PROVE  \E i \in 0 .. m : k \in Between(F, m, i, S)
<1> DEFINE i == SearchIn(F, k)
<1>1. Keys \subseteq Int
  BY SlotsAssumption
<1>2. F \in Seq(Int) /\ Len(F) = m /\ k \in Int
  <2>1. F \in [1 .. m -> Int]
    BY <1>1
  <2> QED BY <1>1, <2>1
<1>3. /\ i \in 0 .. m
      /\ \A j \in 1 .. i : F[j] < k
      /\ \A j \in i + 1 .. m : F[j] >= k
  BY <1>2, SearchSeparates
<1> HIDE DEF i
<1>4. \A j \in 1 .. m : F[j] \in Int
  BY <1>1
<1>5. CASE i < m /\ F[i + 1] = k
  <2>1. i + 1 \in 0 .. m /\ i + 1 \in 1 .. m
    BY <1>3, <1>5
  <2>2. i + 1 < m => i + 1 + 1 \in 1 .. m /\ i + 1 < i + 1 + 1
    BY <2>1
  <2>3. i + 1 < m => k < F[i + 1 + 1]
    BY <1>5, <2>1, <2>2
  <2>4. F[i + 1] <= k
    BY <1>2, <1>5
  <2> QED BY <2>1, <2>3, <2>4 DEF Between
<1>6. CASE ~(i < m /\ F[i + 1] = k)
  <2>1. i < m => k < F[i + 1]
    <3> SUFFICES ASSUME i < m PROVE k < F[i + 1]
      OBVIOUS
    <3>1. i + 1 \in i + 1 .. m /\ i + 1 \in 1 .. m
      BY <1>3
    <3> QED BY <1>2, <1>3, <1>4, <1>6, <3>1
  <2>2. 0 < i => F[i] <= k
    <3> SUFFICES ASSUME 0 < i PROVE F[i] <= k
      OBVIOUS
    <3>1. i \in 1 .. i /\ i \in 1 .. m
      BY <1>3
    <3> QED BY <1>2, <1>3, <1>4, <3>1
  <2> QED BY <1>3, <2>1, <2>2 DEF Between
<1> QED BY <1>5, <1>6

\* And nowhere else.
LEMMA PlacedOnce ==
  ASSUME NEW m \in Nat, NEW F \in [1 .. m -> Keys], \A i, j \in 1 .. m : i < j => F[i] < F[j],
         NEW S \in SUBSET Keys, NEW k, NEW i \in 0 .. m, NEW j \in 0 .. m,
         k \in Between(F, m, i, S), k \in Between(F, m, j, S)
  PROVE  i = j
<1>1. ASSUME NEW a \in 0 .. m, NEW b \in 0 .. m, a < b,
             k \in Between(F, m, a, S), k \in Between(F, m, b, S)
      PROVE  FALSE
  <2>1. a + 1 \in 1 .. m /\ b \in 1 .. m /\ (a + 1 < b \/ a + 1 = b)
    BY <1>1
  <2>2. k \in S /\ k < F[a + 1] /\ F[b] <= k
    BY <1>1, <2>1 DEF Between
  <2>3. k \in Nat /\ F[a + 1] \in Nat /\ F[b] \in Nat
    BY <2>1, <2>2, SlotsAssumption
  <2>4. F[a + 1] <= F[b]
    BY <2>1, <2>3
  <2> QED BY <2>2, <2>3, <2>4
<1> QED BY <1>1

\* The separators of a page, as a function, and its children.
LEMMA SepKeysIs ==
  ASSUME NEW pg, PageOK(pg)
  PROVE  /\ SepCount(pg) \in Nat
         /\ SepKeys(pg) \in [1 .. SepCount(pg) -> Keys]
         /\ \A i \in 1 .. SepCount(pg) : SepKeys(pg)[i] = pg.seps[i].key
         /\ \A i \in 0 .. SepCount(pg) : Kids(pg)[i] = ChildOf(pg, i)
<1>1. pg.seps \in Seq(Sep) /\ SepCount(pg) \in Nat /\ Len(pg.seps) = SepCount(pg)
  BY SepsAre
<1>2. SepKeys(pg) = [i \in 1 .. SepCount(pg) |-> pg.seps[i].key]
  BY Zenon DEF SepKeys
<1>3. \A i \in 1 .. SepCount(pg) : pg.seps[i].key \in Keys
  <2>1. \A i \in 1 .. SepCount(pg) : pg.seps[i] \in Sep
    BY <1>1
  <2> QED BY <2>1 DEF Sep
<1> QED BY <1>1, <1>2, <1>3 DEF Kids

\* The ranges as inner pages know them are the ranges, but for the page that is split.
LEMMA OwnedIs ==
  ASSUME NEW D, NEW R \in [D -> SUBSET Keys], NEW c, c.active => c.left \in D /\ c.right \in D
  PROVE  /\ Owned(R, c) \in [D -> SUBSET Keys]
         /\ \A p \in D : R[p] \subseteq Owned(R, c)[p]
         /\ \A p \in D : c.active /\ p # c.left => Owned(R, c)[p] = R[p]
         /\ c.active => Owned(R, c)[c.left] = R[c.left] \cup R[c.right]
         /\ ~c.active => Owned(R, c) = R
BY DEF Owned

\* The page that a call has split and the new one are allocated.
LEMMA CallPages ==
  ASSUME TreeInv
  PROVE  call.active => call.left \in DOMAIN pages /\ call.right \in DOMAIN pages
BY DEF TreeInv, CallOK, IsWayTo

\* An inner page and its children.
LEMMA InnerIs ==
  ASSUME NEW ps, Nodes(ps), NEW p \in DOMAIN ps, Inner(ps[p])
  PROVE  /\ PageOK(ps[p]) /\ SepCount(ps[p]) \in Nat
         /\ SepKeys(ps[p]) \in [1 .. SepCount(ps[p]) -> Keys]
         /\ \A i \in 1 .. SepCount(ps[p]) : SepKeys(ps[p])[i] = ps[p].seps[i].key
         /\ \A i \in 0 .. SepCount(ps[p]) : /\ Kids(ps[p])[i] = ChildOf(ps[p], i)
                                            /\ Below(ps, p, ChildOf(ps[p], i))
<1>1. NodeOK(ps, p) /\ PageOK(ps[p])
  BY DEF Nodes, NodeOK
<1>2. \A i \in 0 .. SepCount(ps[p]) : Below(ps, p, ChildOf(ps[p], i))
  BY <1>1 DEF NodeOK, Inner
<1> QED BY <1>1, <1>2, SepKeysIs

\* The ranges of the pages and what divides them.
Ordered(ps, T, R) ==
  /\ RangesOf(ps, R)
  /\ T \in [DOMAIN ps -> SUBSET Keys]
  /\ \A p \in DOMAIN ps : R[p] \subseteq T[p]
  /\ \A p \in DOMAIN ps : InnerIn(ps[p], R[p], T)

\* A page is the child of one page at one place.
LEMMA OneParent ==
  ASSUME NEW ps, Nodes(ps), NEW T, NEW R, Ordered(ps, T, R),
         NEW p \in DOMAIN ps, NEW q \in DOMAIN ps, Inner(ps[p]), Inner(ps[q]),
         NEW i \in 0 .. SepCount(ps[p]), NEW j \in 0 .. SepCount(ps[q]),
         ChildOf(ps[p], i) = ChildOf(ps[q], j)
  PROVE  p = q /\ i = j
<1> DEFINE ch == ChildOf(ps[p], i)
           m == SepCount(ps[p])
           F == SepKeys(ps[p])
<1>1. /\ Below(ps, p, ch) /\ Below(ps, q, ch) /\ Kids(ps[p])[i] = ch /\ Kids(ps[q])[j] = ch
      /\ m \in Nat /\ F \in [1 .. m -> Keys]
  BY InnerIs
<1>2. ch \in DOMAIN ps \ {root_} /\ ps[p].level = ps[q].level
  BY <1>1 DEF Below
<1>3. R[ch] # {} /\ R[ch] \subseteq T[ch] /\ R[p] \in SUBSET Keys
  BY <1>2 DEF Ordered, RangesOf
<1>4. /\ Divided(F, m, Kids(ps[p]), R[p], T)
      /\ Divided(SepKeys(ps[q]), SepCount(ps[q]), Kids(ps[q]), R[q], T)
  BY DEF Ordered, InnerIn
<1>5. PICK k : k \in T[ch]
  BY <1>3
<1>6. k \in Between(F, m, i, R[p]) /\ k \in Between(SepKeys(ps[q]), SepCount(ps[q]), j, R[q])
  <2>1. T[Kids(ps[p])[i]] = Between(F, m, i, R[p])
    BY <1>4 DEF Divided
  <2>2. T[Kids(ps[q])[j]] = Between(SepKeys(ps[q]), SepCount(ps[q]), j, R[q])
    BY <1>4 DEF Divided
  <2> QED BY <1>1, <1>5, <2>1, <2>2
<1>7. k \in R[p] /\ k \in R[q]
  BY <1>6 DEF Between
<1>8. p = q
  BY <1>2, <1>7 DEF Ordered, RangesOf
<1>9. i = j
  <2>1. \A a, b \in 1 .. m : a < b => F[a] < F[b]
    BY <1>4 DEF Divided
  <2>2. i \in 0 .. m /\ j \in 0 .. m /\ k \in Between(F, m, j, R[p])
    BY <1>6, <1>8
  <2> HIDE DEF m, F
  <2> QED BY <1>1, <1>3, <1>6, <2>1, <2>2, PlacedOnce, Zenon
<1> QED BY <1>8, <1>9

-----------------------------------------------------------------------------
\* search goes down to the child whose range has the key, unless it is a separator.
LEMMA DescendOwns ==
  ASSUME Nodes(pages), NEW R, Ordered(pages, R, R), NEW p \in DOMAIN pages, Inner(pages[p]),
         NEW k \in R[p], \A i \in 1 .. SepCount(pages[p]) : pages[p].seps[i].key # k
  PROVE  LET ch == DescendTo(pages[p], k) IN
         /\ Below(pages, p, ch)
         /\ k \in R[ch] /\ R[ch] \subseteq R[p]
<1> DEFINE F == SepKeys(pages[p])
           m == SepCount(pages[p])
           i == SearchIn(F, k)
           S == R[p]
<1>1. /\ m \in Nat /\ F \in [1 .. m -> Keys]
      /\ \A j \in 1 .. m : F[j] = pages[p].seps[j].key
      /\ \A j \in 0 .. m : /\ Kids(pages[p])[j] = ChildOf(pages[p], j)
                           /\ Below(pages, p, ChildOf(pages[p], j))
  BY InnerIs
<1>2. Divided(F, m, Kids(pages[p]), S, R) /\ S \in SUBSET Keys
  BY DEF Ordered, RangesOf, InnerIn
<1>3. DescendTo(pages[p], k) = ChildOf(pages[p], i)
  BY DEF DescendTo
<1> HIDE DEF F, m, S
<1>4. F \in Seq(Int) /\ Len(F) = m /\ k \in Int /\ \A a, b \in 1 .. m : a < b => F[a] < F[b]
  <2>1. Keys \subseteq Int
    BY SlotsAssumption
  <2>2. F \in [1 .. m -> Int] /\ k \in Int
    BY <1>1, <1>2, <2>1 DEF S
  <2>3. \A a, b \in 1 .. m : a < b => F[a] < F[b]
    BY <1>2 DEF Divided
  <2> QED BY <1>1, <2>2, <2>3
<1>5. /\ i \in 0 .. m
      /\ \A j \in 1 .. i : F[j] < k
      /\ \A j \in i + 1 .. m : F[j] >= k
  BY <1>4, SearchSeparates
<1>6. \A j \in 1 .. m : F[j] # k /\ F[j] \in Int
  <2>1. \A j \in 1 .. m : F[j] # k
    BY <1>1 DEF m
  <2> QED BY <1>4, <2>1
<1> HIDE DEF i
<1>7. k \in Between(F, m, i, S)
  <2>1. i < m => k < F[i + 1]
    <3> SUFFICES ASSUME i < m PROVE k < F[i + 1]
      OBVIOUS
    <3>1. i + 1 \in i + 1 .. m /\ i + 1 \in 1 .. m
      BY <1>1, <1>5
    <3> QED BY <1>4, <1>5, <1>6, <3>1
  <2>2. 0 < i => F[i] <= k
    <3> SUFFICES ASSUME 0 < i PROVE F[i] <= k
      OBVIOUS
    <3>1. i \in 1 .. i /\ i \in 1 .. m
      BY <1>1, <1>5
    <3> QED BY <1>4, <1>5, <1>6, <3>1
  <2>3. k \in S
    BY DEF S
  <2> QED BY <2>1, <2>2, <2>3 DEF Between
<1>8. R[ChildOf(pages[p], i)] = Between(F, m, i, S)
  <2>1. R[Kids(pages[p])[i]] = Between(F, m, i, S)
    BY <1>2, <1>5 DEF Divided
  <2> QED BY <1>1, <1>5, <2>1
<1>9. Between(F, m, i, S) \subseteq S
  BY DEF Between
<1> QED BY <1>1, <1>3, <1>5, <1>7, <1>8, <1>9 DEF S

\* k is in the range of each page of way, and these ranges are nested.
OwnsDown(R, k, way) ==
  /\ \A i \in 1 .. Len(way) : k \in R[way[i]]
  /\ Nested(pages, R, way)

\* One page more above.
LEMMA OwnsLonger ==
  ASSUME NEW R, NEW k, NEW p \in DOMAIN pages, NEW q, NEW way, IsDescent(q, way),
         OwnsDown(R, k, way), k \in R[p], R[q] \subseteq R[p],
         pages[q].level < pages[p].level, \A x \in DOMAIN pages : pages[x].level \in Nat
  PROVE  OwnsDown(R, k, <<p>> \o way)
<1> DEFINE w == <<p>> \o way
           n == Len(way)
<1>1. way \in Seq(DOMAIN pages) /\ n \in Nat /\ n >= 1 /\ way[1] = q
  BY DEF IsDescent
<1>2. /\ Len(w) = n + 1 /\ w[1] = p
      /\ \A i \in 1 .. n : w[i + 1] = way[i]
  BY <1>1
<1>3. \A i \in 1 .. n : way[i] \in DOMAIN pages
  BY <1>1
<1> HIDE DEF w, n
<1>4. \A i \in 2 .. n + 1 : i - 1 \in 1 .. n /\ w[i] = way[i - 1]
  <2> SUFFICES ASSUME NEW i \in 2 .. n + 1 PROVE i - 1 \in 1 .. n /\ w[i] = way[i - 1]
    OBVIOUS
  <2>1. i - 1 \in 1 .. n /\ i - 1 + 1 = i
    BY <1>1
  <2>2. w[i - 1 + 1] = way[i - 1]
    BY <1>2, <2>1
  <2> QED BY <2>1, <2>2
<1>5. \A i \in 1 .. n + 1 : i = 1 \/ i \in 2 .. n + 1
  BY <1>1
<1>6. \A i \in 1 .. n : k \in R[way[i]]
  BY DEF OwnsDown, n
<1>7. \A i \in 1 .. n + 1 : k \in R[w[i]]
  BY <1>2, <1>4, <1>5, <1>6
<1>8. \A i, j \in 1 .. n : i < j => /\ R[way[j]] \subseteq R[way[i]]
                                    /\ pages[way[j]].level < pages[way[i]].level
  BY DEF OwnsDown, Nested, n
<1>9. \A j \in 1 .. n : R[way[j]] \subseteq R[p] /\ pages[way[j]].level < pages[p].level
  <2> SUFFICES ASSUME NEW j \in 1 .. n
               PROVE  R[way[j]] \subseteq R[p] /\ pages[way[j]].level < pages[p].level
    OBVIOUS
  <2>1. CASE j = 1
    BY <1>1, <2>1
  <2>2. CASE j # 1
    <3>1. 1 \in 1 .. n /\ 1 < j
      BY <1>1, <2>2
    <3>2. R[way[j]] \subseteq R[q] /\ pages[way[j]].level < pages[q].level
      BY <1>1, <1>8, <3>1
    <3>3. pages[way[j]].level \in Nat /\ pages[q].level \in Nat /\ pages[p].level \in Nat
      BY <1>1, <1>3, <3>1
    <3> QED BY <3>2, <3>3
  <2> QED BY <2>1, <2>2
<1>10. ASSUME NEW i \in 1 .. n + 1, NEW j \in 1 .. n + 1, i < j
       PROVE  R[w[j]] \subseteq R[w[i]] /\ pages[w[j]].level < pages[w[i]].level
  <2>1. j \in 2 .. n + 1
    BY <1>1, <1>10
  <2>2. CASE i = 1
    BY <1>2, <1>4, <1>9, <2>1, <2>2
  <2>3. CASE i \in 2 .. n + 1
    <3>1. i - 1 < j - 1 /\ i - 1 \in 1 .. n /\ j - 1 \in 1 .. n
      BY <1>1, <1>10, <2>1, <2>3
    <3> QED BY <1>4, <1>8, <2>1, <2>3, <3>1
  <2> QED BY <1>5, <2>2, <2>3
<1>11. OwnsDown(R, k, w)
  BY <1>2, <1>7, <1>10 DEF OwnsDown, Nested
<1> QED BY <1>11 DEF w

\* The way of search from a page whose range has the key.
LEMMA PathOwns ==
  ASSUME Nodes(pages), NEW R, Ordered(pages, R, R), NEW k, NEW p \in DOMAIN pages, k \in R[p],
         \A q \in DOMAIN pages : \A i \in 1 .. SepCount(pages[q]) : pages[q].seps[i].key # k
  PROVE  OwnsDown(R, k, PathFrom(k)[p])
<1> DEFINE D == DOMAIN pages
           f == PathFrom(k)
           level(q) == pages[q].level
           S == {m \in Nat : \A q \in D : level(q) <= m /\ k \in R[q] => OwnsDown(R, k, f[q])}
<1>1. f = [q \in D |-> IF level(q) \in {0, INVALID_TREE_LEVEL} THEN <<q>>
                       ELSE <<q>> \o f[DescendTo(pages[q], k)]]
  BY PathFromExists
<1>2. \A q \in D : IsDescent(q, f[q])
  BY PathFromIs
<1> HIDE DEF f
<1>3. /\ \A q \in D : level(q) \in {0, INVALID_TREE_LEVEL} => f[q] = <<q>>
      /\ \A q \in D : level(q) \notin {0, INVALID_TREE_LEVEL} =>
                        f[q] = <<q>> \o f[DescendTo(pages[q], k)]
  BY <1>1
<1>4. \A q \in D : level(q) \in Nat
  BY PageFields DEF Nodes, NodeOK, PageOK
<1>5. ASSUME NEW q \in D, level(q) \in {0, INVALID_TREE_LEVEL}, k \in R[q]
      PROVE  OwnsDown(R, k, f[q])
  <2>1. f[q] = <<q>>
    BY <1>3, <1>5
  <2>2. Len(<<q>>) = 1 /\ <<q>>[1] = q
    OBVIOUS
  <2> QED BY <1>5, <2>1, <2>2 DEF OwnsDown, Nested
<1>6. ASSUME NEW q \in D, level(q) \notin {0, INVALID_TREE_LEVEL}, k \in R[q],
             NEW m \in Nat, level(q) <= m + 1,
             \A x \in D : level(x) <= m /\ k \in R[x] => OwnsDown(R, k, f[x])
      PROVE  OwnsDown(R, k, f[q])
  <2> DEFINE c == DescendTo(pages[q], k)
  <2>1. Below(pages, q, c) /\ k \in R[c] /\ R[c] \subseteq R[q]
    BY <1>6, DescendOwns DEF Inner
  <2>2. c \in D /\ level(q) = level(c) + 1
    BY <2>1 DEF Below
  <2>3. f[q] = <<q>> \o f[c]
    BY <1>3, <1>6
  <2> HIDE DEF c
  <2>4. level(c) <= m /\ level(c) < level(q)
    <3>1. level(c) \in Nat
      BY <1>4, <2>2
    <3> QED BY <1>6, <2>2, <3>1
  <2>5. OwnsDown(R, k, f[c]) /\ IsDescent(c, f[c])
    BY <1>2, <1>6, <2>1, <2>2, <2>4
  <2> QED BY <1>4, <1>6, <2>1, <2>3, <2>4, <2>5, OwnsLonger
<1>7. 0 \in S
  <2>1. \A q \in D : level(q) <= 0 => level(q) = 0
    BY <1>4
  <2> QED BY <1>5, <2>1
<1>8. ASSUME NEW m \in S PROVE m + 1 \in S
  <2> SUFFICES ASSUME NEW q \in D, level(q) <= m + 1, k \in R[q] PROVE OwnsDown(R, k, f[q])
    OBVIOUS
  <2> QED BY <1>5, <1>6
<1>9. S = Nat
  <2>1. S \in SUBSET Nat
    OBVIOUS
  <2> HIDE DEF S
  <2> QED BY <1>7, <1>8, <2>1, NatInductive
<1>10. level(p) \in S
  BY <1>4, <1>9
<1>11. level(p) <= level(p)
  BY <1>4
<1> QED BY <1>10, <1>11 DEF f

\* Where search ends for a key that is no separator: at the leaf whose range has it, by
\* a way of nested ranges.
LEMMA SearchOwns ==
  ASSUME Nodes(pages), NEW R, Ordered(pages, R, R), NEW k, k \in R[root_],
         \A q \in DOMAIN pages : \A i \in 1 .. SepCount(pages[q]) : pages[q].seps[i].key # k
  PROVE  LET at == Search(k) IN
         /\ k \in R[at.leaf]
         /\ Nested(pages, R, at.parents)
         /\ \A i \in 1 .. Len(at.parents) : /\ R[at.leaf] \subseteq R[at.parents[i]]
                                            /\ at.parents[i] # at.leaf
<1> DEFINE path == Path(k)
           at == Search(k)
           n == Len(path)
<1>1. root_ \in DOMAIN pages
  BY DomainIs DEF Nodes
<1>2. IsDescent(root_, path) /\ OwnsDown(R, k, path)
  BY <1>1, PathDef, PathFromIs, PathOwns
<1>3. at.parents = Front(path) /\ at.leaf = Last(path)
  BY DEF Search
<1> HIDE DEF path, at
<1>4. path # <<>> /\ path \in Seq(DOMAIN pages)
  <2>1. Len(<<>>) = 0 /\ ~(0 >= 1)
    OBVIOUS
  <2> QED BY <1>2, <2>1 DEF IsDescent
<1>5. /\ Len(at.parents) = n - 1 /\ n \in Nat /\ n >= 1
      /\ \A i \in 1 .. n - 1 : at.parents[i] = path[i]
      /\ at.leaf = path[n]
  BY <1>3, <1>4, FrontLast
<1> HIDE DEF n
<1>6. /\ \A i \in 1 .. n : k \in R[path[i]]
      /\ \A i, j \in 1 .. n : i < j => /\ R[path[j]] \subseteq R[path[i]]
                                       /\ pages[path[j]].level < pages[path[i]].level
  BY <1>2 DEF OwnsDown, Nested, n
<1>7. n \in 1 .. n /\ \A i \in 1 .. n - 1 : i \in 1 .. n /\ i < n
  BY <1>5
<1>8. Nested(pages, R, at.parents)
  BY <1>5, <1>6, <1>7 DEF Nested
<1>9. \A x \in DOMAIN pages : pages[x].level \in Nat
  BY PageFields DEF Nodes, NodeOK, PageOK
<1>10. ASSUME NEW i \in 1 .. Len(at.parents)
       PROVE  R[at.leaf] \subseteq R[at.parents[i]] /\ at.parents[i] # at.leaf
  <2>1. i \in 1 .. n - 1 /\ i \in 1 .. n /\ i < n
    BY <1>5, <1>7
  <2>2. R[path[n]] \subseteq R[path[i]] /\ pages[path[n]].level < pages[path[i]].level
    BY <1>6, <1>7, <2>1
  <2>3. path[n] \in DOMAIN pages
    BY <1>4, <1>7 DEF n
  <2>4. path[i] # path[n]
    BY <1>9, <2>2, <2>3
  <2> QED BY <1>5, <2>1, <2>2, <2>4
<1> QED BY <1>5, <1>6, <1>7, <1>8, <1>10 DEF at

-----------------------------------------------------------------------------
\* Separators and children are in seps and next.
LEMMA SepsSame ==
  ASSUME NEW pg, NEW c, c.seps = pg.seps, c.next = pg.next
  PROVE  SepCount(c) = SepCount(pg) /\ SepKeys(c) = SepKeys(pg) /\ Kids(c) = Kids(pg)
<1>1. SepCount(c) = SepCount(pg)
  BY Zenon DEF SepCount
<1>2. SepKeys(c) = SepKeys(pg)
  BY <1>1, Zenon DEF SepKeys
<1>3. \A i : ChildOf(c, i) = ChildOf(pg, i)
  BY <1>1, Zenon DEF ChildOf
<1> QED BY <1>1, <1>2, <1>3, Zenon DEF Kids

\* The pages qs have the separators and children that ps have, and their levels, but
\* that an empty root may have become a leaf.
SameTree(ps, qs) ==
  /\ DOMAIN qs = DOMAIN ps
  /\ \A p \in DOMAIN ps :
       /\ qs[p].seps = ps[p].seps /\ qs[p].next = ps[p].next
       /\ \/ qs[p].level = ps[p].level
          \/ p = root_ /\ ps[p].level = INVALID_TREE_LEVEL /\ qs[p].level = 0

\* Entries come or go within the ranges.
LEMMA EntriesChanged ==
  ASSUME NEW ps, NEW qs, SameTree(ps, qs), NEW c, ~c.active, NEW R, InOrder(ps, c, R),
         root_ \in DOMAIN ps,
         \A p \in DOMAIN ps : LeafIn(qs[p], R[p]),
         \A p \in DOMAIN ps : \A i \in 1 .. SepCount(ps[p]) : HasKey(qs, ps[p].seps[i].key)
  PROVE  InOrder(qs, c, R)
<1>1. DOMAIN qs = DOMAIN ps
  BY DEF SameTree
<1>2. \A p \in DOMAIN ps : /\ SepCount(qs[p]) = SepCount(ps[p]) /\ SepKeys(qs[p]) = SepKeys(ps[p])
                           /\ Kids(qs[p]) = Kids(ps[p]) /\ qs[p].seps = ps[p].seps
  BY SepsSame DEF SameTree
<1>3. \A p \in DOMAIN ps \ {root_} : /\ qs[p].level = ps[p].level
                                     /\ qs[root_].level = ps[root_].level
                                     /\ ps[root_].level # INVALID_TREE_LEVEL
  BY DEF SameTree, InOrder, RootAbove
<1>4. RangesOf(qs, R)
  <2>1. RangesOf(ps, R)
    BY DEF InOrder
  <2>2. ASSUME NEW p \in DOMAIN ps, NEW q \in DOMAIN ps, p # q, qs[p].level = qs[q].level
        PROVE  R[p] \cap R[q] = {}
    <3>1. p \in DOMAIN ps \ {root_} \/ q \in DOMAIN ps \ {root_}
      BY <2>2
    <3>2. ps[p].level = ps[q].level
      BY <1>3, <2>2, <3>1
    <3> QED BY <2>1, <2>2, <3>2 DEF RangesOf
  <2> QED BY <1>1, <2>1, <2>2 DEF RangesOf
<1>5. ASSUME NEW p \in DOMAIN ps PROVE InnerIn(qs[p], R[p], Owned(R, c))
  <2>1. InnerIn(ps[p], R[p], Owned(R, c))
    BY DEF InOrder
  <2>2. Inner(qs[p]) => Inner(ps[p])
    BY DEF SameTree, Inner
  <2> QED BY <1>2, <2>1, <2>2, Zenon DEF InnerIn
<1>6. RootAbove(qs)
  BY <1>1, <1>3 DEF InOrder, RootAbove
<1>7. SepsPresent(qs)
  BY <1>1, <1>2 DEF SepsPresent
<1>8. ClimbIn(qs, c, R)
  BY DEF ClimbIn
<1>9. Owned(R, c)[root_] = Keys
  BY DEF InOrder
<1> QED BY <1>1, <1>4, <1>5, <1>6, <1>7, <1>8, <1>9 DEF InOrder

\* The ranges as inner pages know them are the ranges when no insertion is in progress.
LEMMA OrderedIs ==
  ASSUME NEW ps, NEW c, NEW R, InOrder(ps, c, R), ~c.active
  PROVE  Ordered(ps, R, R) /\ R[root_] = Keys
<1>1. Owned(R, c) = R
  BY DEF Owned
<1> QED BY <1>1 DEF InOrder, Ordered, RangesOf

\* An entry for k is in some page.
LEMMA PresentIs ==
  ASSUME NEW k
  PROVE  Present(k) <=> HasKey(pages, k)
<1>1. \A p : DOMAIN LiveKeys(pages[p]) = 1 .. pages[p].slotCount
  BY DEF LiveKeys
<1> QED BY <1>1 DEF Present, HasKey, ToSet

\* And a separator.
LEMMA SeparatorIs ==
  ASSUME Nodes(pages), NEW k
  PROVE  Separator(k) <=> \E p \in DOMAIN pages : \E i \in 1 .. SepCount(pages[p]) :
                            pages[p].seps[i].key = k
<1>1. \A p \in DOMAIN pages : /\ DOMAIN SepKeys(pages[p]) = 1 .. SepCount(pages[p])
                              /\ \A i \in 1 .. SepCount(pages[p]) :
                                   SepKeys(pages[p])[i] = pages[p].seps[i].key
  BY DEF SepKeys
<1>2. ASSUME NEW p \in DOMAIN pages
      PROVE  k \in ToSet(SepKeys(pages[p]))
               <=> \E i \in 1 .. SepCount(pages[p]) : pages[p].seps[i].key = k
  BY <1>1 DEF ToSet
<1> QED BY <1>2 DEF Separator

\* A key that goes to its place among keys in ascending order leaves them in order.
LEMMA InsertedAscending ==
  ASSUME NEW ks \in Seq(Keys), Ascending(ks), NEW k \in Keys, \A i \in 1 .. Len(ks) : ks[i] # k
  PROVE  LET t == InsertAt(ks, SearchIn(ks, k) + 1, k) IN
         /\ SearchIn(ks, k) \in 0 .. Len(ks)
         /\ t \in Seq(Keys) /\ Len(t) = Len(ks) + 1 /\ Ascending(t)
         /\ \A j \in 1 .. Len(t) : t[j] = k \/ \E i \in 1 .. Len(ks) : t[j] = ks[i]
         /\ \A i \in 1 .. Len(ks) : \E j \in 1 .. Len(t) : t[j] = ks[i]
         /\ \E j \in 1 .. Len(t) : t[j] = k
<1> DEFINE x == SearchIn(ks, k)
           t == InsertAt(ks, x + 1, k)
           n == Len(ks)
<1>1. ks \in Seq(Int) /\ k \in Int /\ n \in Nat /\ \A i \in 1 .. n : ks[i] \in Int
  <2>1. Keys \subseteq Int
    BY SlotsAssumption
  <2>2. n \in Nat /\ ks \in [1 .. n -> Keys]
    OBVIOUS
  <2>3. \A i \in 1 .. n : ks[i] \in Int
    BY <2>1, <2>2
  <2>4. ks \in [1 .. n -> Int]
    BY <2>2, <2>3
  <2> QED BY <2>1, <2>2, <2>3, <2>4, SeqDef
<1>2. /\ x \in 0 .. n
      /\ \A i \in 1 .. x : ks[i] < k
      /\ \A i \in x + 1 .. n : ks[i] >= k
  BY <1>1, SearchSeparates DEF Ascending
<1>3. IsInserted(t, Keys, ks, x, k)
  BY <1>2, InsertedIs DEF Inserted
<1>4. /\ t \in Seq(Keys) /\ Len(t) = n + 1
      /\ \A j \in 1 .. x : t[j] = ks[j]
      /\ t[x + 1] = k
      /\ \A j \in x + 1 .. n : t[j + 1] = ks[j]
  BY <1>3 DEF IsInserted
<1>5. \A i \in x + 1 .. n : k < ks[i]
  BY <1>1, <1>2
<1>6. \A i, j \in 1 .. n : i < j => ks[i] < ks[j]
  BY DEF Ascending
<1> HIDE DEF x, t, n
<1>7. \A j \in 1 .. n + 1 : \/ j \in 1 .. x /\ t[j] = ks[j]
                            \/ j = x + 1 /\ t[j] = k
                            \/ j - 1 \in x + 1 .. n /\ t[j] = ks[j - 1]
  <2> SUFFICES ASSUME NEW j \in 1 .. n + 1
               PROVE  \/ j \in 1 .. x /\ t[j] = ks[j]
                      \/ j = x + 1 /\ t[j] = k
                      \/ j - 1 \in x + 1 .. n /\ t[j] = ks[j - 1]
    OBVIOUS
  <2>1. j \in 1 .. x \/ j = x + 1 \/ (j - 1 \in x + 1 .. n /\ j - 1 + 1 = j)
    BY <1>1, <1>2
  <2> QED BY <1>4, <2>1
<1>8. ASSUME NEW i \in 1 .. n + 1, NEW j \in 1 .. n + 1, i < j PROVE t[i] < t[j]
  <2>1. x \in Nat /\ x <= n
    BY <1>1, <1>2
  <2>2. CASE i \in 1 .. x /\ t[i] = ks[i]
    <3>1. CASE j \in 1 .. x /\ t[j] = ks[j]
      BY <1>1, <1>6, <1>8, <2>1, <2>2, <3>1
    <3>2. CASE j = x + 1 /\ t[j] = k
      BY <1>2, <2>2, <3>2
    <3>3. CASE j - 1 \in x + 1 .. n /\ t[j] = ks[j - 1]
      <4>1. i \in 1 .. n /\ j - 1 \in 1 .. n /\ i < j - 1
        BY <1>1, <2>1, <2>2, <3>3
      <4> QED BY <1>6, <2>2, <3>3, <4>1
    <3> QED BY <1>7, <3>1, <3>2, <3>3
  <2>3. CASE i = x + 1 /\ t[i] = k
    <3>1. j - 1 \in x + 1 .. n /\ t[j] = ks[j - 1]
      BY <1>7, <1>8, <2>1, <2>3
    <3> QED BY <1>5, <2>3, <3>1
  <2>4. CASE i - 1 \in x + 1 .. n /\ t[i] = ks[i - 1]
    <3>1. j - 1 \in x + 1 .. n /\ t[j] = ks[j - 1]
      BY <1>7, <1>8, <2>1, <2>4
    <3>2. i - 1 \in 1 .. n /\ j - 1 \in 1 .. n /\ i - 1 < j - 1
      BY <1>1, <1>8, <2>1, <2>4, <3>1
    <3> QED BY <1>6, <2>4, <3>1, <3>2
  <2> QED BY <1>7, <2>2, <2>3, <2>4
<1>9. \A j \in 1 .. n + 1 : t[j] = k \/ \E i \in 1 .. n : t[j] = ks[i]
  <2>1. \A j : j \in 1 .. x \/ j \in x + 1 .. n => j \in 1 .. n
    BY <1>1, <1>2
  <2> QED BY <1>7, <2>1
<1>10. \A i \in 1 .. n : \E j \in 1 .. n + 1 : t[j] = ks[i]
  <2> SUFFICES ASSUME NEW i \in 1 .. n PROVE \E j \in 1 .. n + 1 : t[j] = ks[i]
    OBVIOUS
  <2>1. i \in 1 .. n + 1 /\ i + 1 \in 1 .. n + 1 /\ (i \in 1 .. x \/ i \in x + 1 .. n)
    BY <1>1, <1>2
  <2> QED BY <1>4, <2>1
<1>11. Ascending(t)
  BY <1>4, <1>8 DEF Ascending
<1>12. x \in 0 .. Len(ks)
  BY <1>2 DEF n
<1>13. \E j \in 1 .. n + 1 : t[j] = k
  <2>1. x + 1 \in 1 .. n + 1
    BY <1>1, <1>2
  <2> QED BY <1>4, <2>1
<1> QED BY <1>4, <1>9, <1>10, <1>11, <1>12, <1>13 DEF x, t, n

-----------------------------------------------------------------------------
\* search changes nothing but that an empty root is a leaf.
LEMMA SearchedSame ==
  ASSUME Nodes(pages)
  PROVE  /\ SameTree(pages, Searched)
         /\ \A p \in DOMAIN pages : /\ LiveKeys(Searched[p]) = LiveKeys(pages[p])
                                    /\ Searched[p].slotCount = pages[p].slotCount
<1> DEFINE c == [pages[root_] EXCEPT !.level = 0]
<1>1. root_ \in DOMAIN pages /\ NodeOK(pages, root_) /\ PageOK(pages[root_])
  BY DomainIs DEF Nodes, NodeOK
<1>2. CASE EmptyRoot
  <2>1. Len(pages[root_].seps) = 0 /\ pages[root_].seps \in Seq(Sep)
    BY <1>1, <1>2, SepsAre DEF EmptyRoot, SepCount
  <2>2. pages[root_].seps = <<>>
    BY <2>1, EmptySeq
  <2>3. pages[root_].level \in {0, INVALID_TREE_LEVEL}
    BY <1>1, <2>2 DEF NodeOK
  <2>4. Searched = [pages EXCEPT ![root_] = c]
    BY <1>2 DEF Searched
  <2>5. /\ c.level = 0 /\ c.seps = pages[root_].seps /\ c.next = pages[root_].next
        /\ c.slotCount = pages[root_].slotCount /\ c.slots = pages[root_].slots
        /\ c.area = pages[root_].area
    <3>1. pages[root_] \in Page
      BY <1>1 DEF PageOK
    <3> QED BY <3>1 DEF Page
  <2> HIDE DEF c
  <2>6. LiveKeys(c) = LiveKeys(pages[root_])
    BY <2>5, LiveKeysSame
  <2>7. ASSUME NEW p \in DOMAIN pages PROVE Searched[p] = IF p = root_ THEN c ELSE pages[p]
    BY <2>4
  <2>8. SameTree(pages, Searched)
    BY <2>3, <2>4, <2>5, <2>7 DEF SameTree
  <2> QED BY <2>5, <2>6, <2>7, <2>8
<1>3. CASE ~EmptyRoot
  BY <1>3 DEF Searched, SameTree
<1> QED BY <1>2, <1>3

\* The leaf that search finds for a key that is no separator is the one whose range has it.
LEMMA LeafOwns ==
  ASSUME TreeInv, Ready, NEW R, InOrder(pages, call, R), NEW k \in Keys,
         \A p \in DOMAIN pages : \A i \in 1 .. SepCount(pages[p]) : pages[p].seps[i].key # k
  PROVE  LET at == Search(k) IN
         /\ at.leaf \in DOMAIN pages /\ k \in R[at.leaf]
         /\ Nested(pages, R, at.parents)
         /\ \A i \in 1 .. Len(at.parents) : /\ R[at.leaf] \subseteq R[at.parents[i]]
                                            /\ at.parents[i] # at.leaf
<1>1. Nodes(pages) /\ ~call.active
  BY DEF TreeInv, Ready
<1>2. Ordered(pages, R, R) /\ R[root_] = Keys
  BY <1>1, OrderedIs
<1> QED BY <1>1, <1>2, SearchOwns, SearchIs

\* Entries in ascending order, as a sequence.
LEMMA LeafAscending ==
  ASSUME NEW pg, PageOK(pg), NEW S, LeafIn(pg, S)
  PROVE  /\ LiveKeys(pg) \in Seq(Keys) /\ Len(LiveKeys(pg)) = pg.slotCount
         /\ pg.slotCount \in Nat /\ Ascending(LiveKeys(pg))
         /\ \A i \in 1 .. pg.slotCount : LiveKeys(pg)[i] \in S
<1>1. LiveKeys(pg) \in Seq(Keys) /\ Len(LiveKeys(pg)) = pg.slotCount
  BY LiveKeysType
<1>2. pg.slotCount \in Nat
  BY PageFields DEF PageOK
<1> QED BY <1>1, <1>2 DEF LeafIn, Ascending

\* insert puts its key where search ends.
LEMMA InsertKeyOrder ==
  ASSUME TreeInv, Ready, NEW R, InOrder(pages, call, R), NEW k \in Keys, ~Present(k),
         InsertKey(k, Search(k))
  PROVE  InOrder(pages', call', R) /\ GainsKey(pages, pages', k)
<1> DEFINE at == Search(k)
           l  == at.leaf
           pg == Searched[l]
           on == RoomMade(pg, k)
           c  == InsertIntoLeaf(on, at.index, k)
<1>1. Nodes(pages) /\ ~call.active /\ root_ \in DOMAIN pages
  BY DomainIs DEF TreeInv, Ready, Nodes
<1>2. /\ l \in DOMAIN pages /\ PageOK(pg) /\ at.index \in 0 .. pg.slotCount
  BY <1>1, SearchedIs
<1>3. /\ HasSpace(pg, k) /\ pages' = [Searched EXCEPT ![l] = c] /\ call' = call
  BY DEF InsertKey, RoomMade
<1>4. at.index = SearchIn(LiveKeys(pages[l]), k)
  BY DEF Search
<1>5. ~HasKey(pages, k)
  BY PresentIs
<1>6. \A p \in DOMAIN pages : \A i \in 1 .. SepCount(pages[p]) : pages[p].seps[i].key # k
  BY <1>5 DEF InOrder, SepsPresent
<1>7. k \in R[l]
  BY <1>6, LeafOwns
<1>8. /\ SameTree(pages, Searched)
      /\ \A p \in DOMAIN pages : /\ LiveKeys(Searched[p]) = LiveKeys(pages[p])
                                 /\ Searched[p].slotCount = pages[p].slotCount
  BY <1>1, SearchedSame
<1> HIDE DEF at
<1>9. LeafIn(pages[l], R[l]) /\ PageOK(pages[l])
  BY <1>1, <1>2 DEF InOrder, Nodes, NodeOK
<1> DEFINE ks == LiveKeys(pages[l])
           t == InsertAt(ks, at.index + 1, k)
<1>10. /\ ks \in Seq(Keys) /\ Len(ks) = pages[l].slotCount /\ Ascending(ks)
       /\ pages[l].slotCount \in Nat /\ \A i \in 1 .. Len(ks) : ks[i] \in R[l]
  BY <1>9, LeafAscending
<1>11. \A i \in 1 .. Len(ks) : ks[i] # k
  BY <1>2, <1>5, <1>10 DEF HasKey
<1>12. ks = LiveKeys(pg)
  BY <1>2, <1>8
<1> HIDE DEF pg, ks
<1>13. /\ t \in Seq(Keys) /\ Len(t) = Len(ks) + 1 /\ Ascending(t)
       /\ \A j \in 1 .. Len(t) : t[j] = k \/ \E i \in 1 .. Len(ks) : t[j] = ks[i]
       /\ \A i \in 1 .. Len(ks) : \E j \in 1 .. Len(t) : t[j] = ks[i]
       /\ \E j \in 1 .. Len(t) : t[j] = k
  <2>1. at.index = SearchIn(ks, k)
    BY <1>4 DEF ks
  <2>2. t = InsertAt(ks, SearchIn(ks, k) + 1, k)
    BY <2>1
  <2>3. ks \in Seq(Keys) /\ Ascending(ks)
    BY <1>10
  <2>4. t \in Seq(Keys) /\ Len(t) = Len(ks) + 1 /\ Ascending(t)
    BY <1>11, <2>2, <2>3, InsertedAscending
  <2>5. \A j \in 1 .. Len(t) : t[j] = k \/ \E i \in 1 .. Len(ks) : t[j] = ks[i]
    BY <1>11, <2>2, <2>3, InsertedAscending
  <2>6. \A i \in 1 .. Len(ks) : \E j \in 1 .. Len(t) : t[j] = ks[i]
    BY <1>11, <2>2, <2>3, InsertedAscending
  <2>7. \E j \in 1 .. Len(t) : t[j] = k
    BY <1>11, <2>2, <2>3, InsertedAscending
  <2> HIDE DEF t
  <2> QED BY <2>4, <2>5, <2>6, <2>7
<1>14. /\ PageOK(on) /\ on.level = pg.level /\ on.seps = pg.seps /\ on.next = pg.next
       /\ on.slotCount = pg.slotCount /\ LiveKeys(on) = LiveKeys(pg)
       /\ EntrySize(k) <= FreeSpace(on)
  BY <1>2, <1>3, RoomMadeIs
<1> HIDE DEF on
<1>15. /\ LiveKeys(c) = t /\ c.slotCount = on.slotCount + 1
       /\ c.level = pg.level /\ c.seps = pg.seps /\ c.next = pg.next
  <2>1. at.index \in 0 .. on.slotCount
    BY <1>2, <1>14
  <2>2. /\ LiveKeys(c) = InsertAt(LiveKeys(on), at.index + 1, k)
        /\ c.slotCount = on.slotCount + 1 /\ \A f \in Rest : c[f] = on[f]
    BY <1>14, <2>1, InsertIntoLeafIs
  <2> QED BY <1>12, <1>14, <2>2 DEF Rest
<1> HIDE DEF c, t
<1>16. c.slotCount = Len(t)
  BY <1>2, <1>8, <1>10, <1>13, <1>14, <1>15 DEF pg
<1>17. LeafIn(c, R[l])
  BY <1>7, <1>10, <1>13, <1>15, <1>16 DEF LeafIn, Ascending
<1>18. DOMAIN Searched = DOMAIN pages
  BY <1>8 DEF SameTree
<1>19. /\ DOMAIN pages' = DOMAIN pages /\ pages'[l] = c
       /\ \A p \in DOMAIN pages : p # l => pages'[p] = Searched[p]
  BY <1>2, <1>3, <1>18
<1>20. SameTree(pages, pages')
  <2>1. ASSUME NEW p \in DOMAIN pages
        PROVE  /\ pages'[p].level = Searched[p].level /\ pages'[p].seps = Searched[p].seps
               /\ pages'[p].next = Searched[p].next
    BY <1>15, <1>19 DEF pg
  <2> QED BY <1>8, <1>19, <2>1 DEF SameTree
<1>21. ASSUME NEW p \in DOMAIN pages PROVE LeafIn(pages'[p], R[p])
  <2>1. CASE p = l
    BY <1>17, <1>19, <2>1
  <2>2. CASE p # l
    <3>1. LeafIn(pages[p], R[p]) /\ pages'[p] = Searched[p]
      BY <1>19, <2>2 DEF InOrder
    <3> QED BY <1>8, <3>1 DEF LeafIn
  <2> QED BY <2>1, <2>2
<1>22. ASSUME NEW x, HasKey(pages, x) PROVE HasKey(pages', x)
  <2>1. PICK p \in DOMAIN pages : \E i \in 1 .. pages[p].slotCount : LiveKeys(pages[p])[i] = x
    BY <1>22 DEF HasKey
  <2>2. CASE p = l
    <3>1. PICK j \in 1 .. Len(t) : t[j] = x
      BY <1>10, <1>13, <2>1, <2>2 DEF ks
    <3> QED BY <1>2, <1>15, <1>16, <1>19, <3>1 DEF HasKey
  <2>3. CASE p # l
    BY <1>8, <1>19, <2>1, <2>3 DEF HasKey
  <2> QED BY <2>2, <2>3
<1>23. \A p \in DOMAIN pages : \A i \in 1 .. SepCount(pages[p]) :
         HasKey(pages', pages[p].seps[i].key)
  BY <1>22 DEF InOrder, SepsPresent
<1>24. ASSUME NEW x, HasKey(pages', x) PROVE HasKey(pages, x) \/ x = k
  <2>1. PICK p \in DOMAIN pages : \E i \in 1 .. pages'[p].slotCount : LiveKeys(pages'[p])[i] = x
    BY <1>19, <1>24 DEF HasKey
  <2>2. CASE p = l
    <3>1. PICK j \in 1 .. Len(t) : t[j] = x
      BY <1>15, <1>16, <1>19, <2>1, <2>2
    <3>2. x = k \/ \E i \in 1 .. pages[l].slotCount : ks[i] = x
      BY <1>10, <1>13, <3>1
    <3> QED BY <1>2, <3>2 DEF HasKey, ks
  <2>3. CASE p # l
    BY <1>8, <1>19, <2>1, <2>3 DEF HasKey
  <2> QED BY <2>2, <2>3
<1>25. HasKey(pages', k)
  BY <1>2, <1>13, <1>15, <1>16, <1>19 DEF HasKey
<1> QED BY <1>1, <1>3, <1>20, <1>21, <1>22, <1>23, <1>24, <1>25, EntriesChanged DEF GainsKey

\* Ascending keys are still ascending when one is taken away.
LEMMA RemovedAscending ==
  ASSUME NEW ks \in Seq(Keys), Ascending(ks), NEW x \in 1 .. Len(ks)
  PROVE  LET t == RemoveAt(ks, x) IN
         /\ t \in Seq(Keys) /\ Len(t) = Len(ks) - 1 /\ Len(ks) \in Nat /\ Ascending(t)
         /\ \A j \in 1 .. Len(t) : \E i \in 1 .. Len(ks) : t[j] = ks[i] /\ t[j] # ks[x]
         /\ \A i \in 1 .. Len(ks) : i = x \/ \E j \in 1 .. Len(t) : t[j] = ks[i]
<1> DEFINE t == RemoveAt(ks, x)
           n == Len(ks)
<1>1. /\ t \in Seq(Keys) /\ Len(t) = n - 1 /\ n \in Nat
      /\ \A j \in 1 .. x - 1 : t[j] = ks[j]
      /\ \A j \in x .. n - 1 : t[j] = ks[j + 1]
  <2>1. n \in Nat
    OBVIOUS
  <2>2. /\ t \in Seq(Keys) /\ Len(t) = n - 1
        /\ \A j \in 1 .. x - 1 : t[j] = ks[j]
        /\ \A j \in x .. n - 1 : t[j] = ks[j + 1]
    BY RemoveAtIs, Zenon
  <2> QED BY <2>1, <2>2
<1>2. \A i, j \in 1 .. n : i < j => ks[i] < ks[j]
  BY DEF Ascending
<1> HIDE DEF t, n
<1>3. x \in 1 .. n
  BY DEF n
<1>4. \A j \in 1 .. n - 1 : \/ j \in 1 .. x - 1 /\ t[j] = ks[j]
                            \/ j \in x .. n - 1 /\ t[j] = ks[j + 1]
  <2> SUFFICES ASSUME NEW j \in 1 .. n - 1
               PROVE  \/ j \in 1 .. x - 1 /\ t[j] = ks[j]
                      \/ j \in x .. n - 1 /\ t[j] = ks[j + 1]
    OBVIOUS
  <2>1. j \in 1 .. x - 1 \/ j \in x .. n - 1
    BY <1>1, <1>3
  <2> QED BY <1>1, <2>1
<1>5. ASSUME NEW i \in 1 .. n - 1, NEW j \in 1 .. n - 1, i < j PROVE t[i] < t[j]
  <2>1. i \in 1 .. n /\ j \in 1 .. n /\ i + 1 \in 1 .. n /\ j + 1 \in 1 .. n
        /\ i < j + 1 /\ i + 1 < j + 1
    BY <1>1, <1>5
  <2>2. ~(i \in x .. n - 1 /\ j \in 1 .. x - 1)
    BY <1>3, <1>5
  <2> QED BY <1>2, <1>4, <1>5, <2>1, <2>2
<1>6. \A j \in 1 .. n - 1 : \E i \in 1 .. n : t[j] = ks[i] /\ t[j] # ks[x]
  <2> SUFFICES ASSUME NEW j \in 1 .. n - 1
               PROVE  \E i \in 1 .. n : t[j] = ks[i] /\ t[j] # ks[x]
    OBVIOUS
  <2>1. PICK i \in 1 .. n : t[j] = ks[i] /\ (i < x \/ x < i)
    <3>1. j \in 1 .. n /\ j + 1 \in 1 .. n
      BY <1>1
    <3>2. CASE j \in 1 .. x - 1 /\ t[j] = ks[j]
      BY <1>3, <3>1, <3>2
    <3>3. CASE j \in x .. n - 1 /\ t[j] = ks[j + 1]
      <4>1. x < j + 1
        BY <1>3, <3>3
      <4> QED BY <3>1, <3>3, <4>1
    <3> QED BY <1>4, <3>2, <3>3
  <2>2. ks[i] < ks[x] \/ ks[x] < ks[i]
    BY <1>2, <1>3, <2>1
  <2>3. ks[i] \in Int /\ ks[x] \in Int
    <3>1. ks[i] \in Keys /\ ks[x] \in Keys
      BY <1>3 DEF n
    <3>2. Keys \subseteq Int
      BY SlotsAssumption
    <3> QED BY <3>1, <3>2
  <2> QED BY <2>1, <2>2, <2>3
<1>7. \A i \in 1 .. n : i = x \/ \E j \in 1 .. n - 1 : t[j] = ks[i]
  <2> SUFFICES ASSUME NEW i \in 1 .. n, i # x PROVE \E j \in 1 .. n - 1 : t[j] = ks[i]
    OBVIOUS
  <2>1. CASE i < x
    <3>1. i \in 1 .. x - 1 /\ i \in 1 .. n - 1
      BY <1>1, <1>3, <2>1
    <3> QED BY <1>1, <3>1
  <2>2. CASE i > x
    <3>1. i - 1 \in x .. n - 1 /\ i - 1 \in 1 .. n - 1 /\ i - 1 + 1 = i
      BY <1>1, <1>3, <2>2
    <3>2. t[i - 1] = ks[i - 1 + 1]
      BY <1>1, <3>1
    <3> QED BY <3>1, <3>2
  <2> QED BY <1>3, <2>1, <2>2
<1>8. Ascending(t)
  BY <1>1, <1>5 DEF Ascending
<1> QED BY <1>1, <1>6, <1>7, <1>8 DEF t, n

\* remove takes the entry away that it was asked to: no separator loses its key.
LEMMA RemoveKeyOrder ==
  ASSUME Orderly, TreeInv, Ready, NEW R, InOrder(pages, call, R), NEW k \in Keys, MayRemove(k),
         RemoveKey(k, Search(k))
  PROVE  InOrder(pages', call', R) /\ LosesKey(pages, pages', k)
<1> DEFINE at == Search(k)
           l  == at.leaf
           pg == pages[l]
           c  == RemoveFromLeaf(pg, at.index)
           ks == LiveKeys(pg)
<1>1. Nodes(pages) /\ ~call.active /\ root_ \in DOMAIN pages
  BY DomainIs DEF TreeInv, Ready, Nodes
<1>2. HasKey(pages, k)
  BY PresentIs DEF Orderly, MayRemove
<1>3. \A p \in DOMAIN pages : \A i \in 1 .. SepCount(pages[p]) : pages[p].seps[i].key # k
  BY <1>1, SeparatorIs DEF Orderly, MayRemove
<1>4. l \in DOMAIN pages /\ k \in R[l]
  BY <1>3, LeafOwns
<1>5. at.index = SearchIn(ks, k)
  BY DEF Search
<1>6. pages[l].level \in {0, INVALID_TREE_LEVEL}
  BY <1>1, SearchIs
<1>7. IF pg.slotCount = 0 THEN UNCHANGED pages ELSE pages' = [pages EXCEPT ![l] = c]
  BY DEF RemoveKey
<1>8. call' = call
  BY DEF RemoveKey
<1> HIDE DEF at
<1>9. \A p \in DOMAIN pages : LeafIn(pages[p], R[p]) /\ PageOK(pages[p]) /\ NodeOK(pages, p)
  BY <1>1 DEF InOrder, Nodes, NodeOK
<1>10. ASSUME NEW p \in DOMAIN pages, \E i \in 1 .. pages[p].slotCount : LiveKeys(pages[p])[i] = k
       PROVE  p = l
  <2>1. k \in R[p]
    BY <1>9, <1>10 DEF LeafIn
  <2>2. pages[p].slotCount \in Nat /\ pages[p].slotCount > 0
    <3>1. pages[p].slotCount \in Nat
      BY <1>9, PageFields DEF PageOK
    <3> QED BY <1>10, <3>1
  <2>3. pages[p].level = 0 /\ pages[p].level # INVALID_TREE_LEVEL
    BY <1>9, <2>2 DEF NodeOK, INVALID_TREE_LEVEL
  <2>4. SUFFICES ASSUME p # l PROVE FALSE
    OBVIOUS
  <2>5. pages[root_].level # INVALID_TREE_LEVEL
    BY <1>4, <2>4 DEF InOrder, RootAbove
  <2>6. pages[l].level = 0
    BY <1>4, <1>6, <1>9, <2>5 DEF NodeOK
  <2> QED BY <1>4, <2>1, <2>3, <2>4, <2>6 DEF InOrder, RangesOf
<1>11. \E i \in 1 .. pg.slotCount : ks[i] = k
  BY <1>2, <1>10 DEF HasKey
<1>12. PICK x \in 1 .. pg.slotCount : ks[x] = k
  BY <1>11
<1> HIDE DEF pg
<1>13. PageOK(pg) /\ pg.slotCount \in Nat /\ ks \in Seq(Keys) /\ Len(ks) = pg.slotCount
       /\ Ascending(ks) /\ \A i \in 1 .. pg.slotCount : ks[i] \in R[l]
  BY <1>4, <1>9, LeafAscending DEF pg
<1> HIDE DEF ks
<1>14. at.index = x - 1
  <2> DEFINE y == at.index
  <2>1. ks \in [1 .. Len(ks) -> Keys] /\ Keys \subseteq Int /\ Len(ks) \in Nat
    BY <1>13, SlotsAssumption
  <2>2. \A i \in 1 .. Len(ks) : ks[i] \in Int
    BY <2>1
  <2>3. ks \in [1 .. Len(ks) -> Int]
    BY <2>1, <2>2
  <2>4. ks \in Seq(Int) /\ k \in Int
    BY <2>1, <2>3, SeqDef
  <2>5. /\ y \in 0 .. Len(ks)
        /\ \A i \in 1 .. y : ks[i] < k
        /\ \A i \in y + 1 .. Len(ks) : ks[i] >= k
    BY <1>5, <1>13, <2>4, SearchSeparates DEF Ascending
  <2>6. \A i, j \in 1 .. Len(ks) : i < j => ks[i] < ks[j]
    BY <1>13 DEF Ascending
  <2> HIDE DEF y
  <2>7. x \in 1 .. Len(ks)
    BY <1>12, <1>13
  <2>8. ~(x <= y)
    <3> SUFFICES ASSUME x <= y PROVE FALSE
      OBVIOUS
    <3>1. x \in 1 .. y
      BY <2>5, <2>7
    <3> QED BY <1>12, <2>4, <2>5, <3>1
  <2>9. ~(x > y + 1)
    <3> SUFFICES ASSUME x > y + 1 PROVE FALSE
      OBVIOUS
    <3>1. y + 1 \in 1 .. Len(ks) /\ y + 1 < x /\ y + 1 \in y + 1 .. Len(ks)
      BY <2>1, <2>5, <2>7
    <3>2. ks[y + 1] < k /\ ks[y + 1] >= k /\ ks[y + 1] \in Int
      BY <1>12, <2>2, <2>5, <2>6, <2>7, <3>1
    <3> QED BY <2>4, <3>2
  <2>10. y = x - 1
    BY <2>1, <2>5, <2>7, <2>8, <2>9
  <2> QED BY <2>10 DEF y
<1> DEFINE t == RemoveAt(ks, x)
<1>15. /\ LiveKeys(c) = t /\ c.slotCount = pg.slotCount - 1
       /\ c.level = pg.level /\ c.seps = pg.seps /\ c.next = pg.next
  <2>1. pg.slotCount > 0 /\ x - 1 \in 0 .. pg.slotCount /\ x - 1 # pg.slotCount /\ x - 1 + 1 = x
    BY <1>12, <1>13
  <2>2. /\ LiveKeys(c) = RemoveAt(LiveKeys(pg), x - 1 + 1)
        /\ c.slotCount = pg.slotCount - 1 /\ \A f \in Rest : c[f] = pg[f]
    <3> DEFINE y == x - 1
    <3>1. c = RemoveFromLeaf(pg, y)
      BY <1>14
    <3>2. PageOK(pg) /\ pg.slotCount > 0 /\ y \in 0 .. pg.slotCount /\ y # pg.slotCount
      BY <1>13, <2>1
    <3> HIDE DEF y, c
    <3>3. /\ LiveKeys(c) = RemoveAt(LiveKeys(pg), y + 1)
          /\ c.slotCount = pg.slotCount - 1 /\ \A f \in Rest : c[f] = pg[f]
      BY <3>1, <3>2, RemoveFromLeafIs
    <3> QED BY <3>3 DEF y
  <2> QED BY <2>1, <2>2 DEF Rest, ks
<1>16. /\ t \in Seq(Keys) /\ Len(t) = Len(ks) - 1 /\ Len(ks) \in Nat /\ Ascending(t)
       /\ \A j \in 1 .. Len(t) : \E i \in 1 .. Len(ks) : t[j] = ks[i] /\ t[j] # ks[x]
       /\ \A i \in 1 .. Len(ks) : i = x \/ \E j \in 1 .. Len(t) : t[j] = ks[i]
  <2>1. x \in 1 .. Len(ks)
    BY <1>12, <1>13
  <2> QED BY <1>13, <2>1, RemovedAscending, Zenon
<1> HIDE DEF c, t
<1>17. c.slotCount = Len(t) /\ pg.slotCount # 0
  BY <1>12, <1>13, <1>15, <1>16
<1>18. /\ DOMAIN pages' = DOMAIN pages /\ pages'[l] = c
       /\ \A q \in DOMAIN pages : q # l => pages'[q] = pages[q]
  BY <1>4, <1>7, <1>17
<1>19. SameTree(pages, pages')
  BY <1>15, <1>18 DEF SameTree, pg
<1>20. ASSUME NEW q \in DOMAIN pages PROVE LeafIn(pages'[q], R[q])
  <2>1. CASE q = l
    <3>1. \A i \in 1 .. c.slotCount : LiveKeys(c)[i] \in R[l]
      BY <1>13, <1>15, <1>16, <1>17
    <3>2. \A i, j \in 1 .. c.slotCount : i < j => LiveKeys(c)[i] < LiveKeys(c)[j]
      BY <1>15, <1>16, <1>17 DEF Ascending
    <3> QED BY <1>18, <2>1, <3>1, <3>2 DEF LeafIn
  <2>2. CASE q # l
    BY <1>9, <1>18, <2>2
  <2> QED BY <2>1, <2>2
<1>21. ASSUME NEW z, z # k, HasKey(pages, z) PROVE HasKey(pages', z)
  <2>1. PICK q \in DOMAIN pages : \E i \in 1 .. pages[q].slotCount : LiveKeys(pages[q])[i] = z
    BY <1>21 DEF HasKey
  <2>2. CASE q = l
    <3>1. PICK i \in 1 .. Len(ks) : ks[i] = z
      BY <1>13, <2>1, <2>2 DEF ks, pg
    <3>2. PICK j \in 1 .. Len(t) : t[j] = z
      BY <1>12, <1>16, <1>21, <3>1
    <3> QED BY <1>4, <1>15, <1>17, <1>18, <3>2 DEF HasKey
  <2>3. CASE q # l
    BY <1>18, <2>1, <2>3 DEF HasKey
  <2> QED BY <2>2, <2>3
<1>22. \A q \in DOMAIN pages : \A i \in 1 .. SepCount(pages[q]) :
         HasKey(pages', pages[q].seps[i].key)
  BY <1>3, <1>21 DEF InOrder, SepsPresent
<1>23. ASSUME NEW z, HasKey(pages', z) PROVE HasKey(pages, z) /\ z # k
  <2>1. PICK q \in DOMAIN pages : \E i \in 1 .. pages'[q].slotCount : LiveKeys(pages'[q])[i] = z
    BY <1>18, <1>23 DEF HasKey
  <2>2. CASE q = l
    <3>1. PICK j \in 1 .. Len(t) : t[j] = z
      BY <1>15, <1>17, <1>18, <2>1, <2>2
    <3>2. z # k /\ \E i \in 1 .. pg.slotCount : ks[i] = z
      BY <1>12, <1>13, <1>16, <3>1
    <3> QED BY <1>4, <3>2 DEF HasKey, ks, pg
  <2>3. CASE q # l
    BY <1>10, <1>18, <2>1, <2>3 DEF HasKey
  <2> QED BY <2>2, <2>3
<1> QED BY <1>1, <1>8, <1>19, <1>20, <1>21, <1>22, <1>23, EntriesChanged DEF LosesKey

\* search makes an empty root a leaf.
LEMMA SearchedOrder ==
  ASSUME TreeInv, Ready, NEW R, InOrder(pages, call, R), pages' = Searched, call' = call
  PROVE  InOrder(pages', call', R) /\ SameKeys(pages, pages')
<1>1. pages' = Searched /\ call' = call
  OBVIOUS
<1>2. Nodes(pages) /\ ~call.active /\ root_ \in DOMAIN pages
  BY DomainIs DEF TreeInv, Ready, Nodes
<1>3. /\ SameTree(pages, Searched)
      /\ \A p \in DOMAIN pages : /\ LiveKeys(Searched[p]) = LiveKeys(pages[p])
                                 /\ Searched[p].slotCount = pages[p].slotCount
  BY <1>2, SearchedSame
<1>4. \A p \in DOMAIN pages : LeafIn(Searched[p], R[p])
  BY <1>3 DEF InOrder, LeafIn
<1>5. \A z : HasKey(Searched, z) <=> HasKey(pages, z)
  BY <1>3 DEF HasKey, SameTree
<1>6. \A p \in DOMAIN pages : \A i \in 1 .. SepCount(pages[p]) :
        HasKey(Searched, pages[p].seps[i].key)
  BY <1>5 DEF InOrder, SepsPresent
<1> QED BY <1>1, <1>2, <1>3, <1>4, <1>5, <1>6, EntriesChanged DEF SameKeys

\* remove of a key that is not there does no more.
LEMMA RemoveNothingOrder ==
  ASSUME TreeInv, Ready, NEW R, InOrder(pages, call, R), NEW k, RemoveNothing(k, Search(k))
  PROVE  InOrder(pages', call', R) /\ SameKeys(pages, pages')
  BY SearchedOrder DEF RemoveNothing

\* In an empty tree all keys are in the range of the root.
LEMMA InitOrder ==
  ASSUME TreeInit
  PROVE  InOrder(pages, call, [p \in {root_} |-> Keys])
<1> DEFINE R == [p \in {root_} |-> Keys]
<1>1. DOMAIN pages = {root_} /\ pages[root_] = NewRoot /\ ~call.active
  BY DEF TreeInit, NoCall
<1>2. /\ NewRoot.slotCount = 0 /\ NewRoot.level = INVALID_TREE_LEVEL
      /\ SepCount(NewRoot) = 0
  BY DEF NewRoot, NewPage, SepCount
<1>3. RangesOf(pages, R)
  BY <1>1 DEF RangesOf
<1>4. Owned(R, call)[root_] = Keys
  BY <1>1 DEF Owned
<1>5. \A p \in DOMAIN pages : LeafIn(pages[p], R[p]) /\ InnerIn(pages[p], R[p], Owned(R, call))
  BY <1>1, <1>2 DEF LeafIn, InnerIn, Inner
<1>6. RootAbove(pages) /\ SepsPresent(pages) /\ ClimbIn(pages, call, R)
  BY <1>1, <1>2 DEF RootAbove, SepsPresent, ClimbIn
<1> QED BY <1>3, <1>4, <1>5, <1>6 DEF InOrder

-----------------------------------------------------------------------------
\* The keys of S below k, and the others.
Lower(S, k) == {x \in S : x < k}
Upper(S, k) == {x \in S : k <= x}

\* The ranges once page l has been divided at k, between itself and the new page r.
Cut(R, l, r, k) ==
  [p \in DOMAIN R \cup {r} |-> IF p = l THEN Lower(R[l], k)
                               ELSE IF p = r THEN Upper(R[l], k) ELSE R[p]]

\* The ranges after a step that has split a page.
CutHere(R) == Cut(R, call'.left, call'.right, call'.key)

\* way leads to l by ranges that hold that of l.
Leads(ps, R, way, l) ==
  /\ Nested(ps, R, way)
  /\ \A i \in 1 .. Len(way) : /\ way[i] \in DOMAIN ps /\ way[i] # l
                              /\ R[l] \subseteq R[way[i]]

\* qs has a page r beside l that ps does not have.
Beside(ps, qs, l, r) ==
  /\ l \in DOMAIN ps /\ r \notin DOMAIN ps
  /\ DOMAIN qs = DOMAIN ps \cup {r}
  /\ \A p \in DOMAIN ps : qs[p].level = ps[p].level
  /\ qs[r].level = ps[l].level

\* The insertion c has divided the range R[c.left] at its key: both halves have keys, and
\* no inner page of qs knows of the new page.
CutCase(ps, R, qs, c) ==
  /\ RangesOf(ps, R) /\ root_ \in DOMAIN ps /\ Beside(ps, qs, c.left, c.right)
  /\ c.key \in R[c.left] /\ \E x \in R[c.left] : x < c.key
  /\ Leads(ps, R, c.parents, c.left)
  /\ c.active /\ HasKey(qs, c.key)
  /\ \A p \in DOMAIN qs : Inner(qs[p]) =>
       \A i \in 0 .. SepCount(qs[p]) : ChildOf(qs[p], i) # c.right

\* Then Q are ranges of the pages, and inner pages, which do not know of the new one, see
\* what they have seen.
CutDone(ps, R, qs, c, Q) ==
  /\ RangesOf(qs, Q)
  /\ \A p \in DOMAIN ps : p # c.left => Q[p] = R[p]
  /\ Q[c.left] = Lower(R[c.left], c.key) /\ Q[c.right] = Upper(R[c.left], c.key)
  /\ Owned(Q, c) \in [DOMAIN qs -> SUBSET Keys]
  /\ \A p \in DOMAIN ps : Owned(Q, c)[p] = R[p]
  /\ ClimbIn(qs, c, Q)

\* So it is with the range cut in two.
LEMMA CutIs ==
  ASSUME NEW ps, NEW R, NEW qs, NEW c, CutCase(ps, R, qs, c)
  PROVE  CutDone(ps, R, qs, c, Cut(R, c.left, c.right, c.key))
<1> DEFINE l == c.left
           r == c.right
           k == c.key
           way == c.parents
<1>0. /\ RangesOf(ps, R) /\ root_ \in DOMAIN ps /\ Beside(ps, qs, l, r)
      /\ k \in R[l] /\ Leads(ps, R, way, l) /\ c.active /\ HasKey(qs, k)
      /\ \A p \in DOMAIN qs : Inner(qs[p]) => \A i \in 0 .. SepCount(qs[p]) : ChildOf(qs[p], i) # r
  BY DEF CutCase
<1>1. PICK x \in R[l] : x < k
  BY DEF CutCase
<1> HIDE DEF l, r, k, way
<1> DEFINE Q == Cut(R, l, r, k)
<1>2. R \in [DOMAIN ps -> SUBSET Keys] /\ l \in DOMAIN ps /\ r \notin DOMAIN ps
  BY <1>0 DEF RangesOf, Beside
<1>3. \A y \in R[l] : y \in Int /\ k \in Int
  BY <1>0, <1>2, SlotsAssumption
<1>4. /\ DOMAIN Q = DOMAIN qs
      /\ \A p \in DOMAIN ps : p # l => Q[p] = R[p]
      /\ Q[l] = Lower(R[l], k) /\ Q[r] = Upper(R[l], k)
      /\ Q = [p \in DOMAIN qs |-> Q[p]]
  BY <1>0, <1>2 DEF Cut, Beside
<1> HIDE DEF Q
<1>5. /\ x \in Q[l] /\ k \in Q[r] /\ Q[l] \cup Q[r] = R[l] /\ Q[l] \cap Q[r] = {}
      /\ r # l
  BY <1>0, <1>1, <1>2, <1>3, <1>4 DEF Lower, Upper
<1>6. \A p \in DOMAIN qs : p \in DOMAIN ps \/ p = r
  BY <1>0 DEF Beside
<1>7. Q \in [DOMAIN qs -> SUBSET Keys]
  <2>1. \A p \in DOMAIN qs : Q[p] \in SUBSET Keys
    <3> SUFFICES ASSUME NEW p \in DOMAIN qs PROVE Q[p] \in SUBSET Keys
      OBVIOUS
    <3>1. CASE p = l \/ p = r
      BY <1>0, <1>2, <1>4, <3>1 DEF Lower, Upper
    <3>2. CASE p \in DOMAIN ps /\ p # l
      BY <1>0, <1>2, <1>4, <3>2
    <3> QED BY <1>0, <1>6, <3>1, <3>2
  <2> QED BY <1>0, <1>4, <2>1
<1>8. ASSUME NEW p \in DOMAIN ps
      PROVE  Q[p] \subseteq R[p]
  BY <1>0, <1>4, <1>5
<1>9. ASSUME NEW p \in DOMAIN qs, NEW q \in DOMAIN qs, p # q, qs[p].level = qs[q].level
      PROVE  Q[p] \cap Q[q] = {}
  <2>1. CASE p \in DOMAIN ps /\ q \in DOMAIN ps
    <3>1. ps[p].level = ps[q].level
      BY <1>0, <1>9, <2>1 DEF Beside
    <3>2. R[p] \cap R[q] = {}
      BY <1>0, <1>9, <2>1, <3>1 DEF RangesOf
    <3> QED BY <1>0, <1>8, <2>1, <3>2
  <2>2. ASSUME NEW z \in DOMAIN ps, qs[z].level = qs[r].level PROVE Q[z] \cap Q[r] = {}
    <3>1. CASE z = l
      BY <1>0, <1>5, <3>1
    <3>2. CASE z # l
      <4>1. ps[z].level = ps[l].level
        BY <1>0, <2>2 DEF Beside
      <4>2. R[z] \cap R[l] = {}
        BY <1>0, <1>2, <3>2, <4>1 DEF RangesOf
      <4> QED BY <1>0, <1>4, <1>5, <3>2, <4>2
    <3> QED BY <1>0, <3>1, <3>2
  <2>3. CASE p = r
    BY <1>0, <1>6, <1>9, <2>2, <2>3
  <2>4. CASE q = r
    BY <1>0, <1>6, <1>9, <2>2, <2>4
  <2> QED BY <1>0, <1>6, <2>1, <2>3, <2>4
<1>10. RangesOf(qs, Q)
  <2>1. ASSUME NEW p \in DOMAIN qs \ {root_} PROVE Q[p] # {}
    <3>1. CASE p = l \/ p = r
      BY <1>0, <1>5, <3>1
    <3>2. CASE p \in DOMAIN ps /\ p # l
      BY <1>0, <1>4, <2>1, <3>2 DEF RangesOf
    <3> QED BY <1>0, <1>6, <3>1, <3>2
  <2> QED BY <1>0, <1>7, <1>9, <2>1 DEF RangesOf
<1>11. /\ Owned(Q, c) \in [DOMAIN qs -> SUBSET Keys]
       /\ \A p \in DOMAIN ps : Owned(Q, c)[p] = R[p]
  <2>1. l \in DOMAIN qs /\ r \in DOMAIN qs /\ DOMAIN ps \subseteq DOMAIN qs
    BY <1>0, <1>2 DEF Beside
  <2>2. Owned(Q, c) = [Q EXCEPT ![l] = R[l]]
    BY <1>0, <1>5 DEF Owned, l, r
  <2>3. R[l] \in SUBSET Keys
    BY <1>0, <1>2
  <2> QED BY <1>0, <1>4, <1>7, <2>1, <2>2, <2>3
<1>12. \A i \in 1 .. Len(way) : /\ way[i] \in DOMAIN ps /\ way[i] # l
                                /\ R[l] \subseteq R[way[i]]
  BY <1>0 DEF Leads
<1>13. ClimbIn(qs, c, Q)
  <2>1. \A y \in Q[l] : y < k
    BY <1>0, <1>4 DEF Lower
  <2>2. \A y \in Q[r] : k <= y
    BY <1>0, <1>4 DEF Upper
  <2>3. Nested(qs, Q, way)
    <3>1. Nested(ps, R, way)
      BY <1>0 DEF Leads
    <3>2. \A i \in 1 .. Len(way) : Q[way[i]] = R[way[i]] /\ qs[way[i]].level = ps[way[i]].level
      BY <1>0, <1>4, <1>12 DEF Beside
    <3> QED BY <1>0, <3>1, <3>2 DEF Nested
  <2>4. ASSUME NEW i \in 1 .. Len(way) PROVE Q[l] \cup Q[r] \subseteq Q[way[i]]
    <3>1. Q[way[i]] = R[way[i]] /\ R[l] \subseteq R[way[i]]
      BY <1>0, <1>4, <1>12
    <3> QED BY <1>0, <1>5, <3>1
  <2> QED BY <1>0, <1>5, <2>1, <2>2, <2>3, <2>4 DEF ClimbIn, l, r, k, way
<1> QED BY <1>4, <1>10, <1>11, <1>13 DEF Q, CutDone, l, r, k

\* What splitLeaf does to a leaf pg with the keys S for k, which is not in it.
LeafCut(pg, S, k, index, new) ==
  /\ PageOK(pg) /\ LeafIn(pg, S)
  /\ k \in Keys /\ k \in S /\ \A i \in 1 .. pg.slotCount : LiveKeys(pg)[i] # k
  /\ index = SearchIn(LiveKeys(pg), k)
  /\ \E split \in 0 .. pg.slotCount : Halves(new, InsertAt(LiveKeys(pg), index + 1, k), split)
  /\ new.stay > 0 /\ FreeSpace(new.right) >= 0

\* x is k or a key of the page.
Among(pg, k, x) == x = k \/ \E i \in 1 .. pg.slotCount : LiveKeys(pg)[i] = x

\* The two leaves have the keys below and above new.key: those of pg, and k.
TwoLeaves(pg, S, k, new) ==
  /\ LeafIn(new.left, Lower(S, new.key))
  /\ LeafIn(new.right, Upper(S, new.key))
  /\ new.key \in S /\ \E x \in S : x < new.key
  /\ \E i \in 1 .. new.right.slotCount : LiveKeys(new.right)[i] = new.key
  /\ \A i \in 1 .. pg.slotCount :
       \/ \E j \in 1 .. new.left.slotCount : LiveKeys(new.left)[j] = LiveKeys(pg)[i]
       \/ \E j \in 1 .. new.right.slotCount : LiveKeys(new.right)[j] = LiveKeys(pg)[i]
  /\ \/ \E j \in 1 .. new.left.slotCount : LiveKeys(new.left)[j] = k
     \/ \E j \in 1 .. new.right.slotCount : LiveKeys(new.right)[j] = k
  /\ \A j \in 1 .. new.left.slotCount : Among(pg, k, LiveKeys(new.left)[j])
  /\ \A j \in 1 .. new.right.slotCount : Among(pg, k, LiveKeys(new.right)[j])

\* The two leaves that the keys of one go to, with one more.
LEMMA LeafHalves ==
  ASSUME NEW pg, NEW S, NEW k, NEW index, NEW new, LeafCut(pg, S, k, index, new)
  PROVE  TwoLeaves(pg, S, k, new)
<1> DEFINE ks == LiveKeys(pg)
           t == InsertAt(ks, index + 1, k)
           n == Len(t)
           key == new.key
           lk == LiveKeys(new.left)
           rk == LiveKeys(new.right)
<1>1. /\ ks \in Seq(Keys) /\ Len(ks) = pg.slotCount /\ pg.slotCount \in Nat /\ Ascending(ks)
      /\ \A i \in 1 .. pg.slotCount : ks[i] \in S
  BY LeafAscending DEF LeafCut
<1>2. (\A i \in 1 .. Len(ks) : ks[i] # k) /\ k \in Keys /\ k \in S
  BY <1>1 DEF LeafCut
<1>3. PICK split \in 0 .. pg.slotCount : Halves(new, t, split)
  BY DEF LeafCut
<1> HIDE DEF ks
<1>4. /\ t \in Seq(Keys) /\ Len(t) = Len(ks) + 1 /\ Ascending(t)
      /\ \A j \in 1 .. Len(t) : t[j] = k \/ \E i \in 1 .. Len(ks) : t[j] = ks[i]
      /\ \A i \in 1 .. Len(ks) : \E j \in 1 .. Len(t) : t[j] = ks[i]
      /\ \E j \in 1 .. Len(t) : t[j] = k
  <2>1. index = SearchIn(ks, k)
    BY DEF ks, LeafCut
  <2> HIDE DEF t
  <2>2. t = InsertAt(ks, SearchIn(ks, k) + 1, k)
    BY <2>1 DEF t
  <2>3. t \in Seq(Keys) /\ Len(t) = Len(ks) + 1 /\ Ascending(t)
    BY <1>1, <1>2, <2>2, InsertedAscending
  <2>4. \A j \in 1 .. Len(t) : t[j] = k \/ \E i \in 1 .. Len(ks) : t[j] = ks[i]
    BY <1>1, <1>2, <2>2, InsertedAscending
  <2>5. \A i \in 1 .. Len(ks) : \E j \in 1 .. Len(t) : t[j] = ks[i]
    BY <1>1, <1>2, <2>2, InsertedAscending
  <2>6. \E j \in 1 .. Len(t) : t[j] = k
    BY <1>1, <1>2, <2>2, InsertedAscending
  <2> QED BY <2>3, <2>4, <2>5, <2>6
<1> HIDE DEF t
<1>5. /\ n \in Nat /\ n = pg.slotCount + 1
      /\ \A j \in 1 .. n : t[j] \in S /\ t[j] \in Int
      /\ \A i, j \in 1 .. n : i < j => t[i] < t[j]
      /\ \A i \in 1 .. pg.slotCount : \E j \in 1 .. n : t[j] = ks[i]
      /\ \E j \in 1 .. n : t[j] = k
      /\ \A j \in 1 .. n : Among(pg, k, t[j])
  <2>1. n = pg.slotCount + 1 /\ n \in Nat
    BY <1>1, <1>4
  <2>2. \A j \in 1 .. n : t[j] \in S
    BY <1>1, <1>2, <1>4
  <2>3. \A j \in 1 .. n : t[j] \in Keys
    BY <1>4
  <2>4. \A j \in 1 .. n : t[j] \in Int
    <3>1. Keys \subseteq Int
      BY SlotsAssumption
    <3> QED BY <2>3, <3>1
  <2>5. \A i, j \in 1 .. n : i < j => t[i] < t[j]
    BY <1>4 DEF Ascending
  <2>6. \A i \in 1 .. pg.slotCount : \E j \in 1 .. n : t[j] = ks[i]
    BY <1>1, <1>4
  <2>7. \E j \in 1 .. n : t[j] = k
    BY <1>4
  <2>8. \A j \in 1 .. n : Among(pg, k, t[j])
    BY <1>1, <1>4 DEF Among, ks
  <2> QED BY <2>1, <2>2, <2>4, <2>5, <2>6, <2>7, <2>8
<1>6. /\ split > 0 /\ key = t[split + 1] /\ new.left.slotCount = split
      /\ \A i \in 1 .. split : lk[i] = t[i]
      /\ new.right.slotCount = n - split
      /\ \A i \in 1 .. n - split : rk[i] = t[split + i]
  BY <1>3 DEF Halves, LeafCut
<1> HIDE DEF lk, rk, n, key
<1>7. split \in Nat /\ split + 1 \in 1 .. n /\ split \in 1 .. n
      /\ \A i \in 1 .. split : i \in 1 .. n /\ i < split + 1
  BY <1>1, <1>3, <1>5, <1>6
<1>8. \A i \in 1 .. n - split : split + i \in 1 .. n /\ (split + 1 < split + i \/ i = 1)
  BY <1>5, <1>7
<1>9. LeafIn(new.left, Lower(S, key))
  <2>1. \A i \in 1 .. split : lk[i] \in Lower(S, key)
    BY <1>5, <1>6, <1>7 DEF Lower
  <2>2. \A i, j \in 1 .. split : i < j => lk[i] < lk[j]
    BY <1>5, <1>6, <1>7
  <2> QED BY <1>6, <2>1, <2>2 DEF LeafIn, lk
<1>10. LeafIn(new.right, Upper(S, key))
  <2>1. ASSUME NEW i \in 1 .. n - split PROVE rk[i] \in S /\ key <= rk[i]
    <3>1. rk[i] = t[split + i] /\ t[split + i] \in S /\ t[split + i] \in Int
      BY <1>5, <1>6, <1>8
    <3>2. CASE i = 1
      BY <1>6, <3>1, <3>2
    <3>3. CASE split + 1 < split + i
      <4>1. t[split + 1] < t[split + i] /\ t[split + 1] \in Int
        BY <1>5, <1>7, <1>8, <3>3
      <4> QED BY <1>6, <3>1, <4>1
    <3> QED BY <1>8, <3>2, <3>3
  <2>2. ASSUME NEW i \in 1 .. n - split, NEW j \in 1 .. n - split, i < j PROVE rk[i] < rk[j]
    <3>1. split + i < split + j
      BY <1>5, <1>7, <2>2
    <3> QED BY <1>5, <1>6, <1>8, <3>1
  <2> QED BY <1>6, <2>1, <2>2 DEF LeafIn, rk, Upper
<1>11. key \in S /\ t[split] \in S /\ t[split] < key
  BY <1>5, <1>6, <1>7
<1>12. 1 \in 1 .. n - split /\ rk[1] = key
  BY <1>5, <1>6, <1>7
<1>13. ASSUME NEW j \in 1 .. n
       PROVE  \/ \E i \in 1 .. split : lk[i] = t[j]
              \/ \E i \in 1 .. n - split : rk[i] = t[j]
  <2>2. CASE j <= split
    <3>1. j \in 1 .. split
      BY <1>7, <2>2
    <3> QED BY <1>6, <3>1
  <2>3. CASE j > split
    <3>1. j - split \in 1 .. n - split /\ split + (j - split) = j
      BY <1>5, <1>7, <2>3
    <3>2. rk[j - split] = t[split + (j - split)]
      BY <1>6, <3>1
    <3> QED BY <3>1, <3>2
  <2> QED BY <1>7, <2>2, <2>3
<1>14. ASSUME NEW x, \E j \in 1 .. n : t[j] = x
       PROVE  \/ \E j \in 1 .. split : lk[j] = x
              \/ \E j \in 1 .. n - split : rk[j] = x
  BY <1>13, <1>14
<1>15. /\ \A i \in 1 .. pg.slotCount : \/ \E j \in 1 .. split : lk[j] = ks[i]
                                       \/ \E j \in 1 .. n - split : rk[j] = ks[i]
       /\ \/ \E j \in 1 .. split : lk[j] = k
          \/ \E j \in 1 .. n - split : rk[j] = k
  BY <1>5, <1>14
<1>16. /\ \A j \in 1 .. split : Among(pg, k, lk[j])
       /\ \A j \in 1 .. n - split : Among(pg, k, rk[j])
  BY <1>5, <1>6, <1>7, <1>8
<1> QED
  BY <1>6, <1>9, <1>10, <1>11, <1>12, <1>15, <1>16 DEF TwoLeaves, lk, rk, key, ks

\* splitLeaf cuts the range of the leaf at the first key of the new one.
LEMMA SplitLeafOrder ==
  ASSUME TreeInv, Ready, NEW R, InOrder(pages, call, R), NEW k \in Keys, ~Present(k),
         SplitLeaf(k, Search(k))
  PROVE  InOrder(pages', call', CutHere(R)) /\ GainsKey(pages, pages', k)
<1> DEFINE at  == Search(k)
           l   == at.leaf
           pg  == pages[l]
           r   == NextPageNum
           new == LeafSplit(k, at)
           next == pages[l].next
           qs == pages'
           c == call'
           Q == Cut(R, l, r, new.key)
<1>1. NeedsSplit(k, at)
  BY DEF SplitLeaf
<1>2. /\ l \in DOMAIN pages /\ PageOK(pg) /\ pg.level = 0 /\ pg.seps = <<>>
      /\ at.index \in 0 .. pg.slotCount /\ MustSplit(pg, k) /\ pg.slotCount > 0
      /\ r \in PageNum /\ DOMAIN pages \subseteq PageNum
  BY <1>1, SplitLeafIs
<1>3. PICK n \in PageNum : DOMAIN pages = 0 .. n /\ r = n + 1
  BY <1>1, SplitLeafIs
<1>4. /\ FreeSpace(new.right) >= 0 /\ new.stay > 0
      /\ qs = [p \in 0 .. r |->
                 IF p = l THEN new.left ELSE IF p = r THEN new.right
                 ELSE IF p = next THEN Relinked(p, r) ELSE pages[p]]
      /\ c = [active |-> TRUE, parents |-> at.parents,
              key |-> new.key, left |-> l, right |-> r]
  BY DEF SplitLeaf
<1>5. Nodes(pages) /\ ~call.active
  BY DEF TreeInv, Ready
<1>6. ~HasKey(pages, k) /\ at.index = SearchIn(LiveKeys(pg), k)
  BY PresentIs DEF Search
<1>7. \A p \in DOMAIN pages : \A i \in 1 .. SepCount(pages[p]) : pages[p].seps[i].key # k
  BY <1>6 DEF InOrder, SepsPresent
<1>8. k \in R[l] /\ Leads(pages, R, at.parents, l)
  <2>1. IsWayTo(pages, at.parents, l)
    BY <1>1, SplitLeafIs
  <2>2. at.parents \in Seq(DOMAIN pages)
    BY <2>1 DEF IsWayTo
  <2>3. \A i \in 1 .. Len(at.parents) : at.parents[i] \in DOMAIN pages
    BY <2>2
  <2> QED BY <1>7, <2>3, LeafOwns DEF Leads
<1> HIDE DEF at
<1>9. /\ new.left.level = 0 /\ new.left.seps = <<>> /\ new.right.level = 0 /\ new.right.seps = <<>>
      /\ new.key \in Keys
      /\ \E split \in 0 .. pg.slotCount :
           Halves(new, InsertAt(LiveKeys(pg), at.index + 1, k), split)
  <2>1. l \in PageNum /\ NextPageNum \in PageNum
    BY <1>2
  <2> QED BY <1>2, <1>4, <2>1, LeafSplitIs
<1>10. LeafIn(pg, R[l]) /\ \A i \in 1 .. pg.slotCount : LiveKeys(pg)[i] # k
  BY <1>2, <1>6 DEF InOrder, HasKey
<1> DEFINE key == new.key
<1> HIDE DEF new, r, next, pg, qs, c
<1>11. /\ LeafIn(new.left, Lower(R[l], key))
       /\ LeafIn(new.right, Upper(R[l], key))
       /\ key \in R[l] /\ \E x \in R[l] : x < key
       /\ \E i \in 1 .. new.right.slotCount : LiveKeys(new.right)[i] = key
       /\ \A i \in 1 .. pg.slotCount :
            \/ \E j \in 1 .. new.left.slotCount : LiveKeys(new.left)[j] = LiveKeys(pg)[i]
            \/ \E j \in 1 .. new.right.slotCount : LiveKeys(new.right)[j] = LiveKeys(pg)[i]
       /\ \/ \E j \in 1 .. new.left.slotCount : LiveKeys(new.left)[j] = k
          \/ \E j \in 1 .. new.right.slotCount : LiveKeys(new.right)[j] = k
       /\ \A j \in 1 .. new.left.slotCount : Among(pg, k, LiveKeys(new.left)[j])
       /\ \A j \in 1 .. new.right.slotCount : Among(pg, k, LiveKeys(new.right)[j])
  <2>1. LeafCut(pg, R[l], k, at.index, new)
    BY <1>2, <1>4, <1>6, <1>8, <1>9, <1>10 DEF LeafCut
  <2>2. TwoLeaves(pg, R[l], k, new)
    BY <2>1, LeafHalves
  <2> QED BY <2>2 DEF TwoLeaves
<1> HIDE DEF key
<1>12. /\ r \notin DOMAIN pages /\ DOMAIN qs = DOMAIN pages \cup {r} /\ r \in PageLink
       /\ root_ \in DOMAIN pages /\ n \in Nat
  <2>1. n \in Nat /\ n + 1 \notin DOMAIN pages /\ root_ \in DOMAIN pages
    BY <1>3, DomainIs
  <2>2. DOMAIN qs = 0 .. r
    BY <1>4
  <2> QED BY <1>2, <1>3, <2>1, <2>2 DEF PageLink
<1>13. /\ qs[l] = new.left /\ qs[r] = new.right
       /\ \A p \in DOMAIN pages : p # l => qs[p] \in {pages[p], Relinked(p, r)}
  <2>1. 0 .. r = DOMAIN pages \cup {r}
    BY <1>3, <1>12
  <2> QED BY <1>2, <1>4, <1>12, <2>1
<1>14. ASSUME NEW p \in DOMAIN pages, p # l
       PROVE  /\ qs[p].level = pages[p].level /\ qs[p].seps = pages[p].seps
              /\ qs[p].next = pages[p].next /\ qs[p].slotCount = pages[p].slotCount
              /\ LiveKeys(qs[p]) = LiveKeys(pages[p])
  <2>1. PageOK(pages[p])
    BY <1>5 DEF Nodes, NodeOK
  <2>2. /\ Relinked(p, r).level = pages[p].level /\ Relinked(p, r).seps = pages[p].seps
        /\ Relinked(p, r).next = pages[p].next /\ Relinked(p, r).slotCount = pages[p].slotCount
        /\ LiveKeys(Relinked(p, r)) = LiveKeys(pages[p])
    BY <1>12, <2>1, RelinkedIs DEF Relinked
  <2> QED BY <1>13, <1>14, <2>2
<1>15. ASSUME NEW p \in DOMAIN pages, p # l
       PROVE  /\ SepCount(qs[p]) = SepCount(pages[p]) /\ SepKeys(qs[p]) = SepKeys(pages[p])
              /\ Kids(qs[p]) = Kids(pages[p])
  BY <1>14, <1>15, SepsSame
<1>16. ~Inner(qs[l]) /\ ~Inner(qs[r]) /\ SepCount(qs[l]) = 0 /\ SepCount(qs[r]) = 0
  BY <1>9, <1>13 DEF Inner, SepCount
<1>17. Beside(pages, qs, l, r)
  BY <1>2, <1>9, <1>12, <1>13, <1>14 DEF Beside, pg
<1>18. ASSUME NEW p \in DOMAIN qs, Inner(qs[p])
       PROVE  /\ p \in DOMAIN pages /\ p # l /\ Inner(pages[p])
              /\ \A i \in 0 .. SepCount(pages[p]) :
                   /\ Kids(pages[p])[i] = ChildOf(pages[p], i)
                   /\ ChildOf(pages[p], i) \in DOMAIN pages
  <2>1. p \in DOMAIN pages /\ p # l
    BY <1>12, <1>16, <1>18
  <2>2. Inner(pages[p])
    BY <1>14, <1>18, <2>1 DEF Inner
  <2> QED BY <1>5, <2>1, <2>2, InnerIs DEF Below
<1>19. \A p \in DOMAIN qs : Inner(qs[p]) => \A i \in 0 .. SepCount(qs[p]) : ChildOf(qs[p], i) # r
  <2> SUFFICES ASSUME NEW p \in DOMAIN qs, Inner(qs[p]), NEW i \in 0 .. SepCount(qs[p])
               PROVE  ChildOf(qs[p], i) # r
    OBVIOUS
  <2>1. ChildOf(qs[p], i) = Kids(qs[p])[i]
    BY DEF Kids
  <2>2. Kids(qs[p])[i] \in DOMAIN pages
    BY <1>15, <1>18
  <2> QED BY <1>12, <2>1, <2>2
<1>20. HasKey(qs, key)
  BY <1>11, <1>12, <1>13 DEF HasKey
<1>21. c.active /\ c.left = l /\ c.right = r /\ c.key = key /\ c.parents = at.parents
  BY <1>4 DEF key
<1> HIDE DEF Q
<1>23. RangesOf(pages, R)
  BY DEF InOrder
<1>24. /\ RangesOf(qs, Q)
       /\ \A p \in DOMAIN pages : p # l => Q[p] = R[p]
       /\ Q[l] = Lower(R[l], key) /\ Q[r] = Upper(R[l], key)
       /\ \A p \in DOMAIN pages : Owned(Q, c)[p] = R[p]
       /\ ClimbIn(qs, c, Q)
  <2>1. CutCase(pages, R, qs, c)
    BY <1>8, <1>11, <1>12, <1>17, <1>19, <1>20, <1>21, <1>23 DEF CutCase
  <2>2. Q = Cut(R, c.left, c.right, c.key)
    BY <1>21 DEF Q, key
  <2>3. CutDone(pages, R, qs, c, Q)
    BY <2>1, <2>2, CutIs
  <2> QED BY <1>21, <2>3 DEF CutDone
<1>25. Owned(R, call) = R
  BY <1>5 DEF Owned
<1>26. Owned(Q, c)[root_] = Keys
  BY <1>12, <1>24, <1>25 DEF InOrder
<1>27. ASSUME NEW p \in DOMAIN qs PROVE LeafIn(qs[p], Q[p])
  <2>1. CASE p = l
    BY <1>11, <1>13, <1>24, <2>1
  <2>2. CASE p = r
    BY <1>11, <1>13, <1>24, <2>2
  <2>3. CASE p \in DOMAIN pages /\ p # l
    <3>1. LeafIn(pages[p], R[p])
      BY <2>3 DEF InOrder
    <3> QED BY <1>14, <1>24, <2>3, <3>1 DEF LeafIn
  <2> QED BY <1>12, <2>1, <2>2, <2>3
<1>28. ASSUME NEW p \in DOMAIN qs PROVE InnerIn(qs[p], Q[p], Owned(Q, c))
  <2> SUFFICES ASSUME Inner(qs[p]) PROVE InnerIn(qs[p], Q[p], Owned(Q, c))
    BY DEF InnerIn
  <2>1. p \in DOMAIN pages /\ p # l /\ Inner(pages[p])
    BY <1>18
  <2>2. SepCount(pages[p]) >= 1 /\ Divided(SepKeys(pages[p]), SepCount(pages[p]), Kids(pages[p]), R[p], R)
    BY <1>25, <2>1 DEF InOrder, InnerIn
  <2>3. \A i \in 0 .. SepCount(pages[p]) : Owned(Q, c)[Kids(pages[p])[i]] = R[Kids(pages[p])[i]]
    BY <1>18, <1>24
  <2>4. Divided(SepKeys(pages[p]), SepCount(pages[p]), Kids(pages[p]), R[p], Owned(Q, c))
    BY <2>2, <2>3 DEF Divided
  <2>5. Q[p] = R[p]
    BY <1>24, <2>1
  <2>6. /\ SepCount(qs[p]) = SepCount(pages[p]) /\ SepKeys(qs[p]) = SepKeys(pages[p])
        /\ Kids(qs[p]) = Kids(pages[p])
    BY <1>15, <2>1
  <2> QED BY <2>2, <2>4, <2>5, <2>6, Zenon DEF InnerIn
<1>29. RootAbove(qs)
  <2>1. pages[root_].level # INVALID_TREE_LEVEL
    <3>1. CASE l = root_
      BY <1>2, <3>1 DEF pg, INVALID_TREE_LEVEL
    <3>2. CASE l # root_
      BY <1>2, <3>2 DEF InOrder, RootAbove
    <3> QED BY <3>1, <3>2
  <2>2. \A p \in DOMAIN pages : qs[p].level = pages[p].level
    BY <1>17 DEF Beside
  <2>3. qs[r].level = 0 /\ pages[root_].level \in Nat
    <3>1. pages[root_].level \in Nat
      BY <1>5, <1>12, PageFields DEF Nodes, NodeOK, PageOK
    <3> QED BY <1>9, <1>13, <3>1
  <2>4. ASSUME NEW p \in DOMAIN qs \ {root_} PROVE qs[p].level <= qs[root_].level
    <3>1. CASE p \in DOMAIN pages
      BY <1>12, <2>2, <2>4, <3>1 DEF InOrder, RootAbove
    <3>2. CASE p = r
      BY <1>12, <2>2, <2>3, <3>2
    <3> QED BY <1>12, <2>4, <3>1, <3>2
  <2> QED BY <1>12, <2>1, <2>2, <2>4 DEF RootAbove
<1>30. ASSUME NEW y, HasKey(pages, y) PROVE HasKey(qs, y)
  <2>1. PICK p \in DOMAIN pages : \E i \in 1 .. pages[p].slotCount : LiveKeys(pages[p])[i] = y
    BY <1>30 DEF HasKey
  <2>2. CASE p = l
    <3>1. \/ \E j \in 1 .. new.left.slotCount : LiveKeys(new.left)[j] = y
          \/ \E j \in 1 .. new.right.slotCount : LiveKeys(new.right)[j] = y
      BY <1>11, <2>1, <2>2 DEF pg
    <3> QED BY <1>2, <1>12, <1>13, <3>1 DEF HasKey
  <2>3. CASE p # l
    BY <1>12, <1>14, <2>1, <2>3 DEF HasKey
  <2> QED BY <2>2, <2>3
<1>31. SepsPresent(qs)
  <2> SUFFICES ASSUME NEW p \in DOMAIN qs, NEW i \in 1 .. SepCount(qs[p])
               PROVE  HasKey(qs, qs[p].seps[i].key)
    BY DEF SepsPresent
  <2>1. p \in DOMAIN pages /\ p # l
    BY <1>12, <1>16
  <2>2. qs[p].seps = pages[p].seps /\ SepCount(qs[p]) = SepCount(pages[p])
    BY <1>14, <1>15, <2>1
  <2>3. HasKey(pages, pages[p].seps[i].key)
    BY <2>1, <2>2 DEF InOrder, SepsPresent
  <2> QED BY <1>30, <2>2, <2>3
<1>32. InOrder(qs, c, Q)
  BY <1>24, <1>26, <1>27, <1>28, <1>29, <1>31 DEF InOrder
<1>33. HasKey(qs, k)
  BY <1>2, <1>11, <1>12, <1>13 DEF HasKey
<1>34. ASSUME NEW y, HasKey(qs, y) PROVE HasKey(pages, y) \/ y = k
  <2>1. PICK p \in DOMAIN qs : \E i \in 1 .. qs[p].slotCount : LiveKeys(qs[p])[i] = y
    BY <1>34 DEF HasKey
  <2>2. CASE p = l \/ p = r
    <3>1. Among(pg, k, y)
      BY <1>11, <1>13, <2>1, <2>2
    <3> QED BY <1>2, <3>1 DEF Among, HasKey, pg
  <2>3. CASE p \in DOMAIN pages /\ p # l
    BY <1>14, <2>1, <2>3 DEF HasKey
  <2> QED BY <1>12, <2>2, <2>3
<1>35. GainsKey(pages, qs, k)
  BY <1>30, <1>33, <1>34 DEF GainsKey
<1> QED BY <1>4, <1>32, <1>35 DEF qs, c, Q, CutHere

-----------------------------------------------------------------------------
\* The m separators F and their children G once child i has become l and r, with the
\* separator k between them.
WithKey(F, m, i, k) ==
  [j \in 1 .. m + 1 |-> IF j <= i THEN F[j] ELSE IF j = i + 1 THEN k ELSE F[j - 1]]
WithKids(G, m, i, l, r) ==
  [j \in 0 .. m + 1 |-> IF j < i THEN G[j] ELSE IF j = i THEN l
                        ELSE IF j = i + 1 THEN r ELSE G[j - 1]]

\* F divides S by T, in which child i has what l and r have in R, below k and above.
Grows(F, m, G, S, T, i, k, l, r, R) ==
  /\ m \in Nat /\ F \in [1 .. m -> Keys] /\ S \in SUBSET Keys /\ Divided(F, m, G, S, T)
  /\ i \in 0 .. m /\ G[i] = l /\ T[l] = R[l] \cup R[r]
  /\ R[l] # {} /\ k \in R[r]
  /\ \A x \in R[l] : x < k
  /\ \A x \in R[r] : k <= x
  /\ \A j \in 0 .. m : j # i => T[G[j]] = R[G[j]]

\* One separator more divides it by R.
LEMMA DividedMore ==
  ASSUME NEW F, NEW m, NEW G, NEW S, NEW T, NEW i, NEW k, NEW l, NEW r, NEW R,
         Grows(F, m, G, S, T, i, k, l, r, R)
  PROVE  /\ Divided(WithKey(F, m, i, k), m + 1, WithKids(G, m, i, l, r), S, R)
         /\ WithKey(F, m, i, k) \in [1 .. m + 1 -> Keys]
<1> DEFINE F2 == WithKey(F, m, i, k)
           G2 == WithKids(G, m, i, l, r)
<1>1. /\ m \in Nat /\ F \in [1 .. m -> Keys] /\ S \in SUBSET Keys /\ Keys \subseteq Nat
      /\ i \in 0 .. m /\ G[i] = l /\ T[l] = R[l] \cup R[r]
      /\ R[l] # {} /\ k \in R[r]
      /\ \A x \in R[l] : x < k
      /\ \A x \in R[r] : k <= x
      /\ \A j \in 0 .. m : j # i => T[G[j]] = R[G[j]]
  BY SlotsAssumption DEF Grows
<1>2. /\ \A a \in 1 .. m : F[a] \in S
      /\ \A a, b \in 1 .. m : a < b => F[a] < F[b]
      /\ \A a \in 0 .. m : T[G[a]] = Between(F, m, a, S)
  BY DEF Grows, Divided
<1>3. T[l] = Between(F, m, i, S)
  BY <1>1, <1>2
<1>4. k \in S /\ k \in Nat /\ (0 < i => F[i] <= k) /\ (i < m => k < F[i + 1])
  BY <1>1, <1>3 DEF Between
<1>5. \A a \in 1 .. m : F[a] \in Nat
  BY <1>1
<1>6. 0 < i => F[i] < k
  <2> SUFFICES ASSUME 0 < i PROVE F[i] < k
    OBVIOUS
  <2>1. PICK x : x \in R[l]
    BY <1>1
  <2>2. x \in Between(F, m, i, S) /\ x < k
    BY <1>1, <1>3, <2>1
  <2>3. x \in Nat /\ F[i] <= x /\ F[i] \in Nat
    BY <1>1, <1>5, <2>2 DEF Between
  <2> QED BY <1>4, <2>2, <2>3
<1>7. /\ F2[i + 1] = k
      /\ \A a \in 1 .. i : F2[a] = F[a]
      /\ \A a \in i + 1 .. m : F2[a + 1] = F[a]
  <2>1. i + 1 \in 1 .. m + 1
    BY <1>1
  <2>2. \A a \in 1 .. i : a \in 1 .. m + 1 /\ a <= i
    BY <1>1
  <2>3. \A a \in i + 1 .. m : a + 1 \in 1 .. m + 1 /\ ~(a + 1 <= i) /\ a + 1 # i + 1 /\ a + 1 - 1 = a
    BY <1>1
  <2>4. ~(i + 1 <= i)
    BY <1>1
  <2>5. \A b \in 1 .. m + 1 : F2[b] = IF b <= i THEN F[b] ELSE IF b = i + 1 THEN k ELSE F[b - 1]
    BY DEF WithKey
  <2> HIDE DEF F2
  <2>6. F2[i + 1] = k
    BY <2>1, <2>4, <2>5
  <2>7. \A a \in 1 .. i : F2[a] = F[a]
    BY <2>2, <2>5
  <2>8. ASSUME NEW a \in i + 1 .. m PROVE F2[a + 1] = F[a]
    BY <2>3, <2>5
  <2> QED BY <2>6, <2>7, <2>8
<1>8. /\ G2[i] = l /\ G2[i + 1] = r
      /\ \A a \in 0 .. i - 1 : G2[a] = G[a]
      /\ \A a \in i + 1 .. m : G2[a + 1] = G[a]
  <2>1. i \in 0 .. m + 1 /\ i + 1 \in 0 .. m + 1 /\ ~(i < i) /\ ~(i + 1 < i) /\ i + 1 # i
    BY <1>1
  <2>2. \A a \in 0 .. i - 1 : a \in 0 .. m + 1 /\ a < i
    BY <1>1
  <2>3. \A a \in i + 1 .. m : /\ a + 1 \in 0 .. m + 1 /\ ~(a + 1 < i) /\ a + 1 # i
                              /\ a + 1 # i + 1 /\ a + 1 - 1 = a
    BY <1>1
  <2>5. \A b \in 0 .. m + 1 : G2[b] = IF b < i THEN G[b] ELSE IF b = i THEN l
                                      ELSE IF b = i + 1 THEN r ELSE G[b - 1]
    BY DEF WithKids
  <2> HIDE DEF G2
  <2>6. G2[i] = l /\ G2[i + 1] = r
    BY <2>1, <2>5
  <2>7. \A a \in 0 .. i - 1 : G2[a] = G[a]
    BY <2>2, <2>5
  <2>8. ASSUME NEW a \in i + 1 .. m PROVE G2[a + 1] = G[a]
    BY <2>3, <2>5
  <2> QED BY <2>6, <2>7, <2>8
<1>9. \A b \in 1 .. m + 1 : \/ b \in 1 .. i /\ b \in 1 .. m /\ F2[b] = F[b]
                            \/ b = i + 1 /\ F2[b] = k
                            \/ b - 1 \in i + 1 .. m /\ b - 1 \in 1 .. m /\ F2[b] = F[b - 1]
  <2> SUFFICES ASSUME NEW b \in 1 .. m + 1
               PROVE  \/ b \in 1 .. i /\ b \in 1 .. m /\ F2[b] = F[b]
                      \/ b = i + 1 /\ F2[b] = k
                      \/ b - 1 \in i + 1 .. m /\ b - 1 \in 1 .. m /\ F2[b] = F[b - 1]
    OBVIOUS
  <2> HIDE DEF F2
  <2>1. \/ b \in 1 .. i /\ b \in 1 .. m
        \/ b = i + 1
        \/ b - 1 \in i + 1 .. m /\ b - 1 \in 1 .. m /\ b - 1 + 1 = b
    BY <1>1
  <2>2. b - 1 \in i + 1 .. m => F2[b - 1 + 1] = F[b - 1]
    BY <1>7
  <2> QED BY <1>7, <2>1, <2>2
<1> HIDE DEF F2, G2
<1>10. F2 \in [1 .. m + 1 -> Keys] /\ \A b \in 1 .. m + 1 : F2[b] \in S
  <2>1. \A b \in 1 .. m + 1 : F2[b] \in S
    BY <1>2, <1>4, <1>9
  <2>2. F2 = [b \in 1 .. m + 1 |-> F2[b]]
    BY DEF F2, WithKey
  <2> QED BY <1>1, <2>1, <2>2
<1>11. \A a \in 1 .. i : F[a] < k
  <2> SUFFICES ASSUME NEW a \in 1 .. i PROVE F[a] < k
    OBVIOUS
  <2>1. a \in 1 .. m /\ i \in 1 .. m /\ (a = i \/ a < i) /\ 0 < i
    BY <1>1
  <2> QED BY <1>2, <1>4, <1>5, <1>6, <2>1
<1>12. \A a \in i + 1 .. m : k < F[a]
  <2> SUFFICES ASSUME NEW a \in i + 1 .. m PROVE k < F[a]
    OBVIOUS
  <2>1. a \in 1 .. m /\ i + 1 \in 1 .. m /\ (a = i + 1 \/ i + 1 < a) /\ i < m
    BY <1>1
  <2> QED BY <1>2, <1>4, <1>5, <2>1
<1>13. ASSUME NEW a \in 1 .. m + 1, NEW b \in 1 .. m + 1, a < b PROVE F2[a] < F2[b]
  <2>1. CASE a \in 1 .. i /\ a \in 1 .. m /\ F2[a] = F[a]
    <3>1. CASE b \in 1 .. i /\ b \in 1 .. m /\ F2[b] = F[b]
      BY <1>2, <1>13, <2>1, <3>1
    <3>2. CASE b = i + 1 /\ F2[b] = k
      BY <1>11, <2>1, <3>2
    <3>3. CASE b - 1 \in i + 1 .. m /\ b - 1 \in 1 .. m /\ F2[b] = F[b - 1]
      <4>1. a < b - 1
        BY <1>1, <2>1, <3>3
      <4> QED BY <1>2, <2>1, <3>3, <4>1
    <3> QED BY <1>9, <3>1, <3>2, <3>3
  <2>2. CASE a = i + 1 /\ F2[a] = k
    <3>1. b - 1 \in i + 1 .. m /\ F2[b] = F[b - 1]
      BY <1>1, <1>9, <1>13, <2>2
    <3> QED BY <1>12, <2>2, <3>1
  <2>3. CASE a - 1 \in i + 1 .. m /\ a - 1 \in 1 .. m /\ F2[a] = F[a - 1]
    <3>1. b - 1 \in 1 .. m /\ F2[b] = F[b - 1] /\ a - 1 < b - 1
      BY <1>1, <1>9, <1>13, <2>3
    <3> QED BY <1>2, <2>3, <3>1
  <2> QED BY <1>9, <2>1, <2>2, <2>3
<1>14. \A x \in S : x \in Nat
  BY <1>1
<1>15. Between(F2, m + 1, i, S) = R[l]
  <2>1. i < m + 1 /\ F2[i + 1] = k /\ (0 < i => F2[i] = F[i])
    BY <1>1, <1>7
  <2>2. \A x \in R[l] : x \in Between(F, m, i, S)
    BY <1>1, <1>3
  <2>3. ASSUME NEW x \in R[l] PROVE x \in Between(F2, m + 1, i, S)
    BY <1>1, <2>1, <2>2 DEF Between
  <2>4. ASSUME NEW x \in Between(F2, m + 1, i, S) PROVE x \in R[l]
    <3>1. x \in S /\ x < k /\ (0 < i => F[i] <= x) /\ x \in Nat
      BY <1>14, <2>1, <2>4 DEF Between
    <3>2. i < m => x < F[i + 1]
      <4> SUFFICES ASSUME i < m PROVE x < F[i + 1]
        OBVIOUS
      <4>1. F[i + 1] \in Nat
        BY <1>1, <1>5
      <4> QED BY <1>4, <3>1, <4>1
    <3>3. x \in T[l]
      BY <1>3, <3>1, <3>2 DEF Between
    <3>4. x \notin R[r]
      BY <1>1, <1>4, <3>1
    <3> QED BY <1>1, <3>3, <3>4
  <2> QED BY <2>3, <2>4
<1>16. Between(F2, m + 1, i + 1, S) = R[r]
  <2>1. 0 < i + 1 /\ F2[i + 1] = k /\ (i + 1 < m + 1 <=> i < m)
    BY <1>1, <1>7
  <2>2. i < m => F2[i + 1 + 1] = F[i + 1]
    BY <1>1, <1>7
  <2>3. ASSUME NEW x \in R[r] PROVE x \in Between(F2, m + 1, i + 1, S)
    <3>1. x \in Between(F, m, i, S) /\ k <= x
      BY <1>1, <1>3
    <3> QED BY <2>1, <2>2, <3>1 DEF Between
  <2>4. ASSUME NEW x \in Between(F2, m + 1, i + 1, S) PROVE x \in R[r]
    <3>1. x \in S /\ k <= x /\ (i < m => x < F[i + 1]) /\ x \in Nat
      BY <1>14, <2>1, <2>2, <2>4 DEF Between
    <3>2. 0 < i => F[i] <= x
      <4> SUFFICES ASSUME 0 < i PROVE F[i] <= x
        OBVIOUS
      <4>1. F[i] \in Nat
        BY <1>1, <1>5
      <4> QED BY <1>4, <3>1, <4>1
    <3>3. x \in T[l]
      BY <1>3, <3>1, <3>2 DEF Between
    <3>4. x \notin R[l]
      BY <1>1, <1>4, <3>1
    <3> QED BY <1>1, <3>3, <3>4
  <2> QED BY <2>3, <2>4
<1>17. ASSUME NEW a \in 0 .. i - 1 PROVE R[G2[a]] = Between(F2, m + 1, a, S)
  <2>1. a \in 0 .. m /\ a # i /\ a < m /\ a < m + 1 /\ a + 1 \in 1 .. i /\ (0 < a => a \in 1 .. i)
    BY <1>1
  <2>2. F2[a + 1] = F[a + 1] /\ (0 < a => F2[a] = F[a])
    BY <1>7, <2>1
  <2>3. Between(F2, m + 1, a, S) = Between(F, m, a, S)
    BY <2>1, <2>2 DEF Between
  <2> QED BY <1>1, <1>2, <1>8, <2>1, <2>3
<1>18. ASSUME NEW a \in i + 1 .. m PROVE R[G2[a + 1]] = Between(F2, m + 1, a + 1, S)
  <2>1. a \in 0 .. m /\ a # i /\ 0 < a /\ 0 < a + 1 /\ (a + 1 < m + 1 <=> a < m)
        /\ (a < m => a + 1 \in i + 1 .. m)
    BY <1>1
  <2>2. F2[a + 1] = F[a] /\ (a < m => F2[a + 1 + 1] = F[a + 1])
    BY <1>7, <2>1
  <2>3. Between(F2, m + 1, a + 1, S) = Between(F, m, a, S)
    BY <2>1, <2>2 DEF Between
  <2> QED BY <1>1, <1>2, <1>8, <2>1, <2>3
<1>19. ASSUME NEW b \in 0 .. m + 1 PROVE R[G2[b]] = Between(F2, m + 1, b, S)
  <2>1. CASE b \in 0 .. i - 1
    BY <1>17, <2>1
  <2>2. CASE b = i \/ b = i + 1
    BY <1>8, <1>15, <1>16, <2>2
  <2>3. CASE b - 1 \in i + 1 .. m
    <3>1. b - 1 + 1 = b
      OBVIOUS
    <3> QED BY <1>18, <2>3, <3>1
  <2>4. b \in 0 .. i - 1 \/ b = i \/ b = i + 1 \/ b - 1 \in i + 1 .. m
    BY <1>1
  <2> QED BY <2>1, <2>2, <2>3, <2>4
<1>20. Divided(F2, m + 1, G2, S, R)
  BY <1>10, <1>13, <1>19 DEF Divided
<1> QED BY <1>10, <1>20 DEF F2, G2

\* What insertIntoInner makes of the separators and the children of a page.
LEMMA SeparatorInserted ==
  ASSUME NEW pg, PageOK(pg), NEW index \in 0 .. SepCount(pg), NEW k \in Keys,
         NEW l \in PageLink, NEW r \in PageLink, InnerFree(pg) >= SepSize + 1
  PROVE  LET c == InsertIntoInner(pg, index, k, l, r)
             m == SepCount(pg)
         IN  /\ SepCount(c) = m + 1
             /\ SepKeys(c) = WithKey(SepKeys(pg), m, index, k)
             /\ Kids(c) = WithKids(Kids(pg), m, index, l, r)
<1> DEFINE c == InsertIntoInner(pg, index, k, l, r)
           m == SepCount(pg)
           e == [key |-> k, child |-> l]
           s == InsertAt(pg.seps, index + 1, e)
           F == SepKeys(pg)
<1>1. /\ pg.seps \in Seq(Sep) /\ m \in Nat /\ Len(pg.seps) = m /\ pg \in Page
  BY SepsAre DEF PageOK
<1>2. /\ PageOK(c) /\ SepCount(c) = m + 1
      /\ \A i \in 0 .. m + 1 : ChildOf(c, i) = IF i < index THEN ChildOf(pg, i) ELSE IF i = index THEN l
                                               ELSE IF i = index + 1 THEN r ELSE ChildOf(pg, i - 1)
  BY InsertIntoInnerIs
<1>3. e \in Sep /\ e.key = k
  BY DEF Sep
<1> HIDE DEF e
<1>4. IsInserted(s, Sep, pg.seps, index, e)
  BY <1>1, <1>3, InsertedIs DEF Inserted
<1>5. c.seps = IF index + 1 = Len(s) THEN s ELSE [s EXCEPT ![index + 2].child = r]
  <2>1. pg.seps = pg["seps"]
    OBVIOUS
  <2> QED BY <1>1 DEF InsertIntoInner, Page, e
<1>6. s \in Seq(Sep) /\ Len(s) = m + 1 /\ \A i \in 1 .. m + 1 : s[i] \in Sep
  BY <1>1, <1>4 DEF IsInserted
<1> HIDE DEF s, c
<1>7. \A i \in 1 .. m + 1 : c.seps[i].key = s[i].key
  <2>1. CASE index + 1 = Len(s)
    BY <1>5, <2>1
  <2>2. CASE index + 1 # Len(s)
    <3>1. index + 2 \in 1 .. m + 1
      BY <1>1, <1>6, <2>2
    <3>2. c.seps = [s EXCEPT ![index + 2] = [s[index + 2] EXCEPT !.child = r]]
      BY <1>5, <2>2
    <3>3. [s[index + 2] EXCEPT !.child = r].key = s[index + 2].key
      BY <1>6, <3>1 DEF Sep
    <3> QED BY <1>6, <3>1, <3>2, <3>3
  <2> QED BY <2>1, <2>2
<1>8. /\ \A i \in 1 .. index : s[i] = pg.seps[i]
      /\ s[index + 1] = e
      /\ \A i \in index + 1 .. m : s[i + 1] = pg.seps[i]
  BY <1>1, <1>4 DEF IsInserted
<1>9. F \in [1 .. m -> Keys] /\ \A i \in 1 .. m : F[i] = pg.seps[i].key
  BY SepKeysIs
<1>10. SepKeys(c) = [i \in 1 .. m + 1 |-> c.seps[i].key]
  BY <1>2 DEF SepKeys
<1> HIDE DEF m, F
<1>11. index \in 0 .. m
  BY DEF m
<1>12. ASSUME NEW i \in 1 .. m + 1
       PROVE  s[i].key = IF i <= index THEN F[i] ELSE IF i = index + 1 THEN k ELSE F[i - 1]
  <2>1. CASE i <= index
    <3>1. i \in 1 .. index /\ i \in 1 .. m
      BY <1>1, <1>11, <2>1
    <3> QED BY <1>8, <1>9, <2>1, <3>1
  <2>2. CASE i = index + 1
    <3>1. ~(i <= index)
      BY <1>11, <2>2
    <3> QED BY <1>3, <1>8, <2>2, <3>1
  <2>3. CASE ~(i <= index) /\ i # index + 1
    <3>1. i - 1 \in index + 1 .. m /\ i - 1 \in 1 .. m /\ i - 1 + 1 = i
      BY <1>1, <1>11, <2>3
    <3>2. s[i - 1 + 1] = pg.seps[i - 1]
      BY <1>8, <3>1
    <3> QED BY <1>9, <2>3, <3>1, <3>2
  <2> QED BY <2>1, <2>2, <2>3
<1>13. SepKeys(c) = WithKey(F, m, index, k)
  BY <1>7, <1>10, <1>12 DEF WithKey
<1> DEFINE G == Kids(pg)
<1>14. \A i \in 0 .. m : G[i] = ChildOf(pg, i)
  BY DEF Kids, m
<1>15. Kids(c) = [i \in 0 .. m + 1 |-> ChildOf(c, i)]
  BY <1>2 DEF Kids
<1> HIDE DEF G
<1>16. ASSUME NEW i \in 0 .. m + 1
       PROVE  ChildOf(c, i) = IF i < index THEN G[i] ELSE IF i = index THEN l
                              ELSE IF i = index + 1 THEN r ELSE G[i - 1]
  <2>1. i < index => i \in 0 .. m
    BY <1>1, <1>11
  <2>2. ~(i < index) /\ i # index /\ i # index + 1 => i - 1 \in 0 .. m
    BY <1>1, <1>11
  <2> QED BY <1>2, <1>14, <2>1, <2>2
<1>17. Kids(c) = WithKids(G, m, index, l, r)
  BY <1>15, <1>16 DEF WithKids
<1> QED BY <1>2, <1>13, <1>17 DEF c, m, F, G

\* The pages and ranges where an insertion going up has come to.
ClimbPlace(R) ==
  LET pg == pages[Parent]
      T  == Owned(R, call)
  IN  /\ Parent \in DOMAIN pages /\ Inner(pg) /\ Parent # call.left
      /\ call.left \in DOMAIN pages \ {root_} /\ call.right \in DOMAIN pages \ {root_}
      /\ Grows(SepKeys(pg), SepCount(pg), Kids(pg), R[Parent], T, ParentIndex, call.key,
               call.left, call.right, R)
      /\ \A p \in DOMAIN pages : p # Parent /\ Inner(pages[p]) =>
           \A i \in 0 .. SepCount(pages[p]) : ChildOf(pages[p], i) # call.left
      /\ R[root_] = Keys
      /\ \A p \in DOMAIN pages : p # call.left => T[p] = R[p]

\* The page that has been split is the child at the place of the key in its parent, and
\* nobody else's.
LEMMA ClimbPlaceIs ==
  ASSUME TreeInv, Climbing, call.parents # <<>>, NEW R, InOrder(pages, call, R)
  PROVE  ClimbPlace(R)
<1> DEFINE P == Parent
           pg == pages[P]
           T == Owned(R, call)
           F == SepKeys(pg)
           m == SepCount(pg)
           G == Kids(pg)
           l == call.left
           r == call.right
           k == call.key
           S == R[P]
<1>1. /\ P \in DOMAIN pages /\ PageOK(pg) /\ pg.level # 0 /\ pg.level # INVALID_TREE_LEVEL
      /\ k \in Keys /\ l \in OneBelow(pages, pg.level) /\ r \in OneBelow(pages, pg.level)
      /\ \A i \in 0 .. m : ChildOf(pg, i) \in OneBelow(pages, pg.level)
      /\ IsWay(pages, call.parents)
  BY ParentIs
<1>2. Nodes(pages) /\ call.active /\ RangesOf(pages, R) /\ T[root_] = Keys
  BY DEF TreeInv, Climbing, InOrder
<1>3. \A p \in DOMAIN pages : pages[p].level \in Nat
  BY <1>2, PageFields DEF Nodes, NodeOK, PageOK
<1>4. /\ l \in DOMAIN pages \ {root_} /\ r \in DOMAIN pages \ {root_} /\ Inner(pg) /\ P # l
      /\ \A i \in 0 .. m : /\ ChildOf(pg, i) \in DOMAIN pages
                           /\ pages[ChildOf(pg, i)].level = pages[r].level
  <2>1. \A q \in OneBelow(pages, pg.level) : /\ q \in DOMAIN pages \ {root_}
                                             /\ pages[q].level + 1 = pg.level
    BY DEF OneBelow
  <2>2. P # l
    BY <1>1, <1>3, <2>1
  <2>3. \A q \in OneBelow(pages, pg.level) : pages[q].level = pages[r].level
    BY <1>1, <1>3, <2>1
  <2> QED BY <1>1, <2>1, <2>2, <2>3 DEF Inner
<1>5. /\ R[l] # {} /\ k \in R[r]
      /\ \A x \in R[l] : x < k
      /\ \A x \in R[r] : k <= x
      /\ \A p \in DOMAIN pages : Inner(pages[p]) =>
           \A i \in 0 .. SepCount(pages[p]) : ChildOf(pages[p], i) # r
      /\ \A i \in 1 .. Len(call.parents) : R[l] \cup R[r] \subseteq R[call.parents[i]]
  BY <1>2 DEF InOrder, ClimbIn
<1>6. R[l] \cup R[r] \subseteq S
  <2>1. call.parents \in Seq(DOMAIN pages) /\ Len(call.parents) >= 1
    BY <1>1 DEF IsWay
  <2>2. P = call.parents[Len(call.parents)] /\ Len(call.parents) \in Nat
    BY <2>1, FrontLast DEF Parent
  <2>3. Len(call.parents) \in 1 .. Len(call.parents)
    BY <2>1, <2>2
  <2> QED BY <1>5, <2>2, <2>3
<1>7. /\ T \in [DOMAIN pages -> SUBSET Keys]
      /\ \A p \in DOMAIN pages : R[p] \subseteq T[p]
      /\ \A p \in DOMAIN pages : p # l => T[p] = R[p]
      /\ T[l] = R[l] \cup R[r]
  <2>1. R \in [DOMAIN pages -> SUBSET Keys]
    BY <1>2 DEF RangesOf
  <2> QED BY <1>2, <1>4, <2>1, OwnedIs
<1>8. Ordered(pages, T, R)
  BY <1>2, <1>7 DEF Ordered, InOrder
<1>9. /\ m \in Nat /\ F \in [1 .. m -> Keys]
      /\ \A i \in 0 .. m : G[i] = ChildOf(pg, i)
  BY <1>1, SepKeysIs
<1>10. Divided(F, m, G, S, T) /\ S \in SUBSET Keys
  BY <1>1, <1>2, <1>4, <1>8 DEF Ordered, InnerIn, RangesOf
<1>11. ParentIndex = SearchIn(F, k)
  BY DEF ParentIndex
<1> HIDE DEF P, pg, T, F, m, G, l, r, k, S
<1>12. \A a, b \in 1 .. m : a < b => F[a] < F[b]
  BY <1>10 DEF Divided
<1>13. PICK i \in 0 .. m : k \in Between(F, m, i, S)
  BY <1>5, <1>6, <1>9, <1>10, <1>12, Placed
<1>14. G[i] = l
  <2>1. k \in T[G[i]]
    BY <1>10, <1>13 DEF Divided
  <2>2. SUFFICES ASSUME G[i] # l PROVE FALSE
    OBVIOUS
  <2>3. G[i] \in DOMAIN pages /\ pages[G[i]].level = pages[r].level
    BY <1>4, <1>9
  <2>4. k \in R[G[i]]
    BY <1>7, <2>1, <2>2, <2>3
  <2>5. G[i] = r
    BY <1>2, <1>4, <1>5, <2>3, <2>4 DEF RangesOf
  <2> QED BY <1>1, <1>4, <1>5, <1>9, <2>5 DEF pg, m
<1>15. \A j \in 0 .. m : j # i => G[j] # l
  <2> SUFFICES ASSUME NEW j \in 0 .. m, G[j] = l PROVE j = i
    OBVIOUS
  <2>1. ChildOf(pg, i) = ChildOf(pg, j)
    BY <1>9, <1>14
  <2>2. i \in 0 .. SepCount(pages[P]) /\ j \in 0 .. SepCount(pages[P]) /\ Inner(pages[P])
        /\ ChildOf(pages[P], i) = ChildOf(pages[P], j) /\ P \in DOMAIN pages
    BY <1>1, <1>4, <2>1 DEF pg, m
  <2> QED BY <1>2, <1>8, <2>2, OneParent
<1>16. \A p \in DOMAIN pages : p # P /\ Inner(pages[p]) =>
         \A j \in 0 .. SepCount(pages[p]) : ChildOf(pages[p], j) # l
  <2> SUFFICES ASSUME NEW p \in DOMAIN pages, Inner(pages[p]),
                      NEW j \in 0 .. SepCount(pages[p]), ChildOf(pages[p], j) = l
               PROVE  p = P
    OBVIOUS
  <2>1. i \in 0 .. SepCount(pages[P]) /\ Inner(pages[P]) /\ ChildOf(pages[P], i) = l /\ P \in DOMAIN pages
    BY <1>1, <1>4, <1>9, <1>14 DEF pg, m
  <2> QED BY <1>2, <1>8, <2>1, OneParent
<1>17. ParentIndex = i
  <2> DEFINE y == ParentIndex
  <2>1. Keys \subseteq Int /\ F \in Seq(Int) /\ Len(F) = m /\ k \in Int
        /\ \A a \in 1 .. m : F[a] \in Int
    <3>1. Keys \subseteq Int
      BY SlotsAssumption
    <3>2. \A a \in 1 .. m : F[a] \in Int
      BY <1>9, <3>1
    <3>3. F \in [1 .. m -> Int]
      BY <1>9, <3>2
    <3> QED BY <1>1, <1>9, <3>1, <3>2, <3>3
  <2>2. /\ y \in 0 .. m
        /\ \A a \in 1 .. y : F[a] < k
        /\ \A a \in y + 1 .. m : F[a] >= k
    BY <1>11, <1>12, <2>1, SearchSeparates
  <2> HIDE DEF y
  <2>3. (0 < i => F[i] <= k) /\ (i < m => k < F[i + 1])
    BY <1>13 DEF Between
  <2>4. ~(y > i)
    <3> SUFFICES ASSUME y > i PROVE FALSE
      OBVIOUS
    <3>1. i + 1 \in 1 .. y /\ i + 1 \in 1 .. m /\ i < m
      BY <1>9, <2>2
    <3>2. F[i + 1] < k /\ k < F[i + 1] /\ F[i + 1] \in Int
      BY <2>1, <2>2, <2>3, <3>1
    <3> QED BY <2>1, <3>2
  <2>5. ~(y < i)
    <3> SUFFICES ASSUME y < i PROVE FALSE
      OBVIOUS
    <3>1. i \in y + 1 .. m /\ i \in 1 .. m /\ 0 < i
      BY <1>9, <2>2
    <3>2. PICK x : x \in R[l]
      BY <1>5
    <3>3. x \in Between(F, m, i, S) /\ x < k
      <4>1. T[G[i]] = Between(F, m, i, S)
        BY <1>10 DEF Divided
      <4> QED BY <1>5, <1>7, <1>14, <3>2, <4>1
    <3>4. F[i] <= x /\ x \in Int /\ F[i] \in Int /\ F[i] >= k
      BY <1>10, <2>1, <2>2, <3>1, <3>3 DEF Between
    <3> QED BY <2>1, <3>3, <3>4
  <2>6. y = i
    BY <1>9, <2>2, <2>4, <2>5
  <2> QED BY <2>6 DEF y
<1>18. \A j \in 0 .. m : j # i => T[G[j]] = R[G[j]]
  BY <1>4, <1>7, <1>9, <1>15
<1>19. Grows(F, m, G, S, T, i, k, l, r, R)
  BY <1>5, <1>7, <1>9, <1>10, <1>14, <1>18 DEF Grows
<1>20. root_ \in DOMAIN pages /\ R[root_] = Keys
  <2>1. root_ \in DOMAIN pages
    BY <1>2, DomainIs DEF Nodes
  <2> QED BY <1>2, <1>4, <1>7, <2>1
<1>21. Grows(F, m, G, S, T, ParentIndex, k, l, r, R)
  BY <1>17, <1>19
<1> QED BY <1>1, <1>4, <1>7, <1>16, <1>20, <1>21 DEF ClimbPlace, P, pg, T, F, m, G, l, r, k, S

\* If some page has an entry for each separator and for the new one, then for all of them.
LEMMA WithKeyPresent ==
  ASSUME NEW m \in Nat, NEW F, NEW i \in 0 .. m, NEW k, NEW ps, HasKey(ps, k),
         \A a \in 1 .. m : HasKey(ps, F[a])
  PROVE  \A b \in 1 .. m + 1 : HasKey(ps, WithKey(F, m, i, k)[b])
<1> SUFFICES ASSUME NEW b \in 1 .. m + 1 PROVE HasKey(ps, WithKey(F, m, i, k)[b])
  OBVIOUS
<1>1. WithKey(F, m, i, k)[b] = IF b <= i THEN F[b] ELSE IF b = i + 1 THEN k ELSE F[b - 1]
  BY DEF WithKey
<1>2. (b <= i => b \in 1 .. m) /\ (~(b <= i) /\ b # i + 1 => b - 1 \in 1 .. m)
  OBVIOUS
<1> QED BY <1>1, <1>2

\* insertIntoInner: the page that has been split gets its new sibling.
LEMMA InsertSeparatorOrder ==
  ASSUME TreeInv, InsertSeparator, NEW R, InOrder(pages, call, R)
  PROVE  InOrder(pages', call', R) /\ SameKeys(pages, pages')
<1> DEFINE P == Parent
           pg == pages[P]
           qs == pages'
           T == Owned(R, call)
           F == SepKeys(pg)
           m == SepCount(pg)
           G == Kids(pg)
           c == InsertIntoInner(pg, ParentIndex, call.key, call.left, call.right)
<1>1. /\ Climbing /\ call.parents # <<>> /\ InnerFree(pg) >= SepNeed
      /\ qs = [pages EXCEPT ![P] = c] /\ call' = NoCall
  BY DEF InsertSeparator
<1>2. ClimbPlace(R)
  BY <1>1, ClimbPlaceIs
<1>3. /\ P \in DOMAIN pages /\ PageOK(pg) /\ call.key \in Keys
      /\ call.left \in PageLink /\ call.right \in PageLink /\ ParentIndex \in 0 .. m
  BY <1>1, ParentIs
<1>4. InnerFree(pg) >= SepSize + 1
  <2>1. InnerFree(pg) \in Int
    <3>1. pg.room \in Nat /\ m \in Nat
      BY <1>3, SepsAre, PageFields DEF PageOK
    <3> QED BY <3>1, SlotsAssumption DEF InnerFree
  <2> QED BY <1>1, <2>1, SlotsAssumption DEF SepNeed
<1>5. /\ SepCount(c) = m + 1
      /\ SepKeys(c) = WithKey(F, m, ParentIndex, call.key)
      /\ Kids(c) = WithKids(G, m, ParentIndex, call.left, call.right)
  BY <1>3, <1>4, SeparatorInserted
<1>6. /\ PageOK(c) /\ c.level = pg.level /\ c.slotCount = pg.slotCount
      /\ LiveKeys(c) = LiveKeys(pg)
  <2>1. PageOK(c) /\ \A f \in LeafFields : c[f] = pg[f]
    BY <1>3, <1>4, InsertIntoInnerIs
  <2>2. /\ c.level = pg.level /\ c.slotCount = pg.slotCount /\ c.slots = pg.slots
        /\ c.area = pg.area
    BY <2>1 DEF LeafFields
  <2> QED BY <2>1, <2>2, LiveKeysSame
<1>7. /\ Grows(F, m, G, R[P], T, ParentIndex, call.key, call.left, call.right, R)
      /\ \A p \in DOMAIN pages : p # P /\ Inner(pages[p]) =>
           \A i \in 0 .. SepCount(pages[p]) : ChildOf(pages[p], i) # call.left
      /\ R[root_] = Keys
      /\ \A p \in DOMAIN pages : p # call.left => T[p] = R[p]
  BY <1>2 DEF ClimbPlace
<1>8. Nodes(pages) /\ HasKey(pages, call.key) /\ m \in Nat
  BY <1>1, <1>3, SepsAre DEF TreeInv, Climbing, InOrder, ClimbIn
<1> HIDE DEF c, qs
<1>9. /\ DOMAIN qs = DOMAIN pages /\ qs[P] = c
      /\ \A p \in DOMAIN pages : p # P => qs[p] = pages[p]
  BY <1>1, <1>3
<1>10. \A p \in DOMAIN pages : /\ qs[p].level = pages[p].level
                               /\ qs[p].slotCount = pages[p].slotCount
                               /\ LiveKeys(qs[p]) = LiveKeys(pages[p])
  BY <1>6, <1>9
<1>11. RangesOf(qs, R) /\ RootAbove(qs)
  <2>1. root_ \in DOMAIN pages
    BY <1>8, DomainIs DEF Nodes
  <2> QED BY <1>9, <1>10, <2>1 DEF InOrder, RangesOf, RootAbove
<1>12. Owned(R, NoCall) = R
  BY DEF Owned, NoCall
<1>13. ASSUME NEW p \in DOMAIN qs PROVE LeafIn(qs[p], R[p])
  <2>1. LeafIn(pages[p], R[p])
    BY <1>9 DEF InOrder
  <2> QED BY <1>9, <1>10, <2>1 DEF LeafIn
<1>14. ASSUME NEW p \in DOMAIN qs PROVE InnerIn(qs[p], R[p], R)
  <2>1. CASE p = P
    <3>1. Divided(WithKey(F, m, ParentIndex, call.key), m + 1,
                  WithKids(G, m, ParentIndex, call.left, call.right), R[P], R)
      BY <1>7, DividedMore
    <3>2. m + 1 >= 1
      BY <1>8
    <3> HIDE DEF F, m, G
    <3> QED BY <1>5, <1>9, <2>1, <3>1, <3>2 DEF InnerIn
  <2>2. CASE p # P
    <3> SUFFICES ASSUME Inner(pages[p]) PROVE InnerIn(qs[p], R[p], R)
      BY <1>9, <2>2 DEF InnerIn
    <3>1. InnerIn(pages[p], R[p], T)
      BY <1>9 DEF InOrder
    <3>2. \A i \in 0 .. SepCount(pages[p]) : /\ Kids(pages[p])[i] = ChildOf(pages[p], i)
                                             /\ ChildOf(pages[p], i) \in DOMAIN pages
      BY <1>8, <1>9, InnerIs DEF Below
    <3>3. \A i \in 0 .. SepCount(pages[p]) : T[Kids(pages[p])[i]] = R[Kids(pages[p])[i]]
      BY <1>7, <1>9, <2>2, <3>2
    <3>4. InnerIn(pages[p], R[p], R)
      BY <3>1, <3>3 DEF InnerIn, Divided
    <3> QED BY <1>9, <2>2, <3>4
  <2> QED BY <2>1, <2>2
<1>15. SameKeys(pages, qs)
  BY <1>9, <1>10 DEF HasKey, SameKeys
<1>16. SepsPresent(qs)
  <2> SUFFICES ASSUME NEW p \in DOMAIN qs, NEW i \in 1 .. SepCount(qs[p])
               PROVE  HasKey(pages, qs[p].seps[i].key)
    BY <1>15 DEF SepsPresent, SameKeys
  <2>1. CASE p = P
    <3>1. F \in [1 .. m -> Keys] /\ \A a \in 1 .. m : F[a] = pg.seps[a].key
      BY <1>3, SepKeysIs
    <3>2. \A a \in 1 .. m : HasKey(pages, F[a])
      BY <1>3, <3>1 DEF InOrder, SepsPresent
    <3>3. \A b \in 1 .. m + 1 : HasKey(pages, WithKey(F, m, ParentIndex, call.key)[b])
      BY <1>3, <1>8, <3>2, WithKeyPresent
    <3>4. \A b \in 1 .. SepCount(c) : SepKeys(c)[b] = c.seps[b].key
      BY <1>6, SepKeysIs
    <3> HIDE DEF F, m
    <3> QED BY <1>5, <1>9, <2>1, <3>3, <3>4
  <2>2. CASE p # P
    BY <1>9, <2>2 DEF InOrder, SepsPresent
  <2> QED BY <2>1, <2>2
<1>17. ClimbIn(qs, NoCall, R)
  BY DEF ClimbIn, NoCall
<1>18. InOrder(qs, NoCall, R)
  BY <1>7, <1>11, <1>12, <1>13, <1>14, <1>16, <1>17 DEF InOrder
<1> QED BY <1>1, <1>15, <1>18 DEF qs

-----------------------------------------------------------------------------
\* The first n of the separators F, and their children; and what is left of m of them
\* without the one after.
FirstOf(F, n)     == [a \in 1 .. n |-> F[a]]
FirstKids(G, n)   == [a \in 0 .. n |-> G[a]]
RestOf(F, m, n)   == [a \in 1 .. m - n - 1 |-> F[n + 1 + a]]
RestKids(G, m, n) == [a \in 0 .. m - n - 1 |-> G[n + 1 + a]]

\* Separators that divide S divide its two parts at one of them.
LEMMA DividedCut ==
  ASSUME NEW m \in Nat, NEW F \in [1 .. m -> Keys], NEW G, NEW S \in SUBSET Keys, NEW T,
         Divided(F, m, G, S, T), NEW n \in 1 .. m - 1
  PROVE  /\ Divided(FirstOf(F, n), n, FirstKids(G, n), Lower(S, F[n + 1]), T)
         /\ Divided(RestOf(F, m, n), m - n - 1, RestKids(G, m, n), Upper(S, F[n + 1]), T)
         /\ F[n] \in Lower(S, F[n + 1]) /\ F[n + 1] \in S
<1> DEFINE k == F[n + 1]
           F1 == FirstOf(F, n)
           G1 == FirstKids(G, n)
           F2 == RestOf(F, m, n)
           G2 == RestKids(G, m, n)
           h == m - n - 1
<1>1. /\ \A a \in 1 .. m : F[a] \in S /\ F[a] \in Nat
      /\ \A a, b \in 1 .. m : a < b => F[a] < F[b]
      /\ \A a \in 0 .. m : T[G[a]] = Between(F, m, a, S)
      /\ \A x \in S : x \in Nat
  BY SlotsAssumption DEF Divided
<1>2. n \in Nat /\ n \in 1 .. m /\ n + 1 \in 1 .. m /\ h \in Nat /\ n < n + 1
  OBVIOUS
<1>3. k \in S /\ k \in Nat /\ F[n] \in S /\ F[n] < k
  BY <1>1, <1>2
<1>4. \A a \in 1 .. n : a \in 1 .. m /\ a < n + 1 /\ F1[a] = F[a]
  BY <1>2 DEF FirstOf
<1>5. \A a \in 1 .. h : n + 1 + a \in 1 .. m /\ n + 1 < n + 1 + a /\ F2[a] = F[n + 1 + a]
  BY <1>2 DEF RestOf
<1>6. \A a \in 0 .. n : a \in 0 .. m /\ G1[a] = G[a]
  BY <1>2 DEF FirstKids
<1>7. \A a \in 0 .. h : n + 1 + a \in 0 .. m /\ G2[a] = G[n + 1 + a]
  BY <1>2 DEF RestKids
<1> HIDE DEF k, F1, F2, G1, G2, h
<1>8. Divided(F1, n, G1, Lower(S, k), T)
  <2>1. \A a \in 1 .. n : F1[a] \in Lower(S, k)
    BY <1>1, <1>2, <1>4 DEF Lower, k
  <2>2. \A a, b \in 1 .. n : a < b => F1[a] < F1[b]
    BY <1>1, <1>4
  <2>3. ASSUME NEW a \in 0 .. n PROVE T[G1[a]] = Between(F1, n, a, Lower(S, k))
    <3>1. T[G1[a]] = Between(F, m, a, S)
      BY <1>1, <1>6
    <3>2. 0 < a => F1[a] = F[a]
      BY <1>4
    <3>3. ASSUME NEW x \in Between(F, m, a, S) PROVE x \in Between(F1, n, a, Lower(S, k))
      <4>1. x \in S /\ x \in Nat /\ (0 < a => F[a] <= x) /\ x < F[a + 1]
        BY <1>1, <1>2, <3>3 DEF Between
      <4>2. a + 1 \in 1 .. m /\ (a + 1 < n + 1 \/ a = n)
        BY <1>2
      <4>3. x < k
        BY <1>1, <1>2, <1>3, <4>1, <4>2 DEF k
      <4>4. a < n => F1[a + 1] = F[a + 1]
        BY <1>4
      <4> QED BY <3>2, <4>1, <4>3, <4>4 DEF Between, Lower
    <3>4. ASSUME NEW x \in Between(F1, n, a, Lower(S, k)) PROVE x \in Between(F, m, a, S)
      <4>1. x \in S /\ x < k /\ (0 < a => F[a] <= x) /\ (a < n => x < F1[a + 1])
        BY <3>2, <3>4 DEF Between, Lower
      <4>2. a < n => x < F[a + 1]
        BY <1>4, <4>1
      <4>3. x < F[a + 1]
        BY <1>2, <4>1, <4>2 DEF k
      <4> QED BY <4>1, <4>3 DEF Between
    <3> QED BY <3>1, <3>3, <3>4
  <2> QED BY <2>1, <2>2, <2>3 DEF Divided
<1>9. Divided(F2, h, G2, Upper(S, k), T)
  <2>1. \A a \in 1 .. h : F2[a] \in Upper(S, k)
    <3> SUFFICES ASSUME NEW a \in 1 .. h PROVE F2[a] \in Upper(S, k)
      OBVIOUS
    <3>1. n + 1 + a \in 1 .. m /\ n + 1 < n + 1 + a /\ F2[a] = F[n + 1 + a]
      BY <1>5
    <3>2. k < F2[a] /\ F2[a] \in S /\ F2[a] \in Nat
      BY <1>1, <1>2, <3>1 DEF k
    <3> QED BY <1>3, <3>2 DEF Upper
  <2>2. ASSUME NEW a \in 1 .. h, NEW b \in 1 .. h, a < b PROVE F2[a] < F2[b]
    <3>1. n + 1 + a < n + 1 + b
      BY <1>2, <2>2
    <3> QED BY <1>1, <1>5, <3>1
  <2>3. ASSUME NEW a \in 0 .. h PROVE T[G2[a]] = Between(F2, h, a, Upper(S, k))
    <3> DEFINE j == n + 1 + a
    <3>1. T[G2[a]] = Between(F, m, j, S) /\ j \in 0 .. m
      BY <1>1, <1>7
    <3>2. /\ 0 < j /\ (j < m <=> a < h)
      BY <1>2 DEF h
    <3>3. 0 < a => F2[a] = F[j]
      BY <1>5
    <3>4. a < h => F2[a + 1] = F[j + 1]
      <4> SUFFICES ASSUME a < h PROVE F2[a + 1] = F[j + 1]
        OBVIOUS
      <4>1. a + 1 \in 1 .. h /\ n + 1 + (a + 1) = j + 1
        BY <1>2
      <4>2. F2[a + 1] = F[n + 1 + (a + 1)]
        BY <1>5, <4>1
      <4> QED BY <4>1, <4>2
    <3>5. a = 0 => F[j] = k
      BY <1>2 DEF k
    <3>6. 0 < a => k < F[j] /\ F[j] \in Nat
      <4> SUFFICES ASSUME 0 < a PROVE k < F[j] /\ F[j] \in Nat
        OBVIOUS
      <4>1. j \in 1 .. m /\ n + 1 < j
        BY <1>2, <3>1
      <4> QED BY <1>1, <1>2, <4>1 DEF k
    <3> HIDE DEF j
    <3>7. a = 0 \/ 0 < a
      OBVIOUS
    <3>8. ASSUME NEW x \in Between(F, m, j, S) PROVE x \in Between(F2, h, a, Upper(S, k))
      <4>1. x \in S /\ x \in Nat /\ F[j] <= x /\ (a < h => x < F[j + 1])
        BY <1>1, <3>2, <3>8 DEF Between
      <4>2. k <= x
        BY <1>3, <3>5, <3>6, <3>7, <4>1
      <4> QED BY <3>3, <3>4, <4>1, <4>2 DEF Between, Upper
    <3>9. ASSUME NEW x \in Between(F2, h, a, Upper(S, k)) PROVE x \in Between(F, m, j, S)
      <4>1. x \in S /\ k <= x /\ (0 < a => F2[a] <= x) /\ (a < h => x < F2[a + 1])
        BY <3>9 DEF Between, Upper
      <4>2. F[j] <= x
        BY <3>3, <3>5, <3>7, <4>1
      <4> QED BY <3>2, <3>4, <4>1, <4>2 DEF Between
    <3> QED BY <3>1, <3>8, <3>9
  <2> QED BY <2>1, <2>2, <2>3 DEF Divided
<1>10. F[n] \in Lower(S, k)
  BY <1>3 DEF Lower
<1> QED BY <1>3, <1>8, <1>9, <1>10 DEF k, F1, F2, G1, G2, h

\* The separators and children of the page that splitInner splits, with the new ones.
NewKeys(pg) == WithKey(SepKeys(pg), SepCount(pg), ParentIndex, call.key)
NewKids(pg) == WithKids(Kids(pg), SepCount(pg), ParentIndex, call.left, call.right)

\* splitInner splits the page at or below its new entry.
HalfCase(pg, S) ==
  SplitCase(pg, S) /\ 0 < InnerSplitAt /\ InnerSplitAt <= ParentIndex /\ ParentIndex < SepCount(pg)

\* The left half of an inner page has the first of them.
LEMMA LeftHalf ==
  ASSUME NEW pg, NEW S, HalfCase(pg, S)
  PROVE  /\ SepCount(LeftInner) = InnerSplitAt
         /\ SepKeys(LeftInner) = FirstOf(NewKeys(pg), InnerSplitAt)
         /\ Kids(LeftInner) = FirstKids(NewKids(pg), InnerSplitAt)
         /\ Logical(pg.seps, InnerSplitAt).key = NewKeys(pg)[InnerSplitAt + 1]
<1> DEFINE m == SepCount(pg)
           at == InnerSplitAt
           pi == ParentIndex
           s == SubSeq(pg.seps, 1, StayBelow(pi, at))
           F == SepKeys(pg)
           G == Kids(pg)
           c == LeftInner
<1>1. /\ pg.seps \in Seq(Sep) /\ m \in Nat /\ Len(pg.seps) = m
      /\ pi \in 0 .. m /\ at \in 0 .. m
  BY SplitCaseIs DEF HalfCase
<1>2. /\ pg = pages[Parent] /\ PageOK(pg) /\ pg \in Page /\ 0 < at /\ at <= pi /\ pi < m
  BY DEF HalfCase, SplitCase, PageOK
<1>3. F \in [1 .. m -> Keys] /\ \A i \in 1 .. m : F[i] = pg.seps[i].key
  BY <1>2, SepKeysIs
<1>4. \A i \in 0 .. m : G[i] = ChildOf(pg, i)
  BY DEF Kids
<1>5. ~(pi < at) /\ StayBelow(pi, at) = at
  BY <1>1, <1>2 DEF StayBelow
<1>6. c = [pg EXCEPT !.seps = s, !.next = Logical(pg.seps, at).child]
  BY <1>2, <1>5, Zenon DEF LeftInner
<1>7. s \in Seq(Sep) /\ Len(s) = at /\ \A j \in 1 .. at : s[j] = pg.seps[j]
  BY <1>1, <1>2, <1>5
<1> HIDE DEF m, at, pi, s, F, G, c
<1>9. c.seps = s /\ c.next = Logical(pg.seps, at).child
  BY <1>2, <1>6 DEF Page
<1>10. SepCount(c) = at
  BY <1>7, <1>9 DEF SepCount
<1>11. SepKeys(c) = [i \in 1 .. at |-> c.seps[i].key]
  BY <1>10 DEF SepKeys
<1>12. ASSUME NEW i \in 1 .. at PROVE c.seps[i].key = NewKeys(pg)[i]
  <2>1. i \in 1 .. m + 1 /\ i \in 1 .. m /\ i <= pi
    BY <1>1, <1>2
  <2>2. NewKeys(pg)[i] = F[i]
    BY <2>1 DEF NewKeys, WithKey, m, F, pi
  <2> QED BY <1>3, <1>7, <1>9, <2>1, <2>2
<1>13. SepKeys(c) = FirstOf(NewKeys(pg), at)
  BY <1>11, <1>12 DEF FirstOf
<1>14. Logical(pg.seps, at) = IF at = pi THEN [key |-> call.key, child |-> call.left]
                              ELSE pg.seps[at + 1]
  BY <1>1, <1>2 DEF Logical, pi
<1>15. ASSUME NEW i \in 0 .. at PROVE ChildOf(c, i) = NewKids(pg)[i]
  <2>1. NewKids(pg)[i] = IF i < pi THEN G[i] ELSE call.left
    <3>1. i \in 0 .. m + 1 /\ i <= pi
      BY <1>1, <1>2
    <3> QED BY <1>1, <3>1 DEF NewKids, WithKids, m, G, pi
  <2>2. CASE i = at
    <3>1. ChildOf(c, i) = Logical(pg.seps, at).child
      BY <1>9, <1>10, <2>2 DEF ChildOf
    <3>2. at < pi => /\ at \in 0 .. m /\ at # m
      BY <1>1, <1>2
    <3>3. at < pi => G[at] = pg.seps[at + 1].child
      BY <1>4, <3>2 DEF ChildOf, m
    <3>4. at < pi \/ at = pi
      BY <1>1, <1>2
    <3>5. CASE at < pi
      BY <1>1, <1>14, <2>1, <2>2, <3>1, <3>3, <3>5
    <3>6. CASE at = pi
      <4>1. Logical(pg.seps, at).child = call.left
        BY <1>14, <3>6
      <4> QED BY <1>1, <2>1, <2>2, <3>1, <3>6, <4>1
    <3> QED BY <3>4, <3>5, <3>6
  <2>3. CASE i # at
    <3>1. i + 1 \in 1 .. at /\ i \in 0 .. m /\ i # m /\ i < pi
      BY <1>1, <1>2, <2>3
    <3>2. ChildOf(c, i) = s[i + 1].child
      BY <1>9, <1>10, <2>3 DEF ChildOf
    <3>3. G[i] = pg.seps[i + 1].child
      BY <1>4, <3>1 DEF ChildOf, m
    <3> QED BY <1>7, <2>1, <3>1, <3>2, <3>3
  <2> QED BY <2>2, <2>3
<1>16. Kids(c) = [i \in 0 .. at |-> ChildOf(c, i)]
  BY <1>10 DEF Kids
<1>17. Kids(c) = FirstKids(NewKids(pg), at)
  BY <1>15, <1>16 DEF FirstKids
<1>18. Logical(pg.seps, at).key = NewKeys(pg)[at + 1]
  <2>1. at + 1 \in 1 .. m + 1 /\ (at < pi => at + 1 \in 1 .. m)
    BY <1>1, <1>2
  <2>2. NewKeys(pg)[at + 1] = IF at + 1 <= pi THEN F[at + 1] ELSE IF at + 1 = pi + 1 THEN call.key
                              ELSE F[(at + 1) - 1]
    <3> DEFINE b == at + 1
    <3>1. b \in 1 .. m + 1
      BY <2>1
    <3> HIDE DEF b
    <3>2. NewKeys(pg)[b] = IF b <= pi THEN F[b] ELSE IF b = pi + 1 THEN call.key ELSE F[b - 1]
      BY <3>1 DEF NewKeys, WithKey, m, F, pi
    <3> QED BY <3>2 DEF b
  <2>3. CASE at < pi
    <3>1. at + 1 <= pi /\ at # pi
      BY <1>1, <2>3
    <3> QED BY <1>3, <1>14, <2>1, <2>2, <2>3, <3>1
  <2>4. CASE at = pi
    <3>1. ~(at + 1 <= pi)
      BY <1>1, <2>4
    <3> QED BY <1>14, <2>2, <2>4, <3>1
  <2>5. at < pi \/ at = pi
    BY <1>1, <1>2
  <2> QED BY <2>3, <2>4, <2>5
<1> QED BY <1>10, <1>13, <1>17, <1>18 DEF at, c

\* And the right half what is left of them.
LEMMA RightHalf ==
  ASSUME NEW pg, NEW S, HalfCase(pg, S)
  PROVE  /\ SepCount(RightInner) = (SepCount(pg) + 1) - InnerSplitAt - 1
         /\ SepKeys(RightInner) = RestOf(NewKeys(pg), SepCount(pg) + 1, InnerSplitAt)
         /\ Kids(RightInner) = RestKids(NewKids(pg), SepCount(pg) + 1, InnerSplitAt)
<1> DEFINE m == SepCount(pg)
           at == InnerSplitAt
           pi == ParentIndex
           s == pg.seps
           x == SetSplitChild(s)
           t == [i \in 1 .. Len(x) - at |-> Logical(x, i + at)]
           F == SepKeys(pg)
           G == Kids(pg)
           c == RightInner
<1>1. /\ s \in Seq(Sep) /\ m \in Nat /\ Len(s) = m
      /\ pi \in 0 .. m /\ at \in 0 .. m
  BY SplitCaseIs DEF HalfCase
<1>2. /\ pg = pages[Parent] /\ PageOK(pg) /\ pg \in Page /\ 0 < at /\ at <= pi /\ pi < m
  BY DEF HalfCase, SplitCase, PageOK
<1>3. F \in [1 .. m -> Keys] /\ \A i \in 1 .. m : F[i] = pg.seps[i].key
  BY <1>2, SepKeysIs
<1>4. \A i \in 0 .. m : G[i] = ChildOf(pg, i)
  BY DEF Kids
<1>5. c = [NewPage EXCEPT !.level = pg.level, !.next = pg.next, !.seps = t]
  BY <1>2, Zenon DEF RightInner
<1> HIDE DEF c, t
<1>6. c = [room |-> Usable, level |-> pg.level, slots |-> <<>>, slotCount |-> 0,
           area |-> <<>>, seps |-> t, next |-> pg.next, prev |-> INVALID_PAGE]
  BY <1>5, Zenon DEF NewPage
<1>7. c.seps = t /\ c.next = pg.next
  BY <1>6
<1>8. x = [s EXCEPT ![at + 1] = [s[at + 1] EXCEPT !.child = call.left]]
  BY <1>1, <1>2 DEF SetSplitChild
<1> HIDE DEF m, at, pi, F, G, x
<1>9. /\ Len(x) = m /\ \A j \in at + 2 .. m : x[j] = s[j]
      /\ x[at + 1].key = s[at + 1].key /\ DOMAIN x[at + 1] = DOMAIN s[at + 1]
  <2>1. at + 1 \in 1 .. m
    BY <1>1, <1>2
  <2>2. s[at + 1] \in Sep
    BY <1>1, <2>1
  <2>3. [s[at + 1] EXCEPT !.child = call.left].key = s[at + 1].key
    BY <2>2 DEF Sep
  <2>4. DOMAIN [s[at + 1] EXCEPT !.child = call.left] = DOMAIN s[at + 1]
    OBVIOUS
  <2>5. x[at + 1] = [s[at + 1] EXCEPT !.child = call.left]
    BY <1>1, <1>8, <2>1
  <2> QED BY <1>1, <1>8, <2>1, <2>3, <2>4, <2>5
<1>10. t = [i \in 1 .. m - at |-> Logical(x, i + at)]
  BY <1>9 DEF t, at
<1>11. m - at \in Nat
  BY <1>1, <1>2
<1>12. SepCount(c) = m - at
  BY <1>7, <1>10, <1>11 DEF SepCount
\* Entry j of the page and the new one, with the separator before it.
<1>13. ASSUME NEW j \in at + 1 .. m
       PROVE  /\ Logical(x, j).key = NewKeys(pg)[j + 1]
              /\ Logical(x, j).child = NewKids(pg)[j]
  <2>1. j \in Int /\ j + 1 \in 1 .. m + 1 /\ j \in 0 .. m + 1 /\ j \in 1 .. m
    BY <1>1
  <2>2. NewKeys(pg)[j + 1] = IF j + 1 <= pi THEN F[j + 1] ELSE IF j + 1 = pi + 1 THEN call.key
                             ELSE F[j + 1 - 1]
    BY <2>1 DEF NewKeys, WithKey, m, F, pi
  <2>3. NewKids(pg)[j] = IF j < pi THEN G[j] ELSE IF j = pi THEN call.left
                         ELSE IF j = pi + 1 THEN call.right ELSE G[j - 1]
    BY <2>1 DEF NewKids, WithKids, m, G, pi
  <2>4. CASE j < pi
    <3>1. /\ j + 1 \in at + 2 .. m /\ j + 1 \in 1 .. m /\ j + 1 <= pi /\ j \in 0 .. m /\ j # m
      BY <1>1, <1>2, <2>1, <2>4
    <3>2. Logical(x, j) = x[j + 1]
      BY <1>1, <2>1, <2>4 DEF Logical, pi
    <3>3. G[j] = s[j + 1].child
      BY <1>4, <3>1 DEF ChildOf, m
    <3> QED BY <1>3, <1>9, <2>2, <2>3, <2>4, <3>1, <3>2, <3>3
  <2>5. CASE j = pi
    <3>1. Logical(x, j) = [key |-> call.key, child |-> call.left]
      BY <2>5 DEF Logical, pi
    <3>2. ~(j + 1 <= pi) /\ ~(j < pi) /\ j + 1 = pi + 1
      BY <1>1, <2>1, <2>5
    <3> QED BY <2>2, <2>3, <2>5, <3>1, <3>2
  <2>6. CASE j = pi + 1
    <3>1. ~(j + 1 <= pi) /\ ~(j < pi) /\ j + 1 # pi + 1 /\ j + 1 - 1 = j /\ j # pi
      BY <1>1, <2>1, <2>6
    <3>2. Logical(x, j) = [x[j] EXCEPT !.child = call.right]
      BY <1>1, <2>1, <2>6, <3>1 DEF Logical, pi
    <3>3. x[j].key = s[j].key /\ x[j] \in [{"key", "child"} -> {x[j].key, x[j].child}]
      <4>1. CASE j = at + 1
        <5>1. s[j] \in Sep
          BY <1>1, <2>1
        <5>2. x[j] = [s[j] EXCEPT !.child = call.left]
          BY <1>1, <1>8, <2>1, <4>1
        <5> QED BY <5>1, <5>2 DEF Sep
      <4>2. CASE j # at + 1
        <5>1. s[j] \in Sep /\ j \in at + 2 .. m
          BY <1>1, <2>1, <4>2
        <5> QED BY <1>9, <5>1 DEF Sep
      <4> QED BY <4>1, <4>2
    <3>4. Logical(x, j).key = s[j].key /\ Logical(x, j).child = call.right
      BY <3>2, <3>3
    <3> QED BY <1>3, <2>1, <2>2, <2>3, <2>6, <3>1, <3>4
  <2>7. CASE j > pi + 1
    <3>1. /\ ~(j + 1 <= pi) /\ ~(j < pi) /\ j + 1 # pi + 1 /\ j + 1 - 1 = j /\ j # pi
          /\ j # pi + 1 /\ j \in at + 2 .. m /\ j - 1 \in 0 .. m /\ j - 1 # m /\ j - 1 + 1 = j
      BY <1>1, <1>2, <2>1, <2>7
    <3>2. Logical(x, j) = x[j]
      BY <1>1, <2>1, <2>7, <3>1 DEF Logical, pi
    <3>3. G[j - 1] = s[j].child
      BY <1>4, <3>1 DEF ChildOf, m
    <3> QED BY <1>3, <1>9, <2>1, <2>2, <2>3, <3>1, <3>2, <3>3
  <2> QED BY <1>1, <2>1, <2>4, <2>5, <2>6, <2>7
<1>14. (m + 1) - at - 1 = m - at
  BY <1>1
<1>15. ASSUME NEW a \in 1 .. m - at PROVE c.seps[a].key = NewKeys(pg)[at + 1 + a]
  <2>1. a + at \in at + 1 .. m /\ a + at + 1 = at + 1 + a
    BY <1>1, <1>2
  <2>2. c.seps[a] = Logical(x, a + at)
    BY <1>7, <1>10
  <2> QED BY <1>13, <2>1, <2>2
<1>16. SepKeys(c) = RestOf(NewKeys(pg), m + 1, at)
  <2>1. SepKeys(c) = [a \in 1 .. m - at |-> c.seps[a].key]
    BY <1>12 DEF SepKeys
  <2> DEFINE d == (m + 1) - at - 1
  <2>2. d = m - at
    BY <1>14
  <2> HIDE DEF d
  <2>3. SepKeys(c) = [a \in 1 .. d |-> NewKeys(pg)[at + 1 + a]]
    BY <1>15, <2>1, <2>2
  <2> QED BY <2>3 DEF RestOf, d
<1>17. ASSUME NEW a \in 0 .. m - at PROVE ChildOf(c, a) = NewKids(pg)[at + 1 + a]
  <2>1. CASE a = m - at
    <3>1. ChildOf(c, a) = pg.next
      BY <1>7, <1>12, <2>1 DEF ChildOf
    <3>2. /\ at + 1 + a = m + 1 /\ m + 1 \in 0 .. m + 1 /\ ~(m + 1 < pi) /\ m + 1 # pi
          /\ m + 1 # pi + 1 /\ m + 1 - 1 = m /\ m \in 0 .. m
      BY <1>1, <1>2, <2>1
    <3>3. NewKids(pg)[m + 1] = G[m]
      BY <3>2 DEF NewKids, WithKids, m, G, pi
    <3>4. G[m] = pg.next
      BY <1>4, <3>2 DEF ChildOf, m
    <3> QED BY <3>1, <3>2, <3>3, <3>4
  <2>2. CASE a # m - at
    <3>1. /\ a + 1 \in 1 .. m - at /\ a + 1 + at \in at + 1 .. m /\ a + 1 + at = at + 1 + a
      BY <1>1, <1>2, <2>2
    <3>2. ChildOf(c, a) = c.seps[a + 1].child
      BY <1>12, <2>2 DEF ChildOf
    <3>3. c.seps[a + 1] = Logical(x, a + 1 + at)
      BY <1>7, <1>10, <3>1
    <3> QED BY <1>13, <3>1, <3>2, <3>3
  <2> QED BY <2>1, <2>2
<1>18. Kids(c) = RestKids(NewKids(pg), m + 1, at)
  <2>1. Kids(c) = [a \in 0 .. m - at |-> ChildOf(c, a)]
    BY <1>12 DEF Kids
  <2> DEFINE d == (m + 1) - at - 1
  <2>2. d = m - at
    BY <1>14
  <2> HIDE DEF d
  <2>3. Kids(c) = [a \in 0 .. d |-> NewKids(pg)[at + 1 + a]]
    BY <1>17, <2>1, <2>2
  <2> QED BY <2>3 DEF RestKids, d
<1> QED BY <1>12, <1>14, <1>16, <1>18 DEF m, at, c

\* splitInner cuts the range of the page at the separator that goes up.
LEMMA SplitInnerOrder ==
  ASSUME Orderly, TreeInv, SplitInner, NEW R, InOrder(pages, call, R)
  PROVE  InOrder(pages', call', CutHere(R)) /\ SameKeys(pages, pages')
<1> DEFINE P   == Parent
           pg  == pages[P]
           S   == OneBelow(pages, pg.level)
           m   == SepCount(pg)
           at  == InnerSplitAt
           pi  == ParentIndex
           r   == NextPageNum
           F   == NewKeys(pg)
           G   == NewKids(pg)
           T   == Owned(R, call)
           lft == LeftInner
           rgt == RightInner
           qs  == pages'
           c   == call'
           key == F[at + 1]
           Q   == Cut(R, P, r, key)
<1>1. /\ NeedsInnerSplit /\ StayBelow(pi, at) > 0
      /\ qs = [q \in 0 .. r |-> IF q = P THEN lft ELSE IF q = r THEN rgt ELSE pages[q]]
      /\ c = [active |-> TRUE, parents |-> Front(call.parents),
              key |-> Logical(pages[Parent].seps, InnerSplitAt).key, left |-> P, right |-> r]
  BY DEF SplitInner
<1>2. /\ Climbing /\ call.parents # <<>> /\ InnerFree(pg) < SepNeed /\ r <= MaxPage
      /\ at <= pi /\ pi < m
  BY <1>1 DEF NeedsInnerSplit, Orderly
<1>3. /\ P \in DOMAIN pages /\ NodeOK(pages, P) /\ PageOK(pg)
      /\ pg.level # 0 /\ pg.level # INVALID_TREE_LEVEL /\ pg.slotCount = 0
      /\ call.key \in Keys /\ call.left \in S /\ call.right \in S
      /\ call.left \in PageLink /\ call.right \in PageLink
      /\ \A i \in 0 .. SepCount(pg) : ChildOf(pg, i) \in S
      /\ IsWay(pages, call.parents)
  BY <1>2, ParentIs
<1>4. SplitCase(pg, S)
  BY <1>2, <1>3 DEF SplitCase
<1> HIDE DEF S
<1>5. m \in Nat /\ pi \in 0 .. m /\ at \in 0 .. m
  BY <1>4, SplitCaseIs
<1>6. 0 < at /\ HalfCase(pg, S)
  <2>1. 0 < at
    BY <1>1, <1>2, <1>5 DEF StayBelow
  <2> QED BY <1>2, <1>4, <2>1 DEF HalfCase
<1>7. /\ PageOK(lft) /\ lft.level = pg.level /\ lft.slotCount = pg.slotCount
      /\ LiveKeys(lft) = LiveKeys(pg)
      /\ \A i \in 0 .. SepCount(lft) : ChildOf(lft, i) \in S
  BY <1>1, <1>4, LeftInnerIs
<1>8. /\ PageOK(rgt) /\ rgt.level = pg.level /\ rgt.slotCount = 0
      /\ \A i \in 0 .. SepCount(rgt) : ChildOf(rgt, i) \in S
  BY <1>4, RightInnerIs
<1>9. /\ SepCount(lft) = at /\ SepKeys(lft) = FirstOf(F, at) /\ Kids(lft) = FirstKids(G, at)
      /\ Logical(pg.seps, at).key = key
  BY <1>6, LeftHalf
<1>10. /\ SepCount(rgt) = (m + 1) - at - 1 /\ SepKeys(rgt) = RestOf(F, m + 1, at)
       /\ Kids(rgt) = RestKids(G, m + 1, at)
  BY <1>6, RightHalf
<1>11. ClimbPlace(R)
  BY <1>2, ClimbPlaceIs
<1>12. /\ Grows(SepKeys(pg), m, Kids(pg), R[P], T, pi, call.key, call.left, call.right, R)
       /\ \A p \in DOMAIN pages : p # P /\ Inner(pages[p]) =>
            \A i \in 0 .. SepCount(pages[p]) : ChildOf(pages[p], i) # call.left
       /\ R[root_] = Keys
       /\ \A p \in DOMAIN pages : p # call.left => T[p] = R[p]
  BY <1>11 DEF ClimbPlace
<1>13. Divided(F, m + 1, G, R[P], R) /\ F \in [1 .. m + 1 -> Keys]
  BY <1>12, DividedMore DEF NewKeys, NewKids
<1>14. Nodes(pages) /\ HasKey(pages, call.key) /\ RangesOf(pages, R)
  BY <1>2 DEF TreeInv, Climbing, InOrder, ClimbIn
<1>15. R[P] \in SUBSET Keys
  BY <1>3, <1>14 DEF RangesOf
<1> HIDE DEF F, G, m, at, pi, T, lft, rgt, key
<1>16. /\ Divided(FirstOf(F, at), at, FirstKids(G, at), Lower(R[P], key), R)
       /\ Divided(RestOf(F, m + 1, at), (m + 1) - at - 1, RestKids(G, m + 1, at),
                  Upper(R[P], key), R)
       /\ F[at] \in Lower(R[P], key) /\ key \in R[P]
  <2>1. m + 1 \in Nat /\ at \in 1 .. (m + 1) - 1
    BY <1>5, <1>6
  <2> QED BY <1>13, <1>15, <2>1, DividedCut DEF key
<1>17. S \subseteq DOMAIN pages
  BY DEF S, OneBelow
<1>18. /\ r \in PageNum /\ r \notin DOMAIN pages /\ 0 .. r = DOMAIN pages \cup {r}
       /\ DOMAIN pages \subseteq PageNum /\ r # root_ /\ root_ \in DOMAIN pages
  BY <1>2, <1>14, NextPageIs
<1>19. /\ c.active /\ c.parents = Front(call.parents) /\ c.key = key /\ c.left = P /\ c.right = r
  BY <1>1, <1>9 DEF at
<1> HIDE DEF r, qs, c
<1>20. /\ DOMAIN qs = DOMAIN pages \cup {r} /\ qs[P] = lft /\ qs[r] = rgt
       /\ \A p \in DOMAIN pages : p # P => qs[p] = pages[p]
  BY <1>1, <1>3, <1>18
<1> HIDE DEF P, pg
<1>21. pg = pages[P]
  BY DEF pg
<1>22. \A p \in DOMAIN pages : /\ qs[p].level = pages[p].level
                               /\ qs[p].slotCount = pages[p].slotCount
                               /\ LiveKeys(qs[p]) = LiveKeys(pages[p])
  BY <1>7, <1>20, <1>21
<1>23. SameKeys(pages, qs)
  <2>1. \A i \in 1 .. qs[r].slotCount : FALSE
    BY <1>8, <1>20
  <2> QED BY <1>20, <1>22, <2>1 DEF HasKey, SameKeys
<1>24. \A b \in 1 .. m + 1 : HasKey(pages, F[b])
  <2>1. SepKeys(pg) \in [1 .. m -> Keys] /\ \A a \in 1 .. m : SepKeys(pg)[a] = pg.seps[a].key
    BY <1>3, SepKeysIs DEF m
  <2>2. \A a \in 1 .. m : HasKey(pages, SepKeys(pg)[a])
    BY <1>3, <1>21, <2>1 DEF InOrder, SepsPresent, m
  <2> QED BY <1>5, <1>14, <2>2, WithKeyPresent DEF F, NewKeys, m, pi
<1>25. Beside(pages, qs, P, r)
  BY <1>3, <1>8, <1>18, <1>20, <1>21, <1>22 DEF Beside
\* The children that inner pages have are old pages.
<1>26. ASSUME NEW p \in DOMAIN pages, p # P, Inner(pages[p])
       PROVE  \A i \in 0 .. SepCount(pages[p]) : /\ Kids(pages[p])[i] = ChildOf(pages[p], i)
                                                 /\ ChildOf(pages[p], i) \in DOMAIN pages
  BY <1>14, <1>26, InnerIs DEF Below
<1>27. /\ \A i \in 0 .. SepCount(lft) : Kids(lft)[i] = ChildOf(lft, i)
       /\ \A i \in 0 .. SepCount(rgt) : Kids(rgt)[i] = ChildOf(rgt, i)
  BY DEF Kids
<1>28. \A p \in DOMAIN qs : Inner(qs[p]) => \A i \in 0 .. SepCount(qs[p]) : ChildOf(qs[p], i) # r
  <2> SUFFICES ASSUME NEW p \in DOMAIN qs, Inner(qs[p]), NEW i \in 0 .. SepCount(qs[p])
               PROVE  ChildOf(qs[p], i) \in DOMAIN pages
    BY <1>18
  <2>1. CASE p = P
    BY <1>7, <1>17, <1>20, <2>1
  <2>2. CASE p = r
    BY <1>8, <1>17, <1>20, <2>2
  <2>3. CASE p \in DOMAIN pages /\ p # P
    BY <1>20, <1>26, <2>3
  <2> QED BY <1>20, <2>1, <2>2, <2>3
<1>29. Leads(pages, R, Front(call.parents), P)
  <2> DEFINE ps == call.parents
             n  == Len(ps)
  <2>1. ps \in Seq(DOMAIN pages) /\ n \in Nat /\ n >= 1
    BY <1>3 DEF IsWay
  <2>2. ps[n] = P
    BY DEF P, Parent, Last
  <2>3. Front(ps) \in Seq(DOMAIN pages) /\ Len(Front(ps)) = n - 1
        /\ \A i \in 1 .. n - 1 : Front(ps)[i] = ps[i]
    BY <2>1 DEF Front
  <2>4. Nested(pages, R, ps)
    BY <1>2 DEF Climbing, InOrder, ClimbIn
  <2> HIDE DEF ps, n
  <2>5. \A i, j \in 1 .. n : i < j => R[ps[j]] \subseteq R[ps[i]] /\ pages[ps[j]].level < pages[ps[i]].level
    BY <2>4 DEF Nested, n
  <2>6. Nested(pages, R, Front(ps))
    <3> SUFFICES ASSUME NEW i \in 1 .. n - 1, NEW j \in 1 .. n - 1, i < j
                 PROVE  /\ R[Front(ps)[j]] \subseteq R[Front(ps)[i]]
                        /\ pages[Front(ps)[j]].level < pages[Front(ps)[i]].level
      BY <2>3 DEF Nested
    <3>1. i \in 1 .. n /\ j \in 1 .. n
      BY <2>1
    <3> QED BY <2>3, <2>5, <3>1
  <2>7. ASSUME NEW i \in 1 .. n - 1
        PROVE  /\ Front(ps)[i] \in DOMAIN pages /\ Front(ps)[i] # P
               /\ R[P] \subseteq R[Front(ps)[i]]
    <3>1. i \in 1 .. n /\ n \in 1 .. n /\ i < n
      BY <2>1
    <3>2. R[ps[n]] \subseteq R[ps[i]] /\ pages[ps[n]].level < pages[ps[i]].level
      BY <2>5, <3>1
    <3>3. pages[P].level \in Nat /\ ps[i] \in DOMAIN pages
      BY <1>3, <1>21, <2>1, <3>1, PageFields DEF PageOK, n
    <3>4. ps[i] # P
      BY <2>2, <3>2, <3>3
    <3> QED BY <2>2, <2>3, <3>2, <3>3, <3>4
  <2> QED BY <2>3, <2>6, <2>7 DEF Leads, ps
<1> HIDE DEF Q
<1>30. /\ RangesOf(qs, Q)
       /\ \A p \in DOMAIN pages : p # P => Q[p] = R[p]
       /\ Q[P] = Lower(R[P], key) /\ Q[r] = Upper(R[P], key)
       /\ \A p \in DOMAIN pages : Owned(Q, c)[p] = R[p]
       /\ ClimbIn(qs, c, Q)
  <2>1. HasKey(qs, key)
    <3>1. at + 1 \in 1 .. m + 1
      BY <1>5
    <3> QED BY <1>23, <1>24, <3>1 DEF key, SameKeys
  <2>2. \E x \in R[P] : x < key
    BY <1>16 DEF Lower
  <2>3. CutCase(pages, R, qs, c)
    BY <1>14, <1>16, <1>18, <1>19, <1>25, <1>28, <1>29, <2>1, <2>2 DEF CutCase
  <2>4. Q = Cut(R, c.left, c.right, c.key)
    BY <1>19 DEF Q
  <2>5. CutDone(pages, R, qs, c, Q)
    BY <2>3, <2>4, CutIs
  <2> QED BY <1>19, <2>5 DEF CutDone
<1>31. Owned(Q, c)[root_] = Keys
  BY <1>12, <1>18, <1>30
<1>32. ASSUME NEW p \in DOMAIN qs PROVE LeafIn(qs[p], Q[p])
  <2>1. CASE p = P
    BY <1>3, <1>7, <1>20, <2>1 DEF LeafIn
  <2>2. CASE p = r
    BY <1>8, <1>20, <2>2 DEF LeafIn
  <2>3. CASE p \in DOMAIN pages /\ p # P
    <3>1. LeafIn(pages[p], R[p])
      BY <2>3 DEF InOrder
    <3> QED BY <1>20, <1>30, <2>3, <3>1
  <2> QED BY <1>20, <2>1, <2>2, <2>3
<1> DEFINE W == Owned(Q, c)
<1>33. W = Owned(Q, c) /\ \A p \in DOMAIN pages : W[p] = R[p]
  BY <1>30
<1> HIDE DEF W
<1>34. ASSUME NEW p \in DOMAIN qs PROVE InnerIn(qs[p], Q[p], W)
  <2>1. CASE p = P
    <3>1. \A i \in 0 .. at : FirstKids(G, at)[i] \in DOMAIN pages
      BY <1>7, <1>9, <1>17, <1>27
    <3>2. Divided(FirstOf(F, at), at, FirstKids(G, at), Lower(R[P], key), W)
      BY <1>16, <1>33, <3>1 DEF Divided
    <3>3. at >= 1
      BY <1>5, <1>6
    <3> QED BY <1>9, <1>20, <1>30, <2>1, <3>2, <3>3 DEF InnerIn
  <2>2. CASE p = r
    <3> DEFINE d == (m + 1) - at - 1
    <3>1. d \in Nat /\ d >= 1
      BY <1>2, <1>5 DEF m, at, pi
    <3>2. SepCount(rgt) = d /\ Divided(RestOf(F, m + 1, at), d, RestKids(G, m + 1, at),
                                       Upper(R[P], key), R)
      BY <1>10, <1>16
    <3> HIDE DEF d
    <3>3. \A i \in 0 .. d : RestKids(G, m + 1, at)[i] \in DOMAIN pages
      BY <1>8, <1>10, <1>17, <1>27, <3>2
    <3>4. Divided(RestOf(F, m + 1, at), d, RestKids(G, m + 1, at), Upper(R[P], key), W)
      BY <1>33, <3>2, <3>3 DEF Divided
    <3> QED BY <1>10, <1>20, <1>30, <2>2, <3>1, <3>2, <3>4 DEF InnerIn
  <2>3. CASE p \in DOMAIN pages /\ p # P
    <3> SUFFICES ASSUME Inner(pages[p]) PROVE InnerIn(qs[p], Q[p], W)
      BY <1>20, <2>3 DEF InnerIn
    <3>1. InnerIn(pages[p], R[p], T)
      BY <2>3 DEF InOrder, T
    <3>2. \A i \in 0 .. SepCount(pages[p]) : W[Kids(pages[p])[i]] = T[Kids(pages[p])[i]]
      BY <1>12, <1>26, <1>33, <2>3
    <3>3. InnerIn(pages[p], R[p], W)
      BY <3>1, <3>2 DEF InnerIn, Divided
    <3> QED BY <1>20, <1>30, <2>3, <3>3
  <2> QED BY <1>20, <2>1, <2>2, <2>3
<1>35. RootAbove(qs)
  <2>1. pages[root_].level # INVALID_TREE_LEVEL /\ pg.level <= pages[root_].level
    <3>1. CASE P = root_
      <4>1. pg.level \in Nat
        BY <1>3, PageFields DEF PageOK
      <4> QED BY <1>3, <1>21, <3>1, <4>1
    <3>2. CASE P # root_
      BY <1>3, <1>21, <3>2 DEF InOrder, RootAbove
    <3> QED BY <3>1, <3>2
  <2>2. ASSUME NEW p \in DOMAIN qs \ {root_} PROVE qs[p].level <= qs[root_].level
    <3>1. CASE p \in DOMAIN pages
      BY <1>18, <1>22, <2>2, <3>1 DEF InOrder, RootAbove
    <3>2. CASE p = r
      BY <1>8, <1>18, <1>20, <1>22, <2>1, <3>2
    <3> QED BY <1>20, <2>2, <3>1, <3>2
  <2> QED BY <1>18, <1>22, <2>1, <2>2 DEF RootAbove
<1>36. SepsPresent(qs)
  <2> SUFFICES ASSUME NEW p \in DOMAIN qs, NEW i \in 1 .. SepCount(qs[p])
               PROVE  HasKey(pages, qs[p].seps[i].key)
    BY <1>23 DEF SepsPresent, SameKeys
  <2>1. CASE p = P
    <3>1. lft.seps[i].key = F[i] /\ i \in 1 .. m + 1
      <4>1. i \in 1 .. at /\ i \in 1 .. m + 1
        BY <1>5, <1>9, <1>20, <2>1
      <4>2. SepKeys(lft)[i] = lft.seps[i].key
        BY <1>7, <1>9, <4>1, SepKeysIs
      <4> QED BY <1>9, <4>1, <4>2 DEF FirstOf
    <3> QED BY <1>20, <1>24, <2>1, <3>1
  <2>2. CASE p = r
    <3>1. rgt.seps[i].key = F[at + 1 + i] /\ at + 1 + i \in 1 .. m + 1
      <4>1. i \in 1 .. (m + 1) - at - 1 /\ at + 1 + i \in 1 .. m + 1
        BY <1>5, <1>10, <1>20, <2>2
      <4>2. SepKeys(rgt)[i] = rgt.seps[i].key
        BY <1>8, <1>10, <4>1, SepKeysIs
      <4>3. RestOf(F, m + 1, at)[i] = F[at + 1 + i]
        BY <4>1 DEF RestOf
      <4> QED BY <1>10, <4>1, <4>2, <4>3
    <3> QED BY <1>20, <1>24, <2>2, <3>1
  <2>3. CASE p \in DOMAIN pages /\ p # P
    BY <1>20, <2>3 DEF InOrder, SepsPresent
  <2> QED BY <1>20, <2>1, <2>2, <2>3
<1>37. InOrder(qs, c, Q)
  BY <1>30, <1>31, <1>32, <1>33, <1>34, <1>35, <1>36 DEF InOrder
<1> QED BY <1>19, <1>23, <1>37 DEF qs, c, Q, CutHere

-----------------------------------------------------------------------------
\* The ranges when the root has moved to the page r and all keys are under a new one.
Raised(R, r) ==
  [p \in DOMAIN R \cup {r} |-> IF p = root_ THEN Keys ELSE IF p = r THEN R[root_] ELSE R[p]]

\* promoteRoot: the new root divides all keys between the copy of the old one and the
\* page beside it.
LEMMA PromoteRootOrder ==
  ASSUME TreeInv, PromoteRoot, TreeInv', NEW R, InOrder(pages, call, R)
  PROVE  InOrder(pages', call', Raised(R, NextPageNum)) /\ SameKeys(pages, pages')
<1> DEFINE pg  == pages[root_]
           r   == NextPageNum
           x   == call.right
           key == call.key
           new == PromotedRoot(r)
           cp  == RootCopy
           T   == Owned(R, call)
           qs  == pages'
           Q   == Raised(R, r)
<1>1. /\ Climbing /\ call.parents = <<>> /\ r <= MaxPage /\ call' = NoCall
      /\ qs = [p \in 0 .. r |->
                 IF p = root_ THEN new
                 ELSE IF p = r THEN cp
                 ELSE IF p = x /\ pages[p].level = 0 THEN Relinked(p, r)
                 ELSE pages[p]]
  BY DEF PromoteRoot
<1>2. Nodes(pages) /\ call.active /\ RangesOf(pages, R) /\ T[root_] = Keys /\ RootAbove(pages)
      /\ Nodes(qs)
  BY <1>1 DEF TreeInv, Climbing, InOrder
<1>3. /\ r \in PageNum /\ r \notin DOMAIN pages /\ 0 .. r = DOMAIN pages \cup {r}
      /\ DOMAIN pages \subseteq PageNum /\ root_ \in DOMAIN pages /\ r # root_
  BY <1>1, <1>2, NextPageIs
<1>4. /\ call.left = root_ /\ key \in Keys /\ x \in DOMAIN pages \ {root_}
      /\ pages[x].level = pg.level /\ pg.level # INVALID_TREE_LEVEL
      /\ Len(Cells(LiveKeys(pg))) <= Len(pg.area)
  <2>1. call.left = root_ /\ CallOK(pages, call) /\ call.active
    BY <1>1 DEF TreeInv, CallOK, Climbing, IsWayTo
  <2> QED BY <2>1 DEF CallOK
<1>5. NodeOK(pages, root_) /\ PageOK(pg) /\ pg \in Page
  BY <1>2, <1>3 DEF Nodes, NodeOK, PageOK
<1>6. pg.level \in Nat /\ pg.room <= Usable /\ r \in PageLink /\ x \in PageLink
  <2>1. pg.room \in {ZeroUsable, Usable}
    BY <1>5 DEF Page
  <2>2. pg.room <= Usable
    BY <2>1, SlotsAssumption
  <2> QED BY <1>3, <1>4, <1>5, <2>2, PageFields DEF PageLink
<1>7. /\ cp.level = pg.level /\ cp.seps = pg.seps /\ cp.next = pg.next
      /\ cp.slotCount = pg.slotCount /\ LiveKeys(cp) = LiveKeys(pg)
  BY <1>4, <1>5, <1>6, RootCopyIs
<1>8. /\ PageOK(new) /\ new.level = pg.level + 1 /\ new.slotCount = 0 /\ new.seps # <<>>
      /\ SepCount(new) = 1 /\ new.seps[1].key = key
      /\ ChildOf(new, 0) = r /\ ChildOf(new, 1) = x
  BY <1>4, <1>6, PromotedRootIs
<1>9. \A p \in DOMAIN pages : pages[p].level \in Nat
  BY <1>2, PageFields DEF Nodes, NodeOK, PageOK
<1> HIDE DEF new, cp, r, qs, Q
<1>10. /\ DOMAIN qs = DOMAIN pages \cup {r} /\ qs[root_] = new /\ qs[r] = cp
       /\ \A p \in DOMAIN pages : p # root_ => qs[p] \in {pages[p], Relinked(p, r)}
  BY <1>1, <1>3
<1> HIDE DEF pg, key, x
<1>11. ASSUME NEW p \in DOMAIN pages, p # root_
       PROVE  /\ qs[p].level = pages[p].level /\ qs[p].seps = pages[p].seps
              /\ qs[p].next = pages[p].next /\ qs[p].slotCount = pages[p].slotCount
              /\ LiveKeys(qs[p]) = LiveKeys(pages[p])
  <2>1. PageOK(pages[p])
    BY <1>2 DEF Nodes, NodeOK
  <2>2. /\ Relinked(p, r).level = pages[p].level /\ Relinked(p, r).seps = pages[p].seps
        /\ Relinked(p, r).next = pages[p].next /\ Relinked(p, r).slotCount = pages[p].slotCount
        /\ LiveKeys(Relinked(p, r)) = LiveKeys(pages[p])
    BY <1>6, <2>1, RelinkedIs DEF Relinked
  <2> QED BY <1>10, <1>11, <2>2
<1>12. ASSUME NEW p \in DOMAIN pages, p # root_
       PROVE  /\ SepCount(qs[p]) = SepCount(pages[p]) /\ SepKeys(qs[p]) = SepKeys(pages[p])
              /\ Kids(qs[p]) = Kids(pages[p])
  BY <1>11, <1>12, SepsSame
<1>13. SepCount(cp) = SepCount(pg) /\ SepKeys(cp) = SepKeys(pg) /\ Kids(cp) = Kids(pg)
  BY <1>7, SepsSame
<1>14. R \in [DOMAIN pages -> SUBSET Keys]
  BY <1>2 DEF RangesOf
<1>15. /\ Q \in [DOMAIN qs -> SUBSET Keys] /\ Q[root_] = Keys /\ Q[r] = R[root_]
       /\ \A p \in DOMAIN pages : p # root_ => Q[p] = R[p]
  BY <1>3, <1>10, <1>14 DEF Q, Raised
<1>16. /\ R[root_] # {} /\ key \in R[x] /\ HasKey(pages, key)
       /\ \A k \in R[root_] : k < key
       /\ \A k \in R[x] : key <= k
  BY <1>2, <1>4 DEF InOrder, ClimbIn, key, x
<1>17. T[root_] = R[root_] \cup R[x] /\ \A p \in DOMAIN pages : p # root_ => T[p] = R[p]
  BY <1>2, <1>3, <1>4, <1>14, OwnedIs DEF x
<1>18. RangesOf(qs, Q)
  <2>1. ASSUME NEW p \in DOMAIN qs \ {root_} PROVE Q[p] # {} /\ qs[p].level # qs[root_].level
    <3>1. CASE p = r
      BY <1>6, <1>7, <1>8, <1>10, <1>15, <1>16, <3>1
    <3>2. CASE p \in DOMAIN pages
      <4>1. R[p] # {} /\ pages[p].level <= pg.level
        BY <1>2, <2>1, <3>2 DEF RangesOf, RootAbove, pg
      <4> QED BY <1>6, <1>8, <1>9, <1>10, <1>11, <1>15, <2>1, <3>2, <4>1
    <3> QED BY <1>10, <2>1, <3>1, <3>2
  <2>2. ASSUME NEW p \in DOMAIN qs \ {root_}, NEW q \in DOMAIN qs \ {root_}, p # q,
               qs[p].level = qs[q].level
        PROVE  Q[p] \cap Q[q] = {}
    <3> DEFINE old(y) == IF y = r THEN root_ ELSE y
    <3>1. \A y \in DOMAIN qs \ {root_} : /\ old(y) \in DOMAIN pages /\ Q[y] = R[old(y)]
                                         /\ qs[y].level = pages[old(y)].level
      BY <1>3, <1>7, <1>10, <1>11, <1>15 DEF pg
    <3>2. old(p) # old(q)
      BY <2>2
    <3> HIDE DEF old
    <3> QED BY <1>2, <2>2, <3>1, <3>2 DEF RangesOf
  <2> QED BY <1>15, <2>1, <2>2 DEF RangesOf
<1>19. Owned(Q, NoCall) = Q
  BY DEF Owned, NoCall
<1>20. ASSUME NEW p \in DOMAIN qs PROVE LeafIn(qs[p], Q[p])
  <2>1. CASE p = root_
    BY <1>8, <1>10, <2>1 DEF LeafIn
  <2>2. CASE p = r
    <3>1. LeafIn(pg, R[root_])
      BY <1>3 DEF InOrder, pg
    <3> QED BY <1>7, <1>10, <1>15, <2>2, <3>1 DEF LeafIn
  <2>3. CASE p \in DOMAIN pages /\ p # root_
    <3>1. LeafIn(pages[p], R[p])
      BY <2>3 DEF InOrder
    <3> QED BY <1>11, <1>15, <2>3, <3>1 DEF LeafIn
  <2> QED BY <1>10, <2>1, <2>2, <2>3
<1>21. SepKeys(new)[1] = key
  BY <1>8, SepKeysIs
\* What an inner page divides among its children, which are not the root.
<1>22. ASSUME NEW p \in DOMAIN pages, Inner(pages[p])
       PROVE  /\ SepCount(pages[p]) >= 1
              /\ Divided(SepKeys(pages[p]), SepCount(pages[p]), Kids(pages[p]), R[p], Q)
  <2>1. /\ SepCount(pages[p]) >= 1
        /\ Divided(SepKeys(pages[p]), SepCount(pages[p]), Kids(pages[p]), R[p], T)
    BY <1>22 DEF InOrder, InnerIn
  <2>2. \A i \in 0 .. SepCount(pages[p]) : Kids(pages[p])[i] \in DOMAIN pages \ {root_}
    BY <1>2, <1>22, InnerIs DEF Below
  <2>3. \A i \in 0 .. SepCount(pages[p]) : T[Kids(pages[p])[i]] = Q[Kids(pages[p])[i]]
    BY <1>15, <1>17, <2>2
  <2> HIDE DEF T
  <2> QED BY <2>1, <2>3 DEF Divided
<1>23. ASSUME NEW p \in DOMAIN qs, Inner(qs[p])
       PROVE  /\ SepCount(qs[p]) >= 1
              /\ Divided(SepKeys(qs[p]), SepCount(qs[p]), Kids(qs[p]), Q[p], Q)
  <2>1. CASE p = root_
    <3> DEFINE F == SepKeys(new)
               G == Kids(new)
    <3>1. F[1] = key /\ G[0] = r /\ G[1] = x
      BY <1>8, <1>21 DEF Kids
    <3> HIDE DEF F, G
    <3>2. Keys \subseteq Int
      BY SlotsAssumption
    <3>3. Keys = R[root_] \cup R[x]
      BY <1>2, <1>17
    <3>4. Q[G[0]] = Between(F, 1, 0, Keys)
      <4>1. Between(F, 1, 0, Keys) = {k \in Keys : k < key}
        BY <3>1 DEF Between
      <4>2. R[root_] = {k \in Keys : k < key}
        BY <1>4, <1>16, <3>2, <3>3 DEF key
      <4> QED BY <1>15, <3>1, <4>1, <4>2
    <3>5. Q[G[1]] = Between(F, 1, 1, Keys)
      <4>1. Between(F, 1, 1, Keys) = {k \in Keys : key <= k}
        BY <3>1 DEF Between
      <4>2. R[x] = {k \in Keys : key <= k}
        BY <1>4, <1>16, <3>2, <3>3 DEF key
      <4> QED BY <1>4, <1>15, <3>1, <4>1, <4>2 DEF x
    <3>6. Divided(F, 1, G, Keys, Q)
      <4>1. F[1] \in Keys
        BY <1>4, <3>1 DEF key
      <4>2. \A i \in 0 .. 1 : Q[G[i]] = Between(F, 1, i, Keys)
        BY <3>4, <3>5
      <4> QED BY <4>1, <4>2 DEF Divided
    <3> QED BY <1>8, <1>10, <1>15, <2>1, <3>6 DEF F, G
  <2>2. CASE p = r
    <3>1. Inner(pages[root_])
      BY <1>7, <1>10, <1>23, <2>2 DEF Inner, pg
    <3> QED BY <1>3, <1>10, <1>13, <1>15, <1>22, <2>2, <3>1 DEF pg
  <2>3. CASE p \in DOMAIN pages /\ p # root_
    <3>1. Inner(pages[p])
      BY <1>11, <1>23, <2>3 DEF Inner
    <3>2. /\ SepCount(pages[p]) >= 1
          /\ Divided(SepKeys(pages[p]), SepCount(pages[p]), Kids(pages[p]), R[p], Q)
      BY <1>22, <2>3, <3>1
    <3>3. Q[p] = R[p]
      BY <1>15, <2>3
    <3>4. /\ SepCount(qs[p]) = SepCount(pages[p]) /\ SepKeys(qs[p]) = SepKeys(pages[p])
          /\ Kids(qs[p]) = Kids(pages[p])
      BY <1>12, <2>3
    <3> QED BY <3>2, <3>3, <3>4
  <2> QED BY <1>10, <2>1, <2>2, <2>3
<1>24. RootAbove(qs)
  <2>1. new.level # INVALID_TREE_LEVEL
    <3>1. NodeOK(qs, root_)
      BY <1>2, <1>3, <1>10 DEF Nodes
    <3> QED BY <1>8, <1>10, <3>1 DEF NodeOK
  <2>2. ASSUME NEW p \in DOMAIN qs \ {root_} PROVE qs[p].level <= new.level
    <3>1. CASE p = r
      BY <1>6, <1>7, <1>8, <1>10, <3>1
    <3>2. CASE p \in DOMAIN pages
      <4>1. pages[p].level <= pg.level
        BY <1>2, <2>2, <3>2 DEF RootAbove, pg
      <4> QED BY <1>6, <1>8, <1>9, <1>11, <2>2, <3>2, <4>1
    <3> QED BY <1>10, <2>2, <3>1, <3>2
  <2> QED BY <1>10, <2>1, <2>2 DEF RootAbove
<1>25. ASSUME NEW y, HasKey(pages, y) PROVE HasKey(qs, y)
  <2>1. PICK p \in DOMAIN pages : \E i \in 1 .. pages[p].slotCount : LiveKeys(pages[p])[i] = y
    BY <1>25 DEF HasKey
  <2>2. CASE p = root_
    <3>1. \E i \in 1 .. qs[r].slotCount : LiveKeys(qs[r])[i] = y
      BY <1>7, <1>10, <2>1, <2>2 DEF pg
    <3> QED BY <1>10, <3>1 DEF HasKey
  <2>3. CASE p # root_
    BY <1>10, <1>11, <2>1, <2>3 DEF HasKey
  <2> QED BY <2>2, <2>3
<1>26. SepsPresent(qs)
  <2> SUFFICES ASSUME NEW p \in DOMAIN qs, NEW i \in 1 .. SepCount(qs[p])
               PROVE  HasKey(pages, qs[p].seps[i].key)
    BY <1>25 DEF SepsPresent
  <2>1. CASE p = root_
    <3>1. i = 1
      BY <1>8, <1>10, <2>1
    <3> QED BY <1>8, <1>10, <1>16, <2>1, <3>1
  <2>2. CASE p = r
    BY <1>3, <1>7, <1>10, <1>13, <2>2 DEF InOrder, SepsPresent, pg
  <2>3. CASE p \in DOMAIN pages /\ p # root_
    BY <1>11, <1>12, <2>3 DEF InOrder, SepsPresent
  <2> QED BY <1>10, <2>1, <2>2, <2>3
<1>27. ClimbIn(qs, NoCall, Q)
  BY DEF ClimbIn, NoCall
<1>28. \A p \in DOMAIN qs : InnerIn(qs[p], Q[p], Q)
  BY <1>23 DEF InnerIn
<1>29. InOrder(qs, NoCall, Q)
  BY <1>15, <1>18, <1>19, <1>20, <1>24, <1>26, <1>27, <1>28 DEF InOrder
<1>30. ASSUME NEW y, HasKey(qs, y) PROVE HasKey(pages, y)
  <2>1. PICK p \in DOMAIN qs : \E i \in 1 .. qs[p].slotCount : LiveKeys(qs[p])[i] = y
    BY <1>30 DEF HasKey
  <2>2. CASE p = root_
    BY <1>8, <1>10, <2>1, <2>2
  <2>3. CASE p = r
    BY <1>3, <1>7, <1>10, <2>1, <2>3 DEF HasKey, pg
  <2>4. CASE p \in DOMAIN pages /\ p # root_
    BY <1>11, <2>1, <2>4 DEF HasKey
  <2> QED BY <1>10, <2>2, <2>3, <2>4
<1> QED BY <1>1, <1>25, <1>29, <1>30 DEF qs, Q, r, SameKeys

-----------------------------------------------------------------------------
\* The invariant: the separators of the pages divide some ranges.
OrderInv == TreeInv /\ \E R : InOrder(pages, call, R)

\* Every step keeps it.
LEMMA StepOrder ==
  ASSUME Orderly, OrderInv, [TreeNext]_treeVars, TreeInv'
  PROVE  OrderInv'
<1> USE DEF OrderInv
<1>1. PICK R : InOrder(pages, call, R)
  OBVIOUS
<1>2. SUFFICES \E Q : InOrder(pages', call', Q)
  OBVIOUS
<1>3. ASSUME pages' = pages, call' = call PROVE \E Q : InOrder(pages', call', Q)
  BY <1>1, <1>3
<1>4. CASE UNCHANGED treeVars
  BY <1>3, <1>4 DEF treeVars
<1>5. ASSUME NEW k \in Keys, Insertion(k) PROVE \E Q : InOrder(pages', call', Q)
  <2> DEFINE at == Search(k)
  <2>1. Ready /\ ~Present(k)
    BY <1>5 DEF Insertion, MayInsert
  <2>2. \/ InsertKey(k, at) \/ InsertThrows(k, at) \/ InsertAborts(k, at)
        \/ SplitLeaf(k, at) \/ SplitLeafDies(k, at) \/ SplitLeafFails(k, at)
    BY <1>5 DEF Insertion
  <2>3. CASE InsertKey(k, at)
    BY <1>1, <2>1, <2>3, InsertKeyOrder
  <2>4. CASE InsertThrows(k, at)
    BY <1>3, <2>4 DEF InsertThrows
  <2>5. CASE InsertAborts(k, at)
    BY <1>3, <2>5 DEF InsertAborts
  <2>6. CASE SplitLeaf(k, at)
    BY <1>1, <2>1, <2>6, SplitLeafOrder
  <2>7. CASE SplitLeafDies(k, at)
    BY <1>3, <2>7 DEF SplitLeafDies
  <2>8. ~SplitLeafFails(k, at)
    BY DEF SplitLeafFails, Orderly
  <2> QED BY <2>2, <2>3, <2>4, <2>5, <2>6, <2>7, <2>8
<1>6. ASSUME NEW k \in Keys, Removal(k) PROVE \E Q : InOrder(pages', call', Q)
  <2> DEFINE at == Search(k)
  <2>1. Ready /\ MayRemove(k)
    BY <1>6 DEF Removal, MayRemove
  <2>2. RemoveKey(k, at) \/ RemoveNothing(k, at) \/ RemoveThrows(k, at)
    BY <1>6 DEF Removal
  <2>3. CASE RemoveKey(k, at)
    BY <1>1, <2>1, <2>3, RemoveKeyOrder
  <2>4. CASE RemoveNothing(k, at)
    BY <1>1, <2>1, <2>4, RemoveNothingOrder
  <2>5. CASE RemoveThrows(k, at)
    BY <1>3, <2>5 DEF RemoveThrows
  <2> QED BY <2>2, <2>3, <2>4, <2>5
<1>7. CASE InsertStep
  <2>1. CASE InsertSeparator
    BY <1>1, <2>1, InsertSeparatorOrder
  <2>2. CASE SplitInner
    BY <1>1, <2>2, SplitInnerOrder
  <2>3. CASE SplitInnerAborts
    BY <1>3, <2>3 DEF SplitInnerAborts
  <2>4. CASE PromoteRoot
    BY <1>1, <2>4, PromoteRootOrder
  <2>5. ~ClimbFails
    BY DEF ClimbFails, Orderly
  <2> QED BY <1>7, <2>1, <2>2, <2>3, <2>4, <2>5 DEF InsertStep
<1>8. CASE SearchFails
  BY <1>8 DEF SearchFails, Orderly
<1> QED BY <1>4, <1>5, <1>6, <1>7, <1>8 DEF TreeNext

-----------------------------------------------------------------------------
\* What FlattenSeq reads.
FlatFrom(s) ==
  CHOOSE f : f = [i \in 1 .. Len(s) |-> IF i = 1 THEN s[i] ELSE f[i - 1] \o s[i]]

\* The recursive function of FlattenSeq exists.
LEMMA FlattenBy ==
  ASSUME NEW s, NEW n \in Nat \ {0}, Len(s) = n
  PROVE  /\ FlatFrom(s) = [i \in 1 .. n |-> IF i = 1 THEN s[i] ELSE FlatFrom(s)[i - 1] \o s[i]]
         /\ FlattenSeq(s) = FlatFrom(s)[n]
<1> DEFINE Is(f, m) == f = [i \in 1 .. m |-> IF i = 1 THEN s[i] ELSE f[i - 1] \o s[i]]
           E == {m \in Nat : \E f : Is(f, m)}
<1>1. 0 \in E
  <2> DEFINE f == [i \in 1 .. 0 |-> s[i]]
  <2>1. Is(f, 0)
    OBVIOUS
  <2> QED BY <2>1
<1>2. ASSUME NEW m \in E PROVE m + 1 \in E
  <2>1. PICK f : Is(f, m)
    OBVIOUS
  <2> DEFINE g == [i \in 1 .. m + 1 |-> IF i = 1 THEN s[i] ELSE f[i - 1] \o s[i]]
  <2>2. ASSUME NEW i \in 1 .. m + 1, i # 1 PROVE g[i - 1] = f[i - 1]
    <3> DEFINE j == i - 1
    <3>1. j \in 1 .. m /\ j \in 1 .. m + 1
      BY <2>2
    <3> HIDE DEF j
    <3>2. g[j] = f[j]
      BY <2>1, <3>1
    <3> QED BY <3>2 DEF j
  <2>3. Is(g, m + 1)
    <3>1. g = [i \in 1 .. m + 1 |-> IF i = 1 THEN s[i] ELSE f[i - 1] \o s[i]]
      OBVIOUS
    <3> HIDE DEF g
    <3> QED BY <2>2, <3>1
  <2> HIDE DEF Is
  <2> QED BY <2>3
<1> HIDE DEF E
<1>3. E = Nat
  <2>1. E \in SUBSET Nat
    BY DEF E
  <2> QED BY <1>1, <1>2, <2>1, NatInductive
<1>4. PICK h : Is(h, n)
  BY <1>3 DEF E
<1> DEFINE f == FlatFrom(s)
<1>5. f = [i \in 1 .. n |-> IF i = 1 THEN s[i] ELSE f[i - 1] \o s[i]]
  <2>1. h = [i \in 1 .. Len(s) |-> IF i = 1 THEN s[i] ELSE h[i - 1] \o s[i]]
    BY <1>4
  <2>2. f = [i \in 1 .. Len(s) |-> IF i = 1 THEN s[i] ELSE f[i - 1] \o s[i]]
    BY <2>1, Zenon DEF FlatFrom
  <2> QED BY <2>2
<1>6. FlattenSeq(s) = f[n]
  <2>1. FlattenSeq(s) = IF Len(s) = 0 THEN s ELSE f[Len(s)]
    BY Zenon DEF FlattenSeq, FlatFrom
  <2> QED BY <2>1
<1> QED BY <1>5, <1>6

\* A sequence of sequences over X makes one.
LEMMA FlattenIs ==
  ASSUME NEW X, NEW s, NEW n \in Nat \ {0}, Len(s) = n, \A i \in 1 .. n : s[i] \in Seq(X)
  PROVE  FlattenSeq(s) \in Seq(X)
<1> DEFINE f == FlatFrom(s)
<1>1. f = [i \in 1 .. n |-> IF i = 1 THEN s[i] ELSE f[i - 1] \o s[i]]
  BY FlattenBy
<1>2. FlattenSeq(s) = f[n]
  BY FlattenBy
<1> HIDE DEF f
<1> DEFINE S == {m \in Nat : m \in 1 .. n => f[m] \in Seq(X)}
<1>3. 0 \in S
  OBVIOUS
<1>4. ASSUME NEW m \in S PROVE m + 1 \in S
  <2> SUFFICES ASSUME m + 1 \in 1 .. n PROVE f[m + 1] \in Seq(X)
    OBVIOUS
  <2> DEFINE j == m + 1
  <2>1. j \in 1 .. n /\ j - 1 = m /\ s[j] \in Seq(X)
    OBVIOUS
  <2> HIDE DEF j
  <2>2. f[j] = IF j = 1 THEN s[j] ELSE f[j - 1] \o s[j]
    BY <1>1, <2>1
  <2>3. j # 1 => f[m] \in Seq(X)
    <3>1. j # 1 => m \in 1 .. n
      BY <2>1 DEF j
    <3> QED BY <3>1
  <2>4. j # 1 => f[m] \o s[j] \in Seq(X)
    BY <2>1, <2>3
  <2> QED BY <2>1, <2>2, <2>4 DEF j
<1> HIDE DEF S
<1>5. S = Nat
  <2>1. S \in SUBSET Nat
    BY DEF S
  <2> QED BY <1>3, <1>4, <2>1, NatInductive
<1>6. f[n] \in Seq(X)
  BY <1>5 DEF S
<1> QED BY <1>2, <1>6

-----------------------------------------------------------------------------
\* The leaves under page p, if f says which are under its children.
LeavesBy(f, p) ==
  IF SepCount(pages[p]) = 0 THEN <<p>>
  ELSE FlattenSeq([i \in 1 .. SepCount(pages[p]) + 1 |-> f[ChildOf(pages[p], i - 1)]])

\* What LeavesUnder reads.
UnderFrom ==
  CHOOSE f : f = [q \in DOMAIN pages |->
                    IF SepCount(pages[q]) = 0 THEN <<q>>
                    ELSE FlattenSeq([i \in 1 .. SepCount(pages[q]) + 1 |->
                                       f[ChildOf(pages[q], i - 1)]])]

\* A page with separators is an inner page, and its children are below it.
LEMMA ParentsAreInner ==
  ASSUME Nodes(pages), NEW p \in DOMAIN pages, SepCount(pages[p]) # 0
  PROVE  /\ Inner(pages[p]) /\ SepCount(pages[p]) \in Nat
         /\ \A i \in 0 .. SepCount(pages[p]) : Below(pages, p, ChildOf(pages[p], i))
<1>1. NodeOK(pages, p)
  BY DEF Nodes
<1>2. pages[p].seps # <<>>
  BY DEF SepCount
<1>3. Inner(pages[p])
  BY <1>1, <1>2 DEF NodeOK, Inner
<1> QED BY <1>3, InnerIs

\* Only what f says of the children matters.
LEMMA LeavesBySame ==
  ASSUME Nodes(pages), NEW p \in DOMAIN pages, NEW f, NEW g,
         SepCount(pages[p]) # 0 =>
           \A i \in 0 .. SepCount(pages[p]) : f[ChildOf(pages[p], i)] = g[ChildOf(pages[p], i)]
  PROVE  LeavesBy(f, p) = LeavesBy(g, p)
<1>1. CASE SepCount(pages[p]) = 0
  BY <1>1 DEF LeavesBy
<1>2. CASE SepCount(pages[p]) # 0
  <2> DEFINE m == SepCount(pages[p])
             F(h) == [i \in 1 .. m + 1 |-> h[ChildOf(pages[p], i - 1)]]
  <2>1. m \in Nat
    BY <1>2, ParentsAreInner
  <2>2. ASSUME NEW i \in 1 .. m + 1 PROVE f[ChildOf(pages[p], i - 1)] = g[ChildOf(pages[p], i - 1)]
    <3> DEFINE j == i - 1
    <3>1. j \in 0 .. m
      BY <2>1
    <3> HIDE DEF j
    <3>2. f[ChildOf(pages[p], j)] = g[ChildOf(pages[p], j)]
      BY <1>2, <3>1
    <3> QED BY <3>2 DEF j
  <2>3. F(f) = F(g)
    BY <2>2
  <2>4. LeavesBy(f, p) = FlattenSeq(F(f)) /\ LeavesBy(g, p) = FlattenSeq(F(g))
    BY <1>2, Zenon DEF LeavesBy
  <2> QED BY <2>3, <2>4
<1> QED BY <1>1, <1>2

\* The recursive function of LeavesUnder exists: levels decrease on the way down.
LEMMA UnderExists ==
  ASSUME Nodes(pages)
  PROVE  UnderFrom = [p \in DOMAIN pages |-> LeavesBy(UnderFrom, p)]
<1> DEFINE D == DOMAIN pages
           level(q) == pages[q].level
           E(m) == {p \in D : SepCount(pages[p]) = 0 \/ level(p) <= m}
           Is(f, m) == f = [p \in E(m) |-> LeavesBy(f, p)]
           S == {m \in Nat : \E f : Is(f, m)}
<1>1. PICK n \in PageNum : D = 0 .. n
  BY DEF Nodes
<1>2. n \in Nat /\ D \subseteq Nat
  BY <1>1, DomainIs
<1>3. \A p \in D : level(p) \in Nat /\ level(p) <= n + 255
  <2> SUFFICES ASSUME NEW p \in D PROVE level(p) \in Nat /\ level(p) <= n + 255
    OBVIOUS
  <2>1. level(p) \in D \cup {INVALID_TREE_LEVEL}
    BY DEF Nodes, NodeOK
  <2> QED BY <1>1, <1>2, <2>1 DEF INVALID_TREE_LEVEL
<1>4. ASSUME NEW p \in D, SepCount(pages[p]) # 0
      PROVE  level(p) # 0 /\ \A i \in 0 .. SepCount(pages[p]) :
               /\ ChildOf(pages[p], i) \in D
               /\ level(p) = level(ChildOf(pages[p], i)) + 1
  BY <1>4, ParentsAreInner DEF Inner, Below
<1>5. 0 \in S
  <2> DEFINE f == [p \in E(0) |-> <<p>>]
  <2>1. \A p \in E(0) : SepCount(pages[p]) = 0
    BY <1>3, <1>4
  <2>2. \A p \in E(0) : LeavesBy(f, p) = <<p>>
    BY <2>1 DEF LeavesBy
  <2> HIDE DEF E
  <2>3. Is(f, 0)
    BY <2>2
  <2> HIDE DEF Is, f
  <2> QED BY <2>3
<1>6. ASSUME NEW m \in S PROVE m + 1 \in S
  <2>1. PICK f : Is(f, m)
    OBVIOUS
  <2> DEFINE g == [p \in E(m + 1) |-> LeavesBy(f, p)]
  <2>2. \A p \in E(m) : p \in E(m + 1)
    BY <1>3
  <2>3. ASSUME NEW p \in E(m + 1), SepCount(pages[p]) # 0
        PROVE  \A i \in 0 .. SepCount(pages[p]) : ChildOf(pages[p], i) \in E(m)
    <3> SUFFICES ASSUME NEW i \in 0 .. SepCount(pages[p]) PROVE ChildOf(pages[p], i) \in E(m)
      OBVIOUS
    <3> DEFINE c == ChildOf(pages[p], i)
    <3>1. c \in D /\ level(p) = level(c) + 1 /\ level(p) <= m + 1
      BY <1>4, <2>3
    <3> HIDE DEF c
    <3>2. level(c) <= m
      <4>1. level(c) \in Nat /\ m \in Nat
        BY <1>3, <3>1
      <4> QED BY <3>1, <4>1
    <3>3. c \in E(m)
      BY <3>1, <3>2
    <3> QED BY <3>3 DEF c
  <2>4. ASSUME NEW p \in E(m + 1) PROVE LeavesBy(f, p) = LeavesBy(g, p)
    <3>1. p \in D
      OBVIOUS
    <3> HIDE DEF E
    <3>2. \A q \in E(m) : f[q] = g[q]
      BY <2>1, <2>2
    <3> HIDE DEF g
    <3>3. SepCount(pages[p]) # 0 =>
            \A i \in 0 .. SepCount(pages[p]) : f[ChildOf(pages[p], i)] = g[ChildOf(pages[p], i)]
      BY <2>3, <3>2
    <3> HIDE DEF D
    <3> QED BY <3>1, <3>3, LeavesBySame DEF D
  <2>5. Is(g, m + 1)
    <3>1. g = [p \in E(m + 1) |-> LeavesBy(f, p)]
      OBVIOUS
    <3> HIDE DEF g, E
    <3> QED BY <2>4, <3>1
  <2> HIDE DEF Is, g
  <2> QED BY <2>5
<1> HIDE DEF S
<1>7. S = Nat
  <2>1. S \in SUBSET Nat
    BY DEF S
  <2> QED BY <1>5, <1>6, <2>1, NatInductive
<1> DEFINE top == n + 255
<1>8. top \in S
  BY <1>2, <1>7
<1>9. E(top) = D
  BY <1>3
<1> HIDE DEF top
<1>10. PICK f : Is(f, top)
  BY <1>8 DEF S
<1> HIDE DEF E
<1>11. f = [q \in DOMAIN pages |->
              IF SepCount(pages[q]) = 0 THEN <<q>>
              ELSE FlattenSeq([i \in 1 .. SepCount(pages[q]) + 1 |->
                                 f[ChildOf(pages[q], i - 1)]])]
  <2>1. f = [q \in DOMAIN pages |-> LeavesBy(f, q)]
    BY <1>9, <1>10
  <2> QED BY <2>1, Zenon DEF LeavesBy
<1>12. UnderFrom = [q \in DOMAIN pages |->
                      IF SepCount(pages[q]) = 0 THEN <<q>>
                      ELSE FlattenSeq([i \in 1 .. SepCount(pages[q]) + 1 |->
                                         UnderFrom[ChildOf(pages[q], i - 1)]])]
  BY <1>11, Zenon DEF UnderFrom
<1> QED BY <1>12, Zenon DEF LeavesBy

\* The pages whose range is part of that of p.
Within(R, p) == {l \in DOMAIN pages : R[l] \subseteq R[p]}

\* The leaves under a page are pages whose range is part of its own.
LEMMA UnderIs ==
  ASSUME Nodes(pages), NEW R, Ordered(pages, R, R), NEW p \in DOMAIN pages
  PROVE  LeavesUnder(p) \in Seq(Within(R, p))
<1> DEFINE D == DOMAIN pages
           f == UnderFrom
           level(q) == pages[q].level
           S == {m \in Nat : \A q \in D : level(q) <= m => f[q] \in Seq(Within(R, q))}
<1>1. \A q \in D : f[q] = LeavesBy(f, q)
  BY UnderExists
<1> HIDE DEF f
<1>2. \A q \in D : level(q) \in Nat
  BY PageFields DEF Nodes, NodeOK, PageOK
<1>3. ASSUME NEW q \in D, SepCount(pages[q]) = 0 PROVE f[q] \in Seq(Within(R, q))
  <2>1. f[q] = <<q>>
    BY <1>1, <1>3 DEF LeavesBy
  <2> QED BY <2>1 DEF Within
\* The range of a child is part of that of its parent.
<1>4. ASSUME NEW q \in D, SepCount(pages[q]) # 0
      PROVE  /\ SepCount(pages[q]) \in Nat
             /\ \A i \in 0 .. SepCount(pages[q]) :
                  /\ ChildOf(pages[q], i) \in D
                  /\ level(q) = level(ChildOf(pages[q], i)) + 1
                  /\ Within(R, ChildOf(pages[q], i)) \subseteq Within(R, q)
  <2>1. /\ Inner(pages[q]) /\ SepCount(pages[q]) \in Nat
        /\ \A i \in 0 .. SepCount(pages[q]) : Below(pages, q, ChildOf(pages[q], i))
    BY <1>4, ParentsAreInner
  <2>2. ASSUME NEW i \in 0 .. SepCount(pages[q])
        PROVE  R[ChildOf(pages[q], i)] \subseteq R[q]
    <3>1. R[Kids(pages[q])[i]] = Between(SepKeys(pages[q]), SepCount(pages[q]), i, R[q])
      BY <2>1 DEF Ordered, InnerIn, Divided
    <3>2. Kids(pages[q])[i] = ChildOf(pages[q], i)
      BY DEF Kids
    <3> QED BY <3>1, <3>2 DEF Between
  <2> QED BY <2>1, <2>2 DEF Below, Within
<1>5. ASSUME NEW q \in D, SepCount(pages[q]) # 0,
             \A i \in 0 .. SepCount(pages[q]) :
               f[ChildOf(pages[q], i)] \in Seq(Within(R, ChildOf(pages[q], i)))
      PROVE  f[q] \in Seq(Within(R, q))
  <2> DEFINE m == SepCount(pages[q])
             s == [i \in 1 .. m + 1 |-> f[ChildOf(pages[q], i - 1)]]
             X == Within(R, q)
             n == m + 1
  <2>1. m \in Nat /\ n \in Nat \ {0} /\ Len(s) = n
    BY <1>4, <1>5
  <2>2. ASSUME NEW i \in 1 .. n PROVE s[i] \in Seq(X)
    <3> DEFINE j == i - 1
    <3>1. j \in 0 .. m /\ s[i] = f[ChildOf(pages[q], j)]
      BY <2>1
    <3> HIDE DEF j, s, X
    <3>2. f[ChildOf(pages[q], j)] \in Seq(Within(R, ChildOf(pages[q], j)))
      BY <1>5, <3>1
    <3>3. Within(R, ChildOf(pages[q], j)) \subseteq X
      BY <1>4, <1>5, <3>1 DEF X
    <3> QED BY <3>1, <3>2, <3>3
  <2>3. f[q] = FlattenSeq(s)
    BY <1>1, <1>5 DEF LeavesBy
  <2> HIDE DEF s, X, n
  <2>4. FlattenSeq(s) \in Seq(X)
    BY <2>1, <2>2, FlattenIs
  <2> QED BY <2>3, <2>4 DEF X
<1>6. 0 \in S
  <2>1. \A q \in D : level(q) <= 0 => SepCount(pages[q]) = 0
    <3> SUFFICES ASSUME NEW q \in D, level(q) <= 0, SepCount(pages[q]) # 0 PROVE FALSE
      OBVIOUS
    <3>1. Inner(pages[q])
      BY ParentsAreInner
    <3> QED BY <1>2, <3>1 DEF Inner
  <2> QED BY <1>3, <2>1
<1>7. ASSUME NEW m \in S PROVE m + 1 \in S
  <2> SUFFICES ASSUME NEW q \in D, level(q) <= m + 1 PROVE f[q] \in Seq(Within(R, q))
    OBVIOUS
  <2>1. CASE SepCount(pages[q]) = 0
    BY <1>3, <2>1
  <2>2. CASE SepCount(pages[q]) # 0
    <3>1. ASSUME NEW i \in 0 .. SepCount(pages[q])
          PROVE  f[ChildOf(pages[q], i)] \in Seq(Within(R, ChildOf(pages[q], i)))
      <4> DEFINE c == ChildOf(pages[q], i)
      <4>1. c \in D /\ level(q) = level(c) + 1
        BY <1>4, <2>2
      <4> HIDE DEF c
      <4>2. level(c) <= m
        <5>1. level(c) \in Nat /\ m \in Nat
          BY <1>2, <4>1
        <5> QED BY <4>1, <5>1
      <4>3. f[c] \in Seq(Within(R, c))
        BY <4>1, <4>2
      <4> QED BY <4>3 DEF c
    <3> QED BY <1>5, <2>2, <3>1
  <2> QED BY <2>1, <2>2
<1>8. S = Nat
  <2>1. S \in SUBSET Nat
    OBVIOUS
  <2> HIDE DEF S
  <2> QED BY <1>6, <1>7, <2>1, NatInductive
<1>9. level(p) \in S /\ level(p) <= level(p)
  BY <1>2, <1>8
<1>10. LeavesUnder(p) = f[p]
  BY Zenon DEF LeavesUnder, UnderFrom, f
<1> QED BY <1>9, <1>10

\* The keys under a page are in its range.
LEMMA KeysUnderIs ==
  ASSUME Nodes(pages), NEW R, Ordered(pages, R, R),
         \A q \in DOMAIN pages : LeafIn(pages[q], R[q]), NEW p \in DOMAIN pages
  PROVE  KeysUnder(p) \subseteq R[p]
<1> SUFFICES ASSUME NEW l \in ToSet(LeavesUnder(p)), NEW k \in ToSet(LiveKeys(pages[l]))
             PROVE  k \in R[p]
  BY DEF KeysUnder
<1>1. l \in DOMAIN pages /\ R[l] \subseteq R[p]
  <2>1. LeavesUnder(p) \in Seq(Within(R, p))
    BY UnderIs
  <2>2. l \in Within(R, p)
    BY <2>1 DEF ToSet
  <2> QED BY <2>2 DEF Within
<1>2. PageOK(pages[l])
  BY <1>1 DEF Nodes, NodeOK
<1>3. /\ LiveKeys(pages[l]) \in Seq(Keys) /\ Len(LiveKeys(pages[l])) = pages[l].slotCount
      /\ \A i \in 1 .. pages[l].slotCount : LiveKeys(pages[l])[i] \in R[l]
  BY <1>1, <1>2, LeafAscending
<1>4. k \in R[l]
  BY <1>3 DEF ToSet
<1> QED BY <1>1, <1>4

\* The invariant implies the property.
LEMMA InvImpliesSeparate == OrderInv => SeparatorsSeparate
<1> SUFFICES ASSUME OrderInv, ~call.active,
                    NEW p \in DOMAIN pages, NEW i \in 1 .. SepCount(pages[p])
             PROVE  LET sep == pages[p].seps[i].key
                        l == ChildOf(pages[p], i - 1)
                        r == ChildOf(pages[p], i)
                    IN  /\ \A k \in KeysUnder(l) : k < sep
                        /\ \A k \in KeysUnder(r) : k >= sep
                        /\ pages[l].level = pages[p].level - 1
                        /\ pages[r].level = pages[p].level - 1
  BY DEF SeparatorsSeparate
<1>1. PICK R : InOrder(pages, call, R)
  BY DEF OrderInv
<1>2. Nodes(pages) /\ Ordered(pages, R, R) /\ \A q \in DOMAIN pages : LeafIn(pages[q], R[q])
  BY <1>1, OrderedIs DEF OrderInv, TreeInv, InOrder
<1> DEFINE m == SepCount(pages[p])
           F == SepKeys(pages[p])
           G == Kids(pages[p])
           j == i - 1
<1>3. m # 0
  <2>1. m \in Nat
    BY <1>2, SepsAre DEF Nodes, NodeOK
  <2> QED BY <2>1
<1>4. /\ Inner(pages[p]) /\ m \in Nat
      /\ \A x \in 0 .. m : Below(pages, p, ChildOf(pages[p], x))
  BY <1>2, <1>3, ParentsAreInner
<1>5. F \in [1 .. m -> Keys] /\ F[i] = pages[p].seps[i].key
      /\ \A x \in 0 .. m : G[x] = ChildOf(pages[p], x)
  BY <1>2, <1>4, InnerIs
<1>6. \A x \in 0 .. m : R[G[x]] = Between(F, m, x, R[p])
  BY <1>2, <1>4 DEF Ordered, InnerIn, Divided
<1>7. Keys \subseteq Int /\ F[i] \in Int /\ R \in [DOMAIN pages -> SUBSET Keys]
  <2>1. Keys \subseteq Int
    BY SlotsAssumption
  <2> QED BY <1>2, <1>5, <2>1 DEF Ordered, RangesOf
<1>8. i \in 1 .. m /\ j \in 0 .. m /\ i \in 0 .. m /\ j < m /\ j + 1 = i /\ 0 < i
  BY <1>4
<1> HIDE DEF m, F, G, j
<1>9. ASSUME NEW x \in 0 .. m
      PROVE  /\ G[x] = ChildOf(pages[p], x) /\ G[x] \in DOMAIN pages
             /\ KeysUnder(G[x]) \subseteq R[G[x]]
             /\ pages[G[x]].level = pages[p].level - 1
  <2>1. G[x] = ChildOf(pages[p], x) /\ G[x] \in DOMAIN pages
        /\ pages[p].level = pages[G[x]].level + 1
    BY <1>4, <1>5 DEF Below
  <2>2. pages[G[x]].level \in Nat
    BY <1>2, <2>1, PageFields DEF Nodes, NodeOK, PageOK
  <2> QED BY <1>2, <2>1, <2>2, KeysUnderIs
<1>10. \A k \in KeysUnder(G[j]) : k < F[i]
  BY <1>6, <1>8, <1>9 DEF Between
<1>11. \A k \in KeysUnder(G[i]) : k >= F[i]
  <2> SUFFICES ASSUME NEW k \in KeysUnder(G[i]) PROVE k >= F[i]
    OBVIOUS
  <2>1. k \in R[G[i]] /\ G[i] \in DOMAIN pages
    BY <1>8, <1>9
  <2>2. F[i] <= k
    BY <1>6, <1>8, <2>1 DEF Between
  <2>3. k \in Int
    BY <1>7, <2>1
  <2> QED BY <1>7, <2>2, <2>3
<1>12. /\ G[j] = ChildOf(pages[p], i - 1) /\ pages[G[j]].level = pages[p].level - 1
       /\ G[i] = ChildOf(pages[p], i) /\ pages[G[i]].level = pages[p].level - 1
  <2>1. G[j] = ChildOf(pages[p], j)
    BY <1>8, <1>9
  <2>2. G[j] = ChildOf(pages[p], i - 1)
    BY <2>1 DEF j
  <2> QED BY <1>8, <1>9, <2>2
<1> QED BY <1>5, <1>10, <1>11, <1>12

-----------------------------------------------------------------------------
\* It holds of an empty tree.
LEMMA OrderInit == TreeInit => OrderInv
BY InitInv, InitOrder DEF OrderInv

\* As long as the levels of the tree fit, and clients remove only keys that are there
\* and no separators, and the pager does not fail, and no inner page is split but at or
\* below its new entry: between insertions every separator is above the keys under the
\* child on its left and not above those under the child on its right, and children are
\* one level further down (SeparatorsSeparate).
THEOREM SeparatorsHold ==
  ASSUME Orderly
  PROVE  TreeSpec /\ []LevelsFit => []SeparatorsSeparate
<1>1. OrderInv /\ [TreeNext]_treeVars /\ LevelsFit' => OrderInv'
  BY StepInv, StepOrder DEF OrderInv
<1>2. TreeSpec /\ []LevelsFit => []OrderInv
  BY <1>1, OrderInit, PTL DEF TreeSpec
<1> QED BY <1>2, InvImpliesSeparate, PTL

\* A tree that has fewer pages than there are levels needs no such assumption.
THEOREM SmallTreeSeparatorsHold ==
  ASSUME Orderly, MaxPage < INVALID_TREE_LEVEL
  PROVE  TreeSpec => []SeparatorsSeparate
<1>1. OrderInv /\ [TreeNext]_treeVars => OrderInv'
  BY StepInv, StepOrder DEF OrderInv
<1>2. TreeSpec => []OrderInv
  BY <1>1, OrderInit, PTL DEF TreeSpec
<1> QED BY <1>2, InvImpliesSeparate, PTL
=============================================================================
