---------------------------- MODULE BTreeProofs ----------------------------
(********************************************************************************)
(* Type correctness of the tree, for any number of pages, any keys and any      *)
(* sizes, any client and a pager that may fail.                                 *)
(*                                                                              *)
(* TypeOK says that pages hold no more than fits, which is not inductive: a     *)
(* split, or the copy of the root, fits only because the page was in order      *)
(* before, and the step that goes up a level reads pages that an earlier step   *)
(* has left to it.  The inductive invariant TreeInv is that                     *)
(*   - Nodes: every page is in order and is a leaf or, at level n > 0, an inner *)
(*     page all of whose children are pages at level n - 1, none of them the    *)
(*     root; the root alone may be neither, when it is empty;                   *)
(*   - CallOK: an insertion that is going up stands at the end of a way down    *)
(*     from the root, its parents, with a new page beside the one it has split  *)
(*     at the same level; that one has been compacted, so that its entries fit  *)
(*     in a copy of it.                                                         *)
(*                                                                              *)
(* The levels are what makes the recursion of search well-founded (PathFrom):   *)
(* that search ends, at a leaf and with the way to it, is a lemma (SearchIs).   *)
(*                                                                              *)
(* First come facts about what a page is built of: sums of sizes, the binary    *)
(* search, the area that compactPage writes, sequences with an entry more or    *)
(* less.  Most of it is recursion, and a proof about a recursive function has   *)
(* two parts.  The function is a CHOOSE, so first that it exists (...Exists),   *)
(* by writing it down as the limit of its approximations up to n; then what its *)
(* values are, by induction.  Both go through NatInductive, on the set of the   *)
(* numbers of which the fact holds.  What they say of the code is in            *)
(* SearchWithin and SearchSeparates (searchLeaf and searchInner), SplitBounds   *)
(* (where a split is made) and CellsAre (compactPage).                          *)
(*                                                                              *)
(* Then come lemmas about one page (PageOK is kept by each operation on it),    *)
(* about pages and ways, about search, and a lemma for each step.               *)
(********************************************************************************)
EXTENDS BTree, FiniteSetTheorems, SequenceTheorems, TLAPS

-----------------------------------------------------------------------------
(* What a page is built of. *)

\* A set of naturals has a least element.
LEMMA NatMin ==
  ASSUME NEW T \in SUBSET Nat, T # {}
  PROVE  \E m \in T : \A n \in T : m <= n
<1>1. \E x \in T : \A y \in T : ~(y < x)
  <2> DEFINE R == OpToRel(<, Nat)
  <2>1. \A y, x \in Nat : <<y, x>> \in R <=> y < x
    BY DEF OpToRel
  <2>2. IsWellFoundedOn(R, Nat)
    BY NatLessThanWellFounded, Zenon
  <2> HIDE DEF R
  <2>3. \E x \in T : \A y \in T : ~ (<<y, x>> \in R)
    BY <2>2, WFMin
  <2> QED BY <2>1, <2>3, Zenon
<1> QED BY <1>1

\* A set of naturals with 0 that is closed under adding 1 is all of them: induction,
\* as a fact about a set, so that it needs no operator as a parameter.
LEMMA NatInductive ==
  ASSUME NEW S \in SUBSET Nat, 0 \in S, \A n \in S : n + 1 \in S
  PROVE  S = Nat
<1> SUFFICES ASSUME Nat \ S # {} PROVE FALSE
  OBVIOUS
<1>1. PICK m \in Nat \ S : \A n \in Nat \ S : m <= n
  BY NatMin
<1>2. m # 0 /\ m - 1 \in Nat /\ m - 1 \in S
  BY <1>1
<1> QED BY <1>1, <1>2

\* The function that SumOf reads.
SumUpto(s, n) == CHOOSE f : f = [i \in 0 .. n |-> IF i = 0 THEN 0 ELSE f[i - 1] + s[i]]

\* What SumOf reads.
LEMMA SumDef ==
  ASSUME NEW s, NEW n
  PROVE  SumOf(s, n) = SumUpto(s, n)[n]
BY Zenon DEF SumOf, SumUpto

\* The recursive function of SumOf exists.
LEMMA SumUptoExists ==
  ASSUME NEW s, NEW n \in Nat
  PROVE  SumUpto(s, n) = [i \in 0 .. n |-> IF i = 0 THEN 0 ELSE SumUpto(s, n)[i - 1] + s[i]]
<1> DEFINE Is(f, m) == f = [i \in 0 .. m |-> IF i = 0 THEN 0 ELSE f[i - 1] + s[i]]
           S == {m \in Nat : \E f : Is(f, m)}
<1>1. 0 \in S
  <2>1. Is([i \in 0 .. 0 |-> 0], 0)
    OBVIOUS
  <2> QED BY <2>1
<1>2. ASSUME NEW m \in S PROVE m + 1 \in S
  <2>1. PICK f : Is(f, m)
    OBVIOUS
  <2> DEFINE g == [i \in 0 .. m + 1 |-> IF i = m + 1 THEN f[m] + s[m + 1] ELSE f[i]]
  <2>2. Is(g, m + 1)
    BY <2>1
  <2>3. m + 1 \in Nat
    OBVIOUS
  <2> HIDE DEF Is, g
  <2> QED BY <2>2, <2>3, Zenon
<1>3. S = Nat
  <2> HIDE DEF S
  <2> QED BY <1>1, <1>2, NatInductive DEF S
<1>4. \E f : Is(f, n)
  <2> HIDE DEF Is
  <2> QED BY <1>3
<1> QED BY <1>4, Zenon DEF SumUpto

\* An empty sum.
LEMMA SumZero ==
  ASSUME NEW s
  PROVE  SumOf(s, 0) = 0
BY SumDef, SumUptoExists

\* A sum with one more size.
LEMMA SumNext ==
  ASSUME NEW s, NEW n \in Nat
  PROVE  SumOf(s, n + 1) = SumOf(s, n) + s[n + 1]
<1> DEFINE a == SumUpto(s, n)
           b == SumUpto(s, n + 1)
           S == {i \in Nat : i <= n => b[i] = a[i]}
<1>1. /\ a = [i \in 0 .. n |-> IF i = 0 THEN 0 ELSE a[i - 1] + s[i]]
      /\ b = [i \in 0 .. n + 1 |-> IF i = 0 THEN 0 ELSE b[i - 1] + s[i]]
  BY SumUptoExists
<1> HIDE DEF a, b
<1>2. 0 \in S
  BY <1>1
<1>3. ASSUME NEW i \in S PROVE i + 1 \in S
  <2> SUFFICES ASSUME i + 1 <= n PROVE b[i + 1] = a[i + 1]
    OBVIOUS
  <2>1. b[i + 1] = b[i] + s[i + 1]
    BY <1>1
  <2>2. a[i + 1] = a[i] + s[i + 1]
    BY <1>1
  <2> QED BY <2>1, <2>2
<1>4. S = Nat
  <2> HIDE DEF S
  <2> QED BY <1>2, <1>3, NatInductive DEF S
<1>5. b[n] = a[n]
  BY <1>4
<1>6. b[n + 1] = b[n] + s[n + 1]
  BY <1>1
<1> QED BY <1>5, <1>6, SumDef DEF a, b

\* A sum of sizes is a natural.
LEMMA SumType ==
  ASSUME NEW s \in Seq(Nat), NEW n \in 0 .. Len(s)
  PROVE  SumOf(s, n) \in Nat
<1> DEFINE S == {i \in Nat : i <= Len(s) => SumOf(s, i) \in Nat}
<1>1. 0 \in S
  BY SumZero
<1>2. ASSUME NEW i \in S PROVE i + 1 \in S
  <2>1. i + 1 <= Len(s) => s[i + 1] \in Nat
    OBVIOUS
  <2>2. SumOf(s, i + 1) = SumOf(s, i) + s[i + 1]
    BY SumNext
  <2> QED BY <2>1, <2>2
<1>3. S = Nat
  <2> HIDE DEF S
  <2> QED BY <1>1, <1>2, NatInductive DEF S
<1> QED BY <1>3

\* The sums of two sequences that agree.
LEMMA SumAgree ==
  ASSUME NEW s, NEW t, NEW n \in Nat, \A i \in 1 .. n : s[i] = t[i]
  PROVE  SumOf(s, n) = SumOf(t, n)
<1> DEFINE S == {i \in Nat : i <= n => SumOf(s, i) = SumOf(t, i)}
<1>1. 0 \in S
  BY SumZero
<1>2. ASSUME NEW i \in S PROVE i + 1 \in S
  BY SumNext
<1>3. S = Nat
  <2> HIDE DEF S
  <2> QED BY <1>1, <1>2, NatInductive DEF S
<1> QED BY <1>3

\* t has one size more than s, after the first m, n in all.
OneSizeMore(s, t, m, n) ==
  /\ m \in Nat /\ n \in Nat /\ m < n
  /\ \A i \in 1 .. m : t[i] = s[i]
  /\ \A i \in m + 1 .. n - 1 : t[i + 1] = s[i]
  /\ SumOf(s, m) \in Int /\ t[m + 1] \in Int /\ \A i \in 1 .. n - 1 : s[i] \in Int

\* Inserting one size adds it to the sums from there on.
LEMMA SumInserted ==
  ASSUME NEW s, NEW t, NEW m, NEW n, OneSizeMore(s, t, m, n)
  PROVE  SumOf(t, n) = SumOf(s, n - 1) + t[m + 1]
<1> USE DEF OneSizeMore
<1> DEFINE S == {i \in Nat : i + m + 1 <= n =>
                   /\ SumOf(s, i + m) \in Int
                   /\ SumOf(t, i + m + 1) = SumOf(s, i + m) + t[m + 1]}
<1>1. 0 \in S
  <2>1. SumOf(t, m) = SumOf(s, m)
    BY SumAgree
  <2>2. SumOf(t, m + 1) = SumOf(t, m) + t[m + 1]
    BY SumNext
  <2> QED BY <2>1, <2>2
<1>2. ASSUME NEW i \in S PROVE i + 1 \in S
  <2> SUFFICES ASSUME i + 1 + m + 1 <= n
               PROVE  /\ SumOf(s, i + 1 + m) \in Int
                      /\ SumOf(t, i + 1 + m + 1) = SumOf(s, i + 1 + m) + t[m + 1]
    OBVIOUS
  <2> DEFINE j == i + m
  <2>1. j \in Nat /\ i + 1 + m = j + 1 /\ i + 1 + m + 1 = j + 1 + 1
    OBVIOUS
  <2>2. SumOf(s, j) \in Int /\ SumOf(t, j + 1) = SumOf(s, j) + t[m + 1]
    OBVIOUS
  <2> HIDE DEF j
  <2>3. SumOf(s, j + 1) = SumOf(s, j) + s[j + 1]
    BY <2>1, SumNext
  <2>4. SumOf(t, j + 1 + 1) = SumOf(t, j + 1) + t[j + 1 + 1]
    BY <2>1, SumNext
  <2>5. t[j + 1 + 1] = s[j + 1] /\ s[j + 1] \in Int
    BY DEF j
  <2> QED BY <2>1, <2>2, <2>3, <2>4, <2>5
<1>3. S = Nat
  <2> HIDE DEF S
  <2> QED BY <1>1, <1>2, NatInductive DEF S
<1> DEFINE i == n - 1 - m
<1>4. i \in Nat /\ i + m + 1 = n /\ i + m = n - 1
  OBVIOUS
<1> HIDE DEF i
<1>5. i \in S
  BY <1>3, <1>4
<1>6. SumOf(t, i + m + 1) = SumOf(s, i + m) + t[m + 1]
  BY <1>4, <1>5
<1> QED BY <1>4, <1>6

\* The sum of equal sizes.
LEMMA SumOfEqual ==
  ASSUME NEW s, NEW c \in Nat, NEW n \in Nat, \A i \in 1 .. n : s[i] = c
  PROVE  SumOf(s, n) = n * c
<1> DEFINE S == {i \in Nat : i <= n => SumOf(s, i) = i * c}
<1>1. 0 \in S
  BY SumZero
<1>2. ASSUME NEW i \in S PROVE i + 1 \in S
  <2> SUFFICES ASSUME i + 1 <= n PROVE SumOf(s, i + 1) = (i + 1) * c
    OBVIOUS
  <2>1. SumOf(s, i + 1) = SumOf(s, i) + s[i + 1] /\ i + 1 \in 1 .. n
    BY SumNext
  <2>2. SumOf(s, i) = i * c
    OBVIOUS
  <2>3. (i + 1) * c = i * c + c
    OBVIOUS
  <2> QED BY <2>1, <2>2, <2>3
<1>3. S = Nat
  <2> HIDE DEF S
  <2> QED BY <1>1, <1>2, NatInductive DEF S
<1> QED BY <1>3

-----------------------------------------------------------------------------
\* Where splitLeaf and splitInner split: no more stays than the page holds, and
\* something goes if all together is more than that.
THEOREM SplitBounds ==
  ASSUME NEW pg, pg.room \in Nat, pg.room \div 2 > 0, NEW s \in Seq(Nat),
         SumOf(s, Len(s)) >= pg.room \div 2
  PROVE  /\ SplitIndex(pg, s) \in 0 .. Len(s)
         /\ SumOf(s, SplitIndex(pg, s)) <= pg.room
         /\ SumOf(s, Len(s)) > pg.room => SplitIndex(pg, s) < Len(s)
         /\ SplitIndex(pg, s) = Len(s) => SumOf(s, Len(s)) + SumOf(s, Len(s) - 1) <= pg.room
<1> DEFINE min == pg.room \div 2
           Is(i) == SumOf(s, i) >= min /\ SumOf(s, i - 1) < min
           last == CHOOSE i \in DOMAIN s : Is(i)
           T == {i \in Nat : i <= Len(s) /\ SumOf(s, i) >= min}
<1>1. min \in Nat /\ min > 0 /\ min + min <= pg.room
  OBVIOUS
<1>2. \A i \in 0 .. Len(s) : SumOf(s, i) \in Nat
  BY SumType
<1>3. PICK m \in T : \A n \in T : m <= n
  <2>1. Len(s) \in T
    OBVIOUS
  <2> HIDE DEF T
  <2>2. T \in SUBSET Nat
    BY DEF T
  <2> QED BY <2>1, <2>2, NatMin
<1> HIDE DEF min
<1>4. m # 0
  BY <1>1, <1>3, SumZero DEF T
<1>5. m \in 1 .. Len(s) /\ m - 1 \in 0 .. Len(s) /\ m - 1 \notin T
  BY <1>3, <1>4 DEF T
<1>6. m \in DOMAIN s /\ Is(m)
  <2>1. m \in Nat /\ m <= Len(s) /\ SumOf(s, m) >= min
    BY <1>3 DEF T
  <2>2. m - 1 \in Nat /\ m - 1 <= Len(s) /\ SumOf(s, m - 1) \in Nat
    BY <1>2, <1>5
  <2>3. ~(SumOf(s, m - 1) >= min)
    BY <1>5, <2>2 DEF T
  <2>4. SumOf(s, m - 1) < min
    BY <1>1, <2>2, <2>3
  <2> QED BY <1>5, <2>1, <2>4
<1>7. last \in DOMAIN s /\ Is(last)
  <2> HIDE DEF Is
  <2> QED BY <1>6
<1> HIDE DEF T, last
<1>8. /\ last \in 1 .. Len(s) /\ last - 1 \in 0 .. Len(s)
      /\ SumOf(s, last) \in Nat /\ SumOf(s, last - 1) \in Nat
  BY <1>2, <1>7
<1>9. SplitIndex(pg, s) = IF SumOf(s, last) - min <= min - SumOf(s, last - 1)
                          THEN last ELSE last - 1
  BY Zenon DEF SplitIndex, min, last
<1>10. CASE SumOf(s, last) - min <= min - SumOf(s, last - 1)
  <2>1. SplitIndex(pg, s) = last
    BY <1>9, <1>10
  <2>2. SumOf(s, last) <= pg.room /\ SumOf(s, last) + SumOf(s, last - 1) <= pg.room
    <3> DEFINE a == SumOf(s, last)
               b == SumOf(s, last - 1)
    <3>1. a \in Nat /\ b \in Nat /\ a - min <= min - b
      BY <1>8, <1>10
    <3> HIDE DEF a, b
    <3>2. a <= pg.room /\ a + b <= pg.room
      BY <1>1, <3>1
    <3> QED BY <3>2 DEF a, b
  <2>3. last = Len(s) => SumOf(s, Len(s)) + SumOf(s, Len(s) - 1) <= pg.room
    BY <2>2
  <2> QED BY <1>8, <2>1, <2>2, <2>3
<1>11. CASE ~(SumOf(s, last) - min <= min - SumOf(s, last - 1))
  <2>1. SplitIndex(pg, s) = last - 1
    BY <1>9, <1>11
  <2>2. SumOf(s, last - 1) <= pg.room
    BY <1>1, <1>7, <1>8
  <2> QED BY <1>8, <2>1, <2>2
<1> QED BY <1>10, <1>11

-----------------------------------------------------------------------------
\* The function that SearchIn reads.
SearchFrom(ks, k) ==
  CHOOSE find : find = [range \in (0 .. Len(ks)) \X (-1 .. Len(ks) - 1) |->
    LET low == range[1]
        high == range[2]
        mid == low + (high - low) \div 2
    IN  IF low > high THEN low
        ELSE IF k = ks[mid + 1] THEN mid
        ELSE IF k > ks[mid + 1] THEN find[<<mid + 1, high>>]
        ELSE IF mid = 0 THEN mid ELSE find[<<low, mid - 1>>]]

\* What SearchIn reads.
LEMMA SearchDef ==
  ASSUME NEW ks, NEW k
  PROVE  SearchIn(ks, k) = SearchFrom(ks, k)[<<0, Len(ks) - 1>>]
BY Zenon DEF SearchIn, SearchFrom

\* The ranges of a binary search through n keys.
Ranges(n) == (0 .. n) \X (-1 .. n - 1)

\* What the search makes of a range, with the results f for the smaller ones.
Halved(ks, k, f, range) ==
  LET low == range[1]
      high == range[2]
      mid == low + (high - low) \div 2
  IN  IF low > high THEN low
      ELSE IF k = ks[mid + 1] THEN mid
      ELSE IF k > ks[mid + 1] THEN f[<<mid + 1, high>>]
      ELSE IF mid = 0 THEN mid ELSE f[<<low, mid - 1>>]

\* Halving a range makes it smaller.
LEMMA HalvesAreSmaller ==
  ASSUME NEW n \in Nat, NEW r \in Ranges(n), r[1] <= r[2]
  PROVE  LET mid == r[1] + (r[2] - r[1]) \div 2 IN
         /\ mid \in 0 .. n - 1 /\ r[1] <= mid /\ mid <= r[2]
         /\ <<mid + 1, r[2]>> \in Ranges(n)
         /\ mid # 0 => <<r[1], mid - 1>> \in Ranges(n)
<1>1. r[1] \in 0 .. n /\ r[2] \in -1 .. n - 1
  BY DEF Ranges
<1>2. PICK d \in Nat : d = (r[2] - r[1]) \div 2 /\ 2 * d <= r[2] - r[1]
  BY <1>1
<1>3. r[1] + d \in 0 .. n - 1 /\ r[1] + d <= r[2]
  BY <1>1, <1>2
<1> QED BY <1>1, <1>2, <1>3 DEF Ranges

\* mid lies in the range from lo to hi, which has m + 1 places at most.
Divides(mid, lo, hi, m) ==
  /\ lo \in Int /\ hi \in Int /\ mid \in Int /\ m \in Int
  /\ lo <= mid /\ mid <= hi /\ hi - lo <= m

\* Each half has m places at most.
LEMMA HalvesFit ==
  ASSUME NEW mid, NEW lo, NEW hi, NEW m, Divides(mid, lo, hi, m)
  PROVE  /\ mid + 1 <= hi + 1 /\ hi - (mid + 1) + 1 <= m
         /\ lo <= mid - 1 + 1 /\ mid - 1 - lo + 1 <= m
BY DEF Divides

\* The recursive function of SearchIn exists: each round of the search has a smaller
\* range, so it ends, sorted keys or not.
LEMMA SearchFromExists ==
  ASSUME NEW ks, NEW k, Len(ks) \in Nat
  PROVE  SearchFrom(ks, k)
           = [r \in Ranges(Len(ks)) |-> Halved(ks, k, SearchFrom(ks, k), r)]
<1> DEFINE n == Len(ks)
           D(m) == {r \in Ranges(n) : r[2] - r[1] + 1 <= m}
           Is(f, m) == \A r \in D(m) : f[r] = Halved(ks, k, f, r)
           S == {m \in Nat : \E f : Is(f, m)}
<1>1. 0 \in S
  <2> DEFINE f == [r \in D(0) |-> r[1]]
  <2>1. Is(f, 0)
    <3> SUFFICES ASSUME NEW r \in D(0) PROVE f[r] = Halved(ks, k, f, r)
      BY Zenon
    <3>1. r[1] > r[2]
      BY DEF Ranges
    <3> QED BY <3>1 DEF Halved
  <2> HIDE DEF Is, f
  <2> QED BY <2>1
<1>2. ASSUME NEW m \in S PROVE m + 1 \in S
  <2>1. PICK f : Is(f, m)
    OBVIOUS
  <2> DEFINE g == [r \in D(m + 1) |-> IF r \in D(m) THEN f[r] ELSE Halved(ks, k, f, r)]
  <2>2. \A r \in D(m) : r \in D(m + 1) /\ g[r] = f[r]
    BY DEF Ranges
  <2>3. \A r \in D(m + 1) : g[r] = Halved(ks, k, f, r)
    <3> HIDE DEF D
    <3> QED BY <2>1
  <2>4. ASSUME NEW r \in D(m + 1) PROVE Halved(ks, k, f, r) = Halved(ks, k, g, r)
    <3> DEFINE mid == r[1] + (r[2] - r[1]) \div 2
    <3>1. CASE r[1] > r[2]
      BY <3>1 DEF Halved
    <3>2. CASE ~(r[1] > r[2])
      <4>1. r[1] \in Nat /\ r[2] \in Int /\ r[1] <= r[2]
        BY <3>2 DEF Ranges
      <4>2. /\ mid \in 0 .. n - 1 /\ r[1] <= mid /\ mid <= r[2]
            /\ <<mid + 1, r[2]>> \in Ranges(n)
            /\ mid # 0 => <<r[1], mid - 1>> \in Ranges(n)
        BY <4>1, HalvesAreSmaller
      <4>3. <<mid + 1, r[2]>> \in D(m) /\ (mid # 0 => <<r[1], mid - 1>> \in D(m))
        <5> HIDE DEF mid
        <5>1. Divides(mid, r[1], r[2], m)
          BY <4>1, <4>2 DEF Divides
        <5>3. r[2] - (mid + 1) + 1 <= m /\ mid - 1 - r[1] + 1 <= m
          BY <5>1, HalvesFit, Zenon
        <5>4. <<mid + 1, r[2]>> \in D(m)
          BY <4>2, <5>3
        <5>5. mid # 0 => <<r[1], mid - 1>> \in D(m)
          BY <4>2, <5>3
        <5> QED BY <5>4, <5>5
      <4> HIDE DEF D, g
      <4>4. g[<<mid + 1, r[2]>>] = f[<<mid + 1, r[2]>>]
        BY <2>2, <4>3
      <4>5. mid # 0 => g[<<r[1], mid - 1>>] = f[<<r[1], mid - 1>>]
        BY <2>2, <4>3
      <4> QED BY <4>4, <4>5 DEF Halved
    <3> QED BY <3>1, <3>2
  <2>5. Is(g, m + 1)
    <3> HIDE DEF D, g
    <3> QED BY <2>3, <2>4
  <2>6. m + 1 \in Nat
    OBVIOUS
  <2> HIDE DEF Is, g
  <2> QED BY <2>5, <2>6, Zenon
<1>3. S = Nat
  <2> HIDE DEF S
  <2> QED BY <1>1, <1>2, NatInductive DEF S
<1>4. PICK f : Is(f, n)
  <2> HIDE DEF Is
  <2> QED BY <1>3
<1>5. D(n) = Ranges(n)
  BY DEF Ranges
<1> DEFINE g == [r \in Ranges(n) |-> f[r]]
<1>6. ASSUME NEW r \in Ranges(n) PROVE f[r] = Halved(ks, k, g, r)
  <2> DEFINE mid == r[1] + (r[2] - r[1]) \div 2
  <2>1. f[r] = Halved(ks, k, f, r)
    BY <1>4, <1>5
  <2>2. CASE r[1] > r[2]
    BY <2>1, <2>2 DEF Halved
  <2>3. CASE ~(r[1] > r[2])
    <3>1. r[1] <= r[2]
      BY <2>3 DEF Ranges
    <3>2. /\ <<mid + 1, r[2]>> \in Ranges(n)
          /\ mid # 0 => <<r[1], mid - 1>> \in Ranges(n)
      BY <3>1, HalvesAreSmaller
    <3>3. /\ g[<<mid + 1, r[2]>>] = f[<<mid + 1, r[2]>>]
          /\ mid # 0 => g[<<r[1], mid - 1>>] = f[<<r[1], mid - 1>>]
      BY <3>2
    <3> HIDE DEF g
    <3> QED BY <2>1, <3>3 DEF Halved
  <2> QED BY <2>2, <2>3
<1>7. g = [r \in Ranges(n) |-> Halved(ks, k, g, r)]
  <2> HIDE DEF n
  <2>1. [r \in Ranges(n) |-> f[r]] = [r \in Ranges(n) |-> Halved(ks, k, g, r)]
    BY <1>6, Zenon
  <2> QED BY <2>1
<1>8. \A f1 : (f1 = [r \in Ranges(n) |-> Halved(ks, k, f1, r)])
         <=> f1 = [range \in (0 .. Len(ks)) \X (-1 .. Len(ks) - 1) |->
                     LET low == range[1]
                         high == range[2]
                         mid == low + (high - low) \div 2
                     IN  IF low > high THEN low
                         ELSE IF k = ks[mid + 1] THEN mid
                         ELSE IF k > ks[mid + 1] THEN f1[<<mid + 1, high>>]
                         ELSE IF mid = 0 THEN mid ELSE f1[<<low, mid - 1>>]]
  BY Zenon DEF Halved, Ranges
<1> QED BY <1>7, <1>8, Zenon DEF SearchFrom

\* The search ends when its range is empty.
LEMMA HalvedDone ==
  ASSUME NEW ks, NEW k, NEW f, NEW n \in Nat, NEW r \in Ranges(n), r[1] = r[2] + 1
  PROVE  Halved(ks, k, f, r) = r[1] /\ r[1] \in 0 .. n
<1>1. r[1] \in 0 .. n /\ r[2] \in Int /\ r[1] > r[2]
  BY DEF Ranges
<1> QED BY <1>1, Zenon DEF Halved

\* One round of the search through range r compares k with the key in the middle.
Halving(ks, k, f, n, r, mid) ==
  /\ r[1] \in Nat /\ r[1] <= mid /\ r[2] \in Nat /\ mid <= r[2]
  /\ Halved(ks, k, f, r) = IF k = ks[mid + 1] THEN mid
                           ELSE IF k > ks[mid + 1] THEN f[<<mid + 1, r[2]>>]
                           ELSE IF mid = 0 THEN mid ELSE f[<<r[1], mid - 1>>]
  /\ <<mid + 1, r[2]>> \in Ranges(n)
  /\ mid # 0 => <<r[1], mid - 1>> \in Ranges(n)

\* A round of the search through a range that is not empty.
LEMMA HalvedOnce ==
  ASSUME NEW ks, NEW k, NEW f, NEW n \in Nat, NEW r \in Ranges(n), r[1] # r[2] + 1,
         r[1] <= r[2] + 1
  PROVE  \E mid \in 0 .. n - 1 : Halving(ks, k, f, n, r, mid)
<1> DEFINE mid == r[1] + (r[2] - r[1]) \div 2
<1>1. r[1] \in Nat /\ r[2] \in Int /\ r[1] <= r[2] /\ ~(r[1] > r[2])
  BY DEF Ranges
<1>2. /\ mid \in 0 .. n - 1 /\ r[1] <= mid /\ mid <= r[2]
      /\ <<mid + 1, r[2]>> \in Ranges(n)
      /\ mid # 0 => <<r[1], mid - 1>> \in Ranges(n)
  BY <1>1, HalvesAreSmaller
<1>3. Halved(ks, k, f, r) = IF k = ks[mid + 1] THEN mid
                            ELSE IF k > ks[mid + 1] THEN f[<<mid + 1, r[2]>>]
                            ELSE IF mid = 0 THEN mid ELSE f[<<r[1], mid - 1>>]
  BY <1>1, Zenon DEF Halved
<1> HIDE DEF mid
<1>4. r[2] \in Nat
  BY <1>1
<1> QED BY <1>1, <1>2, <1>3, <1>4, Zenon DEF Halving

\* The binary search ends within the keys or just after them, sorted or not: what
\* searchLeaf and searchInner return is an index of the page or its number of entries.
LEMMA SearchWithin ==
  ASSUME NEW ks, NEW k, Len(ks) \in Nat
  PROVE  SearchIn(ks, k) \in 0 .. Len(ks)
<1> DEFINE n == Len(ks)
           f == SearchFrom(ks, k)
           Small(m) == \A r \in Ranges(n) :
                         r[1] <= r[2] + 1 /\ r[2] - r[1] + 1 <= m => f[r] \in 0 .. n
           S == {m \in Nat : Small(m)}
<1>1. f = [r \in Ranges(n) |-> Halved(ks, k, f, r)]
  BY SearchFromExists
<1> HIDE DEF f
<1>2. \A r \in Ranges(n) : f[r] = Halved(ks, k, f, r)
  BY <1>1
<1>3. Small(0)
  <2> SUFFICES ASSUME NEW r \in Ranges(n), r[1] <= r[2] + 1, r[2] - r[1] + 1 <= 0
               PROVE  f[r] \in 0 .. n
    OBVIOUS
  <2>1. r[1] = r[2] + 1
    BY DEF Ranges
  <2> QED BY <1>2, <2>1, HalvedDone
<1>4. ASSUME NEW m \in Nat, Small(m) PROVE Small(m + 1)
  <2> SUFFICES ASSUME NEW r \in Ranges(n), r[1] <= r[2] + 1, r[2] - r[1] + 1 <= m + 1
               PROVE  f[r] \in 0 .. n
    OBVIOUS
  <2> HIDE DEF Small, n
  <2>0. n \in Nat
    BY DEF n
  <2>1. CASE r[1] = r[2] + 1
    BY <1>2, <2>0, <2>1, HalvedDone
  <2>2. CASE r[1] # r[2] + 1
    <3>0. PICK mid \in 0 .. n - 1 : Halving(ks, k, f, n, r, mid)
      BY <2>0, <2>2, HalvedOnce
    <3>1. /\ r[1] \in Nat /\ r[1] <= mid /\ r[2] \in Nat /\ mid <= r[2]
          /\ Halved(ks, k, f, r) = IF k = ks[mid + 1] THEN mid
                                   ELSE IF k > ks[mid + 1] THEN f[<<mid + 1, r[2]>>]
                                   ELSE IF mid = 0 THEN mid ELSE f[<<r[1], mid - 1>>]
          /\ <<mid + 1, r[2]>> \in Ranges(n)
          /\ mid # 0 => <<r[1], mid - 1>> \in Ranges(n)
      BY <3>0 DEF Halving
    <3>5. Divides(mid, r[1], r[2], m)
      <4>1. mid \in Int /\ r[1] \in Int /\ r[2] \in Int /\ r[2] - r[1] <= m
        BY <3>1
      <4>2. m \in Int
        OBVIOUS
      <4> QED BY <3>1, <4>1, <4>2, Zenon DEF Divides
    <3>2. f[<<mid + 1, r[2]>>] \in 0 .. n
      <4> DEFINE q == <<mid + 1, r[2]>>
      <4>2. q \in Ranges(n) /\ q[1] = mid + 1 /\ q[2] = r[2]
        BY <3>1
      <4> HIDE DEF q
      <4>3. mid + 1 <= r[2] + 1 /\ r[2] - (mid + 1) + 1 <= m
        BY <3>5, HalvesFit, Zenon
      <4>1. q \in Ranges(n) /\ q[1] <= q[2] + 1 /\ q[2] - q[1] + 1 <= m
        BY <4>2, <4>3, Zenon
      <4> QED BY <1>4, <4>1, Zenon DEF Small, q
    <3>3. mid # 0 => f[<<r[1], mid - 1>>] \in 0 .. n
      <4> SUFFICES ASSUME mid # 0 PROVE f[<<r[1], mid - 1>>] \in 0 .. n
        OBVIOUS
      <4> DEFINE q == <<r[1], mid - 1>>
      <4>2. q \in Ranges(n) /\ q[1] = r[1] /\ q[2] = mid - 1
        BY <3>1
      <4> HIDE DEF q
      <4>3. r[1] <= mid - 1 + 1 /\ mid - 1 - r[1] + 1 <= m
        BY <3>5, HalvesFit, Zenon
      <4>1. q \in Ranges(n) /\ q[1] <= q[2] + 1 /\ q[2] - q[1] + 1 <= m
        BY <4>2, <4>3, Zenon
      <4> QED BY <1>4, <4>1, Zenon DEF Small, q
    <3>4. mid \in 0 .. n
      BY <2>0
    <3> QED BY <1>2, <3>1, <3>2, <3>3, <3>4, Zenon
  <2> QED BY <2>1, <2>2
<1>5. S = Nat
  <2>1. 0 \in S
    BY <1>3
  <2>2. ASSUME NEW m \in S PROVE m + 1 \in S
    <3> HIDE DEF Small
    <3> QED BY <1>4
  <2> HIDE DEF S
  <2> QED BY <2>1, <2>2, NatInductive DEF S
<1>6. <<0, n - 1>> \in Ranges(n)
  BY DEF Ranges
<1>7. Small(n)
  <2> HIDE DEF Small
  <2> QED BY <1>5
<1>8. f[<<0, n - 1>>] \in 0 .. n
  BY <1>6, <1>7
<1> QED BY <1>8, SearchDef DEF f

\* In ascending keys the binary search of searchLeaf and searchInner returns the
\* number of keys that are smaller than the one looked for: the place of the key, or
\* the place where it is to be inserted.
THEOREM SearchSeparates ==
  ASSUME NEW ks \in Seq(Int), NEW k \in Int,
         \A i, j \in 1 .. Len(ks) : i < j => ks[i] < ks[j]
  PROVE  /\ SearchIn(ks, k) \in 0 .. Len(ks)
         /\ \A i \in 1 .. SearchIn(ks, k) : ks[i] < k
         /\ \A i \in SearchIn(ks, k) + 1 .. Len(ks) : ks[i] >= k
<1> DEFINE n == Len(ks)
           f == SearchFrom(ks, k)
           Below(x) == \A i \in 1 .. x : ks[i] < k
           From(x) == \A i \in x .. n : ks[i] >= k
           Right(x) == x \in 0 .. n /\ Below(x) /\ From(x + 1)
           Small(m) == \A r \in Ranges(n) :
                         r[1] <= r[2] + 1 /\ r[2] - r[1] + 1 <= m
                           /\ Below(r[1]) /\ From(r[2] + 2) => Right(f[r])
           S == {m \in Nat : Small(m)}
<1>1. f = [r \in Ranges(n) |-> Halved(ks, k, f, r)]
  BY SearchFromExists
<1> HIDE DEF f
<1>2. \A r \in Ranges(n) : f[r] = Halved(ks, k, f, r)
  BY <1>1
<1>3. ASSUME NEW r \in Ranges(n), r[1] = r[2] + 1, Below(r[1]), From(r[2] + 2)
      PROVE  Right(f[r])
  <2>1. f[r] = r[1] /\ r[1] \in 0 .. n
    BY <1>2, <1>3, HalvedDone
  <2>2. r[2] + 2 = r[1] + 1
    BY <1>3 DEF Ranges
  <2> QED BY <1>3, <2>1, <2>2
<1>4. Small(0)
  <2> HIDE DEF Below, From, Right
  <2> SUFFICES ASSUME NEW r \in Ranges(n), r[1] <= r[2] + 1, r[2] - r[1] + 1 <= 0,
                      Below(r[1]), From(r[2] + 2)
               PROVE  Right(f[r])
    OBVIOUS
  <2>1. r[1] = r[2] + 1
    BY DEF Ranges
  <2> QED BY <1>3, <2>1
<1>5. ASSUME NEW m \in Nat, Small(m) PROVE Small(m + 1)
  <2> HIDE DEF Below, From, Right
  <2> SUFFICES ASSUME NEW r \in Ranges(n), r[1] <= r[2] + 1, r[2] - r[1] + 1 <= m + 1,
                      Below(r[1]), From(r[2] + 2)
               PROVE  Right(f[r])
    OBVIOUS
  <2>0. n \in Nat
    OBVIOUS
  <2>1. CASE r[1] = r[2] + 1
    BY <1>3, <2>1
  <2>2. CASE r[1] # r[2] + 1
    <3>0. PICK mid \in 0 .. n - 1 : Halving(ks, k, f, n, r, mid)
      BY <2>0, <2>2, HalvedOnce
    <3>8. Halved(ks, k, f, r) = IF k = ks[mid + 1] THEN mid
                                ELSE IF k > ks[mid + 1] THEN f[<<mid + 1, r[2]>>]
                                ELSE IF mid = 0 THEN mid ELSE f[<<r[1], mid - 1>>]
      BY <3>0 DEF Halving
    <3>1. /\ mid \in Nat /\ r[1] \in Nat /\ r[1] <= mid /\ r[2] \in Nat /\ mid <= r[2]
          /\ <<mid + 1, r[2]>> \in Ranges(n)
          /\ mid # 0 => <<r[1], mid - 1>> \in Ranges(n)
      BY <3>0 DEF Halving
    <3>9. Divides(mid, r[1], r[2], m)
      <4> HIDE DEF n, Small, S
      <4>1. mid \in Int /\ r[1] \in Int /\ r[2] \in Int
        BY <3>1
      <4>2. m \in Int
        OBVIOUS
      <4>3. r[2] - r[1] <= m
        <5>1. r[2] - r[1] + 1 <= m + 1
          OBVIOUS
        <5> QED BY <4>1, <4>2, <5>1
      <4> QED BY <3>1, <4>1, <4>2, <4>3, Zenon DEF Divides
    <3>2. ks[mid + 1] \in Int
      OBVIOUS
    <3>3. k >= ks[mid + 1] => Below(mid)
      <4> SUFFICES ASSUME k >= ks[mid + 1], NEW i \in 1 .. mid PROVE ks[i] < k
        BY Zenon DEF Below
      <4>1. i \in 1 .. n /\ mid + 1 \in 1 .. n /\ i < mid + 1
        BY <2>0
      <4>2. ks[i] < ks[mid + 1] /\ ks[i] \in Int
        BY <4>1
      <4> QED BY <3>2, <4>2
    <3>4. k <= ks[mid + 1] => From(mid + 1)
      BY <3>2 DEF From
    <3>5. CASE k = ks[mid + 1]
      <4>1. f[r] = mid
        BY <1>2, <3>8, <3>5
      <4>2. mid \in 0 .. n
        OBVIOUS
      <4> QED BY <3>3, <3>4, <3>5, <4>1, <4>2 DEF Right
    <3>6. CASE k > ks[mid + 1]
      <4>1. f[r] = f[<<mid + 1, r[2]>>]
        BY <1>2, <3>8, <3>2, <3>6
      <4>2. Below(mid + 1)
        BY <3>2, <3>3, <3>6 DEF Below
      <4> DEFINE q == <<mid + 1, r[2]>>
      <4>4. q[1] = mid + 1 /\ q[2] = r[2] /\ q \in Ranges(n)
        BY <3>1
      <4> HIDE DEF q
      <4>3. q \in Ranges(n) /\ q[1] <= q[2] + 1 /\ q[2] - q[1] + 1 <= m
        <5>1. q \in Ranges(n)
          BY <4>4
        <5>2. q[1] <= q[2] + 1
          <6>1. mid + 1 <= r[2] + 1
            BY <3>9, HalvesFit, Zenon
          <6> QED BY <4>4, <6>1, Zenon
        <5>3. q[2] - q[1] + 1 <= m
          <6>2. r[2] - (mid + 1) + 1 <= m
            BY <3>9, HalvesFit, Zenon
          <6> QED BY <4>4, <6>2
        <5> QED BY <5>1, <5>2, <5>3
      <4>5. Below(q[1]) /\ From(q[2] + 2)
        BY <4>2, <4>4, Zenon
      <4> QED BY <1>5, <4>1, <4>3, <4>5, Zenon DEF q
    <3>7. CASE k < ks[mid + 1]
      <4>1. CASE mid = 0
        <5>1. f[r] = 0
          BY <1>2, <3>8, <3>2, <3>7, <4>1
        <5>2. Below(0)
          BY DEF Below
        <5>3. From(0 + 1)
          BY <3>4, <3>7, <4>1
        <5> QED BY <5>1, <5>2, <5>3 DEF Right
      <4>2. CASE mid # 0
        <5>1. f[r] = f[<<r[1], mid - 1>>]
          BY <1>2, <3>8, <3>2, <3>7, <4>2
        <5>2. From((mid - 1) + 2)
          BY <3>4, <3>7
        <5> DEFINE q == <<r[1], mid - 1>>
        <5>4. q[1] = r[1] /\ q[2] = mid - 1 /\ q \in Ranges(n)
          BY <3>1, <4>2
        <5> HIDE DEF q
        <5>3. q \in Ranges(n) /\ q[1] <= q[2] + 1 /\ q[2] - q[1] + 1 <= m
          <6>2. mid - 1 - r[1] + 1 <= m
            BY <3>9, HalvesFit, Zenon
          <6>4. r[1] <= mid - 1 + 1
            BY <3>9, HalvesFit, Zenon
          <6>3. q[1] <= q[2] + 1
            BY <5>4, <6>4, Zenon
          <6> QED BY <5>4, <6>2, <6>3
        <5>5. Below(q[1]) /\ From(q[2] + 2)
          BY <5>2, <5>4, Zenon
        <5> QED BY <1>5, <5>1, <5>3, <5>5, Zenon DEF q
      <4> QED BY <4>1, <4>2
    <3> QED BY <3>2, <3>5, <3>6, <3>7
  <2> QED BY <2>1, <2>2
<1>6. S = Nat
  <2>1. 0 \in S
    BY <1>4
  <2>2. ASSUME NEW m \in S PROVE m + 1 \in S
    <3> HIDE DEF Small
    <3> QED BY <1>5
  <2> HIDE DEF S
  <2> QED BY <2>1, <2>2, NatInductive DEF S
<1>7. <<0, n - 1>> \in Ranges(n) /\ Below(0) /\ From(n - 1 + 2)
  BY DEF Ranges
<1>8. Small(n)
  <2> HIDE DEF Small
  <2> QED BY <1>6
<1>9. Right(f[<<0, n - 1>>])
  <2> HIDE DEF Below, From, Right
  <2> QED BY <1>7, <1>8
<1> QED BY <1>9, SearchDef DEF f

-----------------------------------------------------------------------------
\* The sizes of the cells of the keys ks.
Sizes(ks) == [i \in DOMAIN ks |-> CellSize[ks[i]]]

\* Sizes of cells are positive.
LEMMA SizesType ==
  ASSUME NEW ks \in Seq(Keys)
  PROVE  /\ Sizes(ks) \in Seq(Nat)
         /\ Len(Sizes(ks)) = Len(ks)
         /\ \A i \in 1 .. Len(ks) : Sizes(ks)[i] = CellSize[ks[i]] /\ Sizes(ks)[i] \in Nat \ {0}
<1>1. /\ Len(ks) \in Nat /\ DOMAIN ks = 1 .. Len(ks)
      /\ \A i \in 1 .. Len(ks) : ks[i] \in Keys
  OBVIOUS
<1>2. \A i \in 1 .. Len(ks) : CellSize[ks[i]] \in Nat \ {0}
  BY <1>1, SlotsAssumption
<1>3. Sizes(ks) = [i \in 1 .. Len(ks) |-> CellSize[ks[i]]]
  BY <1>1 DEF Sizes
<1> HIDE DEF Sizes
<1>4. Sizes(ks) \in [1 .. Len(ks) -> Nat]
  BY <1>2, <1>3
<1> QED BY <1>1, <1>2, <1>3, <1>4

\* A cell is as long as its size, and starts with its key.
LEMMA CellType ==
  ASSUME NEW k \in Keys
  PROVE  /\ Cell(k) \in Seq(Keys \cup {NoKey})
         /\ Len(Cell(k)) = CellSize[k]
         /\ CellSize[k] \in Nat \ {0}
         /\ Cell(k)[1] = k
<1>1. CellSize[k] \in Nat \ {0}
  BY SlotsAssumption
<1>2. Cell(k) \in [1 .. CellSize[k] -> Keys \cup {NoKey}]
  BY <1>1 DEF Cell
<1> QED BY <1>1, <1>2 DEF Cell

\* The function that Cells reads.
CellsUpto(ks) ==
  CHOOSE upto : upto = [n \in 0 .. Len(ks) |->
                          IF n = 0 THEN <<>> ELSE upto[n - 1] \o Cell(ks[n])]

\* The function that Offsets reads.
OffsetsUpto(ks) ==
  CHOOSE offset : offset = [n \in DOMAIN ks |->
                              IF n = 1 THEN 1 ELSE offset[n - 1] + CellSize[ks[n - 1]]]

\* The recursive function of Cells exists.
LEMMA CellsUptoExists ==
  ASSUME NEW ks, Len(ks) \in Nat
  PROVE  CellsUpto(ks) = [n \in 0 .. Len(ks) |->
                            IF n = 0 THEN <<>> ELSE CellsUpto(ks)[n - 1] \o Cell(ks[n])]
<1> DEFINE Is(f, m) == f = [n \in 0 .. m |-> IF n = 0 THEN <<>> ELSE f[n - 1] \o Cell(ks[n])]
           S == {m \in Nat : \E f : Is(f, m)}
<1>1. 0 \in S
  <2>1. Is([n \in 0 .. 0 |-> <<>>], 0)
    OBVIOUS
  <2> QED BY <2>1
<1>2. ASSUME NEW m \in S PROVE m + 1 \in S
  <2>1. PICK f : Is(f, m)
    OBVIOUS
  <2> DEFINE g == [n \in 0 .. m + 1 |-> IF n = m + 1 THEN f[m] \o Cell(ks[m + 1]) ELSE f[n]]
  <2>2. Is(g, m + 1)
    BY <2>1
  <2>3. m + 1 \in Nat
    OBVIOUS
  <2> HIDE DEF Is, g
  <2> QED BY <2>2, <2>3, Zenon
<1>3. S = Nat
  <2> HIDE DEF S
  <2> QED BY <1>1, <1>2, NatInductive DEF S
<1>4. \E f : Is(f, Len(ks))
  <2> HIDE DEF Is
  <2> QED BY <1>3
<1> QED BY <1>4, Zenon DEF CellsUpto

\* A cell starts where the ones before it end.
LEMMA OffsetsUptoIs ==
  ASSUME NEW ks \in Seq(Keys)
  PROVE  OffsetsUpto(ks) = [n \in 1 .. Len(ks) |-> SumOf(Sizes(ks), n - 1) + 1]
<1> DEFINE g == [n \in DOMAIN ks |-> SumOf(Sizes(ks), n - 1) + 1]
           Is(f) == f = [n \in DOMAIN ks |->
                           IF n = 1 THEN 1 ELSE f[n - 1] + CellSize[ks[n - 1]]]
<1>1. DOMAIN ks = 1 .. Len(ks) /\ Len(ks) \in Nat
  OBVIOUS
<1>2. ASSUME NEW n \in DOMAIN ks, n # 1
      PROVE  SumOf(Sizes(ks), n - 1) + 1 = SumOf(Sizes(ks), n - 1 - 1) + 1 + CellSize[ks[n - 1]]
  <2>1. n - 1 - 1 \in 0 .. Len(ks) /\ n - 1 \in 1 .. Len(ks) /\ n - 1 = n - 1 - 1 + 1
    BY <1>1, <1>2
  <2>2. SumOf(Sizes(ks), n - 1) = SumOf(Sizes(ks), n - 1 - 1) + Sizes(ks)[n - 1]
    BY <2>1, SumNext
  <2>3. SumOf(Sizes(ks), n - 1 - 1) \in Nat
    BY <2>1, SumType, SizesType
  <2>4. Sizes(ks)[n - 1] = CellSize[ks[n - 1]] /\ Sizes(ks)[n - 1] \in Nat
    BY <2>1, SizesType
  <2>5. \A a, b \in Nat : a + b + 1 = a + 1 + b
    OBVIOUS
  <2>6. SumOf(Sizes(ks), n - 1) = SumOf(Sizes(ks), n - 1 - 1) + CellSize[ks[n - 1]]
    BY <2>2, <2>4, Zenon
  <2> QED BY <2>3, <2>4, <2>5, <2>6, Zenon
<1>3. Is(g)
  <2>1. ASSUME NEW n \in DOMAIN ks
        PROVE  g[n] = IF n = 1 THEN 1 ELSE g[n - 1] + CellSize[ks[n - 1]]
    <3>1. CASE n = 1
      BY <3>1, SumZero
    <3>2. CASE n # 1
      <4>1. n - 1 \in DOMAIN ks
        BY <1>1, <3>2
      <4>2. g[n - 1] = SumOf(Sizes(ks), n - 1 - 1) + 1
        BY <4>1
      <4>3. g[n] = SumOf(Sizes(ks), n - 1) + 1
        OBVIOUS
      <4>4. g[n] = g[n - 1] + CellSize[ks[n - 1]]
        <5> HIDE DEF g
        <5> QED BY <1>2, <3>2, <4>2, <4>3, Zenon
      <4> HIDE DEF g
      <4> QED BY <3>2, <4>4
    <3> QED BY <3>1, <3>2
  <2> HIDE DEF g
  <2>2. g = [n \in DOMAIN ks |-> g[n]]
    BY DEF g
  <2>3. [n \in DOMAIN ks |-> g[n]]
          = [n \in DOMAIN ks |-> IF n = 1 THEN 1 ELSE g[n - 1] + CellSize[ks[n - 1]]]
    BY <2>1, Zenon
  <2> QED BY <2>2, <2>3
<1>8. ASSUME NEW f, Is(f), NEW n \in Nat, n + 1 + 1 \in DOMAIN ks
      PROVE  f[n + 1 + 1] = f[n + 1] + CellSize[ks[n + 1]]
  <2>3. \A j \in DOMAIN ks : f[j] = IF j = 1 THEN 1 ELSE f[j - 1] + CellSize[ks[j - 1]]
    <3> HIDE DEF g
    <3> QED BY <1>8, Zenon
  <2> DEFINE j == n + 1 + 1
  <2>2. j \in DOMAIN ks /\ j # 1 /\ j - 1 = n + 1
    BY <1>8
  <2> HIDE DEF g, Is, j
  <2>4. f[j] = f[j - 1] + CellSize[ks[j - 1]]
    BY <2>2, <2>3
  <2> QED BY <2>2, <2>4, Zenon DEF j
<1>4. Is(OffsetsUpto(ks))
  <2> HIDE DEF g
  <2> QED BY <1>3, Zenon DEF OffsetsUpto
<1>5. ASSUME NEW f, Is(f)
      PROVE  \A n \in DOMAIN ks : f[n] = g[n]
  <2> DEFINE S == {n \in Nat : n + 1 <= Len(ks) => f[n + 1] = g[n + 1]}
  <2>1. 0 \in S
    <3>1. 1 \in DOMAIN ks => f[1] = 1
      BY <1>5
    <3>2. 1 \in DOMAIN ks => g[1] = 1
      BY <1>3
    <3> QED BY <1>1, <3>1, <3>2
  <2>2. ASSUME NEW n \in S PROVE n + 1 \in S
    <3> SUFFICES ASSUME n + 1 + 1 <= Len(ks) PROVE f[n + 1 + 1] = g[n + 1 + 1]
      OBVIOUS
    <3>1. n + 1 + 1 \in DOMAIN ks /\ n + 1 + 1 # 1 /\ n + 1 + 1 - 1 = n + 1
      BY <1>1
    <3> HIDE DEF g, Is
    <3>2. f[n + 1 + 1] = f[n + 1] + CellSize[ks[n + 1]]
      BY <1>5, <1>8, <3>1
    <3>3. g[n + 1 + 1] = g[n + 1] + CellSize[ks[n + 1]]
      BY <1>3, <1>8, <3>1
    <3>4. f[n + 1] = g[n + 1]
      OBVIOUS
    <3> QED BY <3>2, <3>3, <3>4
  <2>3. S = Nat
    <3> HIDE DEF S
    <3> QED BY <2>1, <2>2, NatInductive DEF S
  <2> HIDE DEF g
  <2>4. ASSUME NEW n \in DOMAIN ks PROVE f[n] = g[n]
    <3>1. n - 1 \in S /\ n - 1 + 1 = n /\ n <= Len(ks)
      <4> HIDE DEF S
      <4> QED BY <1>1, <2>3
    <3> QED BY <3>1
  <2> QED BY <2>4
<1> DEFINE f == OffsetsUpto(ks)
<1>6. f = [n \in DOMAIN ks |-> f[n]]
  <2> HIDE DEF f
  <2>1. Is(f)
    BY <1>4 DEF f
  <2> QED BY <2>1
<1>7. \A n \in DOMAIN ks : f[n] = g[n]
  <2> HIDE DEF g, f, Is
  <2> QED BY <1>4, <1>5 DEF f
<1> HIDE DEF f
<1> QED BY <1>1, <1>6, <1>7 DEF f

\* The first cells, and where in them each one starts.
LEMMA CellsUptoIs ==
  ASSUME NEW ks \in Seq(Keys), NEW n \in 0 .. Len(ks)
  PROVE  /\ CellsUpto(ks)[n] \in Seq(Keys \cup {NoKey})
         /\ Len(CellsUpto(ks)[n]) = SumOf(Sizes(ks), n)
         /\ \A i \in 1 .. n : /\ SumOf(Sizes(ks), i - 1) + 1 \in 1 .. Len(CellsUpto(ks)[n])
                             /\ CellsUpto(ks)[n][SumOf(Sizes(ks), i - 1) + 1] = ks[i]
<1> DEFINE u == CellsUpto(ks)
           at(i) == SumOf(Sizes(ks), i)
           Good(m) == /\ u[m] \in Seq(Keys \cup {NoKey})
                      /\ Len(u[m]) = at(m)
                      /\ \A i \in 1 .. m : /\ at(i - 1) + 1 \in 1 .. at(m)
                                          /\ u[m][at(i - 1) + 1] = ks[i]
           S == {m \in Nat : m <= Len(ks) => Good(m)}
<1>1. Len(ks) \in Nat
  OBVIOUS
<1>2. u = [m \in 0 .. Len(ks) |-> IF m = 0 THEN <<>> ELSE u[m - 1] \o Cell(ks[m])]
  BY <1>1, CellsUptoExists
<1> HIDE DEF u
<1>3. u[0] = <<>> /\ \A m \in Nat : m + 1 <= Len(ks) => u[m + 1] = u[m] \o Cell(ks[m + 1])
  BY <1>2
<1>4. at(0) = 0 /\ \A m \in Nat : m <= Len(ks) => at(m) \in Nat
  BY SumZero, SumType, SizesType
<1>5. ASSUME NEW m \in Nat, m + 1 <= Len(ks)
      PROVE  /\ at(m + 1) = at(m) + CellSize[ks[m + 1]]
             /\ ks[m + 1] \in Keys
  <2>1. at(m + 1) = at(m) + Sizes(ks)[m + 1]
    BY SumNext
  <2>2. m + 1 \in 1 .. Len(ks)
    BY <1>5
  <2>3. Sizes(ks)[m + 1] = CellSize[ks[m + 1]]
    BY <2>2, SizesType
  <2> QED BY <2>1, <2>2, <2>3
<1> HIDE DEF at
<1>6. 0 \in S
  <2>1. u[0] \in Seq(Keys \cup {NoKey}) /\ Len(u[0]) = at(0)
    BY <1>3, <1>4
  <2> QED BY <2>1
<1>7. ASSUME NEW m \in Nat, m + 1 <= Len(ks), Good(m)
      PROVE  Good(m + 1)
  <2> HIDE DEF Good
  <2> DEFINE c == Cell(ks[m + 1])
  <2>1. /\ c \in Seq(Keys \cup {NoKey}) /\ Len(c) = CellSize[ks[m + 1]]
        /\ CellSize[ks[m + 1]] \in Nat \ {0} /\ c[1] = ks[m + 1]
    BY <1>5, <1>7, CellType
  <2>2. u[m + 1] = u[m] \o c
    BY <1>3, <1>7
  <2>3. at(m) \in Nat /\ at(m + 1) = at(m) + CellSize[ks[m + 1]]
    BY <1>4, <1>5, <1>7
  <2> HIDE DEF c
  <2>8. /\ u[m] \o c \in Seq(Keys \cup {NoKey})
        /\ Len(u[m] \o c) = Len(u[m]) + Len(c)
        /\ \A i \in 1 .. Len(u[m]) : (u[m] \o c)[i] = u[m][i]
        /\ \A i \in 1 .. Len(c) : (u[m] \o c)[Len(u[m]) + i] = c[i]
    <3> DEFINE B == Keys \cup {NoKey}
               a == u[m]
    <3>1. a \in Seq(B) /\ c \in Seq(B)
      BY <1>7, <2>1 DEF Good
    <3> HIDE DEF B, a
    <3>2. /\ a \o c \in Seq(B)
          /\ Len(a \o c) = Len(a) + Len(c)
          /\ \A i \in 1 .. Len(a) : (a \o c)[i] = a[i]
          /\ \A i \in 1 .. Len(c) : (a \o c)[Len(a) + i] = c[i]
      BY <3>1
    <3> QED BY <3>2 DEF B, a
  <2>4. u[m + 1] \in Seq(Keys \cup {NoKey}) /\ Len(u[m + 1]) = at(m + 1)
    BY <1>7, <2>1, <2>2, <2>3, <2>8 DEF Good
  <2>6. \A i \in 1 .. Len(u[m]) : u[m + 1][i] = u[m][i]
    BY <2>2, <2>8, Zenon
  <2>7. u[m + 1][at(m) + 1] = c[1]
    <3>1. \A i \in 1 .. Len(c) : u[m + 1][Len(u[m]) + i] = c[i]
      BY <2>2, <2>8, Zenon
    <3>2. 1 \in 1 .. Len(c)
      BY <2>1
    <3> QED BY <1>7, <3>1, <3>2, Zenon DEF Good
  <2>5. ASSUME NEW i \in 1 .. m + 1
        PROVE  at(i - 1) + 1 \in 1 .. at(m + 1) /\ u[m + 1][at(i - 1) + 1] = ks[i]
    <3>1. CASE i = m + 1
      <4>2. i - 1 = m
        BY <3>1
      <4>3. at(i - 1) = at(m)
        BY <4>2, Zenon
      <4> QED BY <2>1, <2>3, <2>7, <3>1, <4>3
    <3>2. CASE i # m + 1
      <4>1. i \in 1 .. m
        BY <3>2
      <4>2. at(i - 1) + 1 \in 1 .. at(m) /\ u[m][at(i - 1) + 1] = ks[i]
        BY <1>7, <4>1 DEF Good
      <4> DEFINE j == at(i - 1) + 1
      <4> HIDE DEF j
      <4>3. j \in 1 .. at(m) /\ u[m][j] = ks[i]
        BY <4>2 DEF j
      <4>4. u[m + 1][j] = u[m][j]
        BY <1>7, <2>6, <4>3 DEF Good
      <4>5. j \in 1 .. at(m + 1)
        BY <2>1, <2>3, <4>3
      <4> QED BY <4>3, <4>4, <4>5 DEF j
    <3> QED BY <3>1, <3>2
  <2> QED BY <2>4, <2>5 DEF Good
<1>8. S = Nat
  <2>1. ASSUME NEW m \in S PROVE m + 1 \in S
    <3> HIDE DEF Good
    <3>1. m \in Nat /\ m + 1 \in Nat /\ (m + 1 <= Len(ks) => m <= Len(ks))
      BY <1>1
    <3> QED BY <1>7, <3>1
  <2> HIDE DEF S
  <2> QED BY <1>6, <2>1, NatInductive DEF S
<1>9. Good(n)
  <2> HIDE DEF Good
  <2> QED BY <1>8
<1> QED BY <1>9 DEF u, at

\* The area that compactPage writes: it takes the sizes of its cells and no more, and
\* each slot points at the cell of its key.
LEMMA CellsAre ==
  ASSUME NEW ks \in Seq(Keys)
  PROVE  /\ Cells(ks) \in Seq(Keys \cup {NoKey})
         /\ Len(Cells(ks)) = SumOf(Sizes(ks), Len(ks))
         /\ Offsets(ks) \in Seq(Nat \ {0})
         /\ Len(Offsets(ks)) = Len(ks)
         /\ \A i \in 1 .. Len(ks) : /\ Offsets(ks)[i] <= Len(Cells(ks))
                                   /\ Cells(ks)[Offsets(ks)[i]] = ks[i]
<1>1. Len(ks) \in Nat /\ Len(ks) \in 0 .. Len(ks) /\ DOMAIN ks = 1 .. Len(ks)
  OBVIOUS
<1>2. Cells(ks) = CellsUpto(ks)[Len(ks)]
  BY Zenon DEF Cells, CellsUpto
<1>3. Offsets(ks) = [n \in DOMAIN ks |-> OffsetsUpto(ks)[n]]
  BY Zenon DEF Offsets, OffsetsUpto
<1>4. /\ Cells(ks) \in Seq(Keys \cup {NoKey})
      /\ Len(Cells(ks)) = SumOf(Sizes(ks), Len(ks))
      /\ \A i \in 1 .. Len(ks) : /\ SumOf(Sizes(ks), i - 1) + 1 \in 1 .. Len(Cells(ks))
                                /\ Cells(ks)[SumOf(Sizes(ks), i - 1) + 1] = ks[i]
  BY <1>1, <1>2, CellsUptoIs
<1>5. /\ DOMAIN Offsets(ks) = 1 .. Len(ks)
      /\ \A n \in 1 .. Len(ks) : Offsets(ks)[n] = SumOf(Sizes(ks), n - 1) + 1
  BY <1>1, <1>3, OffsetsUptoIs
<1>6. \A n \in 1 .. Len(ks) : Offsets(ks)[n] \in Nat \ {0}
  <2> SUFFICES ASSUME NEW n \in 1 .. Len(ks) PROVE Offsets(ks)[n] \in Nat \ {0}
    OBVIOUS
  <2>1. n - 1 \in 0 .. Len(ks)
    OBVIOUS
  <2>2. SumOf(Sizes(ks), n - 1) \in Nat
    BY <2>1, SumType, SizesType
  <2> QED BY <1>5, <2>2
<1>7. Offsets(ks) \in [1 .. Len(ks) -> Nat \ {0}]
  <2>1. Offsets(ks) = [n \in 1 .. Len(ks) |-> Offsets(ks)[n]]
    BY <1>1, <1>3, <1>5
  <2> QED BY <1>6, <2>1
<1>8. Offsets(ks) \in Seq(Nat \ {0}) /\ Len(Offsets(ks)) = Len(ks)
  BY <1>1, <1>7
<1>9. ASSUME NEW i \in 1 .. Len(ks)
      PROVE  Offsets(ks)[i] <= Len(Cells(ks)) /\ Cells(ks)[Offsets(ks)[i]] = ks[i]
  BY <1>4, <1>5
<1> QED BY <1>4, <1>8, <1>9

-----------------------------------------------------------------------------
\* Two sequences, one after the other.
LEMMA ConcatIs ==
  ASSUME NEW B, NEW a \in Seq(B), NEW b \in Seq(B)
  PROVE  /\ a \o b \in Seq(B)
         /\ Len(a \o b) = Len(a) + Len(b)
         /\ \A j \in 1 .. Len(a) : (a \o b)[j] = a[j]
         /\ \A j \in 1 .. Len(b) : (a \o b)[Len(a) + j] = b[j]
OBVIOUS

\* The community modules' InsertAt, entry by entry.
LEMMA InsertAtIs ==
  ASSUME NEW B, NEW s \in Seq(B), NEW i \in 1 .. Len(s) + 1, NEW e \in B
  PROVE  /\ InsertAt(s, i, e) \in Seq(B)
         /\ Len(InsertAt(s, i, e)) = Len(s) + 1
         /\ \A j \in 1 .. i - 1 : InsertAt(s, i, e)[j] = s[j]
         /\ InsertAt(s, i, e)[i] = e
         /\ \A j \in i .. Len(s) : InsertAt(s, i, e)[j + 1] = s[j]
<1> DEFINE a == SubSeq(s, 1, i - 1)
           b == SubSeq(s, i, Len(s))
<1>1. a \in Seq(B) /\ Len(a) = i - 1 /\ \A j \in 1 .. i - 1 : a[j] = s[j]
  OBVIOUS
<1>2. b \in Seq(B) /\ Len(b) = Len(s) - i + 1 /\ \A j \in 1 .. Len(s) - i + 1 : b[j] = s[i + j - 1]
  OBVIOUS
<1>3. InsertAt(s, i, e) = a \o <<e>> \o b
  BY DEF InsertAt
<1>4. Len(s) \in Nat
  OBVIOUS
<1> HIDE DEF a, b
<1> DEFINE c == a \o <<e>>
<1>5. /\ c \in Seq(B) /\ Len(c) = i /\ c[i] = e /\ \A j \in 1 .. i - 1 : c[j] = s[j]
  BY <1>1, <1>4
<1> HIDE DEF c
<1>6. /\ c \o b \in Seq(B) /\ Len(c \o b) = Len(s) + 1
      /\ \A j \in 1 .. i : (c \o b)[j] = c[j]
      /\ \A j \in 1 .. Len(s) - i + 1 : (c \o b)[i + j] = b[j]
  <2>1. b \in Seq(B) /\ c \in Seq(B)
    BY <1>2, <1>5
  <2>2. /\ c \o b \in Seq(B)
        /\ Len(c \o b) = Len(c) + Len(b)
        /\ \A j \in 1 .. Len(c) : (c \o b)[j] = c[j]
        /\ \A j \in 1 .. Len(b) : (c \o b)[Len(c) + j] = b[j]
    BY <2>1, ConcatIs
  <2>3. Len(c) = i /\ Len(b) = Len(s) - i + 1
    BY <1>2, <1>5
  <2>4. i + (Len(s) - i + 1) = Len(s) + 1
    BY <1>4
  <2> QED BY <2>2, <2>3, <2>4, Zenon
<1>7. ASSUME NEW j \in i .. Len(s) PROVE (c \o b)[j + 1] = s[j]
  <2>1. j - i + 1 \in 1 .. Len(s) - i + 1 /\ i + (j - i + 1) = j + 1 /\ i + (j - i + 1) - 1 = j
    BY <1>4
  <2>2. (c \o b)[i + (j - i + 1)] = b[j - i + 1]
    BY <1>6, <2>1, Zenon
  <2>3. b[j - i + 1] = s[i + (j - i + 1) - 1]
    BY <1>2, <2>1, Zenon
  <2> QED BY <2>1, <2>2, <2>3
<1>8. i \in 1 .. i /\ 1 .. i - 1 \subseteq 1 .. i
  BY <1>4
<1>9. \A j \in 1 .. i - 1 : (c \o b)[j] = s[j]
  BY <1>5, <1>6, <1>8
<1>10. (c \o b)[i] = e
  BY <1>5, <1>6, <1>8
<1> QED BY <1>3, <1>6, <1>7, <1>9, <1>10 DEF c

\* Their RemoveAt, entry by entry.
LEMMA RemoveAtIs ==
  ASSUME NEW B, NEW s \in Seq(B), NEW i \in 1 .. Len(s)
  PROVE  /\ RemoveAt(s, i) \in Seq(B)
         /\ Len(RemoveAt(s, i)) = Len(s) - 1
         /\ \A j \in 1 .. i - 1 : RemoveAt(s, i)[j] = s[j]
         /\ \A j \in i .. Len(s) - 1 : RemoveAt(s, i)[j] = s[j + 1]
<1> DEFINE a == SubSeq(s, 1, i - 1)
           b == SubSeq(s, i + 1, Len(s))
<1>1. a \in Seq(B) /\ Len(a) = i - 1 /\ \A j \in 1 .. i - 1 : a[j] = s[j]
  OBVIOUS
<1>2. b \in Seq(B) /\ Len(b) = Len(s) - i /\ \A j \in 1 .. Len(s) - i : b[j] = s[i + j]
  OBVIOUS
<1>3. RemoveAt(s, i) = a \o b
  BY DEF RemoveAt
<1>4. Len(s) \in Nat
  OBVIOUS
<1> HIDE DEF a, b
<1>5. /\ a \o b \in Seq(B) /\ Len(a \o b) = Len(s) - 1
      /\ \A j \in 1 .. i - 1 : (a \o b)[j] = a[j]
      /\ \A j \in 1 .. Len(s) - i : (a \o b)[i - 1 + j] = b[j]
  <2>1. /\ a \o b \in Seq(B) /\ Len(a \o b) = Len(a) + Len(b)
        /\ \A j \in 1 .. Len(a) : (a \o b)[j] = a[j]
        /\ \A j \in 1 .. Len(b) : (a \o b)[Len(a) + j] = b[j]
    <3>1. a \in Seq(B) /\ b \in Seq(B)
      BY <1>1, <1>2
    <3> QED BY <3>1, ConcatIs
  <2>2. Len(a) = i - 1 /\ Len(b) = Len(s) - i /\ Len(a) + Len(b) = Len(s) - 1
    BY <1>1, <1>2, <1>4
  <2> QED BY <2>1, <2>2, Zenon
<1>6. ASSUME NEW j \in i .. Len(s) - 1 PROVE (a \o b)[j] = s[j + 1]
  <2>1. j - i + 1 \in 1 .. Len(s) - i /\ i - 1 + (j - i + 1) = j /\ i + (j - i + 1) = j + 1
    BY <1>4
  <2>2. (a \o b)[i - 1 + (j - i + 1)] = b[j - i + 1]
    BY <1>5, <2>1, Zenon
  <2>3. b[j - i + 1] = s[i + (j - i + 1)]
    BY <1>2, <2>1, Zenon
  <2> QED BY <2>1, <2>2, <2>3
<1>7. \A j \in 1 .. i - 1 : (a \o b)[j] = s[j]
  BY <1>1, <1>5
<1> QED BY <1>3, <1>5, <1>6, <1>7

\* Part of a sequence.
LEMMA SubSeqIs ==
  ASSUME NEW B, NEW s \in Seq(B), NEW m \in Nat, NEW n \in Nat, m <= n, n <= Len(s)
  PROVE  /\ SubSeq(s, m + 1, n) \in Seq(B)
         /\ Len(SubSeq(s, m + 1, n)) = n - m
         /\ \A i \in 1 .. n - m : SubSeq(s, m + 1, n)[i] = s[m + i]
<1>1. m + 1 \in 1 .. Len(s) + 1 /\ n \in 0 .. Len(s)
  OBVIOUS
<1>2. SubSeq(s, m + 1, n) = [i \in 1 .. n - m |-> s[m + i]]
  OBVIOUS
<1>3. \A i \in 1 .. n - m : s[m + i] \in B
  OBVIOUS
<1>4. [i \in 1 .. n - m |-> s[m + i]] \in Seq(B) /\ Len([i \in 1 .. n - m |-> s[m + i]]) = n - m
  <2>1. n - m \in Nat
    OBVIOUS
  <2> QED BY <1>3, <2>1
<1> QED BY <1>2, <1>4

\* t is s with e inserted before the element at index, which starts at 0.
IsInserted(t, B, s, index, e) ==
  /\ t \in Seq(B) /\ Len(t) = Len(s) + 1
  /\ \A j \in 1 .. index : t[j] = s[j]
  /\ t[index + 1] = e
  /\ \A j \in index + 1 .. Len(s) : t[j + 1] = s[j]

\* InsertAt with an index that starts at 0.
Inserted(s, index, e) == InsertAt(s, index + 1, e)

\* What it does.
LEMMA InsertedIs ==
  ASSUME NEW B, NEW s \in Seq(B), NEW index \in 0 .. Len(s), NEW e \in B
  PROVE  IsInserted(Inserted(s, index, e), B, s, index, e)
<1> DEFINE i == index + 1
           t == InsertAt(s, i, e)
<1>1. i \in 1 .. Len(s) + 1 /\ s \in Seq(B) /\ e \in B
  OBVIOUS
<1>4. i - 1 = index
  OBVIOUS
<1>5. Inserted(s, index, e) = t
  BY Zenon DEF Inserted
<1> HIDE DEF i
<1>2. /\ t \in Seq(B) /\ Len(t) = Len(s) + 1
      /\ \A j \in 1 .. i - 1 : t[j] = s[j]
      /\ t[i] = e
      /\ \A j \in i .. Len(s) : t[j + 1] = s[j]
  BY <1>1, InsertAtIs
<1> HIDE DEF t
<1>3. \A j \in 1 .. index : t[j] = s[j]
  BY <1>2, <1>4, Zenon
<1> QED BY <1>2, <1>3, <1>5, Zenon DEF i, IsInserted

\* What the entries of the keys ks take of a page.
EntrySizes(ks) == [i \in DOMAIN ks |-> EntrySize(ks[i])]

\* The entries of ks take their cells and a slot each.
LEMMA EntrySums ==
  ASSUME NEW ks \in Seq(Keys)
  PROVE  /\ EntrySizes(ks) \in Seq(Nat) /\ Len(EntrySizes(ks)) = Len(ks)
         /\ \A i \in 1 .. Len(ks) : EntrySizes(ks)[i] = EntrySize(ks[i]) /\ EntrySizes(ks)[i] \in Nat
         /\ \A n \in 0 .. Len(ks) : /\ SumOf(EntrySizes(ks), n) = SumOf(Sizes(ks), n) + n
                                   /\ SumOf(Sizes(ks), n) \in Nat
<1> DEFINE e == EntrySizes(ks)
           z == Sizes(ks)
<1>1. Len(ks) \in Nat /\ DOMAIN ks = 1 .. Len(ks) /\ \A i \in 1 .. Len(ks) : ks[i] \in Keys
  OBVIOUS
<1>2. /\ z \in Seq(Nat) /\ Len(z) = Len(ks)
      /\ \A i \in 1 .. Len(ks) : z[i] = CellSize[ks[i]] /\ z[i] \in Nat
  BY SizesType
<1>3. \A i \in 1 .. Len(ks) : EntrySize(ks[i]) = z[i] + 1 /\ EntrySize(ks[i]) \in Nat
  BY <1>2 DEF EntrySize
<1>4. e = [i \in 1 .. Len(ks) |-> EntrySize(ks[i])]
  BY <1>1 DEF EntrySizes
<1> HIDE DEF e, z
<1>5. /\ e \in Seq(Nat) /\ Len(e) = Len(ks)
      /\ \A i \in 1 .. Len(ks) : e[i] = EntrySize(ks[i]) /\ e[i] = z[i] + 1 /\ e[i] \in Nat
  <2>1. e \in [1 .. Len(ks) -> Nat]
    BY <1>3, <1>4
  <2> QED BY <1>1, <1>3, <1>4, <2>1
<1>6. \A n \in 0 .. Len(ks) : SumOf(z, n) \in Nat
  BY <1>2, SumType
<1> DEFINE S == {n \in Nat : n <= Len(ks) => SumOf(e, n) = SumOf(z, n) + n}
<1>7. 0 \in S
  BY SumZero
<1>8. ASSUME NEW n \in S PROVE n + 1 \in S
  <2> SUFFICES ASSUME n + 1 <= Len(ks) PROVE SumOf(e, n + 1) = SumOf(z, n + 1) + (n + 1)
    OBVIOUS
  <2>1. SumOf(e, n + 1) = SumOf(e, n) + e[n + 1] /\ SumOf(z, n + 1) = SumOf(z, n) + z[n + 1]
    BY SumNext
  <2>2. n \in Nat /\ n + 1 \in 1 .. Len(ks) /\ n \in 0 .. Len(ks)
    BY <1>1
  <2>3. e[n + 1] = z[n + 1] + 1 /\ z[n + 1] \in Nat /\ SumOf(z, n) \in Nat
    BY <1>2, <1>5, <1>6, <2>2
  <2>4. SumOf(e, n) = SumOf(z, n) + n
    BY <1>1, <2>2
  <2> QED BY <2>1, <2>2, <2>3, <2>4
<1>9. S = Nat
  <2> HIDE DEF S
  <2> QED BY <1>7, <1>8, NatInductive DEF S
<1>10. \A n \in 0 .. Len(ks) : SumOf(e, n) = SumOf(z, n) + n
  BY <1>9
<1> QED BY <1>5, <1>6, <1>10 DEF e, z

\* The first entries take as much wherever they are counted.
LEMMA SizesOfFirst ==
  ASSUME NEW ks \in Seq(Keys), NEW js \in Seq(Keys), NEW m \in Nat, m <= Len(ks), m <= Len(js),
         \A i \in 1 .. m : ks[i] = js[i]
  PROVE  SumOf(Sizes(ks), m) = SumOf(Sizes(js), m)
<1>1. /\ \A i \in 1 .. Len(ks) : Sizes(ks)[i] = CellSize[ks[i]]
      /\ \A i \in 1 .. Len(js) : Sizes(js)[i] = CellSize[js[i]]
  BY SizesType
<1>2. \A i \in 1 .. m : i \in 1 .. Len(ks) /\ i \in 1 .. Len(js)
  OBVIOUS
<1>3. \A i \in 1 .. m : Sizes(ks)[i] = Sizes(js)[i]
  BY <1>1, <1>2
<1> QED BY <1>3, SumAgree

\* An entry adds its size.
LEMMA SizesInserted ==
  ASSUME NEW ks \in Seq(Keys), NEW index \in 0 .. Len(ks), NEW k \in Keys
  PROVE  \A n \in index + 1 .. Len(ks) + 1 :
           SumOf(Sizes(InsertAt(ks, index + 1, k)), n) = SumOf(Sizes(ks), n - 1) + CellSize[k]
<1> DEFINE ns == InsertAt(ks, index + 1, k)
           s == Sizes(ks)
           t == Sizes(ns)
<1>1. /\ ns \in Seq(Keys) /\ Len(ns) = Len(ks) + 1
      /\ \A j \in 1 .. index : ns[j] = ks[j]
      /\ ns[index + 1] = k
      /\ \A j \in index + 1 .. Len(ks) : ns[j + 1] = ks[j]
  <2>1. ns = Inserted(ks, index, k)
    BY DEF Inserted
  <2>2. IsInserted(Inserted(ks, index, k), Keys, ks, index, k)
    BY InsertedIs
  <2> HIDE DEF ns
  <2> QED BY <2>1, <2>2, Zenon DEF IsInserted
<1> HIDE DEF ns
<1>2. Len(ks) \in Nat
  OBVIOUS
<1>3. /\ \A i \in 1 .. Len(ks) : s[i] = CellSize[ks[i]] /\ s[i] \in Nat
      /\ \A i \in 1 .. Len(ks) + 1 : t[i] = CellSize[ns[i]] /\ t[i] \in Nat
  BY <1>1, SizesType
<1>4. SumOf(s, index) \in Nat
  BY SizesType, SumType
<1> HIDE DEF s, t
<1> SUFFICES ASSUME NEW n \in index + 1 .. Len(ks) + 1
             PROVE  SumOf(t, n) = SumOf(s, n - 1) + CellSize[k]
  BY DEF s, t, ns
<1>5. \A i \in 1 .. index : t[i] = s[i]
  <2> SUFFICES ASSUME NEW i \in 1 .. index PROVE t[i] = s[i]
    OBVIOUS
  <2>1. i \in 1 .. Len(ks) /\ i \in 1 .. Len(ks) + 1
    BY <1>2
  <2>2. t[i] = CellSize[ns[i]] /\ s[i] = CellSize[ks[i]]
    BY <1>3, <2>1
  <2>3. ns[i] = ks[i]
    BY <1>1
  <2> QED BY <2>2, <2>3
<1>6. \A i \in index + 1 .. n - 1 : t[i + 1] = s[i]
  <2> SUFFICES ASSUME NEW i \in index + 1 .. n - 1 PROVE t[i + 1] = s[i]
    OBVIOUS
  <2>1. i \in 1 .. Len(ks) /\ i + 1 \in 1 .. Len(ks) + 1 /\ i \in index + 1 .. Len(ks)
    BY <1>2
  <2>2. t[i + 1] = CellSize[ns[i + 1]] /\ s[i] = CellSize[ks[i]]
    BY <1>3, <2>1
  <2>3. ns[i + 1] = ks[i]
    BY <1>1, <2>1
  <2> QED BY <2>2, <2>3
<1>7. t[index + 1] = CellSize[k] /\ t[index + 1] \in Int
  <2>1. index + 1 \in 1 .. Len(ks) + 1
    BY <1>2
  <2> QED BY <1>1, <1>3, <2>1
<1>8. \A i \in 1 .. n - 1 : s[i] \in Int
  <2>1. \A i \in 1 .. n - 1 : i \in 1 .. Len(ks)
    BY <1>2
  <2> QED BY <1>3, <2>1
<1>9. n \in Nat /\ index \in Nat /\ index < n /\ SumOf(s, index) \in Int
  BY <1>2, <1>4
<1>10. SumOf(t, n) = SumOf(s, n - 1) + t[index + 1]
  <2>1. OneSizeMore(s, t, index, n)
    BY <1>5, <1>6, <1>7, <1>8, <1>9 DEF OneSizeMore
  <2> QED BY <2>1, SumInserted
<1> QED BY <1>7, <1>10

\* A new entry adds its cell.
LEMMA CellsInserted ==
  ASSUME NEW ks \in Seq(Keys), NEW index \in 0 .. Len(ks), NEW k \in Keys
  PROVE  /\ Inserted(ks, index, k) \in Seq(Keys)
         /\ Len(Inserted(ks, index, k)) = Len(ks) + 1
         /\ Len(Cells(Inserted(ks, index, k))) = Len(Cells(ks)) + CellSize[k]
<1> DEFINE ns == Inserted(ks, index, k)
           n == Len(ks) + 1
<1>1. IsInserted(ns, Keys, ks, index, k)
  BY InsertedIs
<1>2. ns = InsertAt(ks, index + 1, k)
  BY DEF Inserted
<1>3. \A m \in index + 1 .. Len(ks) + 1 : SumOf(Sizes(ns), m) = SumOf(Sizes(ks), m - 1) + CellSize[k]
  BY <1>2, SizesInserted
<1> HIDE DEF ns
<1>4. ns \in Seq(Keys) /\ Len(ns) = n
  BY <1>1, Zenon DEF IsInserted
<1>5. n \in index + 1 .. Len(ks) + 1 /\ n - 1 = Len(ks)
  OBVIOUS
<1> HIDE DEF n
<1>6. SumOf(Sizes(ns), n) = SumOf(Sizes(ks), Len(ks)) + CellSize[k]
  BY <1>3, <1>5
<1>7. Len(Cells(ns)) = SumOf(Sizes(ns), n) /\ Len(Cells(ks)) = SumOf(Sizes(ks), Len(ks))
  BY <1>4, CellsAre
<1>8. Len(Cells(ns)) = Len(Cells(ks)) + CellSize[k]
  BY <1>6, <1>7, Zenon
<1> QED BY <1>4, <1>8 DEF n, ns

-----------------------------------------------------------------------------
(* One page. *)

\* A page that is in order: its entries are within its bounds, and each counted slot
\* points at a key.
PageOK(pg) ==
  /\ pg \in Page
  /\ FreeSpace(pg) >= 0
  /\ InnerFree(pg) >= 0
  /\ \A i \in 1 .. pg.slotCount : LiveKeys(pg)[i] \in Keys

\* The types of the fields of a page.
LEMMA PageFields ==
  ASSUME NEW pg \in Page
  PROVE  /\ pg.room \in Nat \ {0} /\ pg.level \in Nat /\ pg.slotCount \in Nat
         /\ pg.slots \in Seq(Nat \ {0}) /\ Len(pg.slots) \in Nat
         /\ pg.area \in Seq(Keys \cup {NoKey}) /\ Len(pg.area) \in Nat
         /\ pg.seps \in Seq([key : Keys, child : PageLink]) /\ Len(pg.seps) \in Nat
         /\ pg.next \in PageLink /\ pg.prev \in PageLink
BY SlotsAssumption DEF Page

\* What an entry of a page is.
LEMMA KeyAtIs ==
  ASSUME NEW pg \in Page, NEW i \in 1 .. pg.slotCount
  PROVE  LiveKeys(pg)[i] = IF i <= Len(pg.slots) /\ pg.slots[i] <= Len(pg.area)
                           THEN pg.area[pg.slots[i]] ELSE NoKey
<1>1. pg.slotCount \in Nat /\ Len(pg.slots) \in Nat
  BY PageFields
<1>2. LiveKeys(pg)[i] = KeyAt(pg, i - 1)
  BY <1>1 DEF LiveKeys
<1>3. i - 1 + 1 = i /\ (i - 1 < Len(pg.slots) <=> i <= Len(pg.slots))
  BY <1>1
<1> QED BY <1>2, <1>3 DEF KeyAt

\* The counted slots of a page point at keys.
LEMMA LiveSlots ==
  ASSUME NEW pg \in Page
  PROVE  (\A i \in 1 .. pg.slotCount : LiveKeys(pg)[i] \in Keys)
           <=> /\ pg.slotCount <= Len(pg.slots)
               /\ \A i \in 1 .. pg.slotCount : /\ pg.slots[i] <= Len(pg.area)
                                               /\ pg.area[pg.slots[i]] \in Keys
<1>1. pg.slotCount \in Nat /\ Len(pg.slots) \in Nat
  BY PageFields
<1>2. NoKey \notin Keys
  BY SlotsAssumption DEF NoKey
<1>3. \A i \in 1 .. pg.slotCount :
        LiveKeys(pg)[i] = IF i <= Len(pg.slots) /\ pg.slots[i] <= Len(pg.area)
                          THEN pg.area[pg.slots[i]] ELSE NoKey
  BY KeyAtIs
<1>4. ASSUME \A i \in 1 .. pg.slotCount : LiveKeys(pg)[i] \in Keys
      PROVE  pg.slotCount <= Len(pg.slots)
  <2> SUFFICES ASSUME pg.slotCount > Len(pg.slots) PROVE FALSE
    BY <1>1
  <2>1. pg.slotCount \in 1 .. pg.slotCount /\ ~(pg.slotCount <= Len(pg.slots))
    BY <1>1
  <2> QED BY <1>2, <1>3, <1>4, <2>1
<1>5. ASSUME NEW i \in 1 .. pg.slotCount, LiveKeys(pg)[i] \in Keys
      PROVE  pg.slots[i] <= Len(pg.area) /\ pg.area[pg.slots[i]] \in Keys
  BY <1>2, <1>3, <1>5
<1>6. ASSUME pg.slotCount <= Len(pg.slots), NEW i \in 1 .. pg.slotCount,
             pg.slots[i] <= Len(pg.area), pg.area[pg.slots[i]] \in Keys
      PROVE  LiveKeys(pg)[i] \in Keys
  <2>1. i <= Len(pg.slots)
    BY <1>1, <1>6
  <2> QED BY <1>3, <1>6, <2>1
<1> QED BY <1>4, <1>5, <1>6

\* The entries of a page that is in order are keys.
LEMMA LiveKeysType ==
  ASSUME NEW pg, PageOK(pg)
  PROVE  LiveKeys(pg) \in Seq(Keys) /\ Len(LiveKeys(pg)) = pg.slotCount
<1>1. pg.slotCount \in Nat
  BY PageFields DEF PageOK
<1>2. LiveKeys(pg) = [i \in 1 .. pg.slotCount |-> LiveKeys(pg)[i]]
  BY DEF LiveKeys
<1>3. LiveKeys(pg) \in [1 .. pg.slotCount -> Keys]
  <2>1. \A i \in 1 .. pg.slotCount : LiveKeys(pg)[i] \in Keys
    BY DEF PageOK
  <2> QED BY <1>2, <2>1
<1> QED BY <1>1, <1>3

-----------------------------------------------------------------------------
\* compactPage keeps the entries, in order, and packs their cells: what it leaves
\* free is all that the entries do not need.
LEMMA CompactIs ==
  ASSUME NEW pg \in Page, \A i \in 1 .. pg.slotCount : LiveKeys(pg)[i] \in Keys,
         InnerFree(pg) >= 0,
         Len(Cells(LiveKeys(pg))) <= pg.room - pg.slotCount
  PROVE  /\ PageOK(Compact(pg))
         /\ LiveKeys(Compact(pg)) = LiveKeys(pg)
         /\ Compact(pg).slotCount = pg.slotCount
         /\ Len(Compact(pg).area) = Len(Cells(LiveKeys(pg)))
         /\ \A f \in {"room", "level", "seps", "next", "prev"} : Compact(pg)[f] = pg[f]
<1> DEFINE ks == LiveKeys(pg)
           n == pg.slotCount
           c == Compact(pg)
<1>1. n \in Nat /\ pg.room \in Nat /\ pg.slots \in Seq(Nat \ {0}) /\ n <= Len(pg.slots)
  BY PageFields, LiveSlots
<1>2. ks \in Seq(Keys) /\ Len(ks) = n
  <2>1. ks = [i \in 1 .. n |-> ks[i]]
    BY DEF LiveKeys
  <2>2. \A i \in 1 .. n : ks[i] \in Keys
    OBVIOUS
  <2> HIDE DEF ks
  <2>3. ks \in [1 .. n -> Keys]
    BY <2>1, <2>2
  <2> HIDE DEF n
  <2> QED BY <1>1, <2>3
<1> HIDE DEF ks
<1>3. /\ Cells(ks) \in Seq(Keys \cup {NoKey}) /\ Len(Cells(ks)) \in Nat
      /\ Offsets(ks) \in Seq(Nat \ {0}) /\ Len(Offsets(ks)) = n
      /\ \A i \in 1 .. n : /\ Offsets(ks)[i] <= Len(Cells(ks))
                           /\ Cells(ks)[Offsets(ks)[i]] = ks[i]
  BY <1>2, CellsAre
<1> DEFINE s == IF Len(pg.slots) > n THEN Append(Offsets(ks), pg.slots[n + 1]) ELSE Offsets(ks)
<1>4. c = [pg EXCEPT !.slots = s, !.area = Cells(ks)]
  BY DEF Compact, ks
<1>5. s \in Seq(Nat \ {0}) /\ n <= Len(s) /\ \A i \in 1 .. n : s[i] = Offsets(ks)[i]
  <2>1. Len(pg.slots) > n => pg.slots[n + 1] \in Nat \ {0}
    BY <1>1
  <2> QED BY <1>1, <1>3, <2>1
<1> HIDE DEF s, c
<1>6. /\ c \in Page /\ c.slots = s /\ c.area = Cells(ks) /\ c.slotCount = n
      /\ \A f \in {"room", "level", "seps", "next", "prev"} : c[f] = pg[f]
  BY <1>3, <1>4, <1>5 DEF Page
<1>7. \A i \in 1 .. n : c.slots[i] <= Len(c.area) /\ c.area[c.slots[i]] = ks[i]
  BY <1>3, <1>5, <1>6
<1>8. \A i \in 1 .. n : ks[i] \in Keys
  BY <1>2
<1>10. LiveKeys(c) = ks
  <2>1. \A i \in 1 .. n : LiveKeys(c)[i] = ks[i]
    <3> SUFFICES ASSUME NEW i \in 1 .. n PROVE LiveKeys(c)[i] = ks[i]
      OBVIOUS
    <3>1. i <= Len(c.slots)
      BY <1>1, <1>5, <1>6
    <3> QED BY <1>6, <1>7, <3>1, KeyAtIs
  <2>2. LiveKeys(c) = [i \in 1 .. n |-> LiveKeys(c)[i]]
    BY <1>6 DEF LiveKeys
  <2>3. ks = [i \in 1 .. n |-> ks[i]]
    BY DEF ks, LiveKeys
  <2> QED BY <2>1, <2>2, <2>3
<1>9. \A i \in 1 .. n : LiveKeys(c)[i] \in Keys
  BY <1>8, <1>10
<1>11. FreeSpace(c) >= 0 /\ InnerFree(c) >= 0
  BY <1>1, <1>3, <1>6 DEF FreeSpace, InnerFree, SepCount, ks
<1> QED BY <1>6, <1>9, <1>10, <1>11 DEF c, ks, PageOK

\* The fields that insertIntoLeaf, remove and compactPage leave as they are.
Rest == {"room", "level", "seps", "next", "prev"}

\* The slots that a growing area has not overwritten.
LEMMA UncoveredIs ==
  ASSUME NEW s \in Seq(Nat \ {0}), NEW n \in Nat
  PROVE  /\ Uncovered(s, n) \in Seq(Nat \ {0})
         /\ Len(Uncovered(s, n)) = IF Len(s) <= n THEN Len(s) ELSE n
         /\ \A i \in 1 .. Len(Uncovered(s, n)) : Uncovered(s, n)[i] = s[i]
<1> DEFINE m == IF Len(s) <= n THEN Len(s) ELSE n
<1>1. m \in 0 .. Len(s)
  OBVIOUS
<1>2. Uncovered(s, n) = SubSeq(s, 1, m)
  BY DEF Uncovered
<1>3. /\ SubSeq(s, 1, m) \in Seq(Nat \ {0}) /\ Len(SubSeq(s, 1, m)) = m
      /\ \A i \in 1 .. m : SubSeq(s, 1, m)[i] = s[i]
  <2> HIDE DEF m
  <2> QED BY <1>1
<1> QED BY <1>2, <1>3

\* insertIntoLeaf adds one entry at its index, and leaves the others in order.
LEMMA InsertIntoLeafIs ==
  ASSUME NEW pg, PageOK(pg), NEW k \in Keys, NEW index \in 0 .. pg.slotCount,
         EntrySize(k) <= FreeSpace(pg)
  PROVE  /\ PageOK(InsertIntoLeaf(pg, index, k))
         /\ LiveKeys(InsertIntoLeaf(pg, index, k)) = InsertAt(LiveKeys(pg), index + 1, k)
         /\ InsertIntoLeaf(pg, index, k).slotCount = pg.slotCount + 1
         /\ Len(InsertIntoLeaf(pg, index, k).area) = Len(pg.area) + CellSize[k]
         /\ \A f \in Rest : InsertIntoLeaf(pg, index, k)[f] = pg[f]
<1> DEFINE n == pg.slotCount
           a == Len(pg.area)
           old == SubSeq(pg.slots, 1, n)
           new == InsertAt(old, index + 1, a + 1)
           after == SubSeq(pg.slots, n + 2, Len(pg.slots))
           left == pg.room - a - CellSize[k]
           s == Uncovered(new \o after, left)
           c == InsertIntoLeaf(pg, index, k)
           ks == LiveKeys(pg)
           ns == InsertAt(ks, index + 1, k)
<1>1. /\ pg \in Page /\ pg.room \in Nat /\ pg.slots \in Seq(Nat \ {0}) /\ n \in Nat
      /\ pg.area \in Seq(Keys \cup {NoKey}) /\ a \in Nat /\ Len(pg.slots) \in Nat
  BY PageFields DEF PageOK
<1>2. /\ n <= Len(pg.slots)
      /\ \A i \in 1 .. n : pg.slots[i] <= a /\ pg.area[pg.slots[i]] \in Keys
      /\ \A i \in 1 .. n : ks[i] = pg.area[pg.slots[i]]
  <2>1. \A i \in 1 .. n : ks[i] \in Keys
    BY DEF PageOK
  <2>2. /\ n <= Len(pg.slots)
        /\ \A i \in 1 .. n : pg.slots[i] <= a /\ pg.area[pg.slots[i]] \in Keys
    BY <1>1, <2>1, LiveSlots
  <2>3. ASSUME NEW i \in 1 .. n PROVE ks[i] = pg.area[pg.slots[i]]
    <3>1. i <= Len(pg.slots) /\ pg.slots[i] <= a
      BY <1>1, <2>2
    <3> QED BY <1>1, <3>1, KeyAtIs
  <2> QED BY <2>2, <2>3
<1>3. /\ Cell(k) \in Seq(Keys \cup {NoKey}) /\ Len(Cell(k)) = CellSize[k]
      /\ CellSize[k] \in Nat \ {0} /\ Cell(k)[1] = k
  BY CellType
<1>4. left \in Nat /\ left >= n + 1
  <2>1. CellSize[k] + 1 <= pg.room - n - a
    BY DEF EntrySize, FreeSpace
  <2>2. CellSize[k] \in Nat
    BY <1>3
  <2>3. pg.room \in Nat /\ n \in Nat /\ a \in Nat
    BY <1>1
  <2> HIDE DEF a, n
  <2> QED BY <2>1, <2>2, <2>3
<1>5. old \in Seq(Nat \ {0}) /\ Len(old) = n /\ \A i \in 1 .. n : old[i] = pg.slots[i]
  BY <1>1, <1>2
<1>6. after \in Seq(Nat \ {0})
  BY <1>1
<1>7. c = [pg EXCEPT !.slots = s, !.slotCount = n + 1, !.area = pg.area \o Cell(k)]
  BY Zenon DEF InsertIntoLeaf
<1> HIDE DEF old, after, left, c
<1>8. /\ new \in Seq(Nat \ {0}) /\ Len(new) = n + 1
      /\ \A j \in 1 .. index : new[j] = pg.slots[j]
      /\ new[index + 1] = a + 1
      /\ \A j \in index + 1 .. n : new[j + 1] = pg.slots[j]
  <2>1. index + 1 \in 1 .. Len(old) + 1 /\ a + 1 \in Nat \ {0} /\ index + 1 - 1 = index
    BY <1>1, <1>5
  <2>2. /\ new \in Seq(Nat \ {0}) /\ Len(new) = Len(old) + 1
        /\ \A j \in 1 .. index + 1 - 1 : new[j] = old[j]
        /\ new[index + 1] = a + 1
        /\ \A j \in index + 1 .. Len(old) : new[j + 1] = old[j]
    <3> DEFINE i == index + 1
               e == a + 1
               B == Nat \ {0}
               t == InsertAt(old, i, e)
    <3>1. old \in Seq(B) /\ i \in 1 .. Len(old) + 1 /\ e \in B
      BY <1>5, <2>1
    <3> HIDE DEF i, e, B
    <3>2. /\ t \in Seq(B) /\ Len(t) = Len(old) + 1
          /\ \A j \in 1 .. i - 1 : t[j] = old[j]
          /\ t[i] = e
          /\ \A j \in i .. Len(old) : t[j + 1] = old[j]
      BY <3>1, InsertAtIs
    <3>3. new = t
      BY DEF i, e
    <3> HIDE DEF t, new
    <3> HIDE DEF a
    <3> QED BY <3>2, <3>3 DEF i, e, B
  <2>4. /\ \A j \in 1 .. index : j \in 1 .. n
        /\ \A j \in index + 1 .. n : j \in 1 .. n
    BY <1>1
  <2> HIDE DEF new, a, n
  <2>3. Len(old) = n
    BY <1>5
  <2>5. \A i \in 1 .. n : old[i] = pg.slots[i]
    BY <1>5
  <2> QED BY <2>1, <2>2, <2>3, <2>4, <2>5, Zenon
<1> HIDE DEF new
<1>9. /\ s \in Seq(Nat \ {0}) /\ n + 1 <= Len(s)
      /\ \A j \in 1 .. n + 1 : s[j] = new[j]
  <2> DEFINE t == new \o after
  <2>1. /\ t \in Seq(Nat \ {0}) /\ Len(t) = Len(new) + Len(after)
        /\ \A j \in 1 .. Len(new) : t[j] = new[j]
    BY <1>6, <1>8, ConcatIs
  <2>2. Len(after) \in Nat /\ Len(t) >= n + 1
    <3>1. Len(after) \in Nat
      BY <1>6
    <3>2. Len(new) = n + 1
      BY <1>8
    <3> HIDE DEF t, n
    <3> QED BY <1>1, <2>1, <3>1, <3>2
  <2> HIDE DEF t
  <2>3. /\ s \in Seq(Nat \ {0}) /\ Len(s) = IF Len(t) <= left THEN Len(t) ELSE left
        /\ \A i \in 1 .. Len(s) : s[i] = t[i]
    BY <1>4, <2>1, UncoveredIs DEF t
  <2>4. n + 1 <= Len(s)
    BY <1>4, <2>2, <2>3
  <2> HIDE DEF s
  <2>5. \A j \in 1 .. n + 1 : j \in 1 .. Len(s)
    BY <1>1, <2>3, <2>4
  <2> QED BY <1>8, <2>1, <2>3, <2>4, <2>5
<1> HIDE DEF s
<1> DEFINE area == pg.area \o Cell(k)
<1>10. /\ area \in Seq(Keys \cup {NoKey}) /\ Len(area) = a + CellSize[k]
       /\ \A j \in 1 .. a : area[j] = pg.area[j]
       /\ area[a + 1] = k
  <2>1. /\ area \in Seq(Keys \cup {NoKey}) /\ Len(area) = Len(pg.area) + Len(Cell(k))
        /\ \A j \in 1 .. Len(pg.area) : area[j] = pg.area[j]
        /\ \A j \in 1 .. Len(Cell(k)) : area[Len(pg.area) + j] = Cell(k)[j]
    <3>1. pg.area \in Seq(Keys \cup {NoKey}) /\ Cell(k) \in Seq(Keys \cup {NoKey})
      BY <1>1, <1>3
    <3> QED BY <3>1, ConcatIs
  <2>2. 1 \in 1 .. Len(Cell(k))
    BY <1>3
  <2> QED BY <1>3, <2>1, <2>2
<1> HIDE DEF area
<1>11. /\ c \in Page /\ c.slots = s /\ c.area = area /\ c.slotCount = n + 1
       /\ \A f \in Rest : c[f] = pg[f]
  <2>1. /\ c \in Page /\ c.slots = s /\ c.area = area /\ c.slotCount = n + 1
        /\ c.room = pg.room /\ c.level = pg.level /\ c.seps = pg.seps
        /\ c.next = pg.next /\ c.prev = pg.prev
    <3>1. c = [pg EXCEPT !.slots = s, !.slotCount = n + 1, !.area = area]
      BY <1>7 DEF area
    <3>2. n + 1 \in Nat
      BY <1>1
    <3> QED BY <1>1, <1>9, <1>10, <3>1, <3>2 DEF Page
  <2> QED BY <2>1 DEF Rest
<1>12. ks \in Seq(Keys) /\ Len(ks) = n
  BY LiveKeysType
<1> HIDE DEF ks
<1>13. /\ ns \in Seq(Keys) /\ Len(ns) = n + 1
       /\ \A j \in 1 .. index : ns[j] = ks[j]
       /\ ns[index + 1] = k
       /\ \A j \in index + 1 .. n : ns[j + 1] = ks[j]
  <2>1. index + 1 \in 1 .. Len(ks) + 1 /\ index + 1 - 1 = index
    BY <1>1, <1>12
  <2>2. /\ ns \in Seq(Keys) /\ Len(ns) = Len(ks) + 1
        /\ \A j \in 1 .. index + 1 - 1 : ns[j] = ks[j]
        /\ ns[index + 1] = k
        /\ \A j \in index + 1 .. Len(ks) : ns[j + 1] = ks[j]
    BY <1>12, <2>1, InsertAtIs
  <2> HIDE DEF ns, n
  <2> QED BY <1>1, <1>12, <2>1, <2>2
<1> HIDE DEF ns
<1>14. ASSUME NEW j \in 1 .. n + 1
       PROVE  s[j] <= Len(area) /\ area[s[j]] = ns[j]
  <2>1. CASE j <= index
    <3>1. j \in 1 .. index /\ j \in 1 .. n
      BY <1>1, <2>1
    <3>2. s[j] = pg.slots[j] /\ ns[j] = ks[j]
      BY <1>8, <1>9, <1>13, <3>1
    <3>3. s[j] \in Nat \ {0} /\ s[j] <= a /\ pg.area[s[j]] = ks[j]
      <4>1. j \in 1 .. Len(pg.slots) /\ pg.slots[j] <= a /\ j \in 1 .. pg.slotCount
        BY <1>1, <1>2, <3>1
      <4>2. pg.slots[j] \in Nat \ {0}
        BY <1>1, <4>1
      <4>4. pg \in Page
        BY DEF PageOK
      <4>3. pg.area[pg.slots[j]] = ks[j]
        BY <4>1, <4>4, KeyAtIs DEF ks
      <4> QED BY <3>2, <4>1, <4>2, <4>3
    <3>4. s[j] \in 1 .. a
      BY <1>1, <3>3
    <3>5. area[s[j]] = pg.area[s[j]]
      BY <1>10, <3>4
    <3>6. s[j] <= Len(area)
      BY <1>1, <1>3, <1>10, <3>4
    <3>7. area[s[j]] = ns[j]
      BY <3>2, <3>3, <3>5, Zenon
    <3> QED BY <3>6, <3>7, Zenon
  <2>2. CASE j = index + 1
    <3>1. s[j] = a + 1 /\ ns[j] = k
      BY <1>8, <1>9, <1>13, <2>2
    <3> QED BY <1>1, <1>3, <1>10, <3>1
  <2>3. CASE j > index + 1
    <3>1. j - 1 \in index + 1 .. n /\ j - 1 \in 1 .. n /\ j - 1 + 1 = j
      BY <1>1, <2>3
    <3>2. s[j] = pg.slots[j - 1] /\ ns[j] = ks[j - 1]
      <4>1. new[j - 1 + 1] = pg.slots[j - 1] /\ ns[j - 1 + 1] = ks[j - 1]
        BY <1>8, <1>13, <3>1
      <4> QED BY <1>9, <3>1, <4>1
    <3>3. s[j] \in Nat \ {0} /\ s[j] <= a /\ pg.area[s[j]] = ks[j - 1]
      BY <1>1, <1>2, <3>1, <3>2 DEF ks
    <3>4. s[j] \in 1 .. a
      BY <1>1, <3>3
    <3>5. area[s[j]] = pg.area[s[j]]
      BY <1>10, <3>4
    <3>6. s[j] <= Len(area)
      BY <1>1, <1>3, <1>10, <3>4
    <3>7. area[s[j]] = ns[j]
      BY <3>2, <3>3, <3>5, Zenon
    <3> QED BY <3>6, <3>7, Zenon
  <2> QED BY <1>1, <2>1, <2>2, <2>3
<1>15. LiveKeys(c) = ns
  <2>1. ASSUME NEW j \in 1 .. n + 1 PROVE LiveKeys(c)[j] = ns[j]
    <3>1. j <= Len(s)
      BY <1>1, <1>9
    <3> QED BY <1>11, <1>14, <3>1, KeyAtIs
  <2>2. LiveKeys(c) = [j \in 1 .. n + 1 |-> LiveKeys(c)[j]]
    BY <1>11 DEF LiveKeys
  <2>3. ns = [j \in 1 .. n + 1 |-> ns[j]]
    BY <1>13
  <2> QED BY <2>1, <2>2, <2>3
<1>16. \A j \in 1 .. c.slotCount : LiveKeys(c)[j] \in Keys
  BY <1>11, <1>13, <1>15
<1>17. FreeSpace(c) >= 0 /\ InnerFree(c) >= 0
  <2>1. c.room = pg.room /\ c.seps = pg.seps
    BY <1>11 DEF Rest
  <2>2. InnerFree(c) >= 0
    BY <2>1 DEF InnerFree, SepCount, PageOK
  <2>3. FreeSpace(c) = pg.room - (n + 1) - (a + CellSize[k])
    BY <1>10, <1>11, <2>1 DEF FreeSpace
  <2>5. CellSize[k] + 1 <= pg.room - n - a
    BY DEF EntrySize, FreeSpace
  <2>6. CellSize[k] \in Nat
    BY <1>3
  <2>7. pg.room \in Int /\ n \in Int /\ a \in Int
    BY <1>1 DEF Page, PageOK
  <2>4. FreeSpace(c) >= 0
    <3> DEFINE x == CellSize[k]
               y == pg.room
    <3>1. x \in Int /\ y \in Int /\ x + 1 <= y - n - a
      BY <2>5, <2>6, <2>7
    <3>2. FreeSpace(c) = y - (n + 1) - (a + x)
      BY <2>3, Zenon
    <3> HIDE DEF n, a, x, y
    <3>3. y - (n + 1) - (a + x) >= 0
      BY <2>7, <3>1
    <3> QED BY <3>2, <3>3, Zenon
  <2> QED BY <2>2, <2>4
<1> QED BY <1>10, <1>11, <1>15, <1>16, <1>17 DEF c, ns, ks, PageOK

\* The entries of a page are its counted slots and what they point at.
LEMMA LiveKeysAre ==
  ASSUME NEW pg \in Page, NEW ks \in Seq(Keys), pg.slotCount = Len(ks),
         Len(ks) <= Len(pg.slots),
         \A i \in 1 .. Len(ks) : pg.slots[i] <= Len(pg.area) /\ pg.area[pg.slots[i]] = ks[i]
  PROVE  LiveKeys(pg) = ks /\ \A i \in 1 .. pg.slotCount : LiveKeys(pg)[i] \in Keys
<1>1. Len(ks) \in Nat /\ Len(pg.slots) \in Nat /\ ks = [i \in 1 .. Len(ks) |-> ks[i]]
      /\ \A i \in 1 .. Len(ks) : ks[i] \in Keys
  BY PageFields
<1>2. ASSUME NEW i \in 1 .. Len(ks) PROVE LiveKeys(pg)[i] = ks[i]
  <2>1. i <= Len(pg.slots)
    BY <1>1
  <2> QED BY <2>1, KeyAtIs
<1>3. LiveKeys(pg) = [i \in 1 .. Len(ks) |-> LiveKeys(pg)[i]]
  BY DEF LiveKeys
<1>4. LiveKeys(pg) = ks
  BY <1>1, <1>2, <1>3
<1> QED BY <1>1, <1>4

\* remove takes the entry at its index away, or the last one if index is past it.
LEMMA RemoveFromLeafIs ==
  ASSUME NEW pg, PageOK(pg), pg.slotCount > 0, NEW index \in 0 .. pg.slotCount
  PROVE  /\ PageOK(RemoveFromLeaf(pg, index))
         /\ LiveKeys(RemoveFromLeaf(pg, index))
              = IF index = pg.slotCount THEN SubSeq(LiveKeys(pg), 1, pg.slotCount - 1)
                ELSE RemoveAt(LiveKeys(pg), index + 1)
         /\ RemoveFromLeaf(pg, index).slotCount = pg.slotCount - 1
         /\ \A f \in Rest : RemoveFromLeaf(pg, index)[f] = pg[f]
         /\ RemoveFromLeaf(pg, index).area = pg.area
<1> DEFINE n == pg.slotCount
           s == RemoveFromLeaf(pg, index).slots
           c == RemoveFromLeaf(pg, index)
           ks == LiveKeys(pg)
           ns == IF index = n THEN SubSeq(ks, 1, n - 1) ELSE RemoveAt(ks, index + 1)
<1>1. /\ pg \in Page /\ pg.room \in Nat /\ pg.slots \in Seq(Nat \ {0}) /\ n \in Nat
      /\ pg.area \in Seq(Keys \cup {NoKey}) /\ Len(pg.area) \in Nat /\ Len(pg.slots) \in Nat
  BY PageFields DEF PageOK
<1>2. /\ n <= Len(pg.slots)
      /\ \A i \in 1 .. n : pg.slots[i] <= Len(pg.area) /\ pg.area[pg.slots[i]] = ks[i]
  <2>1. \A i \in 1 .. n : ks[i] \in Keys
    BY DEF PageOK
  <2>2. /\ n <= Len(pg.slots)
        /\ \A i \in 1 .. n : pg.slots[i] <= Len(pg.area) /\ pg.area[pg.slots[i]] \in Keys
    BY <1>1, <2>1, LiveSlots
  <2>3. ASSUME NEW i \in 1 .. n PROVE pg.area[pg.slots[i]] = ks[i]
    <3>1. i <= Len(pg.slots) /\ pg.slots[i] <= Len(pg.area)
      BY <1>1, <2>2
    <3> QED BY <1>1, <3>1, KeyAtIs
  <2> QED BY <2>2, <2>3
<1>3. ks \in Seq(Keys) /\ Len(ks) = n
  BY LiveKeysType
<1> HIDE DEF ks
<1>4. /\ s \in Seq(Nat \ {0}) /\ n - 1 <= Len(s)
      /\ ns \in Seq(Keys) /\ Len(ns) = n - 1
      /\ \A i \in 1 .. n - 1 : s[i] <= Len(pg.area) /\ pg.area[s[i]] = ns[i]
  <2>1. CASE index = n
    <3>1. s = pg.slots
      BY <1>1, <2>1 DEF RemoveFromLeaf, Page
    <3>2. ns = SubSeq(ks, 0 + 1, n - 1)
      BY <2>1
    <3>3. SubSeq(ks, 0 + 1, n - 1) \in Seq(Keys) /\ Len(SubSeq(ks, 0 + 1, n - 1)) = n - 1 - 0
          /\ \A i \in 1 .. n - 1 - 0 : SubSeq(ks, 0 + 1, n - 1)[i] = ks[0 + i]
      <4>1. 0 \in Nat /\ n - 1 \in Nat /\ 0 <= n - 1 /\ n - 1 <= Len(ks)
        BY <1>1, <1>3
      <4> QED BY <1>3, <4>1, SubSeqIs
    <3> HIDE DEF ns, s, n
    <3>4. \A i \in 1 .. n - 1 : i \in 1 .. n /\ ns[i] = ks[i]
      BY <1>1, <3>2, <3>3
    <3> QED BY <1>1, <1>2, <3>1, <3>2, <3>3, <3>4
  <2>2. CASE index # n
    <3> DEFINE i == index + 1
               old == SubSeq(pg.slots, 1, n)
               t == RemoveAt(old, i)
               after == SubSeq(pg.slots, n, Len(pg.slots))
    <3>1. i \in 1 .. n /\ ~(index >= n)
      BY <1>1, <2>2
    <3>2. s = t \o after
      BY <1>1, <3>1 DEF RemoveFromLeaf, Page
    <3>3. old \in Seq(Nat \ {0}) /\ Len(old) = n /\ \A j \in 1 .. n : old[j] = pg.slots[j]
      BY <1>1, <1>2
    <3>4. after \in Seq(Nat \ {0})
      BY <1>1, <1>2
    <3>5. ns = RemoveAt(ks, i)
      BY <2>2
    <3> HIDE DEF old, after, i, s, ns
    <3>6. /\ t \in Seq(Nat \ {0}) /\ Len(t) = n - 1
          /\ \A j \in 1 .. i - 1 : t[j] = old[j]
          /\ \A j \in i .. n - 1 : t[j] = old[j + 1]
      <4>1. i \in 1 .. Len(old) /\ i \in 1 .. n
        BY <3>1, <3>3
      <4>2. /\ t \in Seq(Nat \ {0}) /\ Len(t) = Len(old) - 1
            /\ \A j \in 1 .. i - 1 : t[j] = old[j]
            /\ \A j \in i .. Len(old) - 1 : t[j] = old[j + 1]
        BY <3>3, <4>1, RemoveAtIs
      <4> HIDE DEF t, n
      <4> QED BY <3>3, <4>2
    <3>7. /\ ns \in Seq(Keys) /\ Len(ns) = n - 1
          /\ \A j \in 1 .. i - 1 : ns[j] = ks[j]
          /\ \A j \in i .. n - 1 : ns[j] = ks[j + 1]
      <4> HIDE DEF n
      <4>1. Len(ks) = n /\ ks \in Seq(Keys) /\ i \in 1 .. Len(ks)
        BY <1>3, <3>1
      <4>2. /\ RemoveAt(ks, i) \in Seq(Keys) /\ Len(RemoveAt(ks, i)) = Len(ks) - 1
            /\ \A j \in 1 .. i - 1 : RemoveAt(ks, i)[j] = ks[j]
            /\ \A j \in i .. Len(ks) - 1 : RemoveAt(ks, i)[j] = ks[j + 1]
        BY <4>1, RemoveAtIs
      <4> QED BY <3>5, <4>1, <4>2, Zenon
    <3> HIDE DEF t
    <3>8. /\ s \in Seq(Nat \ {0}) /\ Len(s) = Len(t) + Len(after)
          /\ \A j \in 1 .. Len(t) : s[j] = t[j]
      <4>1. t \in Seq(Nat \ {0})
        BY <3>6
      <4>2. /\ t \o after \in Seq(Nat \ {0}) /\ Len(t \o after) = Len(t) + Len(after)
            /\ \A j \in 1 .. Len(t) : (t \o after)[j] = t[j]
        BY <3>4, <4>1, ConcatIs
      <4> QED BY <3>2, <4>2, Zenon
    <3>9. Len(after) \in Nat
      BY <3>4
    <3> HIDE DEF n
    <3>10. ASSUME NEW j \in 1 .. n - 1
           PROVE  s[j] <= Len(pg.area) /\ pg.area[s[j]] = ns[j]
      <4>1. s[j] = t[j]
        BY <3>6, <3>8
      <4>2. CASE j < i
        <5>1. j \in 1 .. i - 1 /\ j \in 1 .. n
          BY <1>1, <3>1, <4>2
        <5>2. s[j] = pg.slots[j] /\ ns[j] = ks[j]
          BY <3>3, <3>6, <3>7, <4>1, <5>1
        <5> QED BY <1>2, <5>1, <5>2
      <4>3. CASE j >= i
        <5>1. j \in i .. n - 1 /\ j + 1 \in 1 .. n
          BY <1>1, <3>1, <4>3
        <5>2. s[j] = pg.slots[j + 1] /\ ns[j] = ks[j + 1]
          BY <3>3, <3>6, <3>7, <4>1, <5>1
        <5> QED BY <1>2, <5>1, <5>2
      <4> QED BY <1>1, <3>1, <4>2, <4>3
    <3>11. n - 1 <= Len(s)
      BY <1>1, <3>6, <3>8, <3>9
    <3> QED BY <3>7, <3>8, <3>10, <3>11
  <2> QED BY <2>1, <2>2
<1>5. /\ c = [pg EXCEPT !.slots = s, !.slotCount = n - 1]
  BY <1>1 DEF RemoveFromLeaf, Page
<1> HIDE DEF s, c, ns
<1>6. /\ c \in Page /\ c.slots = s /\ c.area = pg.area /\ c.slotCount = n - 1
      /\ c.room = pg.room /\ c.level = pg.level /\ c.seps = pg.seps
      /\ c.next = pg.next /\ c.prev = pg.prev
  <2>1. n - 1 \in Nat
    BY <1>1
  <2> QED BY <1>1, <1>4, <1>5, <2>1 DEF Page
<1>7. LiveKeys(c) = ns /\ \A i \in 1 .. c.slotCount : LiveKeys(c)[i] \in Keys
  BY <1>4, <1>6, LiveKeysAre
<1>8. FreeSpace(c) >= 0 /\ InnerFree(c) >= 0
  <2>1. InnerFree(c) >= 0
    BY <1>6 DEF InnerFree, SepCount, PageOK
  <2>2. FreeSpace(c) = pg.room - (n - 1) - Len(pg.area)
    BY <1>6 DEF FreeSpace
  <2>3. pg.room - n - Len(pg.area) >= 0
    BY DEF PageOK, FreeSpace
  <2>4. FreeSpace(c) >= 0
    <3> HIDE DEF n
    <3> QED BY <1>1, <2>2, <2>3
  <2> QED BY <2>1, <2>4
<1>9. \A f \in Rest : c[f] = pg[f]
  BY <1>6 DEF Rest
<1> QED BY <1>6, <1>7, <1>8, <1>9 DEF c, ns, ks, PageOK

\* Any page has room for a separator.
LEMMA RoomIs ==
  ASSUME NEW pg \in Page
  PROVE  pg.room \in Nat /\ pg.room >= SepNeed /\ pg.room \div 2 > 0
<1>1. pg.room \in {ZeroUsable, Usable} /\ ZeroUsable \in Nat /\ Usable \in Nat /\ ZeroUsable <= Usable
      /\ SepNeed \in Nat /\ SepNeed >= 3
  BY SlotsAssumption DEF Page, SepNeed
<1>2. pg.room \in Nat /\ pg.room >= SepNeed /\ pg.room >= 3
  BY <1>1, RoomAssumption
<1> QED BY <1>2

\* A page with fewer of its entries counted.
OnlyFirst(pg, m, next) == [pg EXCEPT !.slotCount = m, !.next = next]

\* A page with fewer of its entries counted is in order: splitLeaf lowers slotCount.
LEMMA FirstEntries ==
  ASSUME NEW pg, PageOK(pg), NEW m \in 0 .. pg.slotCount, NEW next \in PageLink
  PROVE  /\ PageOK(OnlyFirst(pg, m, next))
         /\ LiveKeys(OnlyFirst(pg, m, next)) = SubSeq(LiveKeys(pg), 1, m)
         /\ OnlyFirst(pg, m, next).slotCount = m /\ OnlyFirst(pg, m, next).area = pg.area
         /\ OnlyFirst(pg, m, next).next = next
         /\ \A f \in {"room", "level", "seps", "prev"} : OnlyFirst(pg, m, next)[f] = pg[f]
<1> DEFINE c == OnlyFirst(pg, m, next)
           ks == LiveKeys(pg)
           ns == SubSeq(ks, 0 + 1, m)
           n == pg.slotCount
<1>1. /\ pg \in Page /\ n \in Nat /\ Len(pg.slots) \in Nat /\ Len(pg.area) \in Nat /\ pg.room \in Nat
  BY PageFields DEF PageOK
<1>2. ks \in Seq(Keys) /\ Len(ks) = n
  BY LiveKeysType
<1>3. \A i \in 1 .. n : ks[i] \in Keys
  BY DEF PageOK
<1>4. n <= Len(pg.slots) /\ \A i \in 1 .. n : pg.slots[i] <= Len(pg.area) /\ pg.area[pg.slots[i]] \in Keys
  BY <1>1, <1>3, LiveSlots
<1>5. \A i \in 1 .. n : ks[i] = pg.area[pg.slots[i]]
  <2> SUFFICES ASSUME NEW i \in 1 .. n PROVE ks[i] = pg.area[pg.slots[i]]
    OBVIOUS
  <2>1. i <= Len(pg.slots) /\ pg.slots[i] <= Len(pg.area)
    BY <1>1, <1>4
  <2> QED BY <1>1, <2>1, KeyAtIs
<1> HIDE DEF ks
<1>6. ns \in Seq(Keys) /\ Len(ns) = m - 0 /\ \A i \in 1 .. m - 0 : ns[i] = ks[0 + i]
  <2>1. 0 \in Nat /\ m \in Nat /\ 0 <= m /\ m <= Len(ks)
    BY <1>1, <1>2
  <2> QED BY <1>2, <2>1, SubSeqIs
<1>7. /\ c \in Page /\ c.slotCount = m /\ c.slots = pg.slots
      /\ c.area = pg.area /\ c.room = pg.room /\ c.level = pg.level /\ c.seps = pg.seps
      /\ c.next = next /\ c.prev = pg.prev
  <2>1. c = [pg EXCEPT !.slotCount = m, !.next = next]
    BY DEF OnlyFirst
  <2>2. m \in Nat
    BY <1>1
  <2> HIDE DEF c
  <2> QED BY <1>1, <2>1, <2>2 DEF Page
<1> HIDE DEF c, ns, n
<1>8. m \in Nat /\ m <= n /\ Len(ns) = m /\ \A i \in 1 .. m : i \in 1 .. n /\ ns[i] = ks[i]
  BY <1>1, <1>6 DEF n
<1>9. LiveKeys(c) = ns /\ \A i \in 1 .. c.slotCount : LiveKeys(c)[i] \in Keys
  <2>1. Len(ns) <= Len(c.slots)
    BY <1>1, <1>4, <1>7, <1>8
  <2>2. \A i \in 1 .. Len(ns) : c.slots[i] <= Len(c.area) /\ c.area[c.slots[i]] = ns[i]
    BY <1>4, <1>5, <1>7, <1>8
  <2> QED BY <1>6, <1>7, <1>8, <2>1, <2>2, LiveKeysAre
<1>10. InnerFree(c) >= 0
  BY <1>7 DEF InnerFree, SepCount, PageOK
<1>11. FreeSpace(c) >= 0
  <2>1. FreeSpace(c) = pg.room - m - Len(pg.area)
    BY <1>7 DEF FreeSpace
  <2>2. pg.room - n - Len(pg.area) >= 0
    BY DEF PageOK, FreeSpace, n
  <2> QED BY <1>1, <1>8, <2>1, <2>2
<1> QED BY <1>7, <1>9, <1>10, <1>11 DEF c, ns, ks, PageOK

\* The two pages new.left and new.right have the keys of merged, the first of them
\* the first split ones, and new.key is the first that the other has.
Halves(new, merged, split) ==
  /\ new.stay > 0 => split > 0
  /\ new.key = merged[split + 1]
  /\ new.left.slotCount = split
  /\ \A i \in 1 .. split : LiveKeys(new.left)[i] = merged[i]
  /\ FreeSpace(new.right) >= 0 =>
       /\ new.right.slotCount = Len(merged) - split
       /\ \A i \in 1 .. Len(merged) - split : LiveKeys(new.right)[i] = merged[split + i]

\* What splitLeaf makes of a leaf: the entries that stay fit, and there is one that
\* goes, whose key separates the two.
LEMMA LeafSplitIs ==
  ASSUME NEW k \in Keys, NEW at, NEW pg, pg = pages[at.leaf], PageOK(pg), pg.seps = <<>>,
         at.index \in 0 .. pg.slotCount, at.leaf \in PageNum, NextPageNum \in PageNum,
         MustSplit(pg, k)
  PROVE  LET new == LeafSplit(k, at) IN
         /\ PageOK(new.left) /\ new.left.level = pg.level /\ new.left.seps = <<>>
         /\ new.left.prev = pg.prev /\ new.left.next = NextPageNum
         /\ Len(new.left.area) = Len(Cells(LiveKeys(new.left)))
         /\ FreeSpace(new.right) >= 0 => PageOK(new.right)
         /\ new.right.level = 0 /\ new.right.seps = <<>>
         /\ new.right.prev = at.leaf /\ new.right.next = pg.next
         /\ new.key \in Keys
         /\ \E split \in 0 .. pg.slotCount :
              Halves(new, InsertAt(LiveKeys(pg), at.index + 1, k), split)
<1> DEFINE ks     == LiveKeys(pg)
           n      == pg.slotCount
           index  == at.index
           merged == InsertAt(ks, index + 1, k)
           e      == [i \in DOMAIN merged |-> EntrySize(merged[i])]
           split  == SplitIndex(pg, e)
           stay   == StayBelow(index, split)
           first  == [Compact(pg) EXCEPT !.slotCount = stay, !.next = NextPageNum]
           kept   == Compact(first)
           left   == IF index < split THEN InsertIntoLeaf(kept, index, k) ELSE kept
           right  == [FillLeaf(NewPage, SubSeq(merged, split + 1, Len(merged))) EXCEPT
                        !.level = 0, !.next = pg.next, !.prev = at.leaf]
           fs     == SubSeq(ks, 1, stay)
           sum(m) == SumOf(Sizes(ks), m)
<1>1. LeafSplit(k, at) = [stay |-> stay, key |-> merged[split + 1], left |-> left, right |-> right]
  BY Zenon DEF LeafSplit
<1>2. /\ n \in Nat /\ pg \in Page /\ pg.room \in Nat /\ pg.room \div 2 > 0 /\ pg.room >= 0
      /\ pg.next \in PageLink /\ pg.prev \in PageLink
  BY PageFields, RoomIs DEF PageOK
<1>3. ks \in Seq(Keys) /\ Len(ks) = n
  BY LiveKeysType
<1>4. index \in 0 .. n /\ index \in Nat /\ index <= n
  BY <1>2
<1>5. CellSize[k] \in Nat \ {0}
  BY SlotsAssumption
<1>6. /\ Len(Cells(ks)) = sum(n) /\ \A m \in 0 .. n : sum(m) \in Nat
  BY <1>3, CellsAre, EntrySums
<1>7. sum(n) <= pg.room - (n + 1)
  BY <1>6 DEF MustSplit, Compactable
<1>8. /\ PageOK(Compact(pg)) /\ LiveKeys(Compact(pg)) = ks /\ Compact(pg).slotCount = n
      /\ Len(Compact(pg).area) = sum(n)
      /\ Compact(pg).room = pg.room /\ Compact(pg).level = pg.level /\ Compact(pg).seps = <<>>
      /\ Compact(pg).prev = pg.prev
  <2>1. sum(n) \in Nat
    BY <1>2, <1>6
  <2>2. Len(Cells(ks)) <= pg.room - n
    <3> HIDE DEF sum, ks, n
    <3> QED BY <1>2, <1>6, <1>7, <2>1
  <2>3. InnerFree(pg) >= 0 /\ \A i \in 1 .. pg.slotCount : LiveKeys(pg)[i] \in Keys
    BY DEF PageOK
  <2>4. /\ PageOK(Compact(pg)) /\ LiveKeys(Compact(pg)) = LiveKeys(pg)
        /\ Compact(pg).slotCount = pg.slotCount
        /\ Len(Compact(pg).area) = Len(Cells(LiveKeys(pg)))
        /\ \A f \in {"room", "level", "seps", "next", "prev"} : Compact(pg)[f] = pg[f]
    BY <1>2, <2>2, <2>3, CompactIs
  <2> QED BY <1>6, <2>4
<1>9. pg.room - n - sum(n) < CellSize[k] + 1
  <2>1. FreeSpace(Compact(pg)) = pg.room - n - sum(n)
    BY <1>8 DEF FreeSpace
  <2>2. ~(CellSize[k] + 1 <= FreeSpace(Compact(pg)))
    BY DEF MustSplit, Fits, EntrySize
  <2>3. sum(n) \in Nat
    BY <1>2, <1>6
  <2>4. pg.room - n - sum(n) \in Int /\ CellSize[k] + 1 \in Int
    BY <1>2, <1>5, <2>3
  <2> HIDE DEF sum, n
  <2> QED BY <2>1, <2>2, <2>4
<1> HIDE DEF ks, n, index
<1>10. /\ merged \in Seq(Keys) /\ Len(merged) = n + 1
       /\ \A j \in 1 .. index : merged[j] = ks[j]
       /\ merged[index + 1] = k
       /\ \A j \in index + 1 .. n : merged[j + 1] = ks[j]
  <2>1. merged = Inserted(ks, index, k)
    BY DEF Inserted
  <2>2. IsInserted(Inserted(ks, index, k), Keys, ks, index, k)
    BY <1>3, <1>4, InsertedIs
  <2> HIDE DEF merged
  <2> QED BY <1>3, <2>1, <2>2, Zenon DEF IsInserted
<1>11. /\ \A m \in index + 1 .. n + 1 : SumOf(Sizes(merged), m) = sum(m - 1) + CellSize[k]
       /\ \A m \in 0 .. index : SumOf(Sizes(merged), m) = sum(m)
  <2>1. \A m \in index + 1 .. Len(ks) + 1 : SumOf(Sizes(merged), m) = sum(m - 1) + CellSize[k]
    BY <1>3, <1>4, SizesInserted
  <2> HIDE DEF merged
  <2>2. ASSUME NEW m \in 0 .. index PROVE SumOf(Sizes(merged), m) = sum(m)
    <3>1. m \in Nat /\ m <= Len(merged) /\ m <= Len(ks) /\ \A i \in 1 .. m : merged[i] = ks[i]
      BY <1>2, <1>3, <1>4, <1>10
    <3> QED BY <1>3, <1>10, <3>1, SizesOfFirst
  <2> QED BY <1>3, <2>1, <2>2
<1> HIDE DEF merged
<1>12. /\ e \in Seq(Nat) /\ Len(e) = n + 1
       /\ \A m \in 0 .. n + 1 : SumOf(e, m) = SumOf(Sizes(merged), m) + m
  <2>1. e = EntrySizes(merged)
    BY DEF EntrySizes
  <2>2. /\ EntrySizes(merged) \in Seq(Nat) /\ Len(EntrySizes(merged)) = Len(merged)
        /\ \A m \in 0 .. Len(merged) : SumOf(EntrySizes(merged), m) = SumOf(Sizes(merged), m) + m
    BY <1>10, EntrySums
  <2> HIDE DEF e
  <2> QED BY <1>10, <2>1, <2>2
<1> HIDE DEF e
<1>13. SumOf(e, n + 1) = sum(n) + CellSize[k] + n + 1 /\ sum(n) \in Nat
  <2>1. n + 1 \in index + 1 .. n + 1 /\ n + 1 \in 0 .. n + 1 /\ n \in 0 .. n /\ n + 1 - 1 = n
    BY <1>2, <1>4
  <2>2. SumOf(Sizes(merged), n + 1) = sum(n) + CellSize[k]
    BY <1>11, <2>1
  <2>3. SumOf(e, n + 1) = SumOf(Sizes(merged), n + 1) + (n + 1)
    BY <1>12, <2>1
  <2>4. sum(n) \in Nat
    BY <1>6, <2>1
  <2>5. n \in Nat /\ CellSize[k] \in Nat
    BY <1>2, <1>5
  <2> HIDE DEF sum
  <2> QED BY <2>2, <2>3, <2>4, <2>5
<1> HIDE DEF sum
<1>14. SumOf(e, Len(e)) > pg.room
  <2>1. n \in Nat /\ CellSize[k] \in Nat /\ pg.room \in Nat
    BY <1>2, <1>5
  <2>2. SumOf(e, Len(e)) = SumOf(e, n + 1)
    BY <1>12
  <2>3. \A x, r, b, c \in Nat : r - b - x < c + 1 => x + c + b + 1 > r
    OBVIOUS
  <2>4. sum(n) + CellSize[k] + n + 1 > pg.room
    BY <1>9, <1>13, <2>1, <2>3
  <2> QED BY <1>13, <2>2, <2>4
<1>15. split \in 0 .. n + 1 /\ split < n + 1 /\ SumOf(e, split) <= pg.room
  <2>1. SumOf(e, Len(e)) >= pg.room \div 2
    <3> DEFINE all == SumOf(e, Len(e))
    <3>1. all \in Nat
      BY <1>12, SumType
    <3>2. all > pg.room
      BY <1>14
    <3> HIDE DEF all
    <3>3. pg.room \in Nat /\ pg.room \div 2 <= pg.room
      BY <1>2, <1>5
    <3> QED BY <3>1, <3>2, <3>3 DEF all
  <2>2. /\ SplitIndex(pg, e) \in 0 .. Len(e) /\ SumOf(e, SplitIndex(pg, e)) <= pg.room
        /\ SumOf(e, Len(e)) > pg.room => SplitIndex(pg, e) < Len(e)
    BY <1>2, <1>12, <2>1, SplitBounds
  <2> QED BY <1>12, <1>14, <2>2
<1> HIDE DEF split
<1>16. /\ stay \in 0 .. n /\ sum(stay) \in Nat
       /\ index < split => index <= stay /\ sum(stay) + CellSize[k] + (stay + 1) <= pg.room
       /\ ~(index < split) => sum(stay) + stay <= pg.room
  <2>1. CASE index < split
    <3>1. stay = split - 1
      BY <2>1 DEF StayBelow
    <3>2. split \in index + 1 .. n + 1 /\ split \in 0 .. n + 1 /\ split - 1 \in 0 .. n
          /\ index <= split - 1
      BY <1>2, <1>4, <1>15, <2>1
    <3>3. SumOf(e, split) = sum(split - 1) + CellSize[k] + split
      BY <1>11, <1>12, <3>2
    <3>4. sum(split - 1) \in Nat
      BY <1>6, <3>2
    <3> QED BY <1>2, <1>5, <1>15, <2>1, <3>1, <3>2, <3>3, <3>4
  <2>2. CASE ~(index < split)
    <3>1. stay = split
      BY <2>2 DEF StayBelow
    <3>2. split \in 0 .. index /\ split \in 0 .. n /\ split \in 0 .. n + 1
      BY <1>2, <1>4, <1>15, <2>2
    <3>3. SumOf(e, split) = sum(split) + split
      BY <1>11, <1>12, <3>2
    <3>4. sum(split) \in Nat
      BY <1>6, <3>2
    <3> QED BY <1>15, <2>2, <3>1, <3>2, <3>3, <3>4
  <2> QED BY <2>1, <2>2
<1> HIDE DEF stay
<1>17. /\ PageOK(first) /\ LiveKeys(first) = fs /\ first.slotCount = stay
       /\ first.room = pg.room /\ first.level = pg.level /\ first.seps = <<>>
       /\ first.next = NextPageNum /\ first.prev = pg.prev
  <2> DEFINE cp == Compact(pg)
  <2>1. PageOK(cp) /\ stay \in 0 .. cp.slotCount /\ NextPageNum \in PageLink
    BY <1>8, <1>16 DEF PageLink
  <2>2. LiveKeys(cp) = ks /\ cp.room = pg.room /\ cp.level = pg.level /\ cp.seps = <<>>
        /\ cp.prev = pg.prev
    BY <1>8
  <2>3. first = [cp EXCEPT !.slotCount = stay, !.next = NextPageNum]
    OBVIOUS
  <2> HIDE DEF cp
  <2>4. /\ PageOK(first) /\ LiveKeys(first) = SubSeq(LiveKeys(cp), 1, stay)
        /\ first.slotCount = stay
        /\ first.room = cp.room /\ first.level = cp.level /\ first.seps = cp.seps
        /\ first.next = NextPageNum /\ first.prev = cp.prev
    <3>1. first = OnlyFirst(cp, stay, NextPageNum)
      BY <2>3 DEF OnlyFirst
    <3> HIDE DEF first
    <3> QED BY <2>1, <3>1, FirstEntries
  <2> HIDE DEF first
  <2> QED BY <2>2, <2>4
<1> HIDE DEF first
<1>18. /\ fs \in Seq(Keys) /\ Len(fs) = stay /\ Len(Cells(fs)) = sum(stay)
       /\ \A i \in 1 .. stay : fs[i] = ks[i]
  <2>1. fs = SubSeq(ks, 0 + 1, stay)
    OBVIOUS
  <2>2. SubSeq(ks, 0 + 1, stay) \in Seq(Keys) /\ Len(SubSeq(ks, 0 + 1, stay)) = stay - 0
        /\ \A i \in 1 .. stay - 0 : SubSeq(ks, 0 + 1, stay)[i] = ks[0 + i]
    <3>1. 0 \in Nat /\ stay \in Nat /\ 0 <= stay /\ stay <= Len(ks)
      BY <1>2, <1>3, <1>16
    <3> QED BY <1>3, <3>1, SubSeqIs
  <2> HIDE DEF fs
  <2>3. fs \in Seq(Keys) /\ Len(fs) = stay /\ \A i \in 1 .. stay : fs[i] = ks[i]
    BY <1>2, <1>16, <2>1, <2>2
  <2>4. Len(Cells(fs)) = SumOf(Sizes(fs), stay)
    BY <2>3, CellsAre
  <2>5. stay \in Nat /\ stay <= Len(ks) /\ stay <= Len(fs)
    BY <1>2, <1>3, <1>16, <2>3
  <2>6. SumOf(Sizes(fs), stay) = SumOf(Sizes(ks), stay)
    BY <1>3, <2>3, <2>5, SizesOfFirst
  <2> QED BY <2>3, <2>4, <2>6 DEF sum
<1> HIDE DEF fs
<1>19. /\ PageOK(kept) /\ LiveKeys(kept) = fs /\ kept.slotCount = stay
       /\ Len(kept.area) = sum(stay) /\ kept.room = pg.room /\ kept.level = pg.level
       /\ kept.seps = <<>> /\ kept.next = NextPageNum /\ kept.prev = pg.prev
  <2>1. Len(Cells(LiveKeys(first))) <= first.room - first.slotCount
    BY <1>2, <1>5, <1>16, <1>17, <1>18
  <2>2. first \in Page /\ InnerFree(first) >= 0
        /\ \A i \in 1 .. first.slotCount : LiveKeys(first)[i] \in Keys
    BY <1>17 DEF PageOK
  <2>3. /\ PageOK(kept) /\ LiveKeys(kept) = LiveKeys(first)
        /\ kept.slotCount = first.slotCount
        /\ Len(kept.area) = Len(Cells(LiveKeys(first)))
        /\ \A f \in {"room", "level", "seps", "next", "prev"} : kept[f] = first[f]
    BY <2>1, <2>2, CompactIs
  <2> QED BY <1>17, <1>18, <2>3
<1> HIDE DEF kept
<1>20. /\ PageOK(left) /\ left.level = pg.level /\ left.seps = <<>>
       /\ left.prev = pg.prev /\ left.next = NextPageNum
       /\ Len(left.area) = Len(Cells(LiveKeys(left)))
       /\ left.slotCount = split /\ \A i \in 1 .. split : LiveKeys(left)[i] = merged[i]
  <2>1. CASE ~(index < split)
    <3>1. stay = split /\ left = kept
      BY <2>1 DEF stay, StayBelow
    <3>2. \A i \in 1 .. split : i \in 1 .. index
      BY <1>4, <1>15, <2>1
    <3>3. \A i \in 1 .. split : fs[i] = merged[i]
      BY <1>10, <1>18, <3>1, <3>2
    <3> QED BY <1>18, <1>19, <3>1, <3>3
  <2>2. CASE index < split
    <3> DEFINE c == InsertIntoLeaf(kept, index, k)
    <3>1. index \in 0 .. kept.slotCount
      BY <1>4, <1>16, <1>19, <2>2
    <3>2. EntrySize(k) <= FreeSpace(kept)
      <4>1. FreeSpace(kept) = pg.room - stay - sum(stay)
        BY <1>19 DEF FreeSpace
      <4>2. sum(stay) + CellSize[k] + (stay + 1) <= pg.room /\ stay \in Nat /\ sum(stay) \in Nat
        BY <1>2, <1>16, <2>2
      <4>3. CellSize[k] \in Nat /\ pg.room \in Nat
        BY <1>2, <1>5
      <4>4. \A x, z, y, r \in Nat : x + z + (y + 1) <= r => z + 1 <= r - y - x
        OBVIOUS
      <4>5. CellSize[k] + 1 <= pg.room - stay - sum(stay)
        BY <4>2, <4>3, <4>4
      <4> QED BY <4>1, <4>5 DEF EntrySize
    <3>3. /\ PageOK(c) /\ LiveKeys(c) = InsertAt(LiveKeys(kept), index + 1, k)
          /\ c.slotCount = kept.slotCount + 1
          /\ Len(c.area) = Len(kept.area) + CellSize[k]
          /\ \A f \in Rest : c[f] = kept[f]
      BY <1>19, <3>1, <3>2, InsertIntoLeafIs
    <3> HIDE DEF c
    <3> DEFINE ns == Inserted(fs, index, k)
    <3>4. LiveKeys(c) = ns
      BY <1>19, <3>3, Zenon DEF Inserted
    <3>5. Len(Cells(ns)) = Len(Cells(fs)) + CellSize[k]
      <4>1. index \in 0 .. Len(fs)
        BY <1>18, <1>19, <3>1
      <4> QED BY <1>18, <4>1, CellsInserted
    <3> HIDE DEF ns
    <3>9. Len(c.area) = Len(Cells(ns))
      BY <1>18, <1>19, <3>3, <3>5
    <3>10. c.level = kept.level /\ c.seps = kept.seps /\ c.prev = kept.prev /\ c.next = kept.next
      BY <3>3 DEF Rest
    <3>11. stay = split - 1 /\ split \in Nat /\ stay \in Nat /\ index \in 0 .. stay /\ stay <= n
      BY <1>2, <1>4, <1>15, <1>16, <2>2 DEF stay, StayBelow
    <3>12. /\ \A j \in 1 .. index : ns[j] = fs[j]
           /\ ns[index + 1] = k
           /\ \A j \in index + 1 .. stay : ns[j + 1] = fs[j]
      <4>1. IsInserted(Inserted(fs, index, k), Keys, fs, index, k)
        BY <1>18, <3>11, InsertedIs
      <4> QED BY <1>18, <4>1 DEF IsInserted, ns
    <3>13. ASSUME NEW i \in 1 .. split PROVE ns[i] = merged[i]
      <4>1. CASE i <= index
        <5>1. i \in 1 .. index /\ i \in 1 .. stay
          BY <3>11, <4>1
        <5> QED BY <1>10, <1>18, <3>12, <5>1
      <4>2. CASE i = index + 1
        BY <1>10, <3>12, <4>2
      <4>3. CASE i > index + 1
        <5>1. /\ i - 1 \in index + 1 .. stay /\ i - 1 \in index + 1 .. n /\ i - 1 \in 1 .. stay
              /\ i - 1 + 1 = i
          BY <1>2, <3>11, <4>3
        <5>2. ns[i - 1 + 1] = fs[i - 1] /\ merged[i - 1 + 1] = ks[i - 1] /\ fs[i - 1] = ks[i - 1]
          BY <1>10, <1>18, <3>12, <5>1
        <5> QED BY <5>1, <5>2
      <4> QED BY <3>11, <4>1, <4>2, <4>3
    <3>14. c.slotCount = split
      BY <1>19, <3>3, <3>11
    <3>15. left = c
      BY <2>2 DEF c
    <3>16. \A i \in 1 .. split : LiveKeys(left)[i] = merged[i]
      BY <3>4, <3>13, <3>15
    <3> QED BY <1>19, <2>2, <3>3, <3>4, <3>9, <3>10, <3>14, <3>15, <3>16
  <2> QED BY <2>1, <2>2
<1>21. merged[split + 1] \in Keys
  BY <1>2, <1>10, <1>15
<1>22. /\ FreeSpace(right) >= 0 => PageOK(right)
       /\ right.level = 0 /\ right.seps = <<>>
       /\ right.prev = at.leaf /\ right.next = pg.next
       /\ right.slotCount = n + 1 - split
       /\ \A i \in 1 .. n + 1 - split : LiveKeys(right)[i] = merged[split + i]
  <2> DEFINE gs == SubSeq(merged, split + 1, Len(merged))
  <2>1. /\ gs \in Seq(Keys) /\ Len(gs) = n + 1 - split
        /\ \A i \in 1 .. n + 1 - split : gs[i] = merged[split + i]
    <3>1. split \in Nat /\ Len(merged) \in Nat /\ split <= Len(merged)
      BY <1>2, <1>10, <1>15
    <3>2. Len(merged) = n + 1
      BY <1>10
    <3>3. /\ gs \in Seq(Keys) /\ Len(gs) = Len(merged) - split
          /\ \A i \in 1 .. Len(merged) - split : gs[i] = merged[split + i]
      BY <1>10, <3>1, SubSeqIs
    <3> DEFINE m == Len(merged) - split
    <3>4. m = n + 1 - split
      <4> DEFINE len == Len(merged)
      <4>1. len = n + 1 /\ n \in Nat /\ split \in Nat
        BY <1>2, <1>15, <3>2
      <4> HIDE DEF len
      <4>2. len - split = n + 1 - split
        BY <4>1
      <4> QED BY <4>2 DEF len
    <3>5. /\ gs \in Seq(Keys) /\ Len(gs) = m
          /\ \A i \in 1 .. m : gs[i] = merged[split + i]
      BY <3>3
    <3> HIDE DEF gs, m
    <3> QED BY <3>4, <3>5, Zenon
  <2>2. right = [FillLeaf(NewPage, gs) EXCEPT !.level = 0, !.next = pg.next, !.prev = at.leaf]
    OBVIOUS
  <2> HIDE DEF gs, right
  <2>3. /\ Cells(gs) \in Seq(Keys \cup {NoKey}) /\ Offsets(gs) \in Seq(Nat \ {0})
        /\ Len(Offsets(gs)) = Len(gs) /\ Len(gs) \in Nat
        /\ \A i \in 1 .. Len(gs) : /\ Offsets(gs)[i] <= Len(Cells(gs))
                                   /\ Cells(gs)[Offsets(gs)[i]] = gs[i]
    BY <2>1, CellsAre
  <2>4. right = [room |-> Usable, level |-> 0, slots |-> Offsets(gs), slotCount |-> Len(gs),
                 area |-> Cells(gs), seps |-> <<>>, next |-> pg.next, prev |-> at.leaf]
    BY <2>2, Zenon DEF FillLeaf, NewPage
  <2>5. /\ right.room = Usable /\ right.level = 0 /\ right.slots = Offsets(gs)
        /\ right.slotCount = Len(gs) /\ right.area = Cells(gs) /\ right.seps = <<>>
        /\ right.next = pg.next /\ right.prev = at.leaf
    BY <2>4
  <2>6. right \in Page
    BY <1>2, <2>3, <2>4 DEF Page, PageLink
  <2>7. LiveKeys(right) = gs /\ \A i \in 1 .. right.slotCount : LiveKeys(right)[i] \in Keys
    <3>1. /\ right.slotCount = Len(gs) /\ Len(gs) <= Len(right.slots)
          /\ \A i \in 1 .. Len(gs) : /\ right.slots[i] <= Len(right.area)
                                     /\ right.area[right.slots[i]] = gs[i]
      BY <2>3, <2>5
    <3> QED BY <2>1, <2>6, <3>1, LiveKeysAre
  <2>8. InnerFree(right) >= 0
    BY <2>5, SlotsAssumption DEF InnerFree, SepCount
  <2> QED BY <2>1, <2>5, <2>6, <2>7, <2>8 DEF PageOK
<1> HIDE DEF left, right
<1>23. /\ LeafSplit(k, at).left = left /\ LeafSplit(k, at).right = right
       /\ LeafSplit(k, at).key = merged[split + 1] /\ LeafSplit(k, at).stay = stay
  BY <1>1
<1>24. stay > 0 => split > 0
  BY <1>2, <1>15 DEF stay, StayBelow
<1>25. Halves(LeafSplit(k, at), merged, split)
  <2> DEFINE m == n + 1 - split
  <2>1. m = Len(merged) - split
    <3> DEFINE len == Len(merged)
    <3>1. len = n + 1 /\ n \in Nat /\ split \in Nat
      BY <1>2, <1>10, <1>15
    <3> HIDE DEF len
    <3>2. len - split = n + 1 - split
      BY <3>1
    <3> QED BY <3>2 DEF len
  <2>2. /\ right.slotCount = m
        /\ \A i \in 1 .. m : LiveKeys(right)[i] = merged[split + i]
    BY <1>22
  <2> HIDE DEF m
  <2>3. /\ right.slotCount = Len(merged) - split
        /\ \A i \in 1 .. Len(merged) - split : LiveKeys(right)[i] = merged[split + i]
    BY <2>1, <2>2, Zenon
  <2> QED BY <1>20, <1>23, <1>24, <2>3, Zenon DEF Halves
<1>26. split \in 0 .. n
  BY <1>2, <1>15
<1>27. \E m \in 0 .. pg.slotCount : Halves(LeafSplit(k, at), InsertAt(LiveKeys(pg), at.index + 1, k), m)
  BY <1>25, <1>26 DEF merged, n, ks, index
<1> QED BY <1>20, <1>21, <1>22, <1>23, <1>27

\* A separator with the child to its left.
Sep == [key : Keys, child : PageLink]

\* The fields that have nothing to do with separators.
LeafFields == {"room", "level", "slots", "slotCount", "area", "prev"}

\* The entries are in the slots and the area.
LEMMA LiveKeysSame ==
  ASSUME NEW pg, NEW c, c.slots = pg.slots, c.slotCount = pg.slotCount, c.area = pg.area
  PROVE  LiveKeys(c) = LiveKeys(pg)
<1>1. \A i : KeyAt(c, i) = KeyAt(pg, i)
  BY Zenon DEF KeyAt
<1>2. LiveKeys(c) = [i \in 1 .. c.slotCount |-> KeyAt(c, i - 1)]
      /\ LiveKeys(pg) = [i \in 1 .. pg.slotCount |-> KeyAt(pg, i - 1)]
  BY Zenon DEF LiveKeys
<1> QED BY <1>1, <1>2, Zenon

\* A page that differs from another in what concerns separators only.
LEMMA SepsChanged ==
  ASSUME NEW pg, PageOK(pg), NEW c, \A f \in LeafFields : c[f] = pg[f],
         c \in Page, InnerFree(c) >= 0
  PROVE  PageOK(c) /\ LiveKeys(c) = LiveKeys(pg)
<1>1. /\ c.room = pg.room /\ c.slots = pg.slots /\ c.slotCount = pg.slotCount
      /\ c.area = pg.area
  BY DEF LeafFields
<1>2. LiveKeys(c) = LiveKeys(pg)
  BY <1>1, LiveKeysSame
<1>3. FreeSpace(c) = FreeSpace(pg)
  BY <1>1 DEF FreeSpace
<1> QED BY <1>1, <1>2, <1>3, Zenon DEF PageOK

\* insertIntoInner puts l and r in the place of one child.
LEMMA InsertIntoInnerIs ==
  ASSUME NEW pg, PageOK(pg), NEW index \in 0 .. SepCount(pg), NEW k \in Keys,
         NEW l \in PageLink, NEW r \in PageLink, InnerFree(pg) >= SepSize + 1
  PROVE  /\ PageOK(InsertIntoInner(pg, index, k, l, r))
         /\ SepCount(InsertIntoInner(pg, index, k, l, r)) = SepCount(pg) + 1
         /\ \A f \in LeafFields : InsertIntoInner(pg, index, k, l, r)[f] = pg[f]
         /\ \A i \in 0 .. SepCount(pg) + 1 :
              ChildOf(InsertIntoInner(pg, index, k, l, r), i)
                = IF i < index THEN ChildOf(pg, i) ELSE IF i = index THEN l
                  ELSE IF i = index + 1 THEN r ELSE ChildOf(pg, i - 1)
<1> DEFINE e == [key |-> k, child |-> l]
           n == SepCount(pg)
           s == Inserted(pg.seps, index, e)
           t == IF index = n THEN s ELSE [s EXCEPT ![index + 2].child = r]
           next == IF index = n THEN r ELSE pg.next
           c == InsertIntoInner(pg, index, k, l, r)
<1>1. /\ pg \in Page /\ pg.seps \in Seq(Sep) /\ n \in Nat /\ n = Len(pg.seps)
      /\ pg.room \in Nat /\ pg.next \in PageLink
  BY PageFields DEF PageOK, Sep, SepCount
<1>2. e \in Sep /\ e.child = l
  BY DEF Sep
<1> HIDE DEF e
<1>3. IsInserted(s, Sep, pg.seps, index, e)
  BY <1>1, <1>2, InsertedIs
<1>4. /\ s \in Seq(Sep) /\ Len(s) = n + 1
      /\ \A j \in 1 .. index : s[j] = pg.seps[j]
      /\ s[index + 1] = e
      /\ \A j \in index + 1 .. n : s[j + 1] = pg.seps[j]
  BY <1>1, <1>3, Zenon DEF IsInserted
<1>5. c = [pg EXCEPT !.seps = t, !.next = next]
  <2>1. s = InsertAt(pg.seps, index + 1, [key |-> k, child |-> l])
    BY Zenon DEF Inserted, e
  <2>2. c = IF index + 1 = Len(s) THEN [pg EXCEPT !.seps = s, !.next = r]
            ELSE [pg EXCEPT !.seps = [s EXCEPT ![index + 2].child = r]]
    BY <2>1, Zenon DEF InsertIntoInner
  <2> HIDE DEF s, c
  <2>3. index + 1 = Len(s) <=> index = n
    BY <1>1, <1>4
  <2>4. pg = [pg EXCEPT !.next = pg.next]
    BY <1>1 DEF Page
  <2>5. CASE index = n
    BY <2>2, <2>3, <2>5
  <2>6. CASE index # n
    <3>1. c = [pg EXCEPT !.seps = [s EXCEPT ![index + 2].child = r]]
      BY <2>2, <2>3, <2>6
    <3> DEFINE u == [s EXCEPT ![index + 2].child = r]
    <3>2. t = u /\ next = pg.next
      BY <2>6
    <3> HIDE DEF u, t, next
    <3>3. c = [pg EXCEPT !.seps = u]
      BY <3>1 DEF u
    <3>4. [pg EXCEPT !.seps = u] = [pg EXCEPT !.seps = u, !.next = pg.next]
      BY <1>1 DEF Page
    <3> QED BY <3>2, <3>3, <3>4
  <2> QED BY <2>5, <2>6
<1> HIDE DEF s, c
<1>6. /\ t \in Seq(Sep) /\ Len(t) = n + 1
      /\ \A j \in 1 .. index : t[j] = pg.seps[j]
      /\ t[index + 1].child = l
      /\ index # n => t[index + 2].child = r
      /\ \A j \in index + 3 .. n + 1 : t[j] = pg.seps[j - 1]
  <2>1. \A j \in index + 2 .. n + 1 : s[j] = pg.seps[j - 1]
    <3> SUFFICES ASSUME NEW j \in index + 2 .. n + 1 PROVE s[j] = pg.seps[j - 1]
      OBVIOUS
    <3>1. j - 1 \in index + 1 .. n /\ j - 1 + 1 = j
      BY <1>1
    <3>2. s[j - 1 + 1] = pg.seps[j - 1]
      BY <1>4, <3>1
    <3> QED BY <3>1, <3>2
  <2>2. CASE index = n
    <3>1. t = s
      BY <2>2
    <3> HIDE DEF t
    <3>2. \A j \in index + 3 .. n + 1 : j \in index + 2 .. n + 1
      BY <1>1
    <3> QED BY <1>2, <1>4, <2>1, <2>2, <3>1, <3>2
  <2>3. CASE index # n
    <3> DEFINE i == index + 2
    <3>1. t = [s EXCEPT ![i].child = r]
      BY <2>3
    <3>2. i \in 1 .. Len(s) /\ i # index + 1 /\ \A j \in 1 .. index : j # i
      BY <1>1, <1>4, <2>3
    <3>6. \A j \in index + 3 .. n + 1 : j # i /\ j \in index + 2 .. n + 1 /\ j \in 1 .. Len(s)
      BY <1>1, <1>4
    <3>7. index + 1 \in 1 .. Len(s) /\ \A j \in 1 .. index : j \in 1 .. Len(s)
      BY <1>1, <1>4
    <3> HIDE DEF t, i
    <3>3. s[i] \in Sep
      BY <1>4, <3>2
    <3>4. [s[i] EXCEPT !.child = r] \in Sep /\ [s[i] EXCEPT !.child = r].child = r
      BY <3>3 DEF Sep
    <3>5. /\ t \in Seq(Sep) /\ Len(t) = Len(s) /\ t[i].child = r
          /\ \A j \in 1 .. Len(s) : j # i => t[j] = s[j]
      BY <1>4, <3>1, <3>2, <3>4
    <3>8. \A j \in 1 .. index : t[j] = pg.seps[j]
      BY <1>4, <3>2, <3>5, <3>7
    <3>9. t[index + 1].child = l
      BY <1>2, <1>4, <3>2, <3>5, <3>7
    <3>10. \A j \in index + 3 .. n + 1 : t[j] = pg.seps[j - 1]
      BY <2>1, <3>5, <3>6
    <3> QED BY <1>4, <3>5, <3>8, <3>9, <3>10 DEF i
  <2> QED BY <2>2, <2>3
<1>7. next \in PageLink
  BY <1>1
<1> HIDE DEF t, next
<1>8. /\ c \in Page /\ c.seps = t /\ c.next = next
      /\ c.room = pg.room /\ c.level = pg.level /\ c.slots = pg.slots
      /\ c.slotCount = pg.slotCount /\ c.area = pg.area /\ c.prev = pg.prev
  BY <1>1, <1>5, <1>6, <1>7 DEF Page, Sep
<1>9. \A f \in LeafFields : c[f] = pg[f]
  BY <1>8 DEF LeafFields
<1>10. SepCount(c) = n + 1
  BY <1>6, <1>8 DEF SepCount
<1>11. InnerFree(c) >= 0
  <2>1. InnerFree(c) = pg.room - (n + 1) * (SepSize + 1)
    BY <1>8, <1>10 DEF InnerFree
  <2>2. InnerFree(pg) = pg.room - n * (SepSize + 1)
    BY DEF InnerFree
  <2>3. SepSize + 1 \in Nat
    BY SlotsAssumption
  <2> DEFINE z == SepSize + 1
  <2> HIDE DEF n, z
  <2>4. (n + 1) * z = n * z + z
    BY <1>1, <2>3 DEF z
  <2>5. n * z \in Nat
    BY <1>1, <2>3 DEF z
  <2> DEFINE x == n * z
  <2>6. pg.room \in Int /\ x \in Nat /\ z \in Nat
    BY <1>1, <2>3, <2>5 DEF z, Page
  <2>7. /\ InnerFree(c) = pg.room - (n + 1) * z /\ (n + 1) * z = x + z
        /\ InnerFree(pg) = pg.room - x /\ InnerFree(pg) >= z
    BY <2>1, <2>2, <2>4, Zenon DEF z
  <2> HIDE DEF x
  <2>8. pg.room - x >= z => pg.room - (x + z) >= 0
    BY <2>6
  <2> QED BY <2>7, <2>8, Zenon
<1>12. ASSUME NEW i \in 0 .. n + 1
       PROVE  ChildOf(c, i) = IF i < index THEN ChildOf(pg, i) ELSE IF i = index THEN l
                              ELSE IF i = index + 1 THEN r ELSE ChildOf(pg, i - 1)
  <2>1. ChildOf(c, i) = IF i = n + 1 THEN next ELSE t[i + 1].child
    BY <1>8, <1>10 DEF ChildOf
  <2>2. CASE i < index
    <3>1. i + 1 \in 1 .. index /\ i # n + 1 /\ i # n
      BY <1>1, <2>2
    <3> QED BY <1>6, <2>1, <2>2, <3>1 DEF ChildOf
  <2>3. CASE i = index
    <3>1. i # n + 1
      BY <1>1, <2>3
    <3> QED BY <1>1, <1>6, <2>1, <2>3, <3>1
  <2>4. CASE i = index + 1
    <3>1. CASE index = n
      BY <1>1, <2>1, <2>4, <3>1 DEF next
    <3>2. CASE index # n
      <4>1. i + 1 = index + 2 /\ i # n + 1
        BY <1>1, <2>4, <3>2
      <4> QED BY <1>1, <1>6, <2>1, <2>4, <3>2, <4>1
    <3> QED BY <3>1, <3>2
  <2>5. CASE i > index + 1
    <3>1. CASE i = n + 1
      <4>1. index # n /\ i - 1 = n
        BY <1>1, <2>5, <3>1
      <4> QED BY <1>1, <2>1, <2>5, <3>1, <4>1 DEF next, ChildOf
    <3>2. CASE i # n + 1
      <4>1. i + 1 \in index + 3 .. n + 1 /\ i + 1 - 1 = i /\ i - 1 # n /\ i - 1 + 1 = i
        BY <1>1, <2>5, <3>2
      <4>2. t[i + 1] = pg.seps[i]
        BY <1>6, <4>1
      <4>3. ChildOf(pg, i - 1) = pg.seps[i].child
        BY <4>1 DEF ChildOf
      <4> QED BY <1>1, <2>1, <2>5, <3>2, <4>2, <4>3
    <3> QED BY <3>1, <3>2
  <2> QED BY <1>1, <2>2, <2>3, <2>4, <2>5
<1>13. PageOK(c)
  BY <1>8, <1>9, <1>11, SepsChanged
<1> HIDE DEF n
<1> QED BY <1>9, <1>10, <1>12, <1>13 DEF c, n

\* The separators of a page, and its children.
LEMMA SepsAre ==
  ASSUME NEW pg, PageOK(pg)
  PROVE  /\ pg.seps \in Seq(Sep) /\ SepCount(pg) \in Nat /\ Len(pg.seps) = SepCount(pg)
         /\ Len(SepKeys(pg)) = SepCount(pg)
         /\ \A i \in 0 .. SepCount(pg) : ChildOf(pg, i) \in PageLink
<1>1. pg.seps \in Seq(Sep) /\ SepCount(pg) \in Nat /\ Len(pg.seps) = SepCount(pg) /\ pg.next \in PageLink
  BY PageFields DEF PageOK, Sep, SepCount
<1>2. SepKeys(pg) = [i \in 1 .. SepCount(pg) |-> pg.seps[i].key]
  BY Zenon DEF SepKeys
<1>3. Len(SepKeys(pg)) = SepCount(pg)
  BY <1>1, <1>2
<1>4. ASSUME NEW i \in 0 .. SepCount(pg) PROVE ChildOf(pg, i) \in PageLink
  <2>1. CASE i = SepCount(pg)
    BY <1>1, <2>1 DEF ChildOf
  <2>2. CASE i # SepCount(pg)
    <3>1. i + 1 \in 1 .. SepCount(pg)
      BY <1>1, <2>2
    <3>2. pg.seps[i + 1] \in Sep
      BY <1>1, <3>1
    <3> QED BY <2>2, <3>2 DEF ChildOf, Sep
  <2> QED BY <2>1, <2>2
<1> QED BY <1>1, <1>3, <1>4

\* A page with no room for a separator splits somewhere among those it has.
LEMMA InnerSplitIs ==
  ASSUME NEW pg, pg = pages[Parent], PageOK(pg), InnerFree(pg) < SepNeed
  PROVE  /\ SepCount(pg) >= 1
         /\ InnerSplitAt \in 0 .. SepCount(pg)
         /\ InnerSplitAt * (SepSize + 1) <= pg.room
         /\ SepCount(pg) * (SepSize + 1) <= pg.room
<1> DEFINE n == SepCount(pg)
           z == SepSize + 1
           s == [i \in 1 .. n + 1 |-> z]
           at == InnerSplitAt
<1>1. n \in Nat /\ pg \in Page /\ pg.room \in Nat /\ pg.room >= SepNeed /\ pg.room \div 2 > 0
  BY SepsAre, RoomIs DEF PageOK
<1>2. z \in Nat /\ z > 0 /\ SepNeed = z + 1
  BY SlotsAssumption DEF SepNeed
<1>3. pg.room - n * z < z + 1 /\ pg.room - n * z >= 0
  BY <1>2 DEF InnerFree, PageOK
<1>4. at = SplitIndex(pg, s)
  BY DEF InnerSplitAt
<1> HIDE DEF n, z, at
<1>5. s \in Seq(Nat) /\ Len(s) = n + 1
  <2>1. n + 1 \in Nat /\ s \in [1 .. n + 1 -> Nat]
    BY <1>1, <1>2
  <2> QED BY <2>1
<1>6. \A m \in 0 .. n + 1 : SumOf(s, m) = m * z
  <2> SUFFICES ASSUME NEW m \in 0 .. n + 1 PROVE SumOf(s, m) = m * z
    OBVIOUS
  <2>1. m \in Nat /\ \A i \in 1 .. m : s[i] = z
    BY <1>1
  <2> HIDE DEF s
  <2> QED BY <1>2, <2>1, SumOfEqual
<1> HIDE DEF s
<1>7. n * z \in Nat /\ (n + 1) * z = n * z + z
  BY <1>1, <1>2
<1>8. n >= 1
  <2>1. n = 0 => n * z = 0
    BY <1>2
  <2> QED BY <1>1, <1>2, <1>3, <2>1
<1>9. n * z >= 1
  BY <1>1, <1>2, <1>8
<1>10. SumOf(s, n + 1) = n * z + z /\ SumOf(s, n + 1 - 1) = n * z
  <2>1. n + 1 \in 0 .. n + 1 /\ n + 1 - 1 = n /\ n \in 0 .. n + 1
    BY <1>1
  <2>2. SumOf(s, n + 1) = (n + 1) * z /\ SumOf(s, n) = n * z
    BY <1>6, <2>1
  <2> QED BY <1>7, <2>1, <2>2
<1>11. /\ at \in 0 .. Len(s) /\ SumOf(s, at) <= pg.room
       /\ at = Len(s) => SumOf(s, Len(s)) + SumOf(s, Len(s) - 1) <= pg.room
  <2>1. SumOf(s, Len(s)) >= pg.room \div 2
    BY <1>1, <1>2, <1>3, <1>5, <1>7, <1>10
  <2>2. pg.room \in Nat /\ pg.room \div 2 > 0
    BY <1>1
  <2> QED BY <1>4, <1>5, <2>1, <2>2, SplitBounds
<1>12. at # n + 1
  BY <1>1, <1>2, <1>3, <1>5, <1>7, <1>9, <1>10, <1>11
<1>13. at \in 0 .. n /\ at \in 0 .. n + 1
  BY <1>1, <1>5, <1>11, <1>12
<1>14. at * z <= pg.room
  BY <1>6, <1>11, <1>13
<1> QED BY <1>1, <1>3, <1>7, <1>8, <1>13, <1>14 DEF n, z, at

\* What splitInner takes entry i of the full page and the new one to be: it has a
\* child of the page or one of the two that the insertion brings.
LEMMA LogicalIs ==
  ASSUME NEW s \in Seq(Sep), NEW i \in 0 .. Len(s), ParentIndex \in 0 .. Len(s), Len(s) >= 1,
         call.key \in Keys, call.left \in PageLink, call.right \in PageLink,
         NEW S, call.left \in S, call.right \in S, \A j \in 1 .. Len(s) : s[j].child \in S
  PROVE  Logical(s, i) \in Sep /\ Logical(s, i).child \in S
<1>1. Len(s) \in Nat /\ \A j \in 1 .. Len(s) : s[j] \in Sep
  OBVIOUS
<1>2. CASE i = ParentIndex
  <2>1. Logical(s, i) = [key |-> call.key, child |-> call.left]
    BY <1>1, <1>2 DEF Logical
  <2> QED BY <2>1 DEF Sep
<1>3. CASE i < ParentIndex
  <2>1. Logical(s, i) = s[i + 1]
    BY <1>1, <1>3 DEF Logical
  <2>2. i + 1 \in 1 .. Len(s)
    BY <1>1, <1>3
  <2> QED BY <1>1, <2>1, <2>2
<1>4. CASE i = ParentIndex + 1
  <2>1. Logical(s, i) = [s[i] EXCEPT !.child = call.right]
    BY <1>1, <1>4 DEF Logical
  <2>2. i \in 1 .. Len(s)
    BY <1>1, <1>4
  <2>3. s[i] \in Sep
    BY <1>1, <2>2
  <2> QED BY <2>1, <2>3 DEF Sep
<1>5. CASE i > ParentIndex + 1
  <2>1. Logical(s, i) = s[i]
    BY <1>1, <1>5 DEF Logical
  <2>2. i \in 1 .. Len(s)
    BY <1>1, <1>5
  <2> QED BY <1>1, <2>1, <2>2
<1> QED BY <1>1, <1>2, <1>3, <1>4, <1>5

\* And so have the separators once the child at the split is replaced.
LEMMA SetSplitChildIs ==
  ASSUME NEW s \in Seq(Sep), InnerSplitAt \in 0 .. Len(s), call.left \in PageLink,
         NEW S, call.left \in S, \A j \in 1 .. Len(s) : s[j].child \in S
  PROVE  /\ SetSplitChild(s) \in Seq(Sep) /\ Len(SetSplitChild(s)) = Len(s)
         /\ \A j \in 1 .. Len(s) : SetSplitChild(s)[j].child \in S
<1>1. Len(s) \in Nat /\ \A j \in 1 .. Len(s) : s[j] \in Sep
  OBVIOUS
<1>2. CASE ~(InnerSplitAt < Len(s))
  BY <1>2 DEF SetSplitChild
<1>3. CASE InnerSplitAt < Len(s)
  <2> DEFINE i == InnerSplitAt + 1
             t == SetSplitChild(s)
             e == [s[i] EXCEPT !.child = call.left]
  <2>1. i \in 1 .. Len(s)
    BY <1>1, <1>3
  <2>2. t = [s EXCEPT ![i] = e]
    BY <1>3 DEF SetSplitChild
  <2>3. e \in Sep /\ e.child = call.left
    BY <1>1, <2>1 DEF Sep
  <2> HIDE DEF i, t, e
  <2>4. t \in Seq(Sep) /\ Len(t) = Len(s) /\ \A j \in 1 .. Len(s) : t[j] = IF j = i THEN e ELSE s[j]
    BY <2>1, <2>2, <2>3
  <2> QED BY <2>3, <2>4 DEF t
<1> QED BY <1>2, <1>3

\* What an inner page that is split needs to hold for its children to be in S.
SplitCase(pg, S) ==
  /\ pg = pages[Parent] /\ PageOK(pg) /\ InnerFree(pg) < SepNeed
  /\ call.key \in Keys /\ call.left \in PageLink /\ call.right \in PageLink
  /\ call.left \in S /\ call.right \in S
  /\ \A j \in 0 .. SepCount(pg) : ChildOf(pg, j) \in S

\* Such a page has separators, and is split at one of them.
LEMMA SplitCaseIs ==
  ASSUME NEW pg, NEW S, SplitCase(pg, S)
  PROVE  /\ pg.seps \in Seq(Sep) /\ SepCount(pg) \in Nat /\ Len(pg.seps) = SepCount(pg)
         /\ Len(pg.seps) >= 1 /\ pg.next \in S
         /\ ParentIndex \in 0 .. SepCount(pg)
         /\ InnerSplitAt \in 0 .. SepCount(pg)
         /\ \A j \in 1 .. SepCount(pg) : pg.seps[j].child \in S
<1>1. /\ pg.seps \in Seq(Sep) /\ SepCount(pg) \in Nat /\ Len(pg.seps) = SepCount(pg)
      /\ Len(SepKeys(pg)) = SepCount(pg)
  BY SepsAre DEF SplitCase
<1>2. InnerSplitAt \in 0 .. SepCount(pg) /\ SepCount(pg) >= 1
  BY InnerSplitIs DEF SplitCase
<1>3. ParentIndex \in 0 .. SepCount(pg)
  <2>1. ParentIndex = SearchIn(SepKeys(pg), call.key)
    BY DEF ParentIndex, SplitCase
  <2>2. SearchIn(SepKeys(pg), call.key) \in 0 .. Len(SepKeys(pg))
    BY <1>1, SearchWithin
  <2> QED BY <1>1, <2>1, <2>2
<1>4. pg.next \in S
  <2>1. SepCount(pg) \in 0 .. SepCount(pg) /\ ChildOf(pg, SepCount(pg)) = pg.next
    BY <1>1 DEF ChildOf
  <2> QED BY <2>1 DEF SplitCase
<1>5. ASSUME NEW j \in 1 .. SepCount(pg) PROVE pg.seps[j].child \in S
  <2>1. j - 1 \in 0 .. SepCount(pg) /\ j - 1 # SepCount(pg) /\ j - 1 + 1 = j
    BY <1>1
  <2>2. ChildOf(pg, j - 1) = pg.seps[j].child
    BY <2>1 DEF ChildOf
  <2> QED BY <2>1, <2>2 DEF SplitCase
<1> QED BY <1>1, <1>2, <1>3, <1>4, <1>5

\* The right half of an inner page that is split fits, and its children are in S.
LEMMA RightInnerIs ==
  ASSUME NEW pg, NEW S, SplitCase(pg, S)
  PROVE  /\ PageOK(RightInner)
         /\ RightInner.level = pg.level /\ RightInner.slotCount = 0
         /\ \A i \in 0 .. SepCount(RightInner) : ChildOf(RightInner, i) \in S
<1> DEFINE n == SepCount(pg)
           at == InnerSplitAt
           s == SetSplitChild(pg.seps)
           t == [i \in 1 .. Len(s) - at |-> Logical(s, i + at)]
           c == RightInner
<1>1. /\ pg.seps \in Seq(Sep) /\ n \in Nat /\ Len(pg.seps) = n /\ n >= 1 /\ pg.next \in S
      /\ ParentIndex \in 0 .. n /\ at \in 0 .. n
      /\ \A j \in 1 .. n : pg.seps[j].child \in S
  BY SplitCaseIs
<1>2. /\ call.key \in Keys /\ call.left \in PageLink /\ call.right \in PageLink
      /\ call.left \in S /\ call.right \in S /\ pg = pages[Parent] /\ pg \in Page
      /\ pg.level \in Nat /\ pg.next \in PageLink /\ pg.room \in Nat /\ pg.room <= Usable
      /\ pg.room - n * (SepSize + 1) >= 0
  BY PageFields, SlotsAssumption DEF SplitCase, PageOK, InnerFree, Page
<1>3. c = [NewPage EXCEPT !.level = pg.level, !.next = pg.next, !.seps = t]
  BY <1>2, Zenon DEF RightInner
<1> HIDE DEF n, at, c
<1>4. s \in Seq(Sep) /\ Len(s) = n /\ \A j \in 1 .. n : s[j].child \in S
  <2>1. InnerSplitAt \in 0 .. Len(pg.seps) /\ \A j \in 1 .. Len(pg.seps) : pg.seps[j].child \in S
    BY <1>1 DEF at
  <2>2. /\ SetSplitChild(pg.seps) \in Seq(Sep) /\ Len(SetSplitChild(pg.seps)) = Len(pg.seps)
        /\ \A j \in 1 .. Len(pg.seps) : SetSplitChild(pg.seps)[j].child \in S
    BY <1>1, <1>2, <2>1, SetSplitChildIs
  <2> QED BY <1>1, <2>2
<1> HIDE DEF s
<1>5. ASSUME NEW i \in 1 .. n - at PROVE Logical(s, i + at) \in Sep /\ Logical(s, i + at).child \in S
  <2> DEFINE j == i + at
  <2>1. j \in 0 .. Len(s)
    BY <1>1, <1>4
  <2> HIDE DEF j
  <2>2. ParentIndex \in 0 .. Len(s) /\ Len(s) >= 1 /\ \A m \in 1 .. Len(s) : s[m].child \in S
    BY <1>1, <1>4
  <2>3. Logical(s, j) \in Sep /\ Logical(s, j).child \in S
    BY <1>2, <1>4, <2>1, <2>2, LogicalIs
  <2> QED BY <2>3 DEF j
<1>6. t \in Seq(Sep) /\ Len(t) = n - at /\ \A i \in 1 .. n - at : t[i].child \in S
  <2>1. n - at \in Nat /\ Len(s) - at = n - at
    BY <1>1, <1>4
  <2>2. t \in [1 .. n - at -> Sep]
    BY <1>5, <2>1
  <2> QED BY <1>5, <2>1, <2>2
<1> HIDE DEF t
<1>7. c = [room |-> Usable, level |-> pg.level, slots |-> <<>>, slotCount |-> 0,
           area |-> <<>>, seps |-> t, next |-> pg.next, prev |-> INVALID_PAGE]
  BY <1>3, Zenon DEF NewPage
<1>8. /\ c.room = Usable /\ c.level = pg.level /\ c.slots = <<>> /\ c.slotCount = 0
      /\ c.area = <<>> /\ c.seps = t /\ c.next = pg.next
  BY <1>7
<1>9. c \in Page
  BY <1>2, <1>6, <1>7 DEF Page, PageLink, Sep
<1>10. SepCount(c) = n - at
  BY <1>6, <1>8 DEF SepCount
<1>11. InnerFree(c) >= 0
  <2> DEFINE z == SepSize + 1
  <2>1. z \in Nat /\ Usable \in Nat
    BY SlotsAssumption
  <2>2. InnerFree(c) = Usable - (n - at) * z
    BY <1>8, <1>10 DEF InnerFree
  <2>3. pg.room - n * z >= 0
    BY <1>2
  <2> HIDE DEF z
  <2>4. (n - at) * z = n * z - at * z /\ at * z >= 0 /\ at * z \in Int /\ n * z \in Int
    BY <1>1, <2>1
  <2> QED BY <1>2, <2>1, <2>2, <2>3, <2>4
<1>12. FreeSpace(c) >= 0
  BY <1>8, SlotsAssumption DEF FreeSpace
<1>13. \A i \in 1 .. c.slotCount : LiveKeys(c)[i] \in Keys
  BY <1>8
<1>14. ASSUME NEW i \in 0 .. n - at PROVE ChildOf(c, i) \in S
  <2>1. CASE i = n - at
    BY <1>1, <1>8, <1>10, <2>1 DEF ChildOf
  <2>2. CASE i # n - at
    <3>1. i + 1 \in 1 .. n - at
      BY <1>1, <2>2
    <3>2. ChildOf(c, i) = t[i + 1].child
      BY <1>8, <1>10, <2>2 DEF ChildOf
    <3> QED BY <1>6, <3>1, <3>2
  <2> QED BY <2>1, <2>2
<1> QED BY <1>8, <1>9, <1>10, <1>11, <1>12, <1>13, <1>14 DEF c, PageOK

\* And so does the left half, which keeps a separator.
LEMMA LeftInnerIs ==
  ASSUME NEW pg, NEW S, SplitCase(pg, S), StayBelow(ParentIndex, InnerSplitAt) > 0
  PROVE  /\ PageOK(LeftInner) /\ LeftInner.level = pg.level /\ LeftInner.slotCount = pg.slotCount
         /\ LiveKeys(LeftInner) = LiveKeys(pg) /\ LeftInner.area = pg.area
         /\ LeftInner.seps # <<>>
         /\ \A i \in 0 .. SepCount(LeftInner) : ChildOf(LeftInner, i) \in S
<1> DEFINE n == SepCount(pg)
           at == InnerSplitAt
           index == ParentIndex
           stay == StayBelow(index, at)
           s == SubSeq(pg.seps, 1, stay)
           next == Logical(pg.seps, at).child
           kept == [pg EXCEPT !.seps = s, !.next = next]
           c == InsertIntoInner(kept, index, call.key, call.left, call.right)
<1>1. /\ pg.seps \in Seq(Sep) /\ n \in Nat /\ Len(pg.seps) = n /\ n >= 1 /\ pg.next \in S
      /\ index \in 0 .. n /\ at \in 0 .. n
      /\ \A j \in 1 .. n : pg.seps[j].child \in S
  BY SplitCaseIs
<1>2. /\ call.key \in Keys /\ call.left \in PageLink /\ call.right \in PageLink
      /\ call.left \in S /\ call.right \in S /\ pg = pages[Parent] /\ PageOK(pg)
  BY DEF SplitCase
<1>3. pg \in Page /\ pg.room \in Nat
  BY <1>2, PageFields DEF PageOK
<1>4. /\ LeftInner = IF index < at THEN c ELSE kept
  BY <1>2, Zenon DEF LeftInner
<1>5. next \in PageLink /\ next \in S
  <2>1. at \in 0 .. Len(pg.seps) /\ ParentIndex \in 0 .. Len(pg.seps) /\ Len(pg.seps) >= 1
        /\ \A j \in 1 .. Len(pg.seps) : pg.seps[j].child \in S
    BY <1>1
  <2> HIDE DEF at
  <2>2. Logical(pg.seps, at) \in Sep /\ Logical(pg.seps, at).child \in S
    BY <1>1, <1>2, <2>1, LogicalIs
  <2> QED BY <2>2 DEF Sep
<1>6. /\ stay \in 1 .. n /\ stay <= at /\ (index < at => stay = at - 1 /\ index \in 0 .. stay)
  BY <1>1 DEF StayBelow
<1>7. at * (SepSize + 1) <= pg.room
  BY <1>2, InnerSplitIs DEF SplitCase
<1> HIDE DEF n, at, index, stay, next, c
<1>8. s \in Seq(Sep) /\ Len(s) = stay /\ \A j \in 1 .. stay : s[j] = pg.seps[j]
  <2>1. s = SubSeq(pg.seps, 0 + 1, stay)
    OBVIOUS
  <2>2. 0 \in Nat /\ stay \in Nat /\ 0 <= stay /\ stay <= Len(pg.seps)
    BY <1>1, <1>6
  <2>3. SubSeq(pg.seps, 0 + 1, stay) \in Seq(Sep) /\ Len(SubSeq(pg.seps, 0 + 1, stay)) = stay - 0
        /\ \A i \in 1 .. stay - 0 : SubSeq(pg.seps, 0 + 1, stay)[i] = pg.seps[0 + i]
    BY <1>1, <2>2, SubSeqIs
  <2> HIDE DEF s
  <2> QED BY <2>1, <2>2, <2>3
<1> HIDE DEF s
<1>9. /\ kept \in Page /\ kept.seps = s /\ kept.next = next /\ kept.room = pg.room
      /\ kept.level = pg.level /\ kept.slots = pg.slots /\ kept.slotCount = pg.slotCount
      /\ kept.area = pg.area /\ kept.prev = pg.prev
  <2>1. kept = [pg EXCEPT !.seps = s, !.next = next]
    OBVIOUS
  <2> HIDE DEF kept
  <2> QED BY <1>3, <1>5, <1>8, <2>1 DEF Page, Sep
<1> HIDE DEF kept
<1>10. SepCount(kept) = stay
  BY <1>8, <1>9 DEF SepCount
<1>11. /\ InnerFree(kept) >= 0
       /\ index < at => InnerFree(kept) >= SepSize + 1
  <2> DEFINE z == SepSize + 1
  <2>1. z \in Nat
    BY SlotsAssumption
  <2>2. InnerFree(kept) = pg.room - stay * z
    BY <1>9, <1>10 DEF InnerFree
  <2>3. at * z <= pg.room
    BY <1>7
  <2> HIDE DEF z
  <2>4. at \in Nat /\ stay \in Nat
    BY <1>1, <1>6
  <2>5. at * z \in Nat /\ stay * z \in Nat
    BY <2>1, <2>4
  <2>6. at * z = stay * z + (at - stay) * z /\ (at - stay) * z >= 0 /\ (at - stay) * z \in Int
    BY <1>6, <2>1, <2>4
  <2>7. index < at => (at - stay) * z = z
    BY <1>6, <2>1, <2>4
  <2>8. InnerFree(kept) >= 0
    BY <1>3, <2>2, <2>3, <2>5, <2>6
  <2>9. index < at => InnerFree(kept) >= z
    BY <1>3, <2>1, <2>2, <2>3, <2>5, <2>6, <2>7
  <2> QED BY <2>8, <2>9 DEF z
<1>12. \A f \in LeafFields : kept[f] = pg[f]
  BY <1>9 DEF LeafFields
<1>13. PageOK(kept) /\ LiveKeys(kept) = LiveKeys(pg)
  BY <1>2, <1>9, <1>11, <1>12, SepsChanged
<1>14. ASSUME NEW i \in 0 .. stay PROVE ChildOf(kept, i) \in S
  <2>1. CASE i = stay
    BY <1>5, <1>9, <1>10, <2>1 DEF ChildOf
  <2>2. CASE i # stay
    <3>1. i + 1 \in 1 .. stay /\ i + 1 \in 1 .. n
      BY <1>1, <1>6, <2>2
    <3>2. ChildOf(kept, i) = s[i + 1].child
      BY <1>9, <1>10, <2>2 DEF ChildOf
    <3> QED BY <1>1, <1>8, <3>1, <3>2
  <2> QED BY <2>1, <2>2
<1>15. CASE ~(index < at)
  <2>1. LeftInner = kept
    BY <1>4, <1>15
  <2>2. kept.seps # <<>>
    BY <1>6, <1>8, <1>9
  <2> QED BY <1>9, <1>10, <1>13, <1>14, <2>1, <2>2
<1>16. CASE index < at
  <2>1. LeftInner = c
    BY <1>4, <1>16
  <2>2. index \in 0 .. SepCount(kept) /\ InnerFree(kept) >= SepSize + 1
    BY <1>6, <1>10, <1>11, <1>16
  <2>3. /\ PageOK(c) /\ SepCount(c) = SepCount(kept) + 1
        /\ \A f \in LeafFields : c[f] = kept[f]
        /\ \A i \in 0 .. SepCount(kept) + 1 :
             ChildOf(c, i) = IF i < index THEN ChildOf(kept, i)
                             ELSE IF i = index THEN call.left
                             ELSE IF i = index + 1 THEN call.right ELSE ChildOf(kept, i - 1)
    BY <1>2, <1>13, <2>2, InsertIntoInnerIs DEF c
  <2>4. /\ c.level = pg.level /\ c.slots = pg.slots /\ c.slotCount = pg.slotCount
        /\ c.area = pg.area
    BY <1>9, <2>3 DEF LeafFields
  <2>5. LiveKeys(c) = LiveKeys(pg)
    BY <2>4, LiveKeysSame
  <2>6. ASSUME NEW i \in 0 .. stay + 1 PROVE ChildOf(c, i) \in S
    <3>1. ChildOf(c, i) = IF i < index THEN ChildOf(kept, i)
                          ELSE IF i = index THEN call.left
                          ELSE IF i = index + 1 THEN call.right ELSE ChildOf(kept, i - 1)
      BY <1>10, <2>3
    <3>2. /\ i < index => i \in 0 .. stay
          /\ ~(i < index) /\ i # index /\ i # index + 1 => i - 1 \in 0 .. stay
      BY <1>1, <1>6, <1>16
    <3> QED BY <1>2, <1>14, <3>1, <3>2
  <2>7. c.seps # <<>>
    <3>1. Len(c.seps) = stay + 1
      BY <1>10, <2>3 DEF SepCount
    <3> QED BY <1>6, <3>1
  <2> QED BY <1>10, <2>1, <2>3, <2>4, <2>5, <2>6, <2>7
<1> QED BY <1>15, <1>16

\* The copy of the root that promoteRoot makes: the entries of a page that has just
\* been compacted fit in a page that is no smaller.
LEMMA RootCopyIs ==
  ASSUME NEW pg, pg = pages[root_], PageOK(pg), pg.room <= Usable,
         Len(Cells(LiveKeys(pg))) <= Len(pg.area)
  PROVE  /\ PageOK(RootCopy) /\ RootCopy.level = pg.level /\ RootCopy.seps = pg.seps
         /\ RootCopy.next = pg.next /\ RootCopy.slotCount = pg.slotCount
         /\ LiveKeys(RootCopy) = LiveKeys(pg)
         /\ Len(RootCopy.area) = Len(Cells(LiveKeys(pg)))
<1> DEFINE ks == LiveKeys(pg)
           n == pg.slotCount
           c == RootCopy
<1>1. /\ pg \in Page /\ n \in Nat /\ pg.room \in Nat /\ Len(pg.area) \in Nat
      /\ pg.level \in Nat /\ pg.next \in PageLink /\ pg.seps \in Seq(Sep)
  BY PageFields DEF PageOK, Sep
<1>2. ks \in Seq(Keys) /\ Len(ks) = n
  BY LiveKeysType
<1>3. c = [FillLeaf(NewPage, ks) EXCEPT !.level = pg.level, !.seps = pg.seps, !.next = pg.next]
  BY Zenon DEF RootCopy
<1> HIDE DEF ks, c
<1>4. /\ Cells(ks) \in Seq(Keys \cup {NoKey}) /\ Offsets(ks) \in Seq(Nat \ {0})
      /\ Len(Offsets(ks)) = n /\ Len(Cells(ks)) \in Nat
      /\ \A i \in 1 .. Len(ks) : /\ Offsets(ks)[i] <= Len(Cells(ks))
                                 /\ Cells(ks)[Offsets(ks)[i]] = ks[i]
  BY <1>2, CellsAre
<1>5. c = [room |-> Usable, level |-> pg.level, slots |-> Offsets(ks), slotCount |-> Len(ks),
           area |-> Cells(ks), seps |-> pg.seps, next |-> pg.next, prev |-> INVALID_PAGE]
  BY <1>3, Zenon DEF FillLeaf, NewPage
<1>6. /\ c.room = Usable /\ c.level = pg.level /\ c.slots = Offsets(ks)
      /\ c.slotCount = n /\ c.area = Cells(ks) /\ c.seps = pg.seps /\ c.next = pg.next
  BY <1>2, <1>5
<1>7. c \in Page
  BY <1>1, <1>2, <1>4, <1>5 DEF Page, PageLink, Sep
<1>8. LiveKeys(c) = ks /\ \A i \in 1 .. c.slotCount : LiveKeys(c)[i] \in Keys
  <2>1. /\ c.slotCount = Len(ks) /\ Len(ks) <= Len(c.slots)
        /\ \A i \in 1 .. Len(ks) : /\ c.slots[i] <= Len(c.area)
                                   /\ c.area[c.slots[i]] = ks[i]
    BY <1>1, <1>2, <1>4, <1>6
  <2> QED BY <1>2, <1>7, <2>1, LiveKeysAre
<1>9. FreeSpace(c) >= 0
  <2>1. FreeSpace(c) = Usable - n - Len(Cells(ks))
    BY <1>6 DEF FreeSpace
  <2>2. pg.room - n - Len(pg.area) >= 0
    BY DEF PageOK, FreeSpace
  <2>3. Usable \in Nat
    BY SlotsAssumption
  <2>4. Len(Cells(ks)) <= Len(pg.area)
    BY DEF ks
  <2> DEFINE x == Len(Cells(ks))
             y == Len(pg.area)
  <2>5. x \in Nat /\ y \in Nat /\ n \in Nat /\ pg.room \in Nat /\ pg.room <= Usable
    BY <1>1, <1>4
  <2> HIDE DEF n, x, y
  <2>7. x <= y /\ pg.room - n - y >= 0
    BY <2>2, <2>4, Zenon DEF x, y
  <2>8. ASSUME NEW r \in Nat PROVE (r - n - y >= 0 /\ r <= Usable) => Usable - n - x >= 0
    BY <2>3, <2>5, <2>7
  <2>6. Usable - n - x >= 0
    BY <2>5, <2>7, <2>8, Zenon
  <2> QED BY <2>1, <2>6, Zenon DEF x
<1>10. InnerFree(c) >= 0
  <2> DEFINE z == SepCount(pg) * (SepSize + 1)
  <2>1. SepCount(c) = SepCount(pg)
    BY <1>6 DEF SepCount
  <2>2. InnerFree(c) = Usable - z /\ pg.room - z >= 0
    BY <1>6, <2>1 DEF InnerFree, PageOK
  <2>3. z \in Int /\ Usable \in Nat
    <3>1. SepCount(pg) \in Nat /\ SepSize + 1 \in Nat
      BY SepsAre, SlotsAssumption
    <3> QED BY <3>1, SlotsAssumption
  <2> HIDE DEF z
  <2> QED BY <1>1, <2>2, <2>3
<1> QED BY <1>6, <1>7, <1>8, <1>9, <1>10 DEF c, ks, PageOK

\* The new root has one separator, between the copy of the old one and its sibling.
LEMMA PromotedRootIs ==
  ASSUME NEW left \in PageLink, pages[root_].level \in Nat, call.key \in Keys,
         call.right \in PageLink
  PROVE  /\ PageOK(PromotedRoot(left)) /\ PromotedRoot(left).level = pages[root_].level + 1
         /\ PromotedRoot(left).slotCount = 0 /\ PromotedRoot(left).seps # <<>>
         /\ SepCount(PromotedRoot(left)) = 1 /\ PromotedRoot(left).seps[1].key = call.key
         /\ ChildOf(PromotedRoot(left), 0) = left
         /\ ChildOf(PromotedRoot(left), 1) = call.right
<1> DEFINE new == [NewRoot EXCEPT !.level = pages[root_].level + 1, !.next = call.right]
           c == PromotedRoot(left)
<1>1. c = InsertIntoInner(new, 0, call.key, left, call.right)
  BY Zenon DEF PromotedRoot
<1> HIDE DEF c
<1>2. new = [room |-> ZeroUsable, level |-> pages[root_].level + 1, slots |-> <<>>,
             slotCount |-> 0, area |-> <<>>, seps |-> <<>>, next |-> call.right,
             prev |-> INVALID_PAGE]
  <2>1. NewRoot = [room |-> ZeroUsable, level |-> INVALID_TREE_LEVEL, slots |-> <<>>,
                   slotCount |-> 0, area |-> <<>>, seps |-> <<>>, next |-> INVALID_PAGE,
                   prev |-> INVALID_PAGE]
    BY DEF NewRoot, NewPage
  <2> HIDE DEF NewRoot
  <2> DEFINE lev == pages[root_].level + 1
             nxt == call.right
  <2>2. new = [NewRoot EXCEPT !.level = lev, !.next = nxt]
    OBVIOUS
  <2> HIDE DEF new, lev, nxt
  <2>3. new = [room |-> ZeroUsable, level |-> lev, slots |-> <<>>, slotCount |-> 0,
               area |-> <<>>, seps |-> <<>>, next |-> nxt, prev |-> INVALID_PAGE]
    BY <2>1, <2>2
  <2> QED BY <2>3 DEF lev, nxt
<1> HIDE DEF new
<1>3. new \in Page
  <2>1. pages[root_].level + 1 \in Nat
    OBVIOUS
  <2> QED BY <1>2, <2>1 DEF Page, PageLink
<1>4. /\ new.seps = <<>> /\ new.slotCount = 0 /\ new.level = pages[root_].level + 1
      /\ new.room = ZeroUsable /\ new.area = <<>> /\ new.next = call.right
  BY <1>2
<1>5. SepCount(new) = 0 /\ FreeSpace(new) = ZeroUsable /\ InnerFree(new) = ZeroUsable
  BY <1>4, SlotsAssumption DEF SepCount, FreeSpace, InnerFree
<1>6. PageOK(new) /\ InnerFree(new) >= SepSize + 1
  <2>1. ZeroUsable \in Nat /\ SepSize \in Nat /\ ZeroUsable >= SepSize + 2
    BY SlotsAssumption, RoomAssumption DEF SepNeed
  <2>2. \A i \in 1 .. new.slotCount : LiveKeys(new)[i] \in Keys
    BY <1>4
  <2> QED BY <1>3, <1>5, <2>1, <2>2 DEF PageOK
<1>7. /\ PageOK(c) /\ SepCount(c) = SepCount(new) + 1
      /\ \A f \in LeafFields : c[f] = new[f]
      /\ \A i \in 0 .. SepCount(new) + 1 :
           ChildOf(c, i) = IF i < 0 THEN ChildOf(new, i)
                           ELSE IF i = 0 THEN left
                           ELSE IF i = 0 + 1 THEN call.right ELSE ChildOf(new, i - 1)
  <2>1. 0 \in 0 .. SepCount(new)
    BY <1>5
  <2> QED BY <1>1, <1>6, <2>1, InsertIntoInnerIs
<1>8. ChildOf(c, 0) = left /\ ChildOf(c, 1) = call.right /\ SepCount(c) = 1
  BY <1>5, <1>7
<1>9. c.level = pages[root_].level + 1 /\ c.slotCount = 0
  BY <1>4, <1>7 DEF LeafFields
<1>10. c.seps # <<>>
  <2>1. Len(c.seps) = 1
    BY <1>8 DEF SepCount
  <2>2. Len(<<>>) # 1
    OBVIOUS
  <2> QED BY <2>1, <2>2, Zenon
<1>11. c.seps[1].key = call.key
  <2> DEFINE e == [key |-> call.key, child |-> left]
             s == InsertAt(new.seps, 0 + 1, e)
  <2>1. e \in Sep
    BY DEF Sep
  <2>2. Len(s) = 1 /\ s[1] = e
    <3>1. new.seps \in Seq(Sep) /\ 0 \in 0 .. Len(new.seps) /\ Len(new.seps) = 0
      BY <1>4
    <3>2. IsInserted(Inserted(new.seps, 0, e), Sep, new.seps, 0, e)
      BY <2>1, <3>1, InsertedIs
    <3>3. s = Inserted(new.seps, 0, e)
      BY DEF Inserted
    <3> HIDE DEF s, e
    <3> QED BY <3>1, <3>2, <3>3 DEF IsInserted
  <2>3. c.seps = s
    <3>1. 0 + 1 = Len(s)
      BY <2>2
    <3> HIDE DEF s
    <3> QED BY <1>1, <1>3, <3>1 DEF InsertIntoInner, Page, s, e
  <2> QED BY <2>2, <2>3
<1> QED BY <1>7, <1>8, <1>9, <1>10, <1>11 DEF c

\* q is a page one level under p, in the pages ps.
Below(ps, p, q) ==
  /\ q \in DOMAIN ps \ {root_}
  /\ ps[p].level = ps[q].level + 1
  /\ ps[p].level # INVALID_TREE_LEVEL

\* Page p of ps is a leaf or an inner page, or it is the root that has neither
\* entries nor separators yet.
NodeOK(ps, p) ==
  LET pg == ps[p] IN
  /\ PageOK(pg)
  /\ pg.level \in DOMAIN ps \cup {INVALID_TREE_LEVEL}
  /\ pg.level = INVALID_TREE_LEVEL => p = root_ /\ pg.slotCount = 0 /\ pg.seps = <<>>
  /\ pg.level = 0 => pg.seps = <<>>
  /\ pg.level # 0 => pg.slotCount = 0
  /\ p = root_ /\ pg.seps = <<>> => pg.level \in {0, INVALID_TREE_LEVEL}
  /\ pg.level \notin {0, INVALID_TREE_LEVEL} =>
       \A i \in 0 .. SepCount(pg) : Below(ps, p, ChildOf(pg, i))

\* The pages make up levels: every page is a leaf or an inner page over its children.
Nodes(ps) ==
  /\ \E n \in PageNum : DOMAIN ps = 0 .. n
  /\ \A p \in DOMAIN ps : NodeOK(ps, p)

\* way leads down from the root, a level at a time.
IsWay(ps, way) ==
  /\ way \in Seq(DOMAIN ps)
  /\ Len(way) >= 1
  /\ way[1] = root_
  /\ \A i \in 1 .. Len(way) - 1 : Below(ps, way[i], way[i + 1])

\* The pages above q.
IsWayTo(ps, parents, q) ==
  /\ parents \in Seq(DOMAIN ps)
  /\ q \in DOMAIN ps
  /\ parents = <<>> => q = root_
  /\ parents # <<>> => IsWay(ps, parents) /\ Below(ps, Last(parents), q)

\* The insertion in progress has split the page at the end of a way from the root,
\* and the new page beside it is at the same level.
CallOK(ps, c) ==
  c.active =>
    /\ c.key \in Keys
    /\ IsWayTo(ps, c.parents, c.left)
    /\ ps[c.left].level # INVALID_TREE_LEVEL
    /\ c.right \in DOMAIN ps \ {root_}
    /\ ps[c.right].level = ps[c.left].level
    /\ Len(Cells(LiveKeys(ps[c.left]))) <= Len(ps[c.left].area)

\* The pages allocated so far, and the next one.
LEMMA DomainIs ==
  ASSUME NEW ps, NEW n \in PageNum, DOMAIN ps = 0 .. n
  PROVE  /\ Cardinality(DOMAIN ps) = n + 1 /\ n + 1 \in Nat /\ n \in Nat
         /\ DOMAIN ps \subseteq PageNum /\ root_ \in DOMAIN ps
         /\ n + 1 \notin DOMAIN ps
         /\ n + 1 <= MaxPage => n + 1 \in PageNum /\ 0 .. (n + 1) = DOMAIN ps \cup {n + 1}
<1>1. n \in Nat /\ MaxPage \in Nat /\ n <= MaxPage
  BY TreeAssumption DEF PageNum
<1>2. Cardinality(0 .. n) = n + 1
  BY <1>1, FS_Interval
<1> QED BY <1>1, <1>2 DEF PageNum, root_

\* A node stays one if the levels of the pages other than the root do not change.
LEMMA NodeKept ==
  ASSUME NEW ps, NEW qs, DOMAIN ps \subseteq DOMAIN qs,
         \A q \in DOMAIN ps \ {root_} : qs[q].level = ps[q].level,
         NEW p \in DOMAIN ps, NodeOK(ps, p),
         PageOK(qs[p]), qs[p].level = ps[p].level, qs[p].seps = ps[p].seps,
         qs[p].next = ps[p].next, qs[p].slotCount = ps[p].slotCount
  PROVE  NodeOK(qs, p)
<1> DEFINE pg == ps[p]
           c  == qs[p]
<1>1. SepCount(c) = SepCount(pg) /\ \A i : ChildOf(c, i) = ChildOf(pg, i)
  BY DEF SepCount, ChildOf
<1>2. ASSUME pg.level \notin {0, INVALID_TREE_LEVEL}, NEW i \in 0 .. SepCount(pg)
      PROVE  Below(qs, p, ChildOf(pg, i))
  <2>1. Below(ps, p, ChildOf(pg, i))
    BY <1>2 DEF NodeOK
  <2> HIDE DEF pg
  <2> QED BY <2>1 DEF Below
<1> HIDE DEF pg
<1>3. pg.level \in DOMAIN qs \cup {INVALID_TREE_LEVEL}
  BY DEF NodeOK, pg
<1> QED BY <1>1, <1>2, <1>3 DEF NodeOK, pg

\* It may also move to another page.
LEMMA NodeMoved ==
  ASSUME NEW ps, NEW qs, DOMAIN ps \subseteq DOMAIN qs,
         \A q \in DOMAIN ps \ {root_} : qs[q].level = ps[q].level,
         NEW p \in DOMAIN ps, NodeOK(ps, p), ps[p].level # INVALID_TREE_LEVEL,
         NEW p2 \in DOMAIN qs \ {root_},
         PageOK(qs[p2]), qs[p2].level = ps[p].level, qs[p2].seps = ps[p].seps,
         qs[p2].next = ps[p].next, qs[p2].slotCount = ps[p].slotCount
  PROVE  NodeOK(qs, p2)
<1> DEFINE pg == ps[p]
           c  == qs[p2]
<1>1. SepCount(c) = SepCount(pg) /\ \A i : ChildOf(c, i) = ChildOf(pg, i)
  BY DEF SepCount, ChildOf
<1>2. ASSUME pg.level \notin {0, INVALID_TREE_LEVEL}, NEW i \in 0 .. SepCount(pg)
      PROVE  Below(qs, p2, ChildOf(pg, i))
  <2>1. Below(ps, p, ChildOf(pg, i))
    BY <1>2 DEF NodeOK
  <2> HIDE DEF pg
  <2> QED BY <2>1 DEF Below
<1> HIDE DEF pg
<1>3. pg.level \in DOMAIN qs \cup {INVALID_TREE_LEVEL}
  BY DEF NodeOK, pg
<1> QED BY <1>1, <1>2, <1>3 DEF NodeOK, pg

\* A leaf is a node.
LEMMA LeafNode ==
  ASSUME NEW ps, NEW p, PageOK(ps[p]), ps[p].level = 0, ps[p].seps = <<>>, 0 \in DOMAIN ps
  PROVE  NodeOK(ps, p)
BY DEF NodeOK, INVALID_TREE_LEVEL

\* An inner page over pages one level down is a node.
LEMMA InnerNode ==
  ASSUME NEW ps, NEW p, PageOK(ps[p]), NEW l \in DOMAIN ps, ps[p].level = l, l # 0,
         l # INVALID_TREE_LEVEL, ps[p].slotCount = 0, p = root_ => ps[p].seps # <<>>,
         \A i \in 0 .. SepCount(ps[p]) : Below(ps, p, ChildOf(ps[p], i))
  PROVE  NodeOK(ps, p)
BY DEF NodeOK

\* A leaf whose prev has been set is otherwise as it was.
LEMMA RelinkedIs ==
  ASSUME NEW pg, PageOK(pg), NEW r \in PageLink, NEW c, c = [pg EXCEPT !.prev = r]
  PROVE  /\ PageOK(c) /\ c.level = pg.level /\ c.seps = pg.seps
         /\ c.next = pg.next /\ c.slotCount = pg.slotCount
         /\ LiveKeys(c) = LiveKeys(pg) /\ c.area = pg.area
<1>1. pg \in Page
  BY DEF PageOK
<1>2. /\ c \in Page /\ c.level = pg.level /\ c.seps = pg.seps /\ c.room = pg.room
      /\ c.next = pg.next /\ c.slotCount = pg.slotCount /\ c.slots = pg.slots
      /\ c.area = pg.area
  BY <1>1 DEF Page
<1>3. LiveKeys(c) = LiveKeys(pg)
  BY <1>2, LiveKeysSame
<1>4. FreeSpace(c) >= 0 /\ InnerFree(c) >= 0
  BY <1>2, Zenon DEF FreeSpace, InnerFree, SepCount, PageOK
<1> QED BY <1>2, <1>3, <1>4, Zenon DEF PageOK

\* The last element of a sequence, and those before it.
LEMMA FrontLast ==
  ASSUME NEW B, NEW s \in Seq(B), s # <<>>
  PROVE  /\ Front(s) \in Seq(B) /\ Len(Front(s)) = Len(s) - 1 /\ Len(s) \in Nat /\ Len(s) >= 1
         /\ \A i \in 1 .. Len(s) - 1 : Front(s)[i] = s[i]
         /\ Last(s) = s[Len(s)] /\ Last(s) \in B
<1>1. Len(s) \in Nat /\ Len(s) >= 1
  BY EmptySeq
<1>2. /\ Front(s) = SubSeq(s, 1, Len(s) - 1) /\ Last(s) = s[Len(s)]
  BY DEF Front, Last
<1> DEFINE n == Len(s) - 1
<1>3. n \in Nat /\ n <= Len(s) /\ Len(s) \in 1 .. Len(s)
  BY <1>1
<1> HIDE DEF n
<1>4. /\ SubSeq(s, 0 + 1, n) \in Seq(B) /\ Len(SubSeq(s, 0 + 1, n)) = n - 0
      /\ \A i \in 1 .. n - 0 : SubSeq(s, 0 + 1, n)[i] = s[0 + i]
  <2>1. 0 \in Nat /\ 0 <= n
    BY <1>3
  <2> QED BY <1>3, <2>1, SubSeqIs
<1>5. /\ 0 + 1 = 1 /\ n - 0 = n
      /\ \A i \in 1 .. n : 0 + i = i
  BY <1>3
<1>6. /\ Front(s) \in Seq(B) /\ Len(Front(s)) = n
      /\ \A i \in 1 .. n : Front(s)[i] = s[i]
  BY <1>2, <1>4, <1>5, Zenon DEF n
<1>7. Last(s) \in B
  BY <1>2, <1>3
<1> QED BY <1>1, <1>2, <1>6, <1>7 DEF n

\* A way leads to its last page.
LEMMA WayToLast ==
  ASSUME NEW ps, NEW way, IsWay(ps, way)
  PROVE  IsWayTo(ps, Front(way), Last(way))
<1> DEFINE n == Len(way)
           f == Front(way)
<1>0. way # <<>>
  <2>1. Len(<<>>) = 0 /\ ~(0 >= 1)
    OBVIOUS
  <2> QED BY <2>1 DEF IsWay
<1>1. /\ f \in Seq(DOMAIN ps) /\ Len(f) = n - 1 /\ n \in Nat /\ n >= 1
      /\ \A i \in 1 .. n - 1 : f[i] = way[i]
      /\ Last(way) = way[n] /\ Last(way) \in DOMAIN ps
  BY <1>0, FrontLast DEF IsWay
<1> HIDE DEF f
<1>2. ASSUME f = <<>> PROVE Last(way) = root_
  <2>1. n = 1
    BY <1>1, <1>2
  <2> QED BY <1>1, <2>1 DEF IsWay
<1>3. ASSUME f # <<>> PROVE IsWay(ps, f) /\ Below(ps, Last(f), Last(way))
  <2>1. n - 1 >= 1 /\ Last(f) = f[n - 1]
    BY <1>1, <1>3, FrontLast
  <2>2. \A i \in 1 .. n - 1 : Below(ps, way[i], way[i + 1])
    BY DEF IsWay
  <2>3. n - 1 \in 1 .. n - 1 /\ n - 1 + 1 = n
    BY <1>1, <2>1
  <2>4. Below(ps, Last(f), Last(way))
    <3>1. Below(ps, way[n - 1], way[n - 1 + 1])
      BY <2>2, <2>3
    <3> QED BY <1>1, <2>1, <2>3, <3>1
  <2>5. f[1] = root_
    <3>1. 1 \in 1 .. n - 1
      BY <1>1, <2>1
    <3> QED BY <1>1, <3>1 DEF IsWay
  <2>6. ASSUME NEW i \in 1 .. n - 1 - 1 PROVE Below(ps, f[i], f[i + 1])
    <3>1. i \in 1 .. n - 1 /\ i + 1 \in 1 .. n - 1
      BY <1>1
    <3>2. f[i] = way[i] /\ f[i + 1] = way[i + 1]
      BY <1>1, <3>1
    <3> QED BY <2>2, <3>1, <3>2
  <2> QED BY <1>1, <2>1, <2>4, <2>5, <2>6 DEF IsWay
<1> QED BY <1>1, <1>2, <1>3 DEF IsWayTo, f

\* A way stays one as long as the levels do not change.
LEMMA WayKept ==
  ASSUME NEW ps, NEW qs, DOMAIN ps \subseteq DOMAIN qs,
         \A q \in DOMAIN ps : qs[q].level = ps[q].level
  PROVE  /\ \A way : IsWay(ps, way) => IsWay(qs, way)
         /\ \A parents, q : IsWayTo(ps, parents, q) => IsWayTo(qs, parents, q)
<1>1. \A p \in DOMAIN ps : \A q : Below(ps, p, q) => Below(qs, p, q)
  BY DEF Below
<1>2. \A s : s \in Seq(DOMAIN ps) => s \in Seq(DOMAIN qs)
  OBVIOUS
<1>3. ASSUME NEW way, IsWay(ps, way) PROVE IsWay(qs, way)
  <2>1. way \in Seq(DOMAIN ps)
    BY <1>3 DEF IsWay
  <2>2. \A i \in 1 .. Len(way) - 1 : way[i] \in DOMAIN ps
    BY <2>1
  <2> QED BY <1>1, <1>2, <1>3, <2>2 DEF IsWay
<1>4. ASSUME NEW parents, NEW q, IsWayTo(ps, parents, q) PROVE IsWayTo(qs, parents, q)
  <2>1. parents \in Seq(DOMAIN ps)
    BY <1>4 DEF IsWayTo
  <2>2. parents # <<>> => Last(parents) \in DOMAIN ps
    BY <2>1, FrontLast
  <2> QED BY <1>1, <1>2, <1>3, <1>4, <2>2 DEF IsWayTo
<1> QED BY <1>3, <1>4

\* f follows down from each of D until it stops.
Follows(f, D, stop, down) ==
  f = [p \in D |-> IF p \in stop THEN <<p>> ELSE <<p>> \o f[down[p]]]

\* A path that goes down until it stops exists if each step goes to a lower rank.
LEMMA DescentExists ==
  ASSUME NEW D, NEW rank \in [D -> Nat], NEW stop, NEW down, NEW top \in Nat,
         \A p \in D : rank[p] <= top,
         \A p \in D : p \notin stop => down[p] \in D /\ rank[down[p]] < rank[p]
  PROVE  \E f : Follows(f, D, stop, down)
<1> DEFINE E(m) == {p \in D : p \in stop \/ rank[p] <= m}
           Is(f, m) == f = [p \in E(m) |-> IF p \in stop THEN <<p>> ELSE <<p>> \o f[down[p]]]
           S == {m \in Nat : \E f : Is(f, m)}
<1>1. 0 \in S
  <2> DEFINE f == [p \in E(0) |-> <<p>>]
  <2>1. \A p \in E(0) : p \in stop
    OBVIOUS
  <2>2. Is(f, 0)
    BY <2>1
  <2> QED BY <2>2
<1>2. ASSUME NEW m \in S PROVE m + 1 \in S
  <2>1. PICK f : Is(f, m)
    OBVIOUS
  <2> DEFINE g == [p \in E(m + 1) |-> IF p \in stop THEN <<p>> ELSE <<p>> \o f[down[p]]]
  <2>2. ASSUME NEW p \in E(m + 1), p \notin stop PROVE g[down[p]] = f[down[p]]
    <3>1. down[p] \in E(m) /\ down[p] \in E(m + 1)
      BY <2>2
    <3> HIDE DEF E
    <3> QED BY <2>1, <3>1
  <2>3. Is(g, m + 1)
    <3>1. g = [p \in E(m + 1) |-> IF p \in stop THEN <<p>> ELSE <<p>> \o f[down[p]]]
      OBVIOUS
    <3> HIDE DEF g, E
    <3> QED BY <2>2, <3>1
  <2> HIDE DEF Is
  <2> QED BY <2>3
<1> HIDE DEF S
<1>3. S = Nat
  <2>1. S \in SUBSET Nat
    BY DEF S
  <2> QED BY <1>1, <1>2, <2>1, NatInductive
<1>4. PICK f : Is(f, top)
  BY <1>3 DEF S
<1>5. E(top) = D
  OBVIOUS
<1> HIDE DEF E
<1> QED BY <1>4, <1>5 DEF Follows

\* The function that Path reads.
PathFrom(k) ==
  CHOOSE f : f = [p \in DOMAIN pages |->
                    IF pages[p].level \in {0, INVALID_TREE_LEVEL} THEN <<p>>
                    ELSE <<p>> \o f[DescendTo(pages[p], k)]]

\* What Path reads.
LEMMA PathDef ==
  ASSUME NEW k
  PROVE  Path(k) = PathFrom(k)[root_]
BY Zenon DEF Path, PathFrom

\* search goes down one level from an inner page.
LEMMA DescendToIs ==
  ASSUME Nodes(pages), NEW k, NEW p \in DOMAIN pages,
         pages[p].level \notin {0, INVALID_TREE_LEVEL}
  PROVE  Below(pages, p, DescendTo(pages[p], k))
<1> DEFINE pg == pages[p]
           i  == SearchIn(SepKeys(pg), k)
<1>1. NodeOK(pages, p)
  BY DEF Nodes
<1>2. PageOK(pg)
  BY <1>1 DEF NodeOK
<1> HIDE DEF pg
<1>3. Len(SepKeys(pg)) = SepCount(pg) /\ SepCount(pg) \in Nat
  BY <1>2, SepsAre
<1>4. i \in 0 .. SepCount(pg)
  BY <1>3, SearchWithin
<1> HIDE DEF i
<1>5. Below(pages, p, ChildOf(pg, i))
  BY <1>1, <1>4 DEF NodeOK, pg
<1> QED BY <1>5 DEF DescendTo, i, pg

\* The recursive function of Path exists: levels decrease on the way, so that search
\* ends.
LEMMA PathFromExists ==
  ASSUME Nodes(pages), NEW k
  PROVE  PathFrom(k) = [p \in DOMAIN pages |->
                          IF pages[p].level \in {0, INVALID_TREE_LEVEL} THEN <<p>>
                          ELSE <<p>> \o PathFrom(k)[DescendTo(pages[p], k)]]
<1> DEFINE D == DOMAIN pages
           rank == [p \in D |-> pages[p].level]
           stop == {p \in D : pages[p].level \in {0, INVALID_TREE_LEVEL}}
           down == [p \in D |-> DescendTo(pages[p], k)]
<1>1. PICK n \in PageNum : D = 0 .. n
  BY DEF Nodes
<1>2. n \in Nat /\ D \subseteq Nat
  BY <1>1, DomainIs
<1>3. \A p \in D : pages[p].level \in Nat /\ pages[p].level <= n + 255
  <2> SUFFICES ASSUME NEW p \in D PROVE pages[p].level \in Nat /\ pages[p].level <= n + 255
    OBVIOUS
  <2>1. pages[p].level \in D \cup {INVALID_TREE_LEVEL}
    BY DEF Nodes, NodeOK
  <2> QED BY <1>1, <1>2, <2>1 DEF INVALID_TREE_LEVEL
<1>4. ASSUME NEW p \in D, p \notin stop
      PROVE  down[p] \in D /\ rank[down[p]] < rank[p]
  <2>1. Below(pages, p, down[p])
    BY <1>4, DescendToIs
  <2>2. down[p] \in D /\ rank[p] = rank[down[p]] + 1
    BY <2>1 DEF Below
  <2>3. rank[down[p]] \in Nat
    BY <1>3, <2>2
  <2> QED BY <2>2, <2>3
<1>5. \E f : Follows(f, D, stop, down)
  <2> DEFINE top == n + 255
  <2>1. rank \in [D -> Nat] /\ top \in Nat /\ \A p \in D : rank[p] <= top
    BY <1>2, <1>3
  <2> HIDE DEF D, rank, stop, down, top
  <2> QED BY <1>4, <2>1, DescentExists
<1>6. PICK f : f = [p \in D |-> IF p \in stop THEN <<p>> ELSE <<p>> \o f[down[p]]]
  BY <1>5 DEF Follows
<1>7. f = [p \in DOMAIN pages |->
             IF pages[p].level \in {0, INVALID_TREE_LEVEL} THEN <<p>>
             ELSE <<p>> \o f[DescendTo(pages[p], k)]]
  <2>1. \A p \in D : /\ p \in stop <=> pages[p].level \in {0, INVALID_TREE_LEVEL}
                     /\ down[p] = DescendTo(pages[p], k)
    OBVIOUS
  <2> HIDE DEF stop, down
  <2> QED BY <1>6, <2>1
<1> QED BY <1>7, Zenon DEF PathFrom

\* way leads down from p and ends at a leaf.
IsDescent(p, way) ==
  /\ way \in Seq(DOMAIN pages)
  /\ Len(way) >= 1
  /\ way[1] = p
  /\ \A i \in 1 .. Len(way) - 1 : Below(pages, way[i], way[i + 1])
  /\ pages[way[Len(way)]].level \in {0, INVALID_TREE_LEVEL}

\* A way down with one page more above it.
LEMMA DescentLonger ==
  ASSUME NEW p \in DOMAIN pages, NEW q, NEW way, IsDescent(q, way), Below(pages, p, q)
  PROVE  IsDescent(p, <<p>> \o way)
<1> DEFINE w == <<p>> \o way
           n == Len(way)
<1>1. way \in Seq(DOMAIN pages) /\ n \in Nat /\ n >= 1
  BY DEF IsDescent
<1>2. /\ w \in Seq(DOMAIN pages) /\ Len(w) = n + 1 /\ w[1] = p
      /\ \A i \in 1 .. n : w[i + 1] = way[i]
  BY <1>1
<1> HIDE DEF w, n
<1>3. ASSUME NEW i \in 1 .. n PROVE Below(pages, w[i], w[i + 1])
  <2>1. CASE i = 1
    <3>1. w[1] = p /\ w[i + 1] = q
      BY <1>2, <2>1 DEF IsDescent
    <3> QED BY <2>1, <3>1
  <2>2. CASE i # 1
    <3>1. i - 1 \in 1 .. n - 1 /\ i - 1 + 1 = i /\ i - 1 \in 1 .. n
      BY <1>1, <2>2
    <3>2. Below(pages, way[i - 1], way[i - 1 + 1])
      BY <3>1 DEF IsDescent, n
    <3>3. w[i - 1 + 1] = way[i - 1] /\ w[i + 1] = way[i]
      BY <1>2, <3>1
    <3> QED BY <3>1, <3>2, <3>3
  <2> QED BY <2>1, <2>2
<1>4. w[n + 1] = way[n]
  <2>1. n \in 1 .. n
    BY <1>1
  <2> QED BY <1>2, <2>1
<1>5. pages[way[n]].level \in {0, INVALID_TREE_LEVEL}
  BY DEF IsDescent, n
<1>6. n + 1 - 1 = n /\ n + 1 >= 1 /\ Len(w) - 1 = n
  BY <1>1, <1>2
<1>7. \A i \in 1 .. Len(w) - 1 : Below(pages, w[i], w[i + 1])
  BY <1>3, <1>6
<1>8. Len(w) >= 1 /\ pages[w[Len(w)]].level \in {0, INVALID_TREE_LEVEL}
  BY <1>2, <1>4, <1>5, <1>6
<1>9. IsDescent(p, w)
  BY <1>2, <1>7, <1>8, Zenon DEF IsDescent
<1> QED BY <1>9 DEF w

\* search goes down to a leaf from any page.
LEMMA PathFromIs ==
  ASSUME Nodes(pages), NEW k, NEW p \in DOMAIN pages
  PROVE  IsDescent(p, PathFrom(k)[p])
<1> DEFINE D == DOMAIN pages
           f == PathFrom(k)
           level(q) == pages[q].level
           S == {m \in Nat : \A q \in D : level(q) <= m => IsDescent(q, f[q])}
<1>1. f = [q \in D |-> IF level(q) \in {0, INVALID_TREE_LEVEL} THEN <<q>>
                       ELSE <<q>> \o f[DescendTo(pages[q], k)]]
  BY PathFromExists
<1> HIDE DEF f
<1>2. /\ \A q \in D : level(q) \in {0, INVALID_TREE_LEVEL} => f[q] = <<q>>
      /\ \A q \in D : level(q) \notin {0, INVALID_TREE_LEVEL} =>
                        f[q] = <<q>> \o f[DescendTo(pages[q], k)]
  BY <1>1
<1>3. \A q \in D : level(q) \in Nat
  BY PageFields DEF Nodes, NodeOK, PageOK
<1>4. ASSUME NEW q \in D, level(q) \in {0, INVALID_TREE_LEVEL} PROVE IsDescent(q, f[q])
  <2>1. f[q] = <<q>>
    BY <1>2, <1>4
  <2> QED BY <1>4, <2>1 DEF IsDescent
<1>5. ASSUME NEW q \in D, level(q) \notin {0, INVALID_TREE_LEVEL},
             IsDescent(DescendTo(pages[q], k), f[DescendTo(pages[q], k)])
      PROVE  IsDescent(q, f[q])
  <2>1. Below(pages, q, DescendTo(pages[q], k))
    BY <1>5, DescendToIs
  <2>2. f[q] = <<q>> \o f[DescendTo(pages[q], k)]
    BY <1>2, <1>5
  <2> QED BY <1>5, <2>1, <2>2, DescentLonger
<1>6. 0 \in S
  <2>1. \A q \in D : level(q) <= 0 => level(q) = 0
    BY <1>3
  <2> QED BY <1>4, <2>1
<1>7. ASSUME NEW m \in S PROVE m + 1 \in S
  <2> SUFFICES ASSUME NEW q \in D, level(q) <= m + 1 PROVE IsDescent(q, f[q])
    OBVIOUS
  <2>1. CASE level(q) \in {0, INVALID_TREE_LEVEL}
    BY <1>4, <2>1
  <2>2. CASE level(q) \notin {0, INVALID_TREE_LEVEL}
    <3> DEFINE c == DescendTo(pages[q], k)
    <3>1. Below(pages, q, c)
      BY <2>2, DescendToIs
    <3>2. c \in D /\ level(q) = level(c) + 1
      BY <3>1 DEF Below
    <3> HIDE DEF c
    <3>3. level(c) <= m
      <4>1. level(c) \in Nat /\ m \in Nat
        BY <1>3, <3>2
      <4> QED BY <3>2, <4>1
    <3>4. IsDescent(c, f[c])
      BY <3>2, <3>3
    <3> QED BY <1>5, <2>2, <3>4 DEF c
  <2> QED BY <2>1, <2>2
<1>8. S = Nat
  <2>1. S \in SUBSET Nat
    OBVIOUS
  <2> HIDE DEF S
  <2> QED BY <1>6, <1>7, <2>1, NatInductive
<1>9. level(p) \in S
  BY <1>3, <1>8
<1>10. level(p) <= level(p)
  BY <1>3
<1> QED BY <1>9, <1>10 DEF f

\* Where search ends: a way down to a leaf, and a place in it.
LEMMA SearchIs ==
  ASSUME Nodes(pages), NEW k
  PROVE  /\ IsWayTo(pages, Search(k).parents, Search(k).leaf)
         /\ Search(k).leaf \in DOMAIN pages
         /\ pages[Search(k).leaf].level \in {0, INVALID_TREE_LEVEL}
         /\ Search(k).index \in 0 .. pages[Search(k).leaf].slotCount
<1> DEFINE path == Path(k)
           at == Search(k)
<1>1. root_ \in DOMAIN pages
  BY DomainIs DEF Nodes
<1>2. IsDescent(root_, path)
  BY <1>1, PathDef, PathFromIs
<1>3. at = [parents |-> Front(path), leaf |-> Last(path),
            index |-> SearchIn(LiveKeys(pages[Last(path)]), k)]
  BY DEF Search
<1> HIDE DEF path, at
<1>4. IsWay(pages, path)
  BY <1>2 DEF IsDescent, IsWay
<1>5. IsWayTo(pages, at.parents, at.leaf)
  BY <1>3, <1>4, WayToLast
<1>6. at.leaf \in DOMAIN pages
  BY <1>5 DEF IsWayTo
<1>7. at.leaf = path[Len(path)]
  BY <1>3 DEF Last
<1>8. pages[at.leaf].level \in {0, INVALID_TREE_LEVEL}
  BY <1>2, <1>7 DEF IsDescent
<1>9. PageOK(pages[at.leaf])
  BY <1>6 DEF Nodes, NodeOK
<1>10. at.index \in 0 .. pages[at.leaf].slotCount
  <2> DEFINE ks == LiveKeys(pages[at.leaf])
  <2>1. Len(ks) = pages[at.leaf].slotCount /\ Len(ks) \in Nat
    BY <1>9, LiveKeysType
  <2>2. at.index = SearchIn(ks, k)
    BY <1>3
  <2> HIDE DEF ks
  <2> QED BY <2>1, <2>2, SearchWithin
<1> QED BY <1>5, <1>6, <1>8, <1>10 DEF at

\* The inductive invariant.
TreeInv ==
  /\ Nodes(pages)
  /\ CallOK(pages, call)
  /\ call \in Call
  /\ status \in {"ok", "aborted", "corrupt"}
  /\ answer \in {"none", "ok", "yes", "no", "error", "throws"}

\* No page but the root changes its level.
LevelsKept ==
  /\ DOMAIN pages \subseteq DOMAIN pages'
  /\ \A q \in DOMAIN pages \ {root_} : pages'[q].level = pages[q].level

\* search changes no page but the root.
LEMMA SearchedKeeps ==
  /\ DOMAIN Searched = DOMAIN pages
  /\ \A q \in DOMAIN pages \ {root_} : Searched[q] = pages[q]
BY DEF Searched

\* It implies type correctness.
LEMMA InvImpliesTypeOK == TreeInv => TypeOK
BY DEF TreeInv, Nodes, NodeOK, PageOK, TypeOK

\* A page with nothing in it is in order.
LEMMA EmptyPage ==
  ASSUME NEW pg \in Page, pg.slotCount = 0, pg.area = <<>>, pg.seps = <<>>
  PROVE  PageOK(pg)
<1>1. pg.room \in Nat
  BY PageFields
<1>2. FreeSpace(pg) = pg.room /\ InnerFree(pg) = pg.room
  BY <1>1, SlotsAssumption DEF FreeSpace, InnerFree, SepCount
<1> QED BY <1>1, <1>2 DEF PageOK

\* It holds of an empty tree.
LEMMA InitInv == TreeInit => TreeInv
<1> SUFFICES ASSUME TreeInit PROVE TreeInv
  OBVIOUS
<1>1. NewRoot = [room |-> ZeroUsable, level |-> INVALID_TREE_LEVEL, slots |-> <<>>,
                 slotCount |-> 0, area |-> <<>>, seps |-> <<>>, next |-> INVALID_PAGE,
                 prev |-> INVALID_PAGE]
  BY DEF NewRoot, NewPage
<1>2. NewRoot \in Page
  BY <1>1 DEF Page, PageLink, INVALID_TREE_LEVEL
<1>3. /\ NewRoot.slotCount = 0 /\ NewRoot.area = <<>> /\ NewRoot.seps = <<>>
      /\ NewRoot.level = INVALID_TREE_LEVEL
  BY <1>1
<1>4. PageOK(NewRoot)
  BY <1>2, <1>3, EmptyPage
<1> HIDE DEF NewRoot
<1>5. DOMAIN pages = {root_} /\ pages[root_] = NewRoot
  BY DEF TreeInit
<1>6. NodeOK(pages, root_)
  BY <1>3, <1>4, <1>5 DEF NodeOK, INVALID_TREE_LEVEL
<1>7. 0 \in PageNum /\ DOMAIN pages = 0 .. 0
  BY <1>5, TreeAssumption DEF root_, PageNum
<1>8. Nodes(pages)
  BY <1>5, <1>6, <1>7 DEF Nodes
<1>9. call \in Call /\ ~call.active
  BY DEF TreeInit, NoCall, Call, PageLink
<1> QED BY <1>8, <1>9 DEF TreeInv, CallOK, TreeInit

-----------------------------------------------------------------------------
\* A page is replaced by one at the same level.
LEMMA NodeReplaced ==
  ASSUME NEW ps, Nodes(ps), NEW l \in DOMAIN ps, NEW qs, DOMAIN qs = DOMAIN ps,
         \A p \in DOMAIN ps : p # l => qs[p] = ps[p],
         qs[l].level = ps[l].level \/ l = root_, NodeOK(qs, l)
  PROVE  Nodes(qs)
<1>1. DOMAIN qs = DOMAIN ps
  OBVIOUS
<1>2. \A q \in DOMAIN ps \ {root_} : qs[q].level = ps[q].level
  OBVIOUS
<1>3. ASSUME NEW p \in DOMAIN ps, p # l PROVE NodeOK(qs, p)
  <2>1. qs[p] = ps[p] /\ NodeOK(ps, p) /\ PageOK(ps[p])
    BY <1>3 DEF Nodes, NodeOK
  <2>2. /\ DOMAIN ps \subseteq DOMAIN qs /\ p \in DOMAIN qs
        /\ PageOK(qs[p]) /\ qs[p].level = ps[p].level /\ qs[p].seps = ps[p].seps
        /\ qs[p].next = ps[p].next /\ qs[p].slotCount = ps[p].slotCount
    BY <1>1, <2>1
  <2> QED BY <1>2, <2>1, <2>2, NodeKept
<1> QED BY <1>1, <1>3 DEF Nodes

\* A leaf, or an empty root, is replaced by a leaf.
LEMMA LeafReplaced ==
  ASSUME NEW ps, Nodes(ps), NEW l \in DOMAIN ps, ps[l].level = 0 \/ l = root_,
         NEW c, PageOK(c), c.level = 0, c.seps = <<>>
  PROVE  Nodes([ps EXCEPT ![l] = c])
<1> DEFINE qs == [ps EXCEPT ![l] = c]
<1>1. qs[l] = c /\ DOMAIN qs = DOMAIN ps /\ 0 \in DOMAIN ps
  BY DomainIs DEF Nodes, root_
<1>2. NodeOK(qs, l)
  <2> HIDE DEF qs
  <2> QED BY <1>1, LeafNode
<1>3. /\ \A p \in DOMAIN ps : p # l => qs[p] = ps[p]
      /\ qs[l].level = ps[l].level \/ l = root_
  BY <1>1
<1> HIDE DEF qs
<1>4. Nodes(qs)
  BY <1>1, <1>2, <1>3, NodeReplaced
<1> QED BY <1>4 DEF qs

\* What search finds: a leaf, once it has made an empty root one.
LEMMA SearchedIs ==
  ASSUME Nodes(pages), NEW k
  PROVE  LET at == Search(k)
             pg == Searched[at.leaf]
         IN  /\ Nodes(Searched)
             /\ at.leaf \in DOMAIN Searched /\ at.leaf \in DOMAIN pages
             /\ PageOK(pg) /\ pg.level = 0 /\ pg.seps = <<>>
             /\ at.index \in 0 .. pg.slotCount
             /\ pages[at.leaf].slotCount > 0 => pg = pages[at.leaf]
             /\ IsWayTo(pages, at.parents, at.leaf)
<1> DEFINE at == Search(k)
           l == at.leaf
           c == [pages[root_] EXCEPT !.level = 0]
<1>1. /\ IsWayTo(pages, at.parents, l) /\ l \in DOMAIN pages
      /\ pages[l].level \in {0, INVALID_TREE_LEVEL}
      /\ at.index \in 0 .. pages[l].slotCount
  BY SearchIs
<1> HIDE DEF at
<1>2. /\ root_ \in DOMAIN pages /\ NodeOK(pages, l) /\ NodeOK(pages, root_)
      /\ PageOK(pages[l]) /\ PageOK(pages[root_])
  <2>1. root_ \in DOMAIN pages
    BY DomainIs DEF Nodes
  <2>2. NodeOK(pages, l) /\ NodeOK(pages, root_)
    BY <1>1, <2>1 DEF Nodes
  <2> QED BY <2>1, <2>2 DEF NodeOK
<1>3. CASE EmptyRoot
  <2>1. pages[root_].slotCount = 0 /\ pages[root_].seps = <<>>
    <3>1. Len(pages[root_].seps) = 0 /\ pages[root_].slotCount = 0
      BY <1>3 DEF EmptyRoot, SepCount
    <3>2. pages[root_].seps \in Seq(Sep)
      BY <1>2, SepsAre
    <3> QED BY <3>1, <3>2, EmptySeq
  <2>2. Searched = [pages EXCEPT ![root_] = c]
    BY <1>3 DEF Searched
  <2>3. pages[root_] \in Page
    BY <1>2 DEF PageOK
  <2>4. /\ c \in Page /\ c.level = 0 /\ c.seps = <<>> /\ c.slotCount = 0
        /\ c.room = pages[root_].room /\ c.area = pages[root_].area
    BY <2>1, <2>3 DEF Page
  <2> HIDE DEF c
  <2>5. PageOK(c)
    <3>1. FreeSpace(c) >= 0 /\ InnerFree(c) >= 0
      BY <1>2, <2>1, <2>4 DEF PageOK, FreeSpace, InnerFree, SepCount
    <3> QED BY <2>4, <3>1 DEF PageOK
  <2>6. Nodes(Searched)
    BY <1>2, <2>2, <2>4, <2>5, LeafReplaced
  <2>7. l = root_ => Searched[l] = c /\ pages[l].slotCount = 0
    BY <1>2, <2>1, <2>2
  <2>8. l # root_ => Searched[l] = pages[l] /\ pages[l].level = 0
    BY <1>1, <1>2, <2>2 DEF NodeOK
  <2>9. l # root_ => pages[l].seps = <<>>
    BY <1>2, <2>8 DEF NodeOK
  <2>10. DOMAIN Searched = DOMAIN pages
    BY <2>2
  <2>11. ~(0 > 0)
    OBVIOUS
  <2> QED BY <1>1, <1>2, <2>4, <2>5, <2>6, <2>7, <2>8, <2>9, <2>10, <2>11 DEF at
<1>4. CASE ~EmptyRoot
  <2>1. Searched = pages
    BY <1>4 DEF Searched
  <2>2. pages[l].level = 0
    <3> SUFFICES ASSUME pages[l].level = INVALID_TREE_LEVEL PROVE FALSE
      BY <1>1
    <3>1. l = root_ /\ pages[root_].slotCount = 0 /\ pages[root_].seps = <<>>
      BY <1>2 DEF NodeOK
    <3>2. Len(<<>>) = 0
      OBVIOUS
    <3> QED BY <1>4, <3>1, <3>2, Zenon DEF EmptyRoot, SepCount
  <2>3. pages[l].seps = <<>>
    BY <1>2, <2>2 DEF NodeOK
  <2> QED BY <1>1, <1>2, <2>1, <2>2, <2>3 DEF at
<1> QED BY <1>3, <1>4

-----------------------------------------------------------------------------
\* compactPage on a page that has slots left.
LEMMA CompactableIs ==
  ASSUME NEW pg, PageOK(pg), Compactable(pg)
  PROVE  /\ PageOK(Compact(pg)) /\ Compact(pg).level = pg.level /\ Compact(pg).seps = pg.seps
         /\ Compact(pg).slotCount = pg.slotCount /\ Compact(pg).next = pg.next
         /\ LiveKeys(Compact(pg)) = LiveKeys(pg)
<1>1. /\ pg \in Page /\ \A i \in 1 .. pg.slotCount : LiveKeys(pg)[i] \in Keys
      /\ InnerFree(pg) >= 0
  BY DEF PageOK
<1>2. Len(Cells(LiveKeys(pg))) <= pg.room - pg.slotCount
  <2>1. Len(Cells(LiveKeys(pg))) <= pg.room - (pg.slotCount + 1)
    BY DEF Compactable
  <2>2. pg.room \in Nat /\ pg.slotCount \in Nat
    BY <1>1, PageFields
  <2>3. LiveKeys(pg) \in Seq(Keys)
    BY LiveKeysType
  <2>4. Cells(LiveKeys(pg)) \in Seq(Keys \cup {NoKey})
    BY <2>3, CellsAre
  <2>5. Len(Cells(LiveKeys(pg))) \in Nat
    BY <2>4
  <2> QED BY <2>1, <2>2, <2>5
<1>3. /\ PageOK(Compact(pg)) /\ Compact(pg).slotCount = pg.slotCount
      /\ LiveKeys(Compact(pg)) = LiveKeys(pg)
      /\ \A f \in {"room", "level", "seps", "next", "prev"} : Compact(pg)[f] = pg[f]
  BY <1>1, <1>2, CompactIs
<1> QED BY <1>3

\* The page that insertIntoLeaf inserts k into, compacted if it must be.
RoomMade(pg, k) == IF Fits(pg, k) THEN pg ELSE Compact(pg)

\* It has space, and the entries that the page had.
LEMMA RoomMadeIs ==
  ASSUME NEW pg, PageOK(pg), NEW k \in Keys, HasSpace(pg, k)
  PROVE  LET on == RoomMade(pg, k) IN
         /\ PageOK(on) /\ on.level = pg.level /\ on.seps = pg.seps /\ on.next = pg.next
         /\ on.slotCount = pg.slotCount /\ LiveKeys(on) = LiveKeys(pg)
         /\ EntrySize(k) <= FreeSpace(on)
<1>1. CASE Fits(pg, k)
  BY <1>1 DEF Fits, RoomMade
<1>2. CASE ~Fits(pg, k)
  <2>1. Compactable(pg) /\ Fits(Compact(pg), k) /\ RoomMade(pg, k) = Compact(pg)
    BY <1>2 DEF HasSpace, RoomMade
  <2> QED BY <2>1, CompactableIs DEF Fits
<1> QED BY <1>1, <1>2

\* Nothing is asked of an insertion that is over.
LEMMA NoCallIs ==
  ASSUME NEW ps
  PROVE  NoCall \in Call /\ CallOK(ps, NoCall)
BY DEF NoCall, Call, CallOK, PageLink

\* insert into a leaf that has space, compacted first if need be.
LEMMA InsertKeyStep ==
  ASSUME TreeInv, Ready, NEW k \in Keys, InsertKey(k, Search(k))
  PROVE  TreeInv' /\ LevelsKept
<1> DEFINE at == Search(k)
           l  == at.leaf
           pg == Searched[l]
           on == RoomMade(pg, k)
           c  == InsertIntoLeaf(on, at.index, k)
<1>1. Nodes(pages)
  BY DEF TreeInv
<1>2. /\ Nodes(Searched) /\ l \in DOMAIN Searched
      /\ PageOK(pg) /\ pg.level = 0 /\ pg.seps = <<>> /\ at.index \in 0 .. pg.slotCount
  BY <1>1, SearchedIs
<1>3. /\ HasSpace(pg, k) /\ pages' = [Searched EXCEPT ![l] = c]
      /\ answer' = "ok" /\ UNCHANGED <<call, status>>
  BY DEF InsertKey, RoomMade
<1> HIDE DEF at, pg, c
<1>4. /\ PageOK(on) /\ on.level = 0 /\ on.seps = <<>> /\ on.slotCount = pg.slotCount
      /\ EntrySize(k) <= FreeSpace(on)
  BY <1>2, <1>3, RoomMadeIs
<1> HIDE DEF on
<1>5. PageOK(c) /\ c.level = 0 /\ c.seps = <<>>
  <2>1. at.index \in 0 .. on.slotCount
    BY <1>2, <1>4
  <2>2. PageOK(c) /\ \A f \in Rest : c[f] = on[f]
    BY <1>4, <2>1, InsertIntoLeafIs DEF c
  <2> QED BY <1>4, <2>2 DEF Rest
<1>6. Nodes(pages')
  <2>1. Searched[l].level = 0
    BY <1>2 DEF pg
  <2> QED BY <1>2, <1>3, <1>5, <2>1, LeafReplaced
<1>7. CallOK(pages', call')
  BY <1>3 DEF Ready, CallOK
<1>8. LevelsKept
  BY <1>2, <1>3, <1>5, SearchedKeeps DEF LevelsKept, pg
<1> QED BY <1>3, <1>6, <1>7, <1>8 DEF TreeInv

\* remove of the key that search finds.
LEMMA RemoveKeyStep ==
  ASSUME TreeInv, Ready, NEW k \in Keys, RemoveKey(k, Search(k))
  PROVE  TreeInv' /\ LevelsKept
<1> DEFINE at == Search(k)
           l  == at.leaf
           pg == pages[l]
           c  == RemoveFromLeaf(pg, at.index)
<1>1. Nodes(pages)
  BY DEF TreeInv
<1>2. /\ l \in DOMAIN pages /\ PageOK(Searched[l]) /\ Searched[l].level = 0
      /\ Searched[l].seps = <<>> /\ at.index \in 0 .. Searched[l].slotCount
      /\ pg.slotCount > 0 => Searched[l] = pg
  BY <1>1, SearchedIs
<1>3. /\ IF pg.slotCount = 0 THEN status' = "corrupt" /\ UNCHANGED pages
         ELSE pages' = [pages EXCEPT ![l] = c] /\ UNCHANGED status
      /\ answer' = "yes" /\ UNCHANGED call
  BY DEF RemoveKey
<1> HIDE DEF at
<1>4. Nodes(pages') /\ LevelsKept
  <2>1. CASE pg.slotCount = 0
    BY <1>1, <1>3, <2>1 DEF LevelsKept
  <2>2. CASE pg.slotCount # 0
    <3>1. pg.slotCount > 0
      <4>1. pg \in Page
        BY <1>1, <1>2 DEF Nodes, NodeOK, PageOK
      <4> QED BY <2>2, <4>1, PageFields
    <3>2. PageOK(pg) /\ pg.level = 0 /\ pg.seps = <<>> /\ at.index \in 0 .. pg.slotCount
      BY <1>2, <3>1
    <3> HIDE DEF pg
    <3>3. PageOK(c) /\ \A f \in Rest : c[f] = pg[f]
      BY <3>1, <3>2, RemoveFromLeafIs
    <3>4. PageOK(c) /\ c.level = 0 /\ c.seps = <<>>
      BY <3>2, <3>3 DEF Rest
    <3> HIDE DEF c
    <3>5. pages' = [pages EXCEPT ![l] = c]
      BY <1>3, <2>2
    <3>6. pages[l].level = 0
      BY <3>2 DEF pg
    <3>7. LevelsKept
      BY <3>4, <3>5, <3>6 DEF LevelsKept
    <3> QED BY <1>1, <1>2, <3>4, <3>5, <3>6, <3>7, LeafReplaced
  <2> QED BY <2>1, <2>2
<1>5. CallOK(pages', call')
  BY <1>3 DEF Ready, CallOK
<1>6. status' \in {"ok", "aborted", "corrupt"}
  BY <1>3 DEF TreeInv
<1> QED BY <1>3, <1>4, <1>5, <1>6 DEF TreeInv

\* remove of a key that is not there: an empty root becomes a leaf.
LEMMA RemoveNothingStep ==
  ASSUME TreeInv, Ready, NEW k \in Keys, RemoveNothing(k, Search(k))
  PROVE  TreeInv' /\ LevelsKept
<1>1. pages' = Searched /\ answer' = "no" /\ UNCHANGED <<call, status>>
  BY DEF RemoveNothing
<1>2. Nodes(pages)
  BY DEF TreeInv
<1>3. Nodes(pages')
  BY <1>1, <1>2, SearchedIs
<1>4. LevelsKept
  BY <1>1, SearchedKeeps DEF LevelsKept
<1> QED BY <1>1, <1>3, <1>4 DEF TreeInv, Ready, CallOK

\* c is pg but for what makes no difference to a node.
SameNode(pg, c) ==
  /\ PageOK(pg) => PageOK(c)
  /\ c.level = pg.level /\ c.seps = pg.seps /\ c.next = pg.next
  /\ c.slotCount = pg.slotCount

\* qs has one page more than ps.
OneMore(ps, qs, r) ==
  \E n \in PageNum : DOMAIN ps = 0 .. n /\ r = n + 1 /\ DOMAIN qs = 0 .. r

\* One page more, and some that have changed without changing their level.
LEMMA NodesGrown ==
  ASSUME NEW ps, Nodes(ps), NEW r \in PageNum, NEW qs, OneMore(ps, qs, r), NEW changed,
         \A q \in DOMAIN ps \ {root_} : qs[q].level = ps[q].level,
         \A p \in DOMAIN ps : p \notin changed => SameNode(ps[p], qs[p]),
         \A p \in changed : NodeOK(qs, p), NodeOK(qs, r)
  PROVE  Nodes(qs)
<1>0. PICK n \in PageNum : DOMAIN ps = 0 .. n /\ r = n + 1 /\ DOMAIN qs = 0 .. r
  BY DEF OneMore
<1>1. n \in Nat /\ DOMAIN qs = DOMAIN ps \cup {r}
  BY <1>0, TreeAssumption DEF PageNum
<1>2. ASSUME NEW p \in DOMAIN ps, p \notin changed PROVE NodeOK(qs, p)
  <2>1. NodeOK(ps, p) /\ SameNode(ps[p], qs[p])
    BY <1>2 DEF Nodes
  <2>2. /\ PageOK(qs[p]) /\ qs[p].level = ps[p].level /\ qs[p].seps = ps[p].seps
        /\ qs[p].next = ps[p].next /\ qs[p].slotCount = ps[p].slotCount
    BY <2>1 DEF SameNode, NodeOK
  <2>3. DOMAIN ps \subseteq DOMAIN qs
    BY <1>1
  <2> QED BY <2>1, <2>2, <2>3, NodeKept
<1> QED BY <1>0, <1>1, <1>2 DEF Nodes

\* Setting prev makes no difference to a node.
LEMMA SameIfRelinked ==
  ASSUME NEW pg, NEW r \in PageLink, PageOK(pg)
  PROVE  SameNode(pg, [pg EXCEPT !.prev = r]) /\ SameNode(pg, pg)
<1> DEFINE c == [pg EXCEPT !.prev = r]
<1>1. /\ PageOK(c) /\ c.level = pg.level /\ c.seps = pg.seps
      /\ c.next = pg.next /\ c.slotCount = pg.slotCount
  BY RelinkedIs
<1> HIDE DEF c
<1> QED BY <1>1 DEF SameNode, c

\* A leaf that must be split is one with entries.
LEMMA SplitLeafIs ==
  ASSUME TreeInv, NEW k, NeedsSplit(k, Search(k))
  PROVE  LET at == Search(k)
             pg == pages[at.leaf]
         IN  /\ at.leaf \in DOMAIN pages /\ PageOK(pg) /\ pg.level = 0 /\ pg.seps = <<>>
             /\ pg.slotCount > 0 /\ at.index \in 0 .. pg.slotCount
             /\ MustSplit(pg, k) /\ Compactable(pg)
             /\ IsWayTo(pages, at.parents, at.leaf)
             /\ \E n \in PageNum : DOMAIN pages = 0 .. n /\ NextPageNum = n + 1
             /\ NextPageNum \in PageNum /\ DOMAIN pages \subseteq PageNum
<1> DEFINE at == Search(k)
           l  == at.leaf
           pg == pages[l]
<1>1. Nodes(pages)
  BY DEF TreeInv
<1>2. MustSplit(pg, k) /\ NextPageNum <= MaxPage
  BY DEF NeedsSplit
<1>3. pg.slotCount > 0 /\ Compactable(pg)
  BY <1>2 DEF MustSplit
<1>4. /\ l \in DOMAIN pages
      /\ PageOK(Searched[l]) /\ Searched[l].level = 0 /\ Searched[l].seps = <<>>
      /\ at.index \in 0 .. Searched[l].slotCount
      /\ pg.slotCount > 0 => Searched[l] = pg
      /\ IsWayTo(pages, at.parents, l)
  BY <1>1, SearchedIs
<1>5. PICK n \in PageNum : DOMAIN pages = 0 .. n
  BY <1>1 DEF Nodes
<1>6. NextPageNum = n + 1 /\ DOMAIN pages \subseteq PageNum /\ n + 1 \in Nat
  BY <1>5, DomainIs DEF NextPageNum
<1>7. NextPageNum \in PageNum
  BY <1>2, <1>6, TreeAssumption DEF PageNum
<1> HIDE DEF at, pg
<1>8. Searched[l] = pg
  BY <1>3, <1>4
<1> QED BY <1>2, <1>3, <1>4, <1>5, <1>6, <1>7, <1>8 DEF at, pg

\* splitLeaf: both halves are leaves, and the insertion goes on above.
LEMMA SplitLeafStep ==
  ASSUME TreeInv, Ready, NEW k \in Keys, SplitLeaf(k, Search(k))
  PROVE  TreeInv' /\ LevelsKept
<1> DEFINE at  == Search(k)
           l   == at.leaf
           pg  == pages[l]
           r   == NextPageNum
           new == LeafSplit(k, at)
           next == pages[l].next
<1>1. NeedsSplit(k, at)
  BY DEF SplitLeaf
<1>2. /\ l \in DOMAIN pages /\ PageOK(pg) /\ pg.level = 0 /\ pg.seps = <<>>
      /\ at.index \in 0 .. pg.slotCount
      /\ MustSplit(pg, k) /\ IsWayTo(pages, at.parents, l)
      /\ r \in PageNum /\ DOMAIN pages \subseteq PageNum
  BY <1>1, SplitLeafIs
<1>3. PICK n \in PageNum : DOMAIN pages = 0 .. n /\ r = n + 1
  BY <1>1, SplitLeafIs
<1>4. /\ FreeSpace(new.right) >= 0
      /\ pages' = [p \in 0 .. r |->
                     IF p = l THEN new.left ELSE IF p = r THEN new.right
                     ELSE IF p = next THEN Relinked(p, r) ELSE pages[p]]
      /\ call' = [active |-> TRUE, parents |-> at.parents,
                  key |-> new.key, left |-> l, right |-> r]
      /\ UNCHANGED <<status, answer>>
  BY DEF SplitLeaf
<1> HIDE DEF at
<1>5. /\ PageOK(new.left) /\ new.left.level = 0 /\ new.left.seps = <<>>
      /\ Len(new.left.area) = Len(Cells(LiveKeys(new.left)))
      /\ PageOK(new.right) /\ new.right.level = 0 /\ new.right.seps = <<>>
      /\ new.key \in Keys
  <2>1. l \in PageNum /\ NextPageNum \in PageNum
    BY <1>2
  <2> QED BY <1>2, <1>4, <2>1, LeafSplitIs
<1> HIDE DEF new, r, next, pg
<1>6. /\ n \in Nat /\ r \notin DOMAIN pages /\ DOMAIN pages' = 0 .. r
      /\ DOMAIN pages' = DOMAIN pages \cup {r} /\ 0 \in DOMAIN pages' /\ r # root_ /\ r \in PageLink
  <2>1. n \in Nat /\ n + 1 \notin DOMAIN pages /\ root_ \in DOMAIN pages
    BY <1>3, DomainIs
  <2> QED BY <1>2, <1>3, <1>4, <2>1 DEF root_, PageLink
<1>7. /\ pages'[l] = new.left /\ pages'[r] = new.right
      /\ \A p \in DOMAIN pages : p # l => pages'[p] \in {pages[p], Relinked(p, r)}
  BY <1>2, <1>4, <1>6
<1>8. ASSUME NEW p \in DOMAIN pages, p # l PROVE SameNode(pages[p], pages'[p])
  <2>1. PageOK(pages[p])
    BY DEF TreeInv, Nodes, NodeOK
  <2>2. SameNode(pages[p], Relinked(p, r)) /\ SameNode(pages[p], pages[p])
    BY <1>6, <2>1, SameIfRelinked DEF Relinked
  <2> QED BY <1>7, <1>8, <2>2
<1>9. \A q \in DOMAIN pages : pages'[q].level = pages[q].level
  <2>1. pages'[l].level = pages[l].level
    BY <1>2, <1>5, <1>7 DEF pg
  <2> QED BY <1>8, <2>1 DEF SameNode
<1>10. NodeOK(pages', l) /\ NodeOK(pages', r)
  BY <1>5, <1>6, <1>7, LeafNode
<1>11. Nodes(pages')
  <2> DEFINE qs == pages'
             changed == {l}
  <2>1. /\ \A q \in DOMAIN pages \ {root_} : qs[q].level = pages[q].level
        /\ \A p \in DOMAIN pages : p \notin changed => SameNode(pages[p], qs[p])
        /\ \A p \in changed : NodeOK(qs, p)
    BY <1>8, <1>9, <1>10
  <2>2. OneMore(pages, qs, r)
    BY <1>3, <1>6 DEF OneMore
  <2>4. Nodes(pages) /\ NodeOK(qs, r)
    BY <1>10 DEF TreeInv
  <2> HIDE DEF qs, changed
  <2>3. Nodes(qs)
    BY <1>2, <2>1, <2>2, <2>4, NodesGrown
  <2> QED BY <2>3 DEF qs
<1>12. CallOK(pages', call')
  <2>1. IsWayTo(pages', at.parents, l)
    <3>1. DOMAIN pages \subseteq DOMAIN pages'
      BY <1>6
    <3> QED BY <1>2, <1>9, <3>1, WayKept
  <2>2. /\ call'.key = new.key /\ call'.parents = at.parents /\ call'.left = l
        /\ call'.right = r
    BY <1>4
  <2>3. /\ pages'[l].level # INVALID_TREE_LEVEL /\ r \in DOMAIN pages' \ {root_}
        /\ pages'[r].level = pages'[l].level
    <3>1. pages'[l].level = 0 /\ pages'[r].level = 0
      BY <1>5, <1>7
    <3>2. r \in DOMAIN pages' \ {root_}
      <4>1. r \in DOMAIN pages \cup {r}
        OBVIOUS
      <4> QED BY <1>6, <4>1, Zenon
    <3>3. 0 # INVALID_TREE_LEVEL
      BY DEF INVALID_TREE_LEVEL
    <3> QED BY <3>1, <3>2, <3>3, Zenon
  <2>4. Len(Cells(LiveKeys(pages'[l]))) <= Len(pages'[l].area)
    <3>1. Len(new.left.area) \in Nat
      BY <1>5, PageFields DEF PageOK
    <3> QED BY <1>5, <1>7, <3>1
  <2> QED BY <1>5, <2>1, <2>2, <2>3, <2>4 DEF CallOK
<1>13. call' \in Call
  <2>1. at.parents \in Seq(PageNum)
    BY <1>2 DEF IsWayTo
  <2> QED BY <1>2, <1>4, <1>5, <2>1 DEF Call, PageLink
<1>14. LevelsKept
  BY <1>6, <1>9 DEF LevelsKept
<1> QED BY <1>4, <1>11, <1>12, <1>13, <1>14 DEF TreeInv

\* splitLeaf when the pager fails: the leaf is compacted, the new page nobody's.
LEMMA SplitLeafFailsStep ==
  ASSUME TreeInv, Ready, NEW k \in Keys, SplitLeafFails(k, Search(k))
  PROVE  TreeInv' /\ LevelsKept
<1> DEFINE at  == Search(k)
           l   == at.leaf
           pg  == pages[l]
           r   == NextPageNum
           new == LeafSplit(k, at)
           c   == Compact(pg)
           compacted == [pages EXCEPT ![l] = c]
<1>1. NeedsSplit(k, at)
  BY DEF SplitLeafFails
<1>2. /\ l \in DOMAIN pages /\ PageOK(pg) /\ pg.level = 0 /\ pg.seps = <<>>
      /\ at.index \in 0 .. pg.slotCount
      /\ MustSplit(pg, k) /\ Compactable(pg)
      /\ r \in PageNum /\ DOMAIN pages \subseteq PageNum
  BY <1>1, SplitLeafIs
<1>3. PICK n \in PageNum : DOMAIN pages = 0 .. n /\ r = n + 1
  BY <1>1, SplitLeafIs
<1>4. /\ \/ pages' = compacted
         \/ /\ FreeSpace(new.right) >= 0
            /\ pages' = [p \in 0 .. r |-> IF p = r THEN new.right ELSE compacted[p]]
      /\ answer' = "error"
      /\ UNCHANGED <<call, status>>
  BY DEF SplitLeafFails
<1> HIDE DEF at
<1>5. PageOK(c) /\ c.level = 0 /\ c.seps = <<>>
  BY <1>2, CompactableIs
<1> HIDE DEF c
<1>6. Nodes(compacted)
  BY <1>2, <1>5, LeafReplaced DEF TreeInv
<1>7. /\ DOMAIN compacted = 0 .. n
      /\ \A q \in DOMAIN pages : compacted[q].level = pages[q].level
  BY <1>2, <1>3, <1>5
<1> HIDE DEF compacted
<1>8. ASSUME FreeSpace(new.right) >= 0,
             pages' = [p \in 0 .. r |-> IF p = r THEN new.right ELSE compacted[p]]
      PROVE  Nodes(pages') /\ LevelsKept
  <2>1. PageOK(new.right) /\ new.right.level = 0 /\ new.right.seps = <<>>
    <3>1. l \in PageNum /\ NextPageNum \in PageNum
      BY <1>2
    <3> QED BY <1>2, <1>8, <3>1, LeafSplitIs
  <2> HIDE DEF new, r, pg
  <2> DEFINE qs == pages'
  <2>2. n \in Nat /\ r \notin 0 .. n /\ 0 \in 0 .. r
    BY <1>3, TreeAssumption DEF PageNum
  <2>3. DOMAIN qs = 0 .. r /\ qs[r] = new.right /\ \A p \in 0 .. n : qs[p] = compacted[p]
    BY <1>3, <1>8, <2>2
  <2> HIDE DEF qs
  <2>4. NodeOK(qs, r)
    BY <2>1, <2>2, <2>3, LeafNode
  <2>5. /\ \A q \in DOMAIN compacted \ {root_} : qs[q].level = compacted[q].level
        /\ \A p \in DOMAIN compacted : p \notin {} => SameNode(compacted[p], qs[p])
        /\ \A p \in {} : NodeOK(qs, p)
    BY <1>7, <2>3 DEF SameNode
  <2>6. Nodes(qs)
    <3> DEFINE none == {}
    <3>1. /\ \A p \in DOMAIN compacted : p \notin none => SameNode(compacted[p], qs[p])
          /\ \A p \in none : NodeOK(qs, p)
      BY <2>5
    <3> HIDE DEF none
    <3>2. OneMore(compacted, qs, r)
      BY <1>3, <1>7, <2>3 DEF OneMore
    <3> QED BY <1>2, <1>6, <2>4, <2>5, <3>1, <3>2, NodesGrown
  <2>7. /\ DOMAIN pages \subseteq DOMAIN qs
        /\ \A q \in DOMAIN pages \ {root_} : qs[q].level = pages[q].level
    BY <1>3, <1>7, <2>2, <2>3
  <2> QED BY <2>6, <2>7 DEF qs, LevelsKept
<1>9. Nodes(pages') /\ LevelsKept
  <2>1. CASE pages' = compacted
    BY <1>3, <1>6, <1>7, <2>1 DEF LevelsKept
  <2> QED BY <1>4, <1>8, <2>1, Zenon
<1> QED BY <1>4, <1>9 DEF TreeInv, Ready, CallOK

\* The pages a level under l.
OneBelow(ps, l) == {q \in DOMAIN ps \ {root_} : ps[q].level + 1 = l}

\* A climbing insertion and the inner page it has come to.
LEMMA ParentIs ==
  ASSUME TreeInv, Climbing, call.parents # <<>>
  PROVE  LET pg == pages[Parent]
             S  == OneBelow(pages, pg.level)
         IN  /\ Parent \in DOMAIN pages /\ NodeOK(pages, Parent) /\ PageOK(pg)
             /\ pg.level \in DOMAIN pages /\ pg.level # 0 /\ pg.level # INVALID_TREE_LEVEL
             /\ pg.slotCount = 0
             /\ call.key \in Keys /\ call.left \in S /\ call.right \in S
             /\ call.left \in PageLink /\ call.right \in PageLink
             /\ \A i \in 0 .. SepCount(pg) : ChildOf(pg, i) \in S
             /\ ParentIndex \in 0 .. SepCount(pg)
             /\ IsWay(pages, call.parents)
<1> DEFINE pg == pages[Parent]
           S  == OneBelow(pages, pg.level)
<1>1. /\ call.key \in Keys /\ IsWay(pages, call.parents)
      /\ Below(pages, Parent, call.left)
      /\ call.right \in DOMAIN pages \ {root_}
      /\ pages[call.right].level = pages[call.left].level
      /\ call.parents \in Seq(DOMAIN pages)
  BY DEF TreeInv, CallOK, Climbing, IsWayTo, Parent
<1>2. Parent \in DOMAIN pages
  BY <1>1, FrontLast DEF Parent
<1>3. NodeOK(pages, Parent) /\ PageOK(pg) /\ NodeOK(pages, call.left)
  BY <1>1, <1>2 DEF TreeInv, Nodes, NodeOK, Below
<1>4. pages[call.left].level \in Nat
  BY <1>3, PageFields DEF NodeOK, PageOK
<1>5. pg.level = pages[call.left].level + 1 /\ pg.level # INVALID_TREE_LEVEL
  BY <1>1 DEF Below
<1>6. pg.level # 0
  BY <1>4, <1>5
<1>7. pg.level \in DOMAIN pages /\ pg.slotCount = 0
  BY <1>3, <1>5, <1>6 DEF NodeOK
<1>8. call.left \in S /\ call.right \in S
  BY <1>1, <1>5 DEF OneBelow, Below
<1>9. call.left \in PageLink /\ call.right \in PageLink
  BY DEF TreeInv, Call
<1>10. \A i \in 0 .. SepCount(pg) : ChildOf(pg, i) \in S
  <2> SUFFICES ASSUME NEW i \in 0 .. SepCount(pg) PROVE ChildOf(pg, i) \in S
    OBVIOUS
  <2>1. pg.level \notin {0, INVALID_TREE_LEVEL}
    BY <1>5, <1>6
  <2>2. Below(pages, Parent, ChildOf(pg, i))
    BY <1>3, <2>1 DEF NodeOK
  <2>3. \A c : Below(pages, Parent, c) => c \in S
    BY DEF Below, OneBelow
  <2> QED BY <2>2, <2>3
<1>11. ParentIndex \in 0 .. SepCount(pg)
  <2>1. Len(SepKeys(pg)) = SepCount(pg) /\ SepCount(pg) \in Nat
    BY <1>3, SepsAre
  <2>2. ParentIndex = SearchIn(SepKeys(pg), call.key)
    BY DEF ParentIndex
  <2> HIDE DEF pg
  <2> QED BY <2>1, <2>2, SearchWithin
<1> HIDE DEF pg, S
<1> QED BY <1>1, <1>2, <1>3, <1>5, <1>6, <1>7, <1>8, <1>9, <1>10, <1>11 DEF pg, S

\* Pages under p keep their level, p has it too: they are still under p.
LEMMA BelowIs ==
  ASSUME NEW ps, NEW qs, DOMAIN ps \subseteq DOMAIN qs,
         \A q \in DOMAIN ps \ {root_} : qs[q].level = ps[q].level,
         NEW l, l # INVALID_TREE_LEVEL, NEW p, qs[p].level = l,
         NEW c \in OneBelow(ps, l)
  PROVE  Below(qs, p, c)
BY DEF OneBelow, Below

\* insertIntoInner: the two halves take the place of the page that was split.
LEMMA InsertSeparatorStep ==
  ASSUME TreeInv, InsertSeparator
  PROVE  TreeInv' /\ LevelsKept
<1> DEFINE p  == Parent
           pg == pages[p]
           S  == OneBelow(pages, pg.level)
           c  == InsertIntoInner(pg, ParentIndex, call.key, call.left, call.right)
           qs == [pages EXCEPT ![p] = c]
<1>1. /\ Climbing /\ call.parents # <<>> /\ InnerFree(pg) >= SepNeed
      /\ pages' = qs /\ call' = NoCall /\ answer' = "ok" /\ UNCHANGED status
  BY DEF InsertSeparator
<1>2. /\ p \in DOMAIN pages /\ NodeOK(pages, p) /\ PageOK(pg)
      /\ pg.level \in DOMAIN pages /\ pg.level # 0 /\ pg.level # INVALID_TREE_LEVEL
      /\ pg.slotCount = 0
      /\ call.key \in Keys /\ call.left \in S /\ call.right \in S
      /\ call.left \in PageLink /\ call.right \in PageLink
      /\ \A i \in 0 .. SepCount(pg) : ChildOf(pg, i) \in S
      /\ ParentIndex \in 0 .. SepCount(pg)
  BY <1>1, ParentIs
<1>3. InnerFree(pg) >= SepSize + 1
  <2>1. InnerFree(pg) \in Int
    <3>1. SepCount(pg) \in Nat /\ pg.room \in Nat
      BY <1>2, SepsAre, PageFields DEF PageOK
    <3>2. SepSize + 1 \in Nat
      BY SlotsAssumption
    <3> DEFINE z == SepSize + 1
    <3> HIDE DEF z, pg
    <3>3. SepCount(pg) * z \in Int
      BY <3>1, <3>2 DEF z
    <3> QED BY <3>1, <3>3 DEF InnerFree, z
  <2> HIDE DEF pg
  <2> QED BY <1>1, <2>1, SlotsAssumption DEF SepNeed
<1> HIDE DEF c, S, p
<1>4. /\ PageOK(c) /\ SepCount(c) = SepCount(pg) + 1
      /\ \A f \in LeafFields : c[f] = pg[f]
      /\ \A i \in 0 .. SepCount(pg) + 1 :
           ChildOf(c, i) = IF i < ParentIndex THEN ChildOf(pg, i)
                           ELSE IF i = ParentIndex THEN call.left
                           ELSE IF i = ParentIndex + 1 THEN call.right ELSE ChildOf(pg, i - 1)
  BY <1>2, <1>3, InsertIntoInnerIs DEF c
<1>5. c.level = pg.level /\ c.slotCount = 0
  BY <1>2, <1>4 DEF LeafFields
<1>6. SepCount(pg) \in Nat
  BY <1>2, SepsAre
<1> HIDE DEF pg
<1>7. ASSUME NEW i \in 0 .. SepCount(c) PROVE ChildOf(c, i) \in S
  <2>1. ChildOf(c, i) = IF i < ParentIndex THEN ChildOf(pg, i)
                        ELSE IF i = ParentIndex THEN call.left
                        ELSE IF i = ParentIndex + 1 THEN call.right ELSE ChildOf(pg, i - 1)
    BY <1>4
  <2>2. /\ i < ParentIndex => i \in 0 .. SepCount(pg)
        /\ ~(i < ParentIndex) /\ i # ParentIndex /\ i # ParentIndex + 1 => i - 1 \in 0 .. SepCount(pg)
    BY <1>2, <1>4, <1>6
  <2> QED BY <1>2, <2>1, <2>2
<1>8. c.seps # <<>>
  <2>1. Len(c.seps) = SepCount(pg) + 1
    BY <1>4 DEF SepCount
  <2>2. Len(<<>>) = 0 /\ SepCount(pg) + 1 # 0
    BY <1>6
  <2> QED BY <2>1, <2>2, Zenon
<1>9. qs[p] = c /\ DOMAIN qs = DOMAIN pages /\ \A q \in DOMAIN pages : q # p => qs[q] = pages[q]
  BY <1>2
<1> HIDE DEF qs
<1>10. \A q \in DOMAIN pages \ {root_} : qs[q].level = pages[q].level
  BY <1>5, <1>9 DEF pg
<1>11. NodeOK(qs, p)
  <2>1. \A i \in 0 .. SepCount(qs[p]) : Below(qs, p, ChildOf(qs[p], i))
    <3> SUFFICES ASSUME NEW i \in 0 .. SepCount(c) PROVE Below(qs, p, ChildOf(c, i))
      BY <1>9
    <3>1. ChildOf(c, i) \in OneBelow(pages, pg.level)
      BY <1>7 DEF S
    <3>2. DOMAIN pages \subseteq DOMAIN qs /\ qs[p].level = pg.level
      BY <1>5, <1>9
    <3> QED BY <1>2, <1>10, <3>1, <3>2, BelowIs
  <2>2. /\ PageOK(qs[p]) /\ pg.level \in DOMAIN qs /\ qs[p].level = pg.level
        /\ qs[p].slotCount = 0 /\ qs[p].seps # <<>>
    BY <1>2, <1>4, <1>5, <1>8, <1>9
  <2> QED BY <1>2, <2>1, <2>2, InnerNode
<1>12. Nodes(qs)
  <2>1. Nodes(pages) /\ qs[p].level = pages[p].level
    BY <1>5, <1>9 DEF TreeInv, pg
  <2> QED BY <1>2, <1>9, <1>11, <2>1, NodeReplaced
<1>13. Nodes(pages')
  BY <1>1, <1>12
<1>14. call' \in Call /\ CallOK(pages', call')
  BY <1>1, NoCallIs
<1>15. LevelsKept
  BY <1>1, <1>9, <1>10 DEF LevelsKept
<1> QED BY <1>1, <1>13, <1>14, <1>15 DEF TreeInv

\* No entries, no cells.
LEMMA NoEntries ==
  ASSUME NEW pg, pg.slotCount = 0
  PROVE  Len(Cells(LiveKeys(pg))) = 0
<1>1. LiveKeys(pg) = <<>>
  BY DEF LiveKeys
<1>2. <<>> \in Seq(Keys) /\ Len(<<>>) = 0
  OBVIOUS
<1>3. Len(Cells(<<>>)) = SumOf(Sizes(<<>>), 0)
  BY <1>2, CellsAre
<1>4. SumOf(Sizes(<<>>), 0) = 0
  BY SumZero
<1> QED BY <1>1, <1>3, <1>4

\* The next page number, when there is one.
LEMMA NextPageIs ==
  ASSUME Nodes(pages), NextPageNum <= MaxPage
  PROVE  /\ NextPageNum \in PageNum /\ NextPageNum \notin DOMAIN pages
         /\ \E n \in PageNum : DOMAIN pages = 0 .. n /\ NextPageNum = n + 1
         /\ 0 .. NextPageNum = DOMAIN pages \cup {NextPageNum}
         /\ DOMAIN pages \subseteq PageNum /\ root_ \in DOMAIN pages /\ root_ # NextPageNum
<1>1. PICK n \in PageNum : DOMAIN pages = 0 .. n
  BY DEF Nodes
<1>2. NextPageNum = n + 1 /\ n + 1 \in Nat /\ n + 1 \notin DOMAIN pages
      /\ DOMAIN pages \subseteq PageNum /\ root_ \in DOMAIN pages
  BY <1>1, DomainIs DEF NextPageNum
<1>3. n + 1 \in PageNum /\ 0 .. (n + 1) = DOMAIN pages \cup {n + 1}
  BY <1>1, <1>2, DomainIs
<1> QED BY <1>1, <1>2, <1>3

\* splitInner: both halves are inner pages at their level.
LEMMA SplitInnerStep ==
  ASSUME TreeInv, SplitInner
  PROVE  TreeInv' /\ LevelsKept
<1> DEFINE p  == Parent
           pg == pages[p]
           S  == OneBelow(pages, pg.level)
           r  == NextPageNum
           qs == [q \in 0 .. r |-> IF q = p THEN LeftInner
                                   ELSE IF q = r THEN RightInner ELSE pages[q]]
           key == Logical(pages[Parent].seps, InnerSplitAt).key
<1>1. /\ NeedsInnerSplit /\ StayBelow(ParentIndex, InnerSplitAt) > 0
      /\ pages' = qs
      /\ call' = [active |-> TRUE, parents |-> Front(call.parents), key |-> key,
                  left |-> p, right |-> r]
      /\ UNCHANGED <<status, answer>>
  BY DEF SplitInner
<1>2. Climbing /\ call.parents # <<>> /\ InnerFree(pg) < SepNeed /\ r <= MaxPage
  BY <1>1 DEF NeedsInnerSplit
<1>3. /\ p \in DOMAIN pages /\ NodeOK(pages, p) /\ PageOK(pg)
      /\ pg.level \in DOMAIN pages /\ pg.level # 0 /\ pg.level # INVALID_TREE_LEVEL
      /\ pg.slotCount = 0
      /\ call.key \in Keys /\ call.left \in S /\ call.right \in S
      /\ call.left \in PageLink /\ call.right \in PageLink
      /\ \A i \in 0 .. SepCount(pg) : ChildOf(pg, i) \in S
      /\ IsWay(pages, call.parents)
  BY <1>2, ParentIs
<1>4. SplitCase(pg, S)
  BY <1>2, <1>3 DEF SplitCase
<1> HIDE DEF S
<1>5. /\ PageOK(LeftInner) /\ LeftInner.level = pg.level /\ LeftInner.slotCount = pg.slotCount
      /\ LeftInner.area = pg.area /\ LeftInner.seps # <<>>
      /\ \A i \in 0 .. SepCount(LeftInner) : ChildOf(LeftInner, i) \in S
  BY <1>1, <1>4, LeftInnerIs
<1>6. /\ PageOK(RightInner)
      /\ RightInner.level = pg.level /\ RightInner.slotCount = 0
      /\ \A i \in 0 .. SepCount(RightInner) : ChildOf(RightInner, i) \in S
  BY <1>4, RightInnerIs
<1>7. Nodes(pages)
  BY DEF TreeInv
<1>8. /\ r \in PageNum /\ r \notin DOMAIN pages /\ 0 .. r = DOMAIN pages \cup {r}
      /\ DOMAIN pages \subseteq PageNum /\ r # root_
      /\ \E n \in PageNum : DOMAIN pages = 0 .. n /\ r = n + 1
  BY <1>2, <1>7, NextPageIs
<1>9. key \in Keys
  <2>1. /\ pg.seps \in Seq(Sep) /\ Len(pg.seps) = SepCount(pg) /\ Len(pg.seps) >= 1
        /\ ParentIndex \in 0 .. SepCount(pg) /\ InnerSplitAt \in 0 .. SepCount(pg)
        /\ \A j \in 1 .. SepCount(pg) : pg.seps[j].child \in S
    BY <1>4, SplitCaseIs
  <2> DEFINE s == pg.seps
             i == InnerSplitAt
  <2>2. /\ s \in Seq(Sep) /\ i \in 0 .. Len(s) /\ ParentIndex \in 0 .. Len(s) /\ Len(s) >= 1
        /\ \A j \in 1 .. Len(s) : s[j].child \in S
    BY <2>1
  <2> HIDE DEF s, i
  <2>3. Logical(s, i) \in Sep
    BY <1>3, <2>2, LogicalIs
  <2>4. Logical(s, i).key \in Keys
    BY <2>3 DEF Sep
  <2> QED BY <2>4 DEF s, i
<1> HIDE DEF r, key
<1>10. /\ DOMAIN qs = 0 .. r /\ qs[p] = LeftInner /\ qs[r] = RightInner
       /\ \A q \in DOMAIN pages : q # p => qs[q] = pages[q]
  BY <1>3, <1>8
<1> HIDE DEF qs, pg
<1>11. \A q \in DOMAIN pages : qs[q].level = pages[q].level
  BY <1>5, <1>10 DEF pg
<1>12. /\ DOMAIN pages \subseteq DOMAIN qs /\ r \in DOMAIN qs
       /\ \A q \in DOMAIN pages \ {root_} : qs[q].level = pages[q].level
  <2>1. r \in DOMAIN pages \cup {r} /\ DOMAIN pages \subseteq DOMAIN pages \cup {r}
    OBVIOUS
  <2> QED BY <1>8, <1>10, <1>11, <2>1
<1>13. NodeOK(qs, p)
  <2>1. \A i \in 0 .. SepCount(qs[p]) : Below(qs, p, ChildOf(qs[p], i))
    <3> SUFFICES ASSUME NEW i \in 0 .. SepCount(LeftInner) PROVE Below(qs, p, ChildOf(LeftInner, i))
      BY <1>10
    <3>1. ChildOf(LeftInner, i) \in OneBelow(pages, pg.level)
      BY <1>5 DEF S
    <3>2. qs[p].level = pg.level
      BY <1>5, <1>10
    <3> QED BY <1>3, <1>12, <3>1, <3>2, BelowIs
  <2>2. /\ PageOK(qs[p]) /\ pg.level \in DOMAIN qs /\ qs[p].level = pg.level
        /\ qs[p].slotCount = 0 /\ qs[p].seps # <<>>
    BY <1>3, <1>5, <1>10, <1>12
  <2> QED BY <1>3, <2>1, <2>2, InnerNode
<1>14. NodeOK(qs, r)
  <2>1. \A i \in 0 .. SepCount(qs[r]) : Below(qs, r, ChildOf(qs[r], i))
    <3> SUFFICES ASSUME NEW i \in 0 .. SepCount(RightInner) PROVE Below(qs, r, ChildOf(RightInner, i))
      BY <1>10
    <3>1. ChildOf(RightInner, i) \in OneBelow(pages, pg.level)
      BY <1>6 DEF S
    <3>2. qs[r].level = pg.level
      BY <1>6, <1>10
    <3> QED BY <1>3, <1>12, <3>1, <3>2, BelowIs
  <2>2. /\ PageOK(qs[r]) /\ pg.level \in DOMAIN qs /\ qs[r].level = pg.level
        /\ qs[r].slotCount = 0
    BY <1>3, <1>6, <1>10, <1>12
  <2> QED BY <1>3, <1>8, <2>1, <2>2, InnerNode
<1>15. Nodes(qs)
  <2> DEFINE changed == {p}
  <2>1. /\ \A q \in DOMAIN pages : q \notin changed => SameNode(pages[q], qs[q])
        /\ \A q \in changed : NodeOK(qs, q)
    BY <1>10, <1>13 DEF SameNode
  <2>2. OneMore(pages, qs, r)
    BY <1>8, <1>10 DEF OneMore
  <2> HIDE DEF changed
  <2> QED BY <1>7, <1>8, <1>12, <1>14, <2>1, <2>2, NodesGrown
<1>16. Nodes(pages')
  BY <1>1, <1>15
<1>17. CallOK(pages', call')
  <2>1. IsWayTo(qs, Front(call.parents), p)
    <3>1. IsWay(qs, call.parents)
      BY <1>3, <1>11, <1>12, WayKept
    <3> QED BY <3>1, WayToLast DEF Parent
  <2>2. /\ call'.key = key /\ call'.parents = Front(call.parents) /\ call'.left = p
        /\ call'.right = r
    BY <1>1
  <2>3. qs[p].level = pg.level /\ qs[r].level = pg.level /\ r \in DOMAIN qs \ {root_}
    BY <1>5, <1>6, <1>8, <1>10, <1>12
  <2>4. Len(Cells(LiveKeys(qs[p]))) <= Len(qs[p].area)
    <3>1. Len(Cells(LiveKeys(LeftInner))) = 0
      BY <1>3, <1>5, NoEntries
    <3>2. Len(LeftInner.area) \in Nat
      BY <1>5, PageFields DEF PageOK
    <3> QED BY <1>10, <3>1, <3>2
  <2> QED BY <1>1, <1>3, <1>9, <2>1, <2>2, <2>3, <2>4 DEF CallOK
<1>18. call' \in Call
  <2>1. Front(call.parents) \in Seq(DOMAIN pages)
    BY <1>2, <1>3, FrontLast DEF IsWay
  <2>2. Front(call.parents) \in Seq(PageNum)
    BY <1>8, <2>1
  <2> QED BY <1>1, <1>3, <1>8, <1>9, <2>2 DEF Call, PageLink
<1>19. LevelsKept
  BY <1>1, <1>12 DEF LevelsKept
<1> QED BY <1>1, <1>16, <1>17, <1>18, <1>19 DEF TreeInv

\* The tree has not grown so high that the level of its root reads as none: an
\* inner page is told from an empty root by its level, which the code keeps in a
\* byte.
LevelsFit ==
  \A p \in DOMAIN pages : pages[p].level = INVALID_TREE_LEVEL => pages[p].seps = <<>>

\* promoteRoot: the root goes one level up, over its copy and the new page.  It is
\* the one step that makes a new level, which has to be one.
LEMMA PromoteRootStep ==
  ASSUME TreeInv, PromoteRoot, LevelsFit' \/ MaxPage < INVALID_TREE_LEVEL
  PROVE  TreeInv' /\ LevelsKept
<1> DEFINE pg  == pages[root_]
           r   == NextPageNum
           new == PromotedRoot(r)
           qs  == [p \in 0 .. r |->
                     IF p = root_ THEN new
                     ELSE IF p = r THEN RootCopy
                     ELSE IF p = call.right /\ pages[p].level = 0 THEN Relinked(p, r)
                     ELSE pages[p]]
<1>1. /\ Climbing /\ call.parents = <<>> /\ r <= MaxPage
      /\ pages' = qs /\ call' = NoCall /\ answer' = "ok" /\ UNCHANGED status
  BY DEF PromoteRoot
<1>2. Nodes(pages)
  BY DEF TreeInv
<1>3. /\ r \in PageNum /\ r \notin DOMAIN pages /\ 0 .. r = DOMAIN pages \cup {r}
      /\ DOMAIN pages \subseteq PageNum /\ root_ \in DOMAIN pages /\ r # root_
      /\ \E n \in PageNum : DOMAIN pages = 0 .. n /\ r = n + 1
  BY <1>1, <1>2, NextPageIs
<1>4. /\ call.left = root_ /\ call.key \in Keys /\ call.right \in DOMAIN pages \ {root_}
      /\ pages[call.right].level = pg.level /\ pg.level # INVALID_TREE_LEVEL
      /\ Len(Cells(LiveKeys(pg))) <= Len(pg.area)
  <2>1. call.left = root_ /\ CallOK(pages, call) /\ call.active
    BY <1>1 DEF TreeInv, CallOK, Climbing, IsWayTo
  <2> QED BY <2>1 DEF CallOK
<1>5. NodeOK(pages, root_) /\ PageOK(pg) /\ pg \in Page /\ pg.level \in DOMAIN pages
  <2>1. NodeOK(pages, root_)
    BY <1>2, <1>3 DEF Nodes
  <2> QED BY <1>4, <2>1 DEF NodeOK, PageOK
<1>6. pg.level \in Nat /\ pg.room <= Usable /\ r \in PageLink /\ call.right \in PageLink
  <2>1. pg.room \in {ZeroUsable, Usable}
    BY <1>5 DEF Page
  <2>2. pg.room <= Usable
    BY <2>1, SlotsAssumption
  <2> QED BY <1>3, <1>4, <1>5, <2>2, PageFields DEF PageLink
<1>7. /\ PageOK(RootCopy) /\ RootCopy.level = pg.level /\ RootCopy.seps = pg.seps
      /\ RootCopy.next = pg.next /\ RootCopy.slotCount = pg.slotCount
  BY <1>4, <1>5, <1>6, RootCopyIs
<1>8. /\ PageOK(new) /\ new.level = pg.level + 1 /\ new.slotCount = 0 /\ new.seps # <<>>
      /\ SepCount(new) = 1 /\ ChildOf(new, 0) = r /\ ChildOf(new, 1) = call.right
  BY <1>4, <1>6, PromotedRootIs
<1> HIDE DEF new, r
<1>9. /\ DOMAIN qs = 0 .. r /\ qs[root_] = new /\ qs[r] = RootCopy
      /\ \A q \in DOMAIN pages : q # root_ => qs[q] \in {pages[q], Relinked(q, r)}
  BY <1>3
<1> HIDE DEF qs, pg
<1>10. ASSUME NEW q \in DOMAIN pages, q # root_ PROVE SameNode(pages[q], qs[q])
  <2>1. PageOK(pages[q])
    BY <1>2 DEF Nodes, NodeOK
  <2>2. SameNode(pages[q], Relinked(q, r)) /\ SameNode(pages[q], pages[q])
    BY <1>6, <2>1, SameIfRelinked DEF Relinked
  <2> QED BY <1>9, <1>10, <2>2
<1>11. /\ DOMAIN pages \subseteq DOMAIN qs /\ r \in DOMAIN qs \ {root_}
       /\ \A q \in DOMAIN pages \ {root_} : qs[q].level = pages[q].level
  <2>1. r \in DOMAIN pages \cup {r} /\ DOMAIN pages \subseteq DOMAIN pages \cup {r}
    OBVIOUS
  <2>2. \A q \in DOMAIN pages \ {root_} : qs[q].level = pages[q].level
    BY <1>10 DEF SameNode
  <2> QED BY <1>3, <1>9, <2>1, <2>2
<1>12. NodeOK(qs, r)
  <2>1. /\ PageOK(qs[r]) /\ qs[r].level = pages[root_].level /\ qs[r].seps = pages[root_].seps
        /\ qs[r].next = pages[root_].next /\ qs[r].slotCount = pages[root_].slotCount
    BY <1>7, <1>9 DEF pg
  <2>2. pages[root_].level # INVALID_TREE_LEVEL
    BY <1>4 DEF pg
  <2> QED BY <1>3, <1>5, <1>11, <2>1, <2>2, NodeMoved
<1>13. new.level \in DOMAIN qs /\ new.level # 0
  <2>1. PICK n \in PageNum : DOMAIN pages = 0 .. n /\ r = n + 1
    BY <1>3
  <2>2. n \in Nat
    BY TreeAssumption DEF PageNum
  <2>3. pg.level \in 0 .. n
    BY <1>5, <2>1
  <2>4. pg.level + 1 \in 0 .. (n + 1) /\ pg.level + 1 # 0
    BY <2>2, <2>3
  <2> QED BY <1>8, <1>9, <2>1, <2>4
<1>14. new.level # INVALID_TREE_LEVEL
  <2>1. CASE LevelsFit'
    <3>1. root_ \in DOMAIN qs /\ pages' = qs
      BY <1>1, <1>3, <1>11
    <3>2. qs[root_].level = INVALID_TREE_LEVEL => qs[root_].seps = <<>>
      BY <2>1, <3>1 DEF LevelsFit
    <3> QED BY <1>8, <1>9, <3>2
  <2>2. CASE MaxPage < INVALID_TREE_LEVEL
    <3>1. new.level \in 0 .. r /\ r \in 0 .. MaxPage
      BY <1>3, <1>9, <1>13 DEF PageNum
    <3> QED BY <2>2, <3>1, TreeAssumption DEF INVALID_TREE_LEVEL
  <2> QED BY <2>1, <2>2
<1>15. NodeOK(qs, root_)
  <2>1. qs[r].level = pg.level /\ qs[call.right].level = pg.level
    BY <1>4, <1>7, <1>9, <1>11
  <2>2. Below(qs, root_, r) /\ Below(qs, root_, call.right)
    BY <1>4, <1>8, <1>9, <1>11, <1>14, <2>1 DEF Below
  <2>3. \A i \in 0 .. SepCount(new) : i = 0 \/ i = 1
    BY <1>8
  <2>4. \A i \in 0 .. SepCount(qs[root_]) : Below(qs, root_, ChildOf(qs[root_], i))
    BY <1>8, <1>9, <2>2, <2>3
  <2>5. /\ PageOK(qs[root_]) /\ qs[root_].level = new.level
        /\ qs[root_].slotCount = 0 /\ qs[root_].seps # <<>>
    BY <1>8, <1>9
  <2> QED BY <1>13, <1>14, <2>4, <2>5, InnerNode
<1>16. Nodes(qs)
  <2> DEFINE changed == {root_}
  <2>1. /\ \A q \in DOMAIN pages : q \notin changed => SameNode(pages[q], qs[q])
        /\ \A q \in changed : NodeOK(qs, q)
    BY <1>10, <1>15
  <2>2. OneMore(pages, qs, r)
    BY <1>3, <1>9 DEF OneMore
  <2> HIDE DEF changed
  <2> QED BY <1>2, <1>3, <1>11, <1>12, <2>1, <2>2, NodesGrown
<1>17. Nodes(pages') /\ call' \in Call /\ CallOK(pages', call')
  BY <1>1, <1>16, NoCallIs
<1>18. LevelsKept
  BY <1>1, <1>11 DEF LevelsKept
<1> QED BY <1>1, <1>17, <1>18 DEF TreeInv

\* The steps that leave the pages as they are.
LEMMA SamePages ==
  ASSUME TreeInv, UNCHANGED pages, call' = call \/ call' = NoCall,
         status' \in {"ok", "aborted", "corrupt"},
         answer' \in {"none", "ok", "yes", "no", "error", "throws"}
  PROVE  TreeInv' /\ LevelsKept
<1>1. Nodes(pages') /\ CallOK(pages', call) /\ call \in Call
  BY DEF TreeInv
<1>2. NoCall \in Call /\ CallOK(pages', NoCall)
  BY NoCallIs
<1>3. LevelsKept
  BY DEF LevelsKept
<1> QED BY <1>1, <1>2, <1>3 DEF TreeInv

\* Every step keeps the invariant, and the levels.
LEMMA StepInv ==
  ASSUME TreeInv, [TreeNext]_treeVars, LevelsFit' \/ MaxPage < INVALID_TREE_LEVEL
  PROVE  TreeInv' /\ LevelsKept
<1>0. status \in {"ok", "aborted", "corrupt"}
      /\ answer \in {"none", "ok", "yes", "no", "error", "throws"}
  BY DEF TreeInv
<1>1. CASE UNCHANGED treeVars
  BY <1>0, <1>1, SamePages DEF treeVars
<1>2. ASSUME NEW k \in Keys, Insertion(k) PROVE TreeInv' /\ LevelsKept
  <2> DEFINE at == Search(k)
  <2>1. Ready
    BY <1>2 DEF Insertion, MayInsert
  <2>2. \/ InsertKey(k, at) \/ InsertThrows(k, at) \/ InsertAborts(k, at)
        \/ SplitLeaf(k, at) \/ SplitLeafDies(k, at) \/ SplitLeafFails(k, at)
    BY <1>2 DEF Insertion
  <2>3. CASE InsertKey(k, at)
    BY <2>1, <2>3, InsertKeyStep
  <2>4. CASE InsertThrows(k, at)
    BY <1>0, <2>4, SamePages DEF InsertThrows
  <2>5. CASE InsertAborts(k, at)
    BY <1>0, <2>5, SamePages DEF InsertAborts
  <2>6. CASE SplitLeaf(k, at)
    BY <2>1, <2>6, SplitLeafStep
  <2>7. CASE SplitLeafDies(k, at)
    BY <1>0, <2>7, SamePages DEF SplitLeafDies
  <2>8. CASE SplitLeafFails(k, at)
    BY <2>1, <2>8, SplitLeafFailsStep
  <2> QED BY <2>2, <2>3, <2>4, <2>5, <2>6, <2>7, <2>8
<1>3. ASSUME NEW k \in Keys, Removal(k) PROVE TreeInv' /\ LevelsKept
  <2> DEFINE at == Search(k)
  <2>1. Ready
    BY <1>3 DEF Removal, MayRemove
  <2>2. RemoveKey(k, at) \/ RemoveNothing(k, at) \/ RemoveThrows(k, at)
    BY <1>3 DEF Removal
  <2>3. CASE RemoveKey(k, at)
    BY <2>1, <2>3, RemoveKeyStep
  <2>4. CASE RemoveNothing(k, at)
    BY <2>1, <2>4, RemoveNothingStep
  <2>5. CASE RemoveThrows(k, at)
    BY <1>0, <2>5, SamePages DEF RemoveThrows
  <2> QED BY <2>2, <2>3, <2>4, <2>5
<1>4. CASE InsertStep
  <2>1. CASE InsertSeparator
    BY <2>1, InsertSeparatorStep
  <2>2. CASE SplitInner
    BY <2>2, SplitInnerStep
  <2>3. CASE SplitInnerAborts
    BY <1>0, <2>3, SamePages DEF SplitInnerAborts
  <2>4. CASE PromoteRoot
    BY <2>4, PromoteRootStep
  <2>5. CASE ClimbFails
    BY <1>0, <2>5, SamePages DEF ClimbFails
  <2> QED BY <1>4, <2>1, <2>2, <2>3, <2>4, <2>5 DEF InsertStep
<1>5. CASE SearchFails
  BY <1>0, <1>5, SamePages DEF SearchFails
<1> QED BY <1>1, <1>2, <1>3, <1>4, <1>5 DEF TreeNext

\* As long as the levels of the tree can be told from that of an empty root, whatever
\* fails and whatever the client does: page numbers are those of allocated pages,
\* entries and separators lie within their page and none has less than no space
\* (TypeOK).  Nothing is written past a page but in the two steps that say so by going
\* to status "corrupt": splitLeaf filling a right page that is too small, and remove
\* on a leaf with no entries.
THEOREM TreeTypeCorrect == TreeSpec /\ []LevelsFit => []TypeOK
<1>1. TreeInv /\ [TreeNext]_treeVars /\ LevelsFit' => TreeInv'
  BY StepInv
<1>2. TreeSpec /\ []LevelsFit => []TreeInv
  BY <1>1, InitInv, PTL DEF TreeSpec
<1> QED BY <1>2, InvImpliesTypeOK, PTL

\* A tree that has fewer pages than there are levels needs no such assumption.
THEOREM SmallTreeTypeCorrect ==
  ASSUME MaxPage < INVALID_TREE_LEVEL
  PROVE  TreeSpec => []TypeOK
<1>1. TreeInv /\ [TreeNext]_treeVars => TreeInv'
  BY StepInv
<1>2. TreeSpec => []TreeInv
  BY <1>1, InitInv, PTL DEF TreeSpec
<1> QED BY <1>2, InvImpliesTypeOK, PTL
=============================================================================
