-------------------------- MODULE BTreeChainProofs --------------------------
(***************************************************************************)
(* The chain of leaves, for any number of pages, any keys and any sizes,   *)
(* with a client and a pager that are Orderly: next and prev are inverse   *)
(* to each other (ChainLinked), a walk along next meets the keys in order  *)
(* (ScanAscending), and between insertions it meets the leaves of the tree *)
(* from left to right (ChainIsTree).  So entries come and go one at a time *)
(* (OneEntryAtATime).                                                      *)
(*                                                                         *)
(* None of the three is inductive: which leaf follows a leaf that is split *)
(* and what a promoted root is to its neighbours is a matter of where the  *)
(* leaves stand. The inductive invariant, ChainInv, adds the links to the  *)
(* ranges of OrderInv:                                                     *)
(*   - the next of a leaf has a range above the leaf's, and every other    *)
(*     leaf's range is below the leaf's or above its next's (Chained);     *)
(*   - next and prev are inverse to each other (Backed);                   *)
(*   - a leaf that has been split is followed by its new right half        *)
(*     (SplitChained).                                                     *)
(* Chained is local to a leaf and its neighbours, so a step has to be      *)
(* looked at where it changes a link or cuts a range: in SplitLeaf and in  *)
(* PromoteRoot of a leaf. That the first leaf is the lowest, that Chain    *)
(* has every leaf once and in the order of the ranges, and that the leaves *)
(* under a page are in that order too, follow from it; two rows of the     *)
(* same leaves in the order of their ranges are the same (SameRow).        *)
(*                                                                         *)
(* What a scan finds is said by ScanIsKeys: it ascends, and has the keys   *)
(* of all leaves and no other.  Two ascending sequences with the same keys *)
(* are the same, so a step need only be looked at for the keys that it     *)
(* adds or removes (KeysStep), wherever it moves their entries.            *)
(***************************************************************************)
EXTENDS BTreeOrderProofs

\* The keys of S are all below those of T.
AllBelow(S, T) == \A x \in S : \A y \in T : x < y

\* The leaves, an empty root among them.
LeafPages(ps) == {p \in DOMAIN ps : ~Inner(ps[p])}

\* The next of a leaf is the leaf with the next range.
Chained(ps, R) ==
  \A l \in LeafPages(ps) :
    /\ ps[l].next # INVALID_PAGE =>
         /\ ps[l].next \in LeafPages(ps) \ {root_}
         /\ AllBelow(R[l], R[ps[l].next])
    /\ \A m \in LeafPages(ps) \ {l} :
         \/ AllBelow(R[m], R[l])
         \/ /\ ps[l].next # INVALID_PAGE
            /\ m = ps[l].next \/ AllBelow(R[ps[l].next], R[m])

\* prev leads back to where next has come from.
Backed(ps) ==
  \A l \in LeafPages(ps) :
    /\ ps[l].next # INVALID_PAGE => ps[ps[l].next].prev = l
    /\ ps[l].prev # INVALID_PAGE =>
         ps[l].prev \in LeafPages(ps) /\ ps[ps[l].prev].next = l

\* If v is the prev of leaf l, it leads to a leaf with a lower range, or to the root, which
\* has been such a leaf; it leads nowhere only if there is no lower leaf.  This is what an
\* old version of a leaf keeps of Backed.
LeadsLeft(ps, R, l, v) ==
  \/ v = INVALID_PAGE /\ \A m \in LeafPages(ps) \ {l} : AllBelow(R[l], R[m])
  \/ /\ l # root_
     /\ \/ v = root_ /\ \E m \in LeafPages(ps) : AllBelow(R[m], R[l])
        \/ v \in LeafPages(ps) /\ AllBelow(R[v], R[l])

\* From the pages ps to the pages qs, what has led left still does, and no prev has been
\* set to what does not.
LeftKept(ps, R, qs, Q) ==
  /\ \A l \in LeafPages(ps) \cap LeafPages(qs) : \A v :
       LeadsLeft(ps, R, l, v) => LeadsLeft(qs, Q, l, v)
  /\ \A l \in LeafPages(qs) :
       \/ LeadsLeft(qs, Q, l, qs[l].prev)
       \/ l \in LeafPages(ps) /\ qs[l].prev = ps[l].prev

\* What steps keep of the chain.
ChainKept(ps, R, qs, Q) ==
  Chained(qs, Q) /\ (Backed(ps) => Backed(qs)) /\ LeftKept(ps, R, qs, Q)

\* A leaf that has been split is followed by its new sibling.
SplitChained(ps, c) ==
  c.active /\ c.left \in LeafPages(ps) => ps[c.left].next = c.right

\* Each leaf has a range of keys, an empty one at most if it is alone.
FullRanges(ps, R) ==
  /\ R \in [DOMAIN ps -> SUBSET Keys]
  /\ \A l \in LeafPages(ps) : l # root_ \/ (\E m \in LeafPages(ps) : m # l) => R[l] # {}

\* Being below is transitive over keys.
LEMMA LowerTwice ==
  ASSUME NEW S \in SUBSET Keys, NEW T \in SUBSET Keys, NEW U \in SUBSET Keys,
         T # {}, AllBelow(S, T), AllBelow(T, U)
  PROVE  AllBelow(S, U)
<1>1. Keys \subseteq Int
  BY SlotsAssumption
<1>2. PICK y \in T : TRUE
  OBVIOUS
<1> SUFFICES ASSUME NEW x \in S, NEW z \in U PROVE x < z
  BY DEF AllBelow
<1>3. x < y /\ y < z
  BY <1>2 DEF AllBelow
<1>4. x \in Int /\ y \in Int /\ z \in Int
  BY <1>1, <1>2
<1> QED BY <1>3, <1>4

\* No two sets of keys are below each other.
LEMMA NotLowerBoth ==
  ASSUME NEW S \in SUBSET Keys, NEW T \in SUBSET Keys, S # {}, T # {}, AllBelow(S, T)
  PROVE  ~AllBelow(T, S)
<1>1. PICK x \in S, y \in T : TRUE
  OBVIOUS
<1>2. x \in Int /\ y \in Int
  BY <1>1, SlotsAssumption
<1> QED BY <1>1, <1>2 DEF AllBelow

\* The chain does not see a step that changes no links and no ranges of leaves.
NextKept(ps, qs) ==
  /\ LeafPages(qs) = LeafPages(ps)
  /\ \A l \in LeafPages(ps) : qs[l].next = ps[l].next

LinksKept(ps, qs) ==
  /\ LeafPages(qs) = LeafPages(ps)
  /\ \A l \in LeafPages(ps) : qs[l].next = ps[l].next /\ qs[l].prev = ps[l].prev

LEMMA NextSame ==
  ASSUME NEW ps, NEW qs, NEW R, NEW Q, Chained(ps, R), NextKept(ps, qs),
         \A l \in LeafPages(ps) : Q[l] = R[l]
  PROVE  Chained(qs, Q)
<1> DEFINE L == LeafPages(ps)
<1>1. LeafPages(qs) = L /\ \A l \in L : qs[l].next = ps[l].next /\ Q[l] = R[l]
  BY DEF NextKept
<1>2. \A l \in L : /\ ps[l].next # INVALID_PAGE =>
                        ps[l].next \in L \ {root_} /\ AllBelow(R[l], R[ps[l].next])
                   /\ \A m \in L \ {l} :
                        \/ AllBelow(R[m], R[l])
                        \/ /\ ps[l].next # INVALID_PAGE
                           /\ m = ps[l].next \/ AllBelow(R[ps[l].next], R[m])
  BY DEF Chained
<1> HIDE DEF L
<1> SUFFICES ASSUME NEW l \in L
             PROVE  /\ qs[l].next # INVALID_PAGE =>
                         qs[l].next \in L \ {root_} /\ AllBelow(Q[l], Q[qs[l].next])
                    /\ \A m \in L \ {l} :
                         \/ AllBelow(Q[m], Q[l])
                         \/ /\ qs[l].next # INVALID_PAGE
                            /\ m = qs[l].next \/ AllBelow(Q[qs[l].next], Q[m])
  BY <1>1 DEF Chained
<1> QED BY <1>1, <1>2

LEMMA ChainSame ==
  ASSUME NEW ps, NEW qs, NEW R, NEW Q, Chained(ps, R), LinksKept(ps, qs),
         \A l \in LeafPages(ps) : Q[l] = R[l]
  PROVE  ChainKept(ps, R, qs, Q)
<1> DEFINE L == LeafPages(ps)
<1>1. /\ LeafPages(qs) = L
      /\ \A l \in L : qs[l].next = ps[l].next /\ qs[l].prev = ps[l].prev /\ Q[l] = R[l]
  BY DEF LinksKept
<1>2. \A l \in L : ps[l].next # INVALID_PAGE => ps[l].next \in L
  BY DEF Chained
<1> HIDE DEF L
<1>3. Chained(qs, Q)
  BY NextSame DEF LinksKept, NextKept
<1>4. ASSUME Backed(ps) PROVE Backed(qs)
  <2>1. \A l \in L : /\ ps[l].next # INVALID_PAGE => ps[ps[l].next].prev = l
                     /\ ps[l].prev # INVALID_PAGE => ps[l].prev \in L /\ ps[ps[l].prev].next = l
    BY <1>4 DEF Backed, L
  <2> SUFFICES ASSUME NEW l \in L
               PROVE  /\ qs[l].next # INVALID_PAGE => qs[qs[l].next].prev = l
                      /\ qs[l].prev # INVALID_PAGE =>
                           qs[l].prev \in L /\ qs[qs[l].prev].next = l
    BY <1>1 DEF Backed
  <2> QED BY <1>1, <1>2, <2>1
<1>5. ASSUME NEW l \in L, NEW v, LeadsLeft(ps, R, l, v) PROVE LeadsLeft(qs, Q, l, v)
  BY <1>1, <1>5 DEF LeadsLeft, L
<1>6. LeftKept(ps, R, qs, Q)
  BY <1>1, <1>5 DEF LeftKept, L
<1> QED BY <1>3, <1>4, <1>6 DEF ChainKept

\* In qs the leaf l of ps has been split: r, which is new, is the leaf after it and has
\* the upper part of its range.
LeafDivided(ps, R, qs, Q, l, r) ==
  /\ FullRanges(ps, R)
  /\ l \in LeafPages(ps) /\ INVALID_PAGE \notin LeafPages(ps)
  /\ r \notin LeafPages(ps) \cup {root_, INVALID_PAGE}
  /\ LeafPages(qs) = LeafPages(ps) \cup {r}
  /\ qs[l].next = r /\ qs[l].prev = ps[l].prev
  /\ qs[r].next = ps[l].next /\ qs[r].prev = l
  /\ \A p \in LeafPages(ps) \ {l} :
       /\ qs[p].next = ps[p].next
       /\ qs[p].prev = IF p = ps[l].next THEN r ELSE ps[p].prev
       /\ Q[p] = R[p]
  /\ Q[l] \subseteq R[l] /\ Q[r] \subseteq R[l] /\ AllBelow(Q[l], Q[r])

LEMMA ChainDivided ==
  ASSUME NEW ps, NEW R, NEW qs, NEW Q, NEW l, NEW r, Chained(ps, R),
         LeafDivided(ps, R, qs, Q, l, r)
  PROVE  ChainKept(ps, R, qs, Q)
<1> DEFINE L == LeafPages(ps)
           n == ps[l].next
<1>1. /\ l \in L /\ r \notin L /\ r # root_ /\ r # INVALID_PAGE /\ INVALID_PAGE \notin L
      /\ LeafPages(qs) = L \cup {r}
      /\ qs[l].next = r /\ qs[l].prev = ps[l].prev /\ qs[r].next = n /\ qs[r].prev = l
      /\ Q[l] \subseteq R[l] /\ Q[r] \subseteq R[l] /\ AllBelow(Q[l], Q[r])
  BY DEF LeafDivided
<1>2. \A p \in L \ {l} : /\ qs[p].next = ps[p].next /\ Q[p] = R[p]
                         /\ qs[p].prev = IF p = n THEN r ELSE ps[p].prev
  BY DEF LeafDivided
<1>3. \A p \in L : R[p] \in SUBSET Keys /\ (p # root_ \/ (\E m \in L : m # p) => R[p] # {})
  BY DEF LeafDivided, FullRanges, LeafPages
<1>4. \A p \in L : ps[p].next # INVALID_PAGE =>
        ps[p].next \in L \ {root_} /\ AllBelow(R[p], R[ps[p].next])
  BY DEF Chained
<1>6. \A p \in L : \A m \in L \ {p} :
        \/ AllBelow(R[m], R[p])
        \/ ps[p].next # INVALID_PAGE /\ (m = ps[p].next \/ AllBelow(R[ps[p].next], R[m]))
  BY DEF Chained
<1>20. Backed(ps) => \A p \in L :
         /\ ps[p].next # INVALID_PAGE => ps[ps[p].next].prev = p
         /\ ps[p].prev # INVALID_PAGE => ps[p].prev \in L /\ ps[ps[p].prev].next = p
  BY DEF Backed
<1> HIDE DEF L, n
<1>7. \A S, T \in SUBSET Keys : S # {} /\ T # {} /\ AllBelow(S, T) => ~AllBelow(T, S)
  BY NotLowerBoth
<1>8. \A S, T, U \in SUBSET Keys : T # {} /\ AllBelow(S, T) /\ AllBelow(T, U) => AllBelow(S, U)
  BY LowerTwice
<1>9. \A S, T, U : AllBelow(S, T) /\ U \subseteq S => AllBelow(U, T)
  BY DEF AllBelow
<1>10. \A S, T, U : AllBelow(S, T) /\ U \subseteq T => AllBelow(S, U)
  BY DEF AllBelow
<1>11. n # INVALID_PAGE => n \in L \ {root_, l} /\ AllBelow(R[l], R[n])
  <2>1. n # INVALID_PAGE => n \in L \ {root_} /\ AllBelow(R[l], R[n])
    BY <1>1, <1>4 DEF n
  <2>2. n = l /\ n # INVALID_PAGE => FALSE
    BY <1>1, <1>3, <1>7, <2>1
  <2> QED BY <2>1, <2>2
<1>12. ASSUME NEW p \in L \ {l}, ps[p].next # INVALID_PAGE
       PROVE  qs[p].next \in L \ {root_} /\ AllBelow(Q[p], Q[qs[p].next])
  <2>1. qs[p].next = ps[p].next /\ Q[p] = R[p]
    BY <1>2
  <2>2. ps[p].next \in L \ {root_} /\ AllBelow(R[p], R[ps[p].next])
    BY <1>4, <1>12
  <2>3. CASE ps[p].next = l
    BY <1>1, <1>10, <2>1, <2>2, <2>3
  <2>4. CASE ps[p].next # l
    BY <1>2, <2>1, <2>2, <2>4
  <2> QED BY <2>3, <2>4
<1>14. ASSUME NEW m \in L \ {l}
       PROVE  \/ AllBelow(Q[m], Q[l]) /\ AllBelow(Q[m], Q[r])
              \/ /\ AllBelow(Q[r], Q[m]) /\ AllBelow(Q[l], Q[m])
                 /\ n # INVALID_PAGE /\ (m = n \/ AllBelow(Q[n], Q[m]))
  <2>1. Q[m] = R[m]
    BY <1>2
  <2>2. CASE AllBelow(R[m], R[l])
    BY <1>1, <1>10, <2>1, <2>2
  <2>3. CASE n # INVALID_PAGE /\ (m = n \/ AllBelow(R[n], R[m]))
    <3>1. AllBelow(R[l], R[m])
      <4>1. R[n] # {} /\ R[n] \in SUBSET Keys /\ R[m] \in SUBSET Keys /\ R[l] \in SUBSET Keys
        BY <1>1, <1>3, <1>11, <2>3
      <4> QED BY <1>8, <1>11, <2>3, <4>1
    <3>2. Q[n] = R[n]
      BY <1>2, <1>11, <2>3
    <3> QED BY <1>1, <1>9, <2>1, <2>3, <3>1, <3>2
  <2> QED BY <1>1, <1>6, <2>2, <2>3 DEF n
<1>15. ASSUME NEW p \in L \ {l}, NEW m \in (L \cup {r}) \ {p}
       PROVE  \/ AllBelow(Q[m], Q[p])
              \/ /\ qs[p].next # INVALID_PAGE
                 /\ m = qs[p].next \/ AllBelow(Q[qs[p].next], Q[m])
  <2>1. qs[p].next = ps[p].next /\ Q[p] = R[p]
    BY <1>2
  <2> DEFINE z == ps[p].next
  <2>2. z # INVALID_PAGE => z \in L
    BY <1>4
  <2>3. z # INVALID_PAGE => Q[z] \subseteq R[z]
    BY <1>1, <1>2, <2>2
  <2>4. CASE m # r
    <3>1. Q[m] \subseteq R[m] /\ m \in L \ {p}
      BY <1>1, <1>2, <2>4
    <3>2. AllBelow(R[m], R[p]) \/ (z # INVALID_PAGE /\ (m = z \/ AllBelow(R[z], R[m])))
      BY <1>6, <3>1
    <3>3. CASE AllBelow(R[m], R[p])
      BY <1>9, <2>1, <3>1, <3>3
    <3>4. CASE z # INVALID_PAGE /\ m = z
      BY <2>1, <3>4
    <3>5. CASE z # INVALID_PAGE /\ AllBelow(R[z], R[m])
      <4>1. AllBelow(Q[z], Q[m])
        BY <1>9, <1>10, <2>3, <3>1, <3>5
      <4> QED BY <2>1, <3>5, <4>1
    <3> QED BY <3>2, <3>3, <3>4, <3>5
  <2>5. CASE m = r
    <3>1. AllBelow(R[l], R[p]) \/ (z # INVALID_PAGE /\ (l = z \/ AllBelow(R[z], R[l])))
      BY <1>1, <1>6
    <3> HIDE DEF z
    <3>2. CASE AllBelow(R[l], R[p])
      BY <1>1, <1>9, <2>1, <2>5, <3>2
    <3>3. CASE z # INVALID_PAGE /\ l = z
      BY <1>1, <2>1, <2>5, <3>3 DEF z
    <3>4. CASE z # INVALID_PAGE /\ AllBelow(R[z], R[l])
      <4>1. Q[z] \subseteq R[z] /\ Q[r] \subseteq R[l]
        BY <1>1, <2>3, <3>4
      <4>2. AllBelow(Q[z], Q[r])
        BY <3>4, <4>1 DEF AllBelow
      <4> QED BY <2>1, <2>5, <3>4, <4>2, Zenon DEF z
    <3> QED BY <3>1, <3>2, <3>3, <3>4
  <2> QED BY <2>4, <2>5
<1>16. ASSUME NEW p \in L \cup {r}
       PROVE  /\ qs[p].next # INVALID_PAGE =>
                   qs[p].next \in (L \cup {r}) \ {root_} /\ AllBelow(Q[p], Q[qs[p].next])
              /\ \A m \in (L \cup {r}) \ {p} :
                   \/ AllBelow(Q[m], Q[p])
                   \/ /\ qs[p].next # INVALID_PAGE
                      /\ m = qs[p].next \/ AllBelow(Q[qs[p].next], Q[m])
  <2>1. CASE p = l
    <3>1. \A m \in (L \cup {r}) \ {l} : AllBelow(Q[m], Q[l]) \/ m = r \/ AllBelow(Q[r], Q[m])
      BY <1>14
    <3> QED BY <1>1, <2>1, <3>1
  <2>2. CASE p = r
    <3>1. \A m \in L : AllBelow(Q[m], Q[r]) \/ (n # INVALID_PAGE /\ (m = n \/ AllBelow(Q[n], Q[m])))
      BY <1>1, <1>14
    <3>2. n # INVALID_PAGE => n \in L \ {root_} /\ AllBelow(Q[r], Q[n])
      BY <1>1, <1>2, <1>9, <1>11
    <3> QED BY <1>1, <2>2, <3>1, <3>2
  <2>3. CASE p \in L \ {l}
    BY <1>2, <1>12, <1>15, <2>3
  <2> QED BY <2>1, <2>2, <2>3
<1>17. Chained(qs, Q)
  BY <1>1, <1>16 DEF Chained
<1>18. ASSUME Backed(ps) PROVE Backed(qs)
  <2>1. ASSUME NEW p \in L, ps[p].next # INVALID_PAGE PROVE ps[ps[p].next].prev = p
    BY <1>18, <1>20, <2>1
  <2>2. ASSUME NEW p \in L, ps[p].prev # INVALID_PAGE
        PROVE  ps[p].prev \in L /\ ps[ps[p].prev].next = p
    BY <1>18, <1>20, <2>2
  <2>3. ASSUME NEW p \in L \ {l}, ps[p].next # INVALID_PAGE PROVE qs[ps[p].next].prev = p
    <3>1. ps[p].next \in L /\ ps[ps[p].next].prev = p
      BY <1>4, <2>1, <2>3
    <3>2. ps[p].next # n
      BY <1>1, <2>1, <2>3, <3>1 DEF n
    <3> QED BY <1>1, <1>2, <3>1, <3>2
  <2>4. ASSUME NEW p \in L, qs[p].prev # INVALID_PAGE
        PROVE  qs[p].prev \in L \cup {r} /\ qs[qs[p].prev].next = p
    <3>1. CASE p # l /\ p = n
      BY <1>1, <1>2, <3>1
    <3>2. CASE p = l \/ p # n
      <4>1. qs[p].prev = ps[p].prev
        BY <1>1, <1>2, <3>2
      <4>2. ps[p].prev \in L /\ ps[ps[p].prev].next = p
        BY <2>2, <2>4, <4>1
      <4>3. ps[p].prev # l
        BY <1>1, <1>11, <3>2, <4>2 DEF n
      <4> QED BY <1>2, <4>1, <4>2, <4>3
    <3> QED BY <3>1, <3>2
  <2> SUFFICES ASSUME NEW p \in L \cup {r}
               PROVE  /\ qs[p].next # INVALID_PAGE => qs[qs[p].next].prev = p
                      /\ qs[p].prev # INVALID_PAGE =>
                           qs[p].prev \in L \cup {r} /\ qs[qs[p].prev].next = p
    BY <1>1 DEF Backed
  <2>5. CASE p = l
    BY <1>1, <2>4, <2>5
  <2>6. CASE p = r
    BY <1>1, <1>2, <1>11, <2>6
  <2>7. CASE p \in L \ {l}
    BY <1>2, <2>3, <2>4, <2>7
  <2> QED BY <2>5, <2>6, <2>7
<1>19. \A p \in L : Q[p] \subseteq R[p]
  BY <1>1, <1>2
<1>21. ASSUME NEW p \in L, NEW v, LeadsLeft(ps, R, p, v) PROVE LeadsLeft(qs, Q, p, v)
  <2>1. ASSUME NEW m \in L, AllBelow(R[m], R[p]) PROVE AllBelow(Q[m], Q[p])
    BY <1>9, <1>10, <1>19, <2>1
  <2>2. CASE v = INVALID_PAGE /\ \A m \in L \ {p} : AllBelow(R[p], R[m])
    <3>1. ASSUME NEW m \in L \ {p} PROVE AllBelow(Q[p], Q[m])
      BY <1>9, <1>10, <1>19, <2>2
    <3>2. AllBelow(Q[p], Q[r])
      <4>1. CASE p = l
        BY <1>1, <4>1
      <4>2. CASE p # l
        BY <1>1, <1>9, <1>10, <1>19, <2>2, <4>2
      <4> QED BY <4>1, <4>2
    <3> QED BY <1>1, <2>2, <3>1, <3>2 DEF LeadsLeft
  <2>3. CASE p # root_ /\ v = root_ /\ \E m \in L : AllBelow(R[m], R[p])
    BY <1>1, <2>1, <2>3 DEF LeadsLeft
  <2>4. CASE p # root_ /\ v \in L /\ AllBelow(R[v], R[p])
    BY <1>1, <2>1, <2>4 DEF LeadsLeft
  <2> QED BY <1>21, <2>2, <2>3, <2>4 DEF LeadsLeft, L
<1>22. ASSUME NEW p \in L \cup {r}
       PROVE  \/ LeadsLeft(qs, Q, p, qs[p].prev)
              \/ p \in L /\ qs[p].prev = ps[p].prev
  <2>1. CASE p = r
    BY <1>1, <2>1 DEF LeadsLeft
  <2>2. CASE p = n /\ p # r
    <3>1. p \in L \ {l} /\ p # root_ /\ AllBelow(R[l], R[p])
      BY <1>1, <1>4, <1>11, <2>2
    <3>2. AllBelow(Q[r], Q[p])
      BY <1>1, <1>2, <1>9, <3>1
    <3> QED BY <1>1, <1>2, <2>2, <3>1, <3>2 DEF LeadsLeft
  <2>3. CASE p # r /\ p # n
    BY <1>1, <1>2, <2>3
  <2> QED BY <2>1, <2>2, <2>3
<1>23. LeftKept(ps, R, qs, Q)
  BY <1>1, <1>21, <1>22 DEF LeftKept, L
<1> QED BY <1>17, <1>18, <1>23 DEF ChainKept

\* In qs the root, a leaf of ps with no other below it, is at the page r, which is new.
RootMoved(ps, R, qs, Q, r) ==
  /\ root_ \in LeafPages(ps) /\ INVALID_PAGE \notin LeafPages(ps)
  /\ r \notin LeafPages(ps) \cup {root_, INVALID_PAGE}
  /\ \A p \in LeafPages(ps) \ {root_} : AllBelow(R[root_], R[p])
  /\ LeafPages(qs) = (LeafPages(ps) \ {root_}) \cup {r}
  /\ qs[r].next = ps[root_].next /\ qs[r].prev = INVALID_PAGE /\ Q[r] = R[root_]
  /\ \A p \in LeafPages(ps) \ {root_} :
       /\ qs[p].next = ps[p].next
       /\ qs[p].prev = IF p = ps[root_].next THEN r ELSE ps[p].prev
       /\ Q[p] = R[p]

LEMMA ChainMoved ==
  ASSUME NEW ps, NEW R, NEW qs, NEW Q, NEW r, Chained(ps, R), RootMoved(ps, R, qs, Q, r)
  PROVE  ChainKept(ps, R, qs, Q)
<1> DEFINE L == LeafPages(ps)
           K == L \ {root_}
           n == ps[root_].next
<1>1. /\ root_ \in L /\ r \notin L /\ r # root_ /\ r # INVALID_PAGE /\ INVALID_PAGE \notin L
      /\ LeafPages(qs) = K \cup {r}
      /\ qs[r].next = n /\ qs[r].prev = INVALID_PAGE /\ Q[r] = R[root_]
      /\ \A p \in K : AllBelow(R[root_], R[p])
  BY DEF RootMoved
<1>2. \A p \in K : /\ qs[p].next = ps[p].next /\ Q[p] = R[p]
                   /\ qs[p].prev = IF p = n THEN r ELSE ps[p].prev
  BY DEF RootMoved
<1>3. \A p \in L : ps[p].next # INVALID_PAGE =>
        ps[p].next \in K /\ AllBelow(R[p], R[ps[p].next])
  BY DEF Chained
<1>4. Backed(ps) => \A p \in L :
        /\ ps[p].next # INVALID_PAGE => ps[ps[p].next].prev = p
        /\ ps[p].prev # INVALID_PAGE => ps[p].prev \in L /\ ps[ps[p].prev].next = p
  BY DEF Backed
<1>5. \A p \in L : \A m \in L \ {p} :
        \/ AllBelow(R[m], R[p])
        \/ ps[p].next # INVALID_PAGE /\ (m = ps[p].next \/ AllBelow(R[ps[p].next], R[m]))
  BY DEF Chained
<1> HIDE DEF L
<1>6. n # INVALID_PAGE => n \in K /\ AllBelow(R[root_], R[n]) /\ Q[n] = R[n] /\ qs[n].prev = r
  BY <1>1, <1>2, <1>3
<1> HIDE DEF n
<1>7. ASSUME NEW p \in K
      PROVE  /\ ps[p].next # INVALID_PAGE =>
                  qs[p].next \in K /\ AllBelow(Q[p], Q[qs[p].next])
             /\ \A m \in (K \cup {r}) \ {p} :
                  \/ AllBelow(Q[m], Q[p])
                  \/ /\ qs[p].next # INVALID_PAGE
                     /\ m = qs[p].next \/ AllBelow(Q[qs[p].next], Q[m])
  <2>1. p \in L /\ p # root_ /\ qs[p].next = ps[p].next /\ Q[p] = R[p]
    BY <1>2
  <2>2. ASSUME ps[p].next # INVALID_PAGE
        PROVE  qs[p].next \in K /\ AllBelow(Q[p], Q[qs[p].next])
    <3>1. ps[p].next \in K /\ AllBelow(R[p], R[ps[p].next])
      BY <1>3, <2>1, <2>2
    <3> QED BY <1>2, <2>1, <3>1
  <2>4. ASSUME NEW m \in (K \cup {r}) \ {p}
        PROVE  \/ AllBelow(Q[m], Q[p])
               \/ /\ qs[p].next # INVALID_PAGE
                  /\ m = qs[p].next \/ AllBelow(Q[qs[p].next], Q[m])
    <3> DEFINE z == ps[p].next
    <3>1. PICK w \in L \ {p} : Q[m] = R[w] /\ (m = r \/ m = w) /\ (m = r => w = root_)
      BY <1>1, <1>2, <2>1
    <3>2. AllBelow(R[w], R[p]) \/ (z # INVALID_PAGE /\ (w = z \/ AllBelow(R[z], R[w])))
      BY <1>5, <2>1
    <3>3. z # INVALID_PAGE => z \in K /\ Q[z] = R[z]
      BY <1>2, <1>3, <2>1
    <3> HIDE DEF z
    <3>4. z # INVALID_PAGE /\ w = z => m = z
      BY <3>1, <3>3
    <3> QED BY <2>1, <3>1, <3>2, <3>3, <3>4 DEF z
  <2> QED BY <2>2, <2>4
<1>8. ASSUME NEW p \in K \cup {r}
      PROVE  /\ qs[p].next # INVALID_PAGE =>
                  qs[p].next \in (K \cup {r}) \ {root_} /\ AllBelow(Q[p], Q[qs[p].next])
             /\ \A m \in (K \cup {r}) \ {p} :
                  \/ AllBelow(Q[m], Q[p])
                  \/ /\ qs[p].next # INVALID_PAGE
                     /\ m = qs[p].next \/ AllBelow(Q[qs[p].next], Q[m])
  <2>1. CASE p = r
    <3>1. \A m \in K : AllBelow(Q[m], Q[r]) \/ (n # INVALID_PAGE /\ (m = n \/ AllBelow(Q[n], Q[m])))
      <4> SUFFICES ASSUME NEW m \in K
                   PROVE  AllBelow(Q[m], Q[r]) \/ (n # INVALID_PAGE /\ (m = n \/ AllBelow(Q[n], Q[m])))
        OBVIOUS
      <4>1. AllBelow(R[m], R[root_]) \/ (n # INVALID_PAGE /\ (m = n \/ AllBelow(R[n], R[m])))
        BY <1>1, <1>5 DEF n
      <4> QED BY <1>1, <1>2, <1>6, <4>1
    <3> QED BY <1>1, <1>6, <2>1, <3>1
  <2>2. CASE p \in K
    BY <1>2, <1>7, <2>2
  <2> QED BY <2>1, <2>2
<1>9. Chained(qs, Q)
  <2> HIDE DEF K
  <2> QED BY <1>1, <1>8 DEF Chained
<1>10. ASSUME Backed(ps) PROVE Backed(qs)
  <2>1. ASSUME NEW p \in L, ps[p].next # INVALID_PAGE PROVE ps[ps[p].next].prev = p
    BY <1>4, <1>10, <2>1
  <2>2. ASSUME NEW p \in L, ps[p].prev # INVALID_PAGE
        PROVE  ps[p].prev \in L /\ ps[ps[p].prev].next = p
    BY <1>4, <1>10, <2>2
  <2>3. ASSUME NEW p \in K, qs[p].next # INVALID_PAGE PROVE qs[qs[p].next].prev = p
    <3>1. qs[p].next = ps[p].next /\ ps[p].next \in K /\ ps[ps[p].next].prev = p
      BY <1>2, <1>3, <2>1, <2>3
    <3>2. ps[p].next # n
      BY <1>1, <2>1, <3>1 DEF n
    <3> QED BY <1>2, <3>1, <3>2
  <2>4. ASSUME NEW p \in K, qs[p].prev # INVALID_PAGE
        PROVE  qs[p].prev \in K \cup {r} /\ qs[qs[p].prev].next = p
    <3>1. CASE p = n
      BY <1>1, <1>2, <3>1
    <3>2. CASE p # n
      <4>1. ps[p].prev \in L /\ ps[ps[p].prev].next = p /\ qs[p].prev = ps[p].prev
        BY <1>2, <2>2, <2>4, <3>2
      <4>2. ps[p].prev # root_
        BY <3>2, <4>1 DEF n
      <4> QED BY <1>2, <4>1, <4>2
    <3> QED BY <3>1, <3>2
  <2> SUFFICES ASSUME NEW p \in K \cup {r}
               PROVE  /\ qs[p].next # INVALID_PAGE => qs[qs[p].next].prev = p
                      /\ qs[p].prev # INVALID_PAGE =>
                           qs[p].prev \in K \cup {r} /\ qs[qs[p].prev].next = p
    <3> HIDE DEF K
    <3> QED BY <1>1 DEF Backed
  <2>5. CASE p = r
    BY <1>1, <1>6, <2>5
  <2>6. CASE p \in K
    BY <2>3, <2>4, <2>6
  <2> QED BY <2>5, <2>6
<1>11. ASSUME NEW p \in K, NEW v, LeadsLeft(ps, R, p, v) PROVE LeadsLeft(qs, Q, p, v)
  <2>1. CASE v = INVALID_PAGE /\ \A m \in L \ {p} : AllBelow(R[p], R[m])
    BY <1>1, <1>2, <2>1 DEF LeadsLeft
  <2>2. CASE v = root_ /\ \E m \in L : AllBelow(R[m], R[p])
    <3>1. PICK m \in L : AllBelow(R[m], R[p])
      BY <2>2
    <3>2. \E w \in K \cup {r} : AllBelow(Q[w], Q[p])
      BY <1>1, <1>2, <3>1
    <3> QED BY <1>1, <2>2, <3>2 DEF LeadsLeft
  <2>3. CASE v \in L /\ AllBelow(R[v], R[p])
    <3>1. CASE v = root_
      BY <1>1, <1>2, <2>3, <3>1 DEF LeadsLeft
    <3>2. CASE v # root_
      BY <1>1, <1>2, <2>3, <3>2 DEF LeadsLeft
    <3> QED BY <3>1, <3>2
  <2> QED BY <1>11, <2>1, <2>2, <2>3 DEF LeadsLeft, L
<1>12. ASSUME NEW p \in K \cup {r}
       PROVE  \/ LeadsLeft(qs, Q, p, qs[p].prev)
              \/ p \in L /\ qs[p].prev = ps[p].prev
  <2>1. CASE p = r
    BY <1>1, <1>2, <2>1 DEF LeadsLeft
  <2>2. CASE p \in K /\ p = n
    BY <1>1, <1>2, <1>6, <2>2 DEF LeadsLeft
  <2>3. CASE p \in K /\ p # n
    BY <1>2, <2>3
  <2> QED BY <2>1, <2>2, <2>3
<1>13. LeftKept(ps, R, qs, Q)
  <2>1. L \cap LeafPages(qs) = K
    BY <1>1
  <2> QED BY <1>1, <1>11, <1>12, <2>1 DEF LeftKept, L
<1> QED BY <1>9, <1>10, <1>13 DEF ChainKept

-----------------------------------------------------------------------------
(* The first leaf. *)

\* The ranges of the leaves are as Chained needs them.
LEMMA FullRangesIs ==
  ASSUME TreeInv, NEW R, InOrder(pages, call, R)
  PROVE  FullRanges(pages, R)
<1>1. /\ R \in [DOMAIN pages -> SUBSET Keys]
      /\ \A p \in DOMAIN pages \ {root_} : R[p] # {}
      /\ Owned(R, call)[root_] = Keys
  BY DEF InOrder, RangesOf
<1>2. root_ \in DOMAIN pages
  BY DomainIs DEF TreeInv, Nodes
<1>3. ASSUME NEW m \in LeafPages(pages), m # root_
      PROVE  R[root_] # {}
  <2>1. Keys # {}
    BY <1>1, <1>3 DEF LeafPages
  <2>2. CASE ~call.active
    BY <1>1, <2>1, <2>2 DEF Owned
  <2>3. CASE call.active /\ call.left = root_
    BY <2>3 DEF InOrder, ClimbIn
  <2>4. CASE call.active /\ call.left # root_
    BY <1>1, <1>2, <2>1, <2>4 DEF Owned
  <2> QED BY <2>2, <2>3, <2>4
<1>4. \A l \in LeafPages(pages) :
        l # root_ \/ (\E m \in LeafPages(pages) : m # l) => R[l] # {}
  BY <1>1, <1>3 DEF LeafPages
<1> QED BY <1>1, <1>4 DEF FullRanges

\* A page number is not that of no page.
LEMMA LinkIsPage == \A p \in PageNum : p # INVALID_PAGE
BY TreeAssumption DEF PageNum

\* A function that goes from page to child, down to a leaf, exists: levels decrease on
\* the way.
LEMMA DownExists ==
  ASSUME Nodes(pages), NEW down,
         \A p \in DOMAIN pages : SepCount(pages[p]) # 0 => Below(pages, p, down[p])
  PROVE  \E f : f = [p \in DOMAIN pages |-> IF SepCount(pages[p]) = 0 THEN p ELSE f[down[p]]]
<1> DEFINE D == DOMAIN pages
           stop == {p \in D : SepCount(pages[p]) = 0}
           rank == [p \in D |-> pages[p].level]
           E(m) == {p \in D : p \in stop \/ rank[p] <= m}
           Is(f, m) == f = [p \in E(m) |-> IF p \in stop THEN p ELSE f[down[p]]]
           S == {m \in Nat : \E f : Is(f, m)}
<1>1. PICK n \in PageNum : D = 0 .. n
  BY DEF Nodes
<1>2. n \in Nat /\ D \subseteq Nat
  BY <1>1, DomainIs
<1>3. \A p \in D : rank[p] \in Nat /\ rank[p] <= n + 255
  <2> SUFFICES ASSUME NEW p \in D PROVE rank[p] \in Nat /\ rank[p] <= n + 255
    OBVIOUS
  <2>1. pages[p].level \in D \cup {INVALID_TREE_LEVEL}
    BY DEF Nodes, NodeOK
  <2> QED BY <1>1, <1>2, <2>1 DEF INVALID_TREE_LEVEL
<1>4. ASSUME NEW p \in D, p \notin stop
      PROVE  down[p] \in D /\ rank[p] = rank[down[p]] + 1
  <2>1. Below(pages, p, down[p])
    BY <1>4
  <2> QED BY <2>1 DEF Below
<1> HIDE DEF stop, rank, D
<1>5. 0 \in S
  <2> DEFINE f == [p \in E(0) |-> p]
  <2>1. \A p \in E(0) : p \in stop
    BY <1>3, <1>4
  <2>2. Is(f, 0)
    BY <2>1
  <2> QED BY <2>2
<1>6. ASSUME NEW m \in S PROVE m + 1 \in S
  <2>1. PICK f : Is(f, m)
    OBVIOUS
  <2> DEFINE g == [p \in E(m + 1) |-> IF p \in stop THEN p ELSE f[down[p]]]
  <2>2. ASSUME NEW p \in E(m + 1), p \notin stop PROVE g[down[p]] = f[down[p]]
    <3>1. down[p] \in E(m) /\ down[p] \in E(m + 1)
      BY <1>3, <1>4, <2>2
    <3> HIDE DEF E
    <3> QED BY <2>1, <3>1
  <2>3. Is(g, m + 1)
    <3>1. g = [p \in E(m + 1) |-> IF p \in stop THEN p ELSE f[down[p]]]
      OBVIOUS
    <3> HIDE DEF g, E
    <3> QED BY <2>2, <3>1
  <2> HIDE DEF Is
  <2> QED BY <2>3
<1> HIDE DEF S
<1>7. S = Nat
  <2>1. S \in SUBSET Nat
    BY DEF S
  <2> QED BY <1>5, <1>6, <2>1, NatInductive
<1> DEFINE top == n + 255
<1>8. top \in S
  BY <1>2, <1>7
<1>9. E(top) = D
  BY <1>3
<1> HIDE DEF top
<1>10. PICK f : Is(f, top)
  BY <1>8 DEF S
<1> HIDE DEF E
<1>11. f = [p \in DOMAIN pages |-> IF SepCount(pages[p]) = 0 THEN p ELSE f[down[p]]]
  <2>1. \A p \in D : p \in stop <=> SepCount(pages[p]) = 0
    BY DEF stop, D
  <2>2. f = [p \in D |-> IF p \in stop THEN p ELSE f[down[p]]]
    BY <1>9, <1>10
  <2> QED BY <2>1, <2>2 DEF D
<1> QED BY <1>11

\* What FirstLeaf reads.
FirstFrom ==
  CHOOSE f : f = [p \in DOMAIN pages |->
                    IF SepCount(pages[p]) = 0 THEN p ELSE f[ChildOf(pages[p], 0)]]

LEMMA FirstFromExists ==
  ASSUME Nodes(pages)
  PROVE  FirstFrom = [p \in DOMAIN pages |->
                        IF SepCount(pages[p]) = 0 THEN p
                        ELSE FirstFrom[ChildOf(pages[p], 0)]]
<1> DEFINE down == [p \in DOMAIN pages |-> ChildOf(pages[p], 0)]
<1>1. ASSUME NEW p \in DOMAIN pages, SepCount(pages[p]) # 0 PROVE Below(pages, p, down[p])
  <2>1. /\ SepCount(pages[p]) \in Nat
        /\ \A i \in 0 .. SepCount(pages[p]) : Below(pages, p, ChildOf(pages[p], i))
    BY <1>1, ParentsAreInner
  <2>2. down[p] = ChildOf(pages[p], 0)
    OBVIOUS
  <2> QED BY <2>1, <2>2
<1>2. \A p \in DOMAIN pages : down[p] = ChildOf(pages[p], 0)
  OBVIOUS
<1> HIDE DEF down
<1>3. PICK f : f = [p \in DOMAIN pages |-> IF SepCount(pages[p]) = 0 THEN p ELSE f[down[p]]]
  BY <1>1, DownExists
<1>4. f = [p \in DOMAIN pages |->
             IF SepCount(pages[p]) = 0 THEN p ELSE f[ChildOf(pages[p], 0)]]
  BY <1>2, <1>3
<1> QED BY <1>4, Zenon DEF FirstFrom

\* S is a first part of T.
FirstPart(S, T) == S \subseteq T /\ \A x \in T : \A y \in S : x <= y => x \in S

\* A first part of a first part.
LEMMA FirstPartOf ==
  ASSUME NEW S, NEW T, NEW U, FirstPart(S, T), FirstPart(T, U)
  PROVE  FirstPart(S, U)
BY Zenon DEF FirstPart

\* The range of a page is a first part of what inner pages know of it.
LEMMA OwnedFirst ==
  ASSUME TreeInv, NEW R, InOrder(pages, call, R), NEW p \in DOMAIN pages
  PROVE  FirstPart(R[p], Owned(R, call)[p])
<1> DEFINE T == Owned(R, call)
           l == call.left
           r == call.right
<1>1. R \in [DOMAIN pages -> SUBSET Keys] /\ ClimbIn(pages, call, R)
  BY DEF InOrder, RangesOf
<1>2. call.active => l \in DOMAIN pages /\ r \in DOMAIN pages
  BY CallPages
<1>3. /\ ~call.active => T = R
      /\ call.active => T[l] = R[l] \cup R[r]
      /\ call.active /\ p # l => T[p] = R[p]
  BY <1>1, <1>2, OwnedIs
<1>4. Keys \subseteq Int
  BY SlotsAssumption
<1>5. ASSUME call.active, p = l, NEW x \in R[r], NEW y \in R[l] PROVE ~(x <= y)
  <2>1. y < call.key /\ call.key <= x /\ call.key \in R[r]
    BY <1>1, <1>5 DEF ClimbIn
  <2>2. x \in Int /\ y \in Int /\ call.key \in Int
    BY <1>1, <1>2, <1>4, <1>5, <2>1
  <2> QED BY <2>1, <2>2
<1> HIDE DEF T, l, r
<1>6. CASE ~call.active \/ p # l
  <2>1. T[p] = R[p]
    BY <1>3, <1>6
  <2> QED BY <2>1 DEF FirstPart, T
<1>7. CASE call.active /\ p = l
  BY <1>3, <1>5, <1>7 DEF FirstPart, T
<1> QED BY <1>6, <1>7

\* An inner page has separators and a leaf has none.
LEMMA InnerSeps ==
  ASSUME TreeInv, NEW R, InOrder(pages, call, R), NEW p \in DOMAIN pages
  PROVE  /\ Inner(pages[p]) <=> SepCount(pages[p]) # 0
         /\ Inner(pages[p]) =>
              /\ SepCount(pages[p]) \in Nat \ {0}
              /\ Divided(SepKeys(pages[p]), SepCount(pages[p]), Kids(pages[p]), R[p],
                         Owned(R, call))
<1>1. Nodes(pages)
  BY DEF TreeInv
<1>2. Inner(pages[p]) => /\ SepCount(pages[p]) \in Nat /\ SepCount(pages[p]) >= 1
                         /\ Divided(SepKeys(pages[p]), SepCount(pages[p]), Kids(pages[p]),
                                    R[p], Owned(R, call))
  BY <1>1, InnerIs DEF InOrder, InnerIn
<1>3. SepCount(pages[p]) # 0 => Inner(pages[p])
  BY <1>1, ParentsAreInner DEF Inner
<1> QED BY <1>2, <1>3

\* The leaf that the first children lead to has the first keys of all.
LEMMA FirstIs ==
  ASSUME TreeInv, NEW R, InOrder(pages, call, R)
  PROVE  /\ FirstLeaf \in LeafPages(pages)
         /\ FirstPart(R[FirstLeaf], Keys)
<1> DEFINE T == Owned(R, call)
           f == FirstFrom
           Is(p) == f[p] \in LeafPages(pages) /\ FirstPart(T[f[p]], T[p])
           M == {m \in Nat : \A p \in DOMAIN pages : pages[p].level <= m => Is(p)}
<1>1. Nodes(pages) /\ root_ \in DOMAIN pages
  BY DomainIs DEF TreeInv, Nodes
<1>2. f = [p \in DOMAIN pages |->
             IF SepCount(pages[p]) = 0 THEN p ELSE f[ChildOf(pages[p], 0)]]
  BY <1>1, FirstFromExists
<1>3. \A p \in DOMAIN pages : pages[p].level \in Nat
  BY <1>1 DEF Nodes, NodeOK, PageOK, Page
<1> HIDE DEF f
<1>4. ASSUME NEW p \in DOMAIN pages, SepCount(pages[p]) = 0 PROVE Is(p)
  <2>1. f[p] = p /\ ~Inner(pages[p])
    BY <1>2, <1>4, InnerSeps
  <2> QED BY <2>1 DEF FirstPart, LeafPages
<1>5. ASSUME NEW p \in DOMAIN pages, SepCount(pages[p]) # 0
      PROVE  LET ch == ChildOf(pages[p], 0) IN
             /\ f[p] = f[ch] /\ ch \in DOMAIN pages /\ pages[ch].level + 1 = pages[p].level
             /\ FirstPart(T[ch], T[p])
  <2> DEFINE pg == pages[p]
             ch == ChildOf(pg, 0)
             F == SepKeys(pg)
             m == SepCount(pg)
  <2>1. /\ Inner(pg) /\ m \in Nat \ {0} /\ Divided(F, m, Kids(pg), R[p], T)
    BY <1>5, InnerSeps
  <2>2. Below(pages, p, ch) /\ Kids(pg)[0] = ch /\ F \in [1 .. m -> Keys]
    BY <1>1, <2>1, InnerIs
  <2>3. T[ch] = Between(F, m, 0, R[p])
    BY <2>1, <2>2 DEF Divided
  <2>4. Keys \subseteq Int /\ F[1] \in Keys /\ R[p] \subseteq Keys
    BY <2>1, <2>2, SlotsAssumption DEF InOrder, RangesOf
  <2> HIDE DEF pg, F, m
  <2>5. FirstPart(T[ch], R[p])
    <3>1. T[ch] = {k \in R[p] : k < F[1]}
      BY <2>1, <2>3 DEF Between
    <3>2. ASSUME NEW x \in R[p], NEW y \in R[p], x <= y, y < F[1] PROVE x < F[1]
      <4>1. x \in Int /\ y \in Int /\ F[1] \in Int
        BY <2>4
      <4> QED BY <3>2, <4>1
    <3> HIDE DEF T, ch
    <3> QED BY <3>1, <3>2 DEF FirstPart
  <2>6. FirstPart(R[p], T[p])
    BY OwnedFirst
  <2>7. FirstPart(T[ch], T[p])
    BY <2>5, <2>6, FirstPartOf
  <2>8. ch \in DOMAIN pages /\ pages[ch].level + 1 = pages[p].level
    BY <2>2 DEF Below, pg
  <2> QED BY <1>2, <1>5, <2>7, <2>8 DEF pg
<1> HIDE DEF T
<1>6. 0 \in M
  <2> SUFFICES ASSUME NEW p \in DOMAIN pages, pages[p].level <= 0 PROVE Is(p)
    OBVIOUS
  <2>1. CASE SepCount(pages[p]) = 0
    BY <1>4, <2>1
  <2>2. CASE SepCount(pages[p]) # 0
    BY <1>3, <1>5, <2>2
  <2> QED BY <2>1, <2>2
<1>7. ASSUME NEW m \in M PROVE m + 1 \in M
  <2> SUFFICES ASSUME NEW p \in DOMAIN pages, pages[p].level <= m + 1 PROVE Is(p)
    OBVIOUS
  <2>1. CASE SepCount(pages[p]) = 0
    BY <1>4, <2>1
  <2>2. CASE SepCount(pages[p]) # 0
    <3> DEFINE ch == ChildOf(pages[p], 0)
    <3>1. /\ f[p] = f[ch] /\ ch \in DOMAIN pages /\ pages[ch].level + 1 = pages[p].level
          /\ FirstPart(T[ch], T[p])
      BY <1>5, <2>2
    <3> HIDE DEF ch
    <3>2. Is(ch)
      BY <1>3, <3>1
    <3>3. FirstPart(T[f[ch]], T[p])
      BY <3>1, <3>2, FirstPartOf
    <3> QED BY <3>1, <3>2, <3>3
  <2> QED BY <2>1, <2>2
<1>8. M = Nat
  <2>1. M \in SUBSET Nat
    OBVIOUS
  <2> HIDE DEF M
  <2> QED BY <1>6, <1>7, <2>1, NatInductive
<1>9. Is(root_)
  <2>1. pages[root_].level \in M
    BY <1>1, <1>3, <1>8
  <2>2. pages[root_].level <= pages[root_].level
    BY <1>1, <1>3
  <2> HIDE DEF Is
  <2> QED BY <1>1, <2>1, <2>2
<1>10. FirstLeaf = f[root_]
  BY DEF FirstLeaf, FirstFrom, f
<1>11. T[root_] = Keys
  BY DEF InOrder, T
<1>12. FirstPart(R[f[root_]], T[f[root_]])
  BY <1>9, OwnedFirst DEF LeafPages, T
<1> QED BY <1>9, <1>10, <1>11, <1>12, FirstPartOf

\* Two leaves have different keys.
LEMMA LeavesApart ==
  ASSUME TreeInv, NEW R, InOrder(pages, call, R),
         NEW l \in LeafPages(pages), NEW m \in LeafPages(pages), l # m
  PROVE  R[l] \cap R[m] = {}
<1>1. /\ Nodes(pages) /\ l \in DOMAIN pages /\ m \in DOMAIN pages
      /\ pages[l].level \in {0, INVALID_TREE_LEVEL} /\ pages[m].level \in {0, INVALID_TREE_LEVEL}
  BY DEF TreeInv, LeafPages, Inner
<1>2. \A p \in DOMAIN pages : pages[p].level = INVALID_TREE_LEVEL => p = root_
  BY <1>1 DEF Nodes, NodeOK
<1>3. \A p \in DOMAIN pages \ {root_} : pages[root_].level # INVALID_TREE_LEVEL
  BY DEF InOrder, RootAbove
<1>4. l \in DOMAIN pages \ {root_} \/ m \in DOMAIN pages \ {root_}
  BY <1>1
<1>5. pages[l].level = pages[m].level
  BY <1>1, <1>2, <1>3, <1>4
<1> QED BY <1>1, <1>5 DEF InOrder, RangesOf

\* The first leaf has the lowest keys.
LEMMA FirstLowest ==
  ASSUME TreeInv, NEW R, InOrder(pages, call, R)
  PROVE  \A m \in LeafPages(pages) \ {FirstLeaf} : AllBelow(R[FirstLeaf], R[m])
<1> DEFINE F == FirstLeaf
           L == LeafPages(pages)
<1>1. F \in L /\ FirstPart(R[F], Keys)
  BY FirstIs
<1>2. FullRanges(pages, R)
  BY FullRangesIs
<1>3. \A l \in L : /\ R[l] \subseteq Keys
                   /\ l # root_ \/ (\E m \in L : m # l) => R[l] # {}
  BY <1>2 DEF FullRanges, LeafPages
<1>4. Keys \subseteq Int
  BY SlotsAssumption
<1> HIDE DEF F
<1>5. ASSUME NEW m \in L \ {F} PROVE AllBelow(R[F], R[m])
  <2> SUFFICES ASSUME NEW x \in R[F], NEW y \in R[m] PROVE x < y
    BY DEF AllBelow
  <2>1. y \notin R[F] /\ x \in Int /\ y \in Int /\ y \in Keys
    BY <1>1, <1>3, <1>4, LeavesApart
  <2>2. ~(y <= x)
    BY <1>1, <2>1 DEF FirstPart
  <2> QED BY <2>1, <2>2
<1> QED BY <1>5 DEF F

\* A root that is a leaf is the first one.
LEMMA RootLeafFirst ==
  ASSUME TreeInv, NEW R, InOrder(pages, call, R), root_ \in LeafPages(pages)
  PROVE  FirstLeaf = root_
<1>1. SepCount(pages[root_]) = 0 /\ root_ \in DOMAIN pages
  BY InnerSeps DEF LeafPages
<1>2. FirstLeaf = FirstFrom[root_]
  BY DEF FirstLeaf, FirstFrom
<1>3. FirstFrom = [p \in DOMAIN pages |-> IF SepCount(pages[p]) = 0 THEN p
                                        ELSE FirstFrom[ChildOf(pages[p], 0)]]
  BY FirstFromExists DEF TreeInv
<1> QED BY <1>1, <1>2, <1>3

\* No leaf is before it.
LEMMA FirstHasNoPrev ==
  ASSUME TreeInv, NEW R, InOrder(pages, call, R), Chained(pages, R), Backed(pages)
  PROVE  pages[FirstLeaf].prev = INVALID_PAGE
<1> DEFINE F == FirstLeaf
           L == LeafPages(pages)
<1>1. F \in L
  BY FirstIs
<1>2. FullRanges(pages, R)
  BY FullRangesIs
<1>3. \A l \in L : /\ R[l] \subseteq Keys
                   /\ l # root_ \/ (\E m \in L : m # l) => R[l] # {}
  BY <1>2 DEF FullRanges, LeafPages
<1>4. Keys \subseteq Int
  BY SlotsAssumption
<1>5. \A m \in L \ {F} : AllBelow(R[F], R[m])
  BY FirstLowest
<1> HIDE DEF F
<1>6. ASSUME pages[F].prev # INVALID_PAGE PROVE FALSE
  <2> DEFINE l == pages[F].prev
  <2>1. l \in L /\ pages[l].next = F
    BY <1>1, <1>6 DEF Backed
  <2>2. F # root_ /\ AllBelow(R[l], R[F])
    <3>1. F # INVALID_PAGE
      BY <1>1, LinkIsPage, DomainIs DEF LeafPages, TreeInv, Nodes
    <3> QED BY <2>1, <3>1 DEF Chained
  <2>3. R[F] # {}
    BY <1>1, <1>3, <2>2
  <2> HIDE DEF l
  <2>4. CASE l = F
    <3>1. PICK x \in R[F] : TRUE
      BY <2>3
    <3>2. x < x /\ x \in Int
      BY <1>1, <1>3, <1>4, <2>2, <2>4, <3>1 DEF AllBelow
    <3> QED BY <3>2
  <2>5. CASE l # F
    <3>1. AllBelow(R[F], R[l])
      BY <1>5, <2>1, <2>5
    <3>2. R[l] # {} /\ R[l] \subseteq Keys /\ R[F] \subseteq Keys
      BY <1>1, <1>3, <2>1, <2>5
    <3> QED BY <2>2, <2>3, <3>1, <3>2, NotLowerBoth
  <2> QED BY <2>4, <2>5
<1> QED BY <1>6 DEF F

-----------------------------------------------------------------------------
(* The steps. *)

\* A page that keeps its level and its links changes nothing in the chain.
LEMMA PageChanged ==
  ASSUME NEW ps, NEW l \in DOMAIN ps, NEW c, c.level = ps[l].level,
         c.next = ps[l].next, c.prev = ps[l].prev
  PROVE  LinksKept(ps, [ps EXCEPT ![l] = c])
<1> DEFINE qs == [ps EXCEPT ![l] = c]
<1>1. DOMAIN qs = DOMAIN ps /\ qs[l] = c /\ \A p \in DOMAIN ps \ {l} : qs[p] = ps[p]
  OBVIOUS
<1> HIDE DEF qs
<1>2. \A p \in DOMAIN ps : /\ qs[p].level = ps[p].level
                           /\ qs[p].next = ps[p].next /\ qs[p].prev = ps[p].prev
  BY <1>1
<1>3. LeafPages(qs) = LeafPages(ps)
  BY <1>1, <1>2 DEF LeafPages, Inner
<1>4. LinksKept(ps, qs)
  BY <1>2, <1>3 DEF LinksKept, LeafPages
<1> QED BY <1>4 DEF qs

\* Nor does search, which may make an empty root a leaf.
LEMMA SearchedLinks ==
  ASSUME Nodes(pages)
  PROVE  LinksKept(pages, Searched)
<1> DEFINE c == [pages[root_] EXCEPT !.level = 0]
<1>1. root_ \in DOMAIN pages /\ NodeOK(pages, root_) /\ pages[root_] \in Page
  BY DomainIs DEF Nodes, NodeOK, PageOK
<1>2. CASE EmptyRoot
  <2>1. pages[root_].seps \in Seq([key : Keys, child : PageLink])
    BY <1>1 DEF Page
  <2>2. pages[root_].seps = <<>>
    BY <1>2, <2>1 DEF EmptyRoot, SepCount
  <2>3. ~Inner(pages[root_])
    BY <1>1, <2>2 DEF NodeOK, Inner
  <2>4. c.level = 0 /\ c.next = pages[root_].next /\ c.prev = pages[root_].prev
    BY <1>1 DEF Page
  <2>5. DOMAIN Searched = DOMAIN pages /\ Searched[root_] = c
        /\ \A p \in DOMAIN pages \ {root_} : Searched[p] = pages[p]
    BY <1>1, <1>2 DEF Searched
  <2> HIDE DEF c
  <2>6. \A p \in DOMAIN pages : /\ Inner(Searched[p]) <=> Inner(pages[p])
                                /\ Searched[p].next = pages[p].next
                                /\ Searched[p].prev = pages[p].prev
    BY <2>3, <2>4, <2>5 DEF Inner
  <2> QED BY <2>5, <2>6 DEF LinksKept, LeafPages
<1>3. CASE ~EmptyRoot
  BY <1>3 DEF Searched, LinksKept
<1> QED BY <1>2, <1>3

LEMMA LinksKeptTwice ==
  ASSUME NEW ps, NEW qs, NEW rs, LinksKept(ps, qs), LinksKept(qs, rs)
  PROVE  LinksKept(ps, rs)
BY DEF LinksKept

\* insert into a leaf that has space.
LEMMA InsertKeyLinks ==
  ASSUME TreeInv, NEW k \in Keys, InsertKey(k, Search(k))
  PROVE  LinksKept(pages, pages')
<1> DEFINE at == Search(k)
           l  == at.leaf
           pg == Searched[l]
           on == RoomMade(pg, k)
           c  == InsertIntoLeaf(on, at.index, k)
<1>1. Nodes(pages)
  BY DEF TreeInv
<1>2. HasSpace(pg, k) /\ pages' = [Searched EXCEPT ![l] = c]
  BY DEF InsertKey, RoomMade
<1>3. l \in DOMAIN Searched /\ PageOK(pg) /\ at.index \in 0 .. pg.slotCount
  BY <1>1, SearchedIs
<1> HIDE DEF at, pg
<1>4. on.prev = pg.prev
  <2>1. pg \in Page
    BY <1>3 DEF PageOK
  <2> QED BY <2>1 DEF RoomMade, Compact, Page
<1>5. /\ PageOK(on) /\ on.level = pg.level /\ on.next = pg.next
      /\ on.slotCount = pg.slotCount /\ EntrySize(k) <= FreeSpace(on)
  BY <1>2, <1>3, RoomMadeIs
<1> HIDE DEF on
<1>6. \A f \in Rest : c[f] = on[f]
  BY <1>3, <1>5, InsertIntoLeafIs
<1>7. c.level = on.level /\ c.next = on.next /\ c.prev = on.prev
  BY <1>6 DEF Rest
<1> HIDE DEF c
<1>8. LinksKept(Searched, pages')
  BY <1>2, <1>3, <1>4, <1>5, <1>7, PageChanged DEF pg
<1> QED BY <1>1, <1>8, SearchedLinks, LinksKeptTwice

\* remove from a leaf, or nothing.
LEMMA RemovalLinks ==
  ASSUME TreeInv, NEW k \in Keys, Removal(k)
  PROVE  LinksKept(pages, pages')
<1> DEFINE at == Search(k)
           l  == at.leaf
           pg == pages[l]
           c  == RemoveFromLeaf(pg, at.index)
<1>1. Nodes(pages)
  BY DEF TreeInv
<1>2. RemoveKey(k, at) \/ RemoveNothing(k, at) \/ RemoveThrows(k, at)
  BY DEF Removal
<1>3. CASE RemoveNothing(k, at)
  BY <1>1, <1>3, SearchedLinks DEF RemoveNothing
<1>4. CASE pages' = pages
  BY <1>4 DEF LinksKept
<1>5. CASE RemoveKey(k, at) /\ pages[l].slotCount # 0
  <2>1. pages' = [pages EXCEPT ![l] = c]
    BY <1>5 DEF RemoveKey
  <2>2. l \in DOMAIN pages /\ PageOK(Searched[l]) /\ at.index \in 0 .. Searched[l].slotCount
        /\ (pages[l].slotCount > 0 => Searched[l] = pg)
    BY <1>1, SearchedIs
  <2>3. PageOK(pg) /\ pg.slotCount > 0
    <3>1. PageOK(pg)
      BY <1>1, <2>2 DEF Nodes, NodeOK
    <3>2. pg.slotCount \in Nat
      BY <3>1, PageFields DEF PageOK
    <3> QED BY <1>5, <3>1, <3>2
  <2>4. at.index \in 0 .. pg.slotCount
    BY <2>2, <2>3
  <2> HIDE DEF at, pg
  <2>5. \A f \in Rest : c[f] = pg[f]
    BY <2>3, <2>4, RemoveFromLeafIs
  <2>6. c.level = pg.level /\ c.next = pg.next /\ c.prev = pg.prev
    BY <2>5 DEF Rest
  <2> HIDE DEF c
  <2> QED BY <2>1, <2>2, <2>6, PageChanged DEF pg
<1> QED BY <1>2, <1>3, <1>4, <1>5 DEF RemoveKey, RemoveThrows

\* What Relinked changes.
LEMMA RelinkedLinks ==
  ASSUME Nodes(pages), NEW p \in DOMAIN pages, NEW r
  PROVE  /\ Relinked(p, r).prev = r /\ Relinked(p, r).next = pages[p].next
         /\ Inner(Relinked(p, r)) <=> Inner(pages[p])
<1>1. pages[p] \in Page
  BY DEF Nodes, NodeOK, PageOK
<1>2. /\ Relinked(p, r).prev = r /\ Relinked(p, r).next = pages[p].next
      /\ Relinked(p, r).level = pages[p].level
  BY <1>1 DEF Relinked, Page
<1> QED BY <1>2 DEF Inner

\* splitLeaf: the new leaf comes after the one that is split, and before the next.
LEMMA SplitLeafChain ==
  ASSUME TreeInv, Ready, NEW R, InOrder(pages, call, R), Chained(pages, R),
         NEW k \in Keys, SplitLeaf(k, Search(k))
  PROVE  ChainKept(pages, R, pages', CutHere(R)) /\ SplitChained(pages', call')
<1> DEFINE at  == Search(k)
           l   == at.leaf
           pg  == pages[l]
           r   == NextPageNum
           new == LeafSplit(k, at)
           qs  == pages'
           c   == call'
           Q   == CutHere(R)
<1>1. NeedsSplit(k, at) /\ Nodes(pages)
  BY DEF SplitLeaf, TreeInv
<1>2. /\ l \in DOMAIN pages /\ PageOK(pg) /\ pg.level = 0 /\ pg.seps = <<>>
      /\ at.index \in 0 .. pg.slotCount /\ MustSplit(pg, k)
      /\ r \in PageNum /\ DOMAIN pages \subseteq PageNum
  BY <1>1, SplitLeafIs
<1>3. r \notin DOMAIN pages /\ 0 .. r = DOMAIN pages \cup {r} /\ r # root_
  BY <1>1, NextPageIs DEF NeedsSplit
<1>4. /\ qs = [p \in 0 .. r |->
                 IF p = l THEN new.left ELSE IF p = r THEN new.right
                 ELSE IF p = pages[l].next THEN Relinked(p, r) ELSE pages[p]]
      /\ c = [active |-> TRUE, parents |-> at.parents,
              key |-> new.key, left |-> l, right |-> r]
  BY DEF SplitLeaf
<1>5. /\ new.left.level = 0 /\ new.left.prev = pg.prev /\ new.left.next = r
      /\ new.right.level = 0 /\ new.right.prev = l /\ new.right.next = pg.next
      /\ new.key \in Keys
  BY <1>2, LeafSplitIs
<1>6. c.left = l /\ c.right = r /\ c.key = new.key
  BY <1>4
<1>7. FullRanges(pages, R)
  BY FullRangesIs
<1> HIDE DEF new, at, qs, c
<1>8. /\ DOMAIN qs = DOMAIN pages \cup {r} /\ qs[l] = new.left /\ qs[r] = new.right
      /\ \A p \in DOMAIN pages \ {l} :
           qs[p] = IF p = pages[l].next THEN Relinked(p, r) ELSE pages[p]
  BY <1>2, <1>3, <1>4
<1> HIDE DEF r, l
<1>9. ASSUME NEW p \in DOMAIN pages \ {l}
      PROVE  /\ Inner(qs[p]) <=> Inner(pages[p])
             /\ qs[p].next = pages[p].next
             /\ qs[p].prev = IF p = pages[l].next THEN r ELSE pages[p].prev
  BY <1>1, <1>8, RelinkedLinks
<1>10. l \in LeafPages(pages) /\ ~Inner(qs[l]) /\ ~Inner(qs[r])
  BY <1>2, <1>5, <1>8 DEF LeafPages, Inner
<1>11. LeafPages(qs) = LeafPages(pages) \cup {r}
  BY <1>2, <1>3, <1>8, <1>9, <1>10 DEF LeafPages
<1>12. /\ Q[l] = Lower(R[l], new.key) /\ Q[r] = Upper(R[l], new.key)
       /\ \A p \in DOMAIN pages \ {l} : Q[p] = R[p]
  <2>1. DOMAIN R = DOMAIN pages
    BY <1>7 DEF FullRanges
  <2> QED BY <1>2, <1>3, <1>6, <2>1 DEF CutHere, Cut, c
<1>13. AllBelow(Q[l], Q[r]) /\ Q[l] \subseteq R[l] /\ Q[r] \subseteq R[l]
  <2>1. \A x \in R[l] : x \in Int
    BY <1>2, <1>7, SlotsAssumption DEF FullRanges
  <2>2. new.key \in Int
    <3>1. Keys \subseteq Int
      BY SlotsAssumption
    <3> QED BY <1>5, <3>1
  <2> QED BY <1>12, <2>1, <2>2 DEF AllBelow, Lower, Upper
<1> HIDE DEF Q
<1>14. LeafDivided(pages, R, qs, Q, l, r)
  <2>1. /\ r \notin LeafPages(pages) \cup {root_, INVALID_PAGE}
        /\ INVALID_PAGE \notin LeafPages(pages)
    BY <1>2, <1>3, LinkIsPage DEF LeafPages
  <2>2. \A p \in LeafPages(pages) \ {l} :
          /\ qs[p].next = pages[p].next /\ Q[p] = R[p]
          /\ qs[p].prev = IF p = pages[l].next THEN r ELSE pages[p].prev
    BY <1>9, <1>12 DEF LeafPages
  <2> QED BY <1>5, <1>7, <1>8, <1>10, <1>11, <1>13, <2>1, <2>2 DEF LeafDivided
<1>15. ChainKept(pages, R, qs, Q)
  BY <1>14, ChainDivided
<1>16. SplitChained(qs, c)
  BY <1>5, <1>6, <1>8 DEF SplitChained
<1> QED BY <1>15, <1>16 DEF qs, c, Q

\* insertIntoInner changes an inner page.
LEMMA InsertSeparatorLinks ==
  ASSUME TreeInv, InsertSeparator
  PROVE  LinksKept(pages, pages')
<1> DEFINE P == Parent
           c == InsertIntoInner(pages[P], ParentIndex, call.key, call.left, call.right)
<1>1. Climbing /\ call.parents # <<>> /\ pages' = [pages EXCEPT ![P] = c]
  BY DEF InsertSeparator
<1>2. P \in DOMAIN pages /\ Inner(pages[P]) /\ pages[P] \in Page
  BY <1>1, ParentIs DEF Inner, PageOK
<1>3. c.level = pages[P].level
  BY <1>2 DEF InsertIntoInner, Page
<1> HIDE DEF P, c
<1>4. /\ DOMAIN pages' = DOMAIN pages /\ pages'[P] = c
      /\ \A p \in DOMAIN pages \ {P} : pages'[p] = pages[p]
  BY <1>1, <1>2
<1>5. Inner(pages'[P])
  BY <1>2, <1>3, <1>4 DEF Inner
<1> QED BY <1>2, <1>4, <1>5 DEF LinksKept, LeafPages

\* splitInner divides an inner page.
LEMMA SplitInnerChain ==
  ASSUME TreeInv, SplitInner, NEW R, InOrder(pages, call, R), Chained(pages, R)
  PROVE  ChainKept(pages, R, pages', CutHere(R)) /\ SplitChained(pages', call')
<1> DEFINE P   == Parent
           pg  == pages[P]
           r   == NextPageNum
           lft == LeftInner
           rgt == RightInner
           qs  == pages'
           c   == call'
           Q   == CutHere(R)
<1>1. /\ Climbing /\ call.parents # <<>> /\ r <= MaxPage /\ Nodes(pages)
      /\ qs = [q \in 0 .. r |-> IF q = P THEN lft ELSE IF q = r THEN rgt ELSE pages[q]]
      /\ c.left = P /\ c.right = r
  BY DEF SplitInner, NeedsInnerSplit, TreeInv
<1>2. P \in DOMAIN pages /\ Inner(pg) /\ pg \in Page
  BY <1>1, ParentIs DEF Inner, PageOK
<1>3. r \notin DOMAIN pages /\ 0 .. r = DOMAIN pages \cup {r}
  BY <1>1, NextPageIs
<1>4. rgt.level = pg.level
  BY DEF RightInner, NewPage
<1>5. lft.level = pg.level
  BY <1>2 DEF LeftInner, InsertIntoInner, Page
<1>6. DOMAIN R = DOMAIN pages
  BY DEF InOrder, RangesOf
<1> HIDE DEF P, r, lft, rgt, qs, c
<1>7. /\ DOMAIN qs = DOMAIN pages \cup {r} /\ qs[P] = lft /\ qs[r] = rgt
      /\ \A p \in DOMAIN pages \ {P} : qs[p] = pages[p]
  BY <1>1, <1>2, <1>3
<1>8. Inner(qs[P]) /\ Inner(qs[r])
  BY <1>2, <1>4, <1>5, <1>7 DEF Inner
<1>9. LeafPages(qs) = LeafPages(pages)
  BY <1>2, <1>3, <1>7, <1>8 DEF LeafPages
<1>10. \A p \in LeafPages(pages) : p \in DOMAIN pages \ {P} /\ qs[p] = pages[p]
  BY <1>2, <1>7 DEF LeafPages
<1>11. LinksKept(pages, qs)
  BY <1>9, <1>10 DEF LinksKept
<1>12. \A p \in LeafPages(pages) : Q[p] = R[p]
  BY <1>1, <1>3, <1>6, <1>10 DEF CutHere, Cut, c
<1> HIDE DEF Q
<1>13. ChainKept(pages, R, qs, Q)
  BY <1>11, <1>12, ChainSame
<1>14. SplitChained(qs, c)
  BY <1>1, <1>8 DEF SplitChained, LeafPages
<1> QED BY <1>13, <1>14 DEF qs, c, Q

\* promoteRoot: the copy of a root that was a leaf takes its place in the chain.
LEMMA PromoteRootChain ==
  ASSUME TreeInv, TreeInv', PromoteRoot, NEW R, InOrder(pages, call, R), Chained(pages, R),
         SplitChained(pages, call)
  PROVE  /\ ChainKept(pages, R, pages', Raised(R, NextPageNum))
         /\ SplitChained(pages', call')
<1> DEFINE pg  == pages[root_]
           r   == NextPageNum
           x   == call.right
           new == PromotedRoot(r)
           cp  == RootCopy
           qs  == pages'
           Q   == Raised(R, r)
<1>1. /\ Climbing /\ call.parents = <<>> /\ r <= MaxPage /\ call' = NoCall
      /\ Nodes(pages) /\ Nodes(qs) /\ call.active
      /\ qs = [p \in 0 .. r |->
                 IF p = root_ THEN new
                 ELSE IF p = r THEN cp
                 ELSE IF p = x /\ pages[p].level = 0 THEN Relinked(p, r)
                 ELSE pages[p]]
  BY DEF PromoteRoot, TreeInv, Climbing
<1>2. /\ r \in PageNum /\ r \notin DOMAIN pages /\ 0 .. r = DOMAIN pages \cup {r}
      /\ DOMAIN pages \subseteq PageNum /\ root_ \in DOMAIN pages /\ r # root_
  BY <1>1, NextPageIs
<1>3. /\ call.left = root_ /\ call.key \in Keys /\ x \in DOMAIN pages \ {root_}
      /\ pages[x].level = pg.level /\ pg.level # INVALID_TREE_LEVEL
      /\ Len(Cells(LiveKeys(pg))) <= Len(pg.area)
  <2>1. call.left = root_ /\ CallOK(pages, call)
    BY <1>1 DEF TreeInv, CallOK, IsWayTo
  <2> QED BY <1>1, <2>1 DEF CallOK
<1>4. PageOK(pg) /\ pg \in Page
  BY <1>1, <1>2 DEF Nodes, NodeOK, PageOK
<1>5. pg.level \in Nat /\ pg.room <= Usable /\ r \in PageLink /\ x \in PageLink
  <2>1. pg.room \in {ZeroUsable, Usable}
    BY <1>4 DEF Page
  <2>2. pg.room <= Usable
    BY <2>1, SlotsAssumption
  <2> QED BY <1>2, <1>3, <1>4, <2>2, PageFields DEF PageLink
<1>6. cp.level = pg.level /\ cp.next = pg.next
  BY <1>3, <1>4, <1>5, RootCopyIs
<1>7. cp.prev = INVALID_PAGE
  BY DEF RootCopy, FillLeaf, NewPage
<1>8. new.level = pg.level + 1 /\ new.seps # <<>>
  BY <1>3, <1>5, PromotedRootIs
<1>9. DOMAIN R = DOMAIN pages
  BY DEF InOrder, RangesOf
<1> HIDE DEF new, cp, r, qs
<1>10. /\ DOMAIN qs = DOMAIN pages \cup {r} /\ qs[root_] = new /\ qs[r] = cp
       /\ \A p \in DOMAIN pages \ {root_} :
            qs[p] = IF p = x /\ pages[p].level = 0 THEN Relinked(p, r) ELSE pages[p]
  BY <1>1, <1>2
<1>11. Inner(qs[root_])
  <2>1. NodeOK(qs, root_)
    BY <1>1, <1>2, <1>10 DEF Nodes
  <2> QED BY <1>5, <1>8, <1>10, <2>1 DEF NodeOK, Inner
<1>12. \A p \in DOMAIN pages \ {root_} :
         (Inner(qs[p]) <=> Inner(pages[p])) /\ qs[p].next = pages[p].next
  BY <1>1, <1>10, RelinkedLinks
<1>13. Inner(qs[r]) <=> Inner(pg)
  BY <1>6, <1>10 DEF Inner
<1>14. /\ Q[r] = R[root_]
       /\ \A p \in DOMAIN pages \ {root_} : Q[p] = R[p]
  BY <1>2, <1>9 DEF Raised
<1> HIDE DEF Q
<1>15. ASSUME Inner(pg) PROVE ChainKept(pages, R, qs, Q)
  <2>1. LeafPages(qs) = LeafPages(pages)
    BY <1>2, <1>10, <1>11, <1>12, <1>13, <1>15 DEF LeafPages
  <2>2. \A p \in LeafPages(pages) : p \in DOMAIN pages \ {root_} /\ qs[p] = pages[p]
    BY <1>3, <1>10, <1>15 DEF LeafPages, Inner
  <2>3. LinksKept(pages, qs) /\ \A p \in LeafPages(pages) : Q[p] = R[p]
    BY <1>14, <2>1, <2>2 DEF LinksKept
  <2> QED BY <2>3, ChainSame
<1>16. ASSUME ~Inner(pg) PROVE ChainKept(pages, R, qs, Q)
  <2>1. root_ \in LeafPages(pages) /\ pg.level = 0 /\ pages[x].level = 0
    BY <1>2, <1>3, <1>16 DEF LeafPages, Inner
  <2>2. pg.next = x
    BY <1>1, <1>3, <2>1 DEF SplitChained
  <2>3. LeafPages(qs) = (LeafPages(pages) \ {root_}) \cup {r}
    BY <1>2, <1>10, <1>11, <1>12, <1>13, <1>16 DEF LeafPages
  <2>4. ASSUME NEW p \in LeafPages(pages) \ {root_}
        PROVE  /\ qs[p].next = pages[p].next /\ Q[p] = R[p]
               /\ qs[p].prev = IF p = pg.next THEN r ELSE pages[p].prev
    <3>1. p \in DOMAIN pages \ {root_}
      BY DEF LeafPages
    <3>2. CASE p = x
      <4>1. qs[p] = Relinked(p, r)
        BY <1>10, <2>1, <3>1, <3>2
      <4>2. qs[p].next = pages[p].next /\ qs[p].prev = r
        <5>1. Nodes(pages) /\ p \in DOMAIN pages
          BY <1>1, <3>1
        <5>2. Relinked(p, r).next = pages[p].next /\ Relinked(p, r).prev = r
          BY <5>1, RelinkedLinks
        <5> QED BY <4>1, <5>2
      <4> QED BY <1>14, <2>2, <3>1, <3>2, <4>2
    <3>3. CASE p # x
      <4>1. qs[p] = pages[p]
        BY <1>10, <3>1, <3>3
      <4> QED BY <1>14, <2>2, <3>1, <3>3, <4>1
    <3> QED BY <3>2, <3>3
  <2>5. /\ r \notin LeafPages(pages) \cup {root_, INVALID_PAGE}
        /\ INVALID_PAGE \notin LeafPages(pages)
    BY <1>2, LinkIsPage DEF LeafPages
  <2>7. \A p \in LeafPages(pages) \ {root_} : AllBelow(R[root_], R[p])
    BY <1>1, <2>1, RootLeafFirst, FirstLowest
  <2>6. RootMoved(pages, R, qs, Q, r)
    BY <1>6, <1>7, <1>10, <1>14, <2>1, <2>3, <2>4, <2>5, <2>7 DEF RootMoved
  <2> QED BY <2>6, ChainMoved
<1>17. SplitChained(qs, NoCall)
  BY DEF SplitChained, NoCall
<1> QED BY <1>1, <1>15, <1>16, <1>17 DEF qs, Q, r

\* The invariant: the tree is in order, and so are its leaves along next; prev leads
\* back.
ChainIn(ps, c, R) == InOrder(ps, c, R) /\ Chained(ps, R) /\ SplitChained(ps, c)

NextInv  == TreeInv /\ \E R : ChainIn(pages, call, R)
ChainInv == TreeInv /\ Backed(pages) /\ \E R : ChainIn(pages, call, R)

LEMMA ChainInit == TreeInit => ChainInv
<1> SUFFICES ASSUME TreeInit PROVE ChainInv
  OBVIOUS
<1>1. OrderInv
  BY OrderInit
<1>2. PICK R : InOrder(pages, call, R)
  BY <1>1 DEF OrderInv
<1>3. /\ DOMAIN pages = {root_} /\ call = NoCall
      /\ pages[root_].next = INVALID_PAGE /\ pages[root_].prev = INVALID_PAGE
  BY DEF TreeInit, NewRoot, NewPage
<1>4. \A p \in LeafPages(pages) : p = root_
  BY <1>3 DEF LeafPages
<1>5. Chained(pages, R) /\ Backed(pages) /\ SplitChained(pages, call)
  BY <1>3, <1>4 DEF Chained, Backed, SplitChained, NoCall
<1> QED BY <1>1, <1>2, <1>5 DEF ChainInv, ChainIn, OrderInv

\* Every step keeps the order and the chain.
LEMMA StepChainIn ==
  ASSUME Orderly, TreeInv, NEW R, ChainIn(pages, call, R), [TreeNext]_treeVars, TreeInv'
  PROVE  \E Q : ChainIn(pages', call', Q) /\ ChainKept(pages, R, pages', Q)
<1> DEFINE Kept == \E Q : ChainIn(pages', call', Q) /\ ChainKept(pages, R, pages', Q)
<1>1. TreeInv
  OBVIOUS
<1>3. InOrder(pages, call, R) /\ Chained(pages, R) /\ SplitChained(pages, call)
  BY DEF ChainIn
<1>4. SUFFICES Kept
  OBVIOUS
<1>5. ASSUME pages' = pages, call' = call PROVE Kept
  <2>1. LinksKept(pages, pages')
    BY <1>5 DEF LinksKept
  <2>2. ChainKept(pages, R, pages', R)
    BY <1>3, <2>1, ChainSame
  <2> QED BY <1>5, <2>2
<1>6. ASSUME LinksKept(pages, pages'), ~call'.active, InOrder(pages', call', R)
      PROVE  Kept
  <2>1. ChainKept(pages, R, pages', R)
    BY <1>3, <1>6, ChainSame
  <2>2. SplitChained(pages', call')
    BY <1>6 DEF SplitChained
  <2>3. ChainIn(pages', call', R)
    BY <1>6, <2>1, <2>2 DEF ChainIn, ChainKept
  <2> QED BY <2>1, <2>3
<1> HIDE DEF Kept
<1>7. CASE UNCHANGED treeVars
  BY <1>5, <1>7 DEF treeVars
<1>8. ASSUME NEW k \in Keys, Insertion(k) PROVE Kept
  <2> DEFINE at == Search(k)
  <2>1. Ready /\ ~Present(k)
    BY <1>8 DEF Insertion, MayInsert
  <2>2. \/ InsertKey(k, at) \/ InsertThrows(k, at) \/ InsertAborts(k, at)
        \/ SplitLeaf(k, at) \/ SplitLeafDies(k, at) \/ SplitLeafFails(k, at)
    BY <1>8 DEF Insertion
  <2>3. CASE InsertKey(k, at)
    <3>1. InOrder(pages', call', R) /\ LinksKept(pages, pages')
      BY <1>1, <1>3, <2>1, <2>3, InsertKeyOrder, InsertKeyLinks
    <3>2. ~call'.active
      BY <2>1, <2>3 DEF InsertKey, Ready
    <3> QED BY <1>6, <3>1, <3>2
  <2>4. CASE InsertThrows(k, at)
    BY <1>5, <2>4 DEF InsertThrows
  <2>5. CASE InsertAborts(k, at)
    BY <1>5, <2>5 DEF InsertAborts
  <2>6. CASE SplitLeaf(k, at)
    <3>1. /\ InOrder(pages', call', CutHere(R)) /\ SplitChained(pages', call')
          /\ ChainKept(pages, R, pages', CutHere(R))
      BY <1>1, <1>3, <2>1, <2>6, SplitLeafOrder, SplitLeafChain
    <3>2. ChainIn(pages', call', CutHere(R))
      BY <3>1 DEF ChainIn, ChainKept
    <3> QED BY <3>1, <3>2 DEF Kept
  <2>7. CASE SplitLeafDies(k, at)
    BY <1>5, <2>7 DEF SplitLeafDies
  <2>8. ~SplitLeafFails(k, at)
    BY DEF SplitLeafFails, Orderly
  <2> QED BY <2>2, <2>3, <2>4, <2>5, <2>6, <2>7, <2>8
<1>9. ASSUME NEW k \in Keys, Removal(k) PROVE Kept
  <2> DEFINE at == Search(k)
  <2>1. Ready /\ MayRemove(k)
    BY <1>9 DEF Removal, MayRemove
  <2>2. RemoveKey(k, at) \/ RemoveNothing(k, at) \/ RemoveThrows(k, at)
    BY <1>9 DEF Removal
  <2>3. CASE RemoveThrows(k, at)
    BY <1>5, <2>3 DEF RemoveThrows
  <2>4. ASSUME RemoveKey(k, at) \/ RemoveNothing(k, at) PROVE Kept
    <3>1. InOrder(pages', call', R)
      BY <1>1, <1>3, <2>1, <2>4, RemoveKeyOrder, RemoveNothingOrder
    <3>2. LinksKept(pages, pages')
      BY <1>1, <1>9, RemovalLinks
    <3>3. ~call'.active
      BY <2>1, <2>4 DEF RemoveKey, RemoveNothing, Ready
    <3> QED BY <1>6, <3>1, <3>2, <3>3
  <2> QED BY <2>2, <2>3, <2>4
<1>10. CASE InsertStep
  <2>1. CASE InsertSeparator
    <3>1. InOrder(pages', call', R) /\ LinksKept(pages, pages')
      BY <1>1, <1>3, <2>1, InsertSeparatorOrder, InsertSeparatorLinks
    <3>2. ~call'.active
      BY <2>1 DEF InsertSeparator, NoCall
    <3> QED BY <1>6, <3>1, <3>2
  <2>2. CASE SplitInner
    <3>1. /\ InOrder(pages', call', CutHere(R)) /\ SplitChained(pages', call')
          /\ ChainKept(pages, R, pages', CutHere(R))
      BY <1>1, <1>3, <2>2, SplitInnerOrder, SplitInnerChain
    <3>2. ChainIn(pages', call', CutHere(R))
      BY <3>1 DEF ChainIn, ChainKept
    <3> QED BY <3>1, <3>2 DEF Kept
  <2>3. CASE SplitInnerAborts
    BY <1>5, <2>3 DEF SplitInnerAborts
  <2>4. CASE PromoteRoot
    <3> DEFINE Q == Raised(R, NextPageNum)
    <3>1. /\ InOrder(pages', call', Q) /\ SplitChained(pages', call')
          /\ ChainKept(pages, R, pages', Q)
      BY <1>1, <1>3, <2>4, PromoteRootOrder, PromoteRootChain
    <3>2. ChainIn(pages', call', Q)
      BY <3>1 DEF ChainIn, ChainKept
    <3> QED BY <3>1, <3>2 DEF Kept
  <2>5. ~ClimbFails
    BY DEF ClimbFails, Orderly
  <2> QED BY <1>10, <2>1, <2>2, <2>3, <2>4, <2>5 DEF InsertStep
<1>11. CASE SearchFails
  BY <1>11 DEF SearchFails, Orderly
<1> QED BY <1>7, <1>8, <1>9, <1>10, <1>11 DEF TreeNext

LEMMA StepChain ==
  ASSUME Orderly, ChainInv, [TreeNext]_treeVars, TreeInv'
  PROVE  ChainInv'
<1>1. PICK R : ChainIn(pages, call, R)
  BY DEF ChainInv
<1>2. TreeInv /\ Backed(pages)
  BY DEF ChainInv
<1>3. PICK Q : ChainIn(pages', call', Q) /\ ChainKept(pages, R, pages', Q)
  BY <1>1, <1>2, StepChainIn
<1>4. Backed(pages')
  BY <1>2, <1>3 DEF ChainKept
<1> QED BY <1>3, <1>4 DEF ChainInv

-----------------------------------------------------------------------------
(* Along the chain. *)

\* Where next leads to, from a leaf and from an inner page, whose last child it is.
LEMMA NextIs ==
  ASSUME TreeInv, NEW R, Chained(pages, R), NEW p \in DOMAIN pages
  PROVE  pages[p].next \in DOMAIN pages \cup {INVALID_PAGE}
<1>1. Nodes(pages)
  BY DEF TreeInv
<1>2. CASE Inner(pages[p])
  <2> DEFINE m == SepCount(pages[p])
  <2>1. m \in Nat /\ Below(pages, p, ChildOf(pages[p], m))
    BY <1>1, <1>2, InnerIs
  <2>2. ChildOf(pages[p], m) = pages[p].next
    BY <2>1 DEF ChildOf
  <2> QED BY <2>1, <2>2 DEF Below
<1>3. CASE ~Inner(pages[p])
  BY <1>3 DEF Chained, LeafPages
<1> QED BY <1>2, <1>3

\* What Along reads.
AlongFrom(h) ==
  CHOOSE f : f = [at \in Stops |->
                    IF at[1] = INVALID_PAGE \/ at[2] = 0 THEN <<>>
                    ELSE h[at[1]] \o f[<<pages[at[1]].next, at[2] - 1>>]]

\* The recursive function of Along exists: it goes no further than MaxPage + 1 leaves.
LEMMA AlongExists ==
  ASSUME NEW h, \A p \in DOMAIN pages : pages[p].next \in DOMAIN pages \cup {INVALID_PAGE}
  PROVE  AlongFrom(h) = [at \in Stops |->
                           IF at[1] = INVALID_PAGE \/ at[2] = 0 THEN <<>>
                           ELSE h[at[1]] \o AlongFrom(h)[<<pages[at[1]].next, at[2] - 1>>]]
<1> DEFINE stop(at) == at[1] = INVALID_PAGE \/ at[2] = 0
           down(at) == <<pages[at[1]].next, at[2] - 1>>
           here(at) == h[at[1]]
           E(m) == {at \in Stops : at[2] <= m}
           Is(f, m) == f = [at \in E(m) |-> IF stop(at) THEN <<>> ELSE here(at) \o f[down(at)]]
           S == {m \in Nat : \E f : Is(f, m)}
           top == MaxPage + 1
<1>1. MaxPage \in Nat /\ top \in Nat
  BY TreeAssumption
<1>2. ASSUME NEW at \in Stops
      PROVE  /\ at[2] \in Nat /\ at[2] <= top
             /\ ~stop(at) => down(at) \in Stops /\ down(at)[2] + 1 = at[2]
  BY <1>1 DEF Stops
<1> HIDE DEF down, here, stop, top
<1>3. 0 \in S
  <2> DEFINE f == [at \in E(0) |-> <<>>]
  <2>1. \A at \in E(0) : stop(at)
    BY <1>2 DEF stop
  <2> HIDE DEF E
  <2>2. Is(f, 0)
    BY <2>1
  <2> QED BY <2>2
<1>4. ASSUME NEW m \in S PROVE m + 1 \in S
  <2>1. PICK f : Is(f, m)
    OBVIOUS
  <2> DEFINE g == [at \in E(m + 1) |-> IF stop(at) THEN <<>> ELSE here(at) \o f[down(at)]]
  <2>2. ASSUME NEW at \in E(m + 1), ~stop(at) PROVE g[down(at)] = f[down(at)]
    <3>1. down(at) \in E(m) /\ down(at) \in E(m + 1)
      BY <1>2, <2>2
    <3> HIDE DEF E
    <3> QED BY <2>1, <3>1
  <2>3. Is(g, m + 1)
    <3>1. g = [at \in E(m + 1) |-> IF stop(at) THEN <<>> ELSE here(at) \o f[down(at)]]
      OBVIOUS
    <3> HIDE DEF g, E
    <3> QED BY <2>2, <3>1
  <2> HIDE DEF Is
  <2> QED BY <2>3
<1> HIDE DEF S
<1>5. S = Nat
  <2>1. S \in SUBSET Nat
    BY DEF S
  <2> QED BY <1>3, <1>4, <2>1, NatInductive
<1>6. PICK f : Is(f, top)
  BY <1>1, <1>5 DEF S
<1>7. E(top) = Stops
  BY <1>2
<1> HIDE DEF E
<1>8. f = [at \in Stops |->
             IF at[1] = INVALID_PAGE \/ at[2] = 0 THEN <<>>
             ELSE h[at[1]] \o f[<<pages[at[1]].next, at[2] - 1>>]]
  BY <1>6, <1>7, Zenon DEF stop, down, here
<1> QED BY <1>8, Zenon DEF AlongFrom

\* Along from a leaf, one step after the other.
LEMMA AlongIs ==
  ASSUME TreeInv, NEW R, Chained(pages, R), NEW h
  PROVE  /\ Along(h) = AlongFrom(h)[<<FirstLeaf, MaxPage + 1>>]
         /\ \A n \in 0 .. MaxPage + 1 : AlongFrom(h)[<<INVALID_PAGE, n>>] = <<>>
         /\ \A p \in DOMAIN pages : AlongFrom(h)[<<p, 0>>] = <<>>
         /\ \A p \in DOMAIN pages : \A n \in 0 .. MaxPage :
              AlongFrom(h)[<<p, n + 1>>] = h[p] \o AlongFrom(h)[<<pages[p].next, n>>]
<1> DEFINE f == AlongFrom(h)
<1>1. f = [at \in Stops |->
             IF at[1] = INVALID_PAGE \/ at[2] = 0 THEN <<>>
             ELSE h[at[1]] \o f[<<pages[at[1]].next, at[2] - 1>>]]
  BY NextIs, AlongExists
<1>2. Along(h) = f[<<FirstLeaf, MaxPage + 1>>]
  BY Zenon DEF Along, AlongFrom
<1>3. MaxPage \in Nat
  BY TreeAssumption
<1>4. \A p \in DOMAIN pages : p # INVALID_PAGE
  BY LinkIsPage, DomainIs DEF TreeInv, Nodes
<1> HIDE DEF f
<1>5. ASSUME NEW n \in 0 .. MaxPage + 1 PROVE f[<<INVALID_PAGE, n>>] = <<>>
  <2>1. <<INVALID_PAGE, n>> \in Stops
    BY DEF Stops
  <2> QED BY <1>1, <2>1
<1>6. ASSUME NEW p \in DOMAIN pages PROVE f[<<p, 0>>] = <<>>
  <2>1. <<p, 0>> \in Stops
    BY <1>3 DEF Stops
  <2> QED BY <1>1, <2>1
<1>7. ASSUME NEW p \in DOMAIN pages, NEW n \in 0 .. MaxPage
      PROVE  f[<<p, n + 1>>] = h[p] \o f[<<pages[p].next, n>>]
  <2> DEFINE at == <<p, n + 1>>
  <2>1. at \in Stops /\ at[1] = p /\ at[2] = n + 1 /\ at[2] # 0 /\ at[2] - 1 = n
    BY <1>3 DEF Stops
  <2> HIDE DEF at
  <2>2. f[at] = h[at[1]] \o f[<<pages[at[1]].next, at[2] - 1>>]
    BY <1>1, <1>4, <2>1
  <2> QED BY <2>1, <2>2 DEF at
<1> QED BY <1>2, <1>5, <1>6, <1>7 DEF f

\* s goes from leaf p along the chain, to higher and higher keys.
Walk(R, p, s) ==
  /\ s \in Seq(LeafPages(pages)) /\ Len(s) >= 1 /\ s[1] = p
  /\ \A i \in 1 .. Len(s) - 1 : pages[s[i]].next = s[i + 1]
  /\ \A i, j \in 1 .. Len(s) : i < j => s[j] # root_ /\ AllBelow(R[s[i]], R[s[j]])

\* A leaf is a walk, and one more before a walk.
LEMMA WalkAlone ==
  ASSUME NEW R, NEW p \in LeafPages(pages)
  PROVE  Walk(R, p, <<p>>)
<1> DEFINE s == <<p>>
<1>1. s \in Seq(LeafPages(pages)) /\ Len(s) = 1 /\ s[1] = p
  OBVIOUS
<1> HIDE DEF s
<1>2. Walk(R, p, s)
  BY <1>1 DEF Walk
<1> QED BY <1>2 DEF s

LEMMA WalkLonger ==
  ASSUME NEW R, FullRanges(pages, R), Chained(pages, R), NEW p \in LeafPages(pages),
         pages[p].next # INVALID_PAGE, NEW t, Walk(R, pages[p].next, t)
  PROVE  Walk(R, p, <<p>> \o t)
<1> DEFINE L == LeafPages(pages)
           q == pages[p].next
           s == <<p>> \o t
<1>1. q \in L /\ q # root_ /\ AllBelow(R[p], R[q])
  BY DEF Chained
<1>2. /\ t \in Seq(L) /\ Len(t) \in Nat /\ Len(t) >= 1 /\ t[1] = q
      /\ \A i \in 1 .. Len(t) - 1 : pages[t[i]].next = t[i + 1]
      /\ \A i, j \in 1 .. Len(t) : i < j => t[j] # root_ /\ AllBelow(R[t[i]], R[t[j]])
  BY DEF Walk
<1>3. \A l \in L : /\ R[l] \in SUBSET Keys
                   /\ l # root_ => R[l] # {}
  BY DEF FullRanges, LeafPages
<1>4. /\ s \in Seq(L) /\ Len(s) = Len(t) + 1 /\ s[1] = p
      /\ \A i \in 2 .. Len(s) : i - 1 \in 1 .. Len(t) /\ s[i] = t[i - 1]
      /\ s[2] = q
  BY <1>2
<1> HIDE DEF s, q
<1>5. ASSUME NEW j \in 2 .. Len(s) PROVE s[j] # root_ /\ AllBelow(R[p], R[s[j]])
  <2>1. CASE j = 2
    BY <1>1, <1>4, <2>1
  <2>2. CASE j # 2
    <3> DEFINE b == j - 1
    <3>1. b \in 1 .. Len(t) /\ 1 < b /\ s[j] = t[b] /\ 1 \in 1 .. Len(t) /\ t[b] \in L
      BY <1>2, <1>4, <2>2
    <3> HIDE DEF b
    <3>2. s[j] # root_ /\ AllBelow(R[q], R[s[j]])
      BY <1>2, <3>1
    <3>3. R[p] \in SUBSET Keys /\ R[q] \in SUBSET Keys /\ R[s[j]] \in SUBSET Keys /\ R[q] # {}
      BY <1>1, <1>3, <3>1
    <3> QED BY <1>1, <3>2, <3>3, LowerTwice
  <2> QED BY <2>1, <2>2
<1>6. ASSUME NEW i \in 1 .. Len(s), NEW j \in 1 .. Len(s), i < j
      PROVE  s[j] # root_ /\ AllBelow(R[s[i]], R[s[j]])
  <2>1. CASE i = 1
    BY <1>2, <1>4, <1>5, <1>6, <2>1
  <2>2. CASE i # 1
    <3> DEFINE a == i - 1
               b == j - 1
    <3>1. a \in 1 .. Len(t) /\ b \in 1 .. Len(t) /\ a < b /\ s[i] = t[a] /\ s[j] = t[b]
      BY <1>2, <1>4, <1>6, <2>2
    <3> HIDE DEF a, b
    <3> QED BY <1>2, <3>1
  <2> QED BY <2>1, <2>2
<1>7. ASSUME NEW i \in 1 .. Len(s) - 1 PROVE pages[s[i]].next = s[i + 1]
  <2>1. CASE i = 1
    <3>1. s[i] = p /\ s[i + 1] = q
      BY <1>4, <2>1
    <3> QED BY <3>1 DEF q
  <2>2. CASE i # 1
    <3> DEFINE a == i - 1
    <3>1. a \in 1 .. Len(t) - 1 /\ s[i] = t[a] /\ s[i + 1] = t[a + 1]
      BY <1>2, <1>4, <2>2
    <3> HIDE DEF a
    <3> QED BY <1>2, <3>1
  <2> QED BY <2>1, <2>2
<1>8. Len(s) >= 1
  BY <1>2, <1>4
<1>9. Walk(R, p, s)
  BY <1>4, <1>6, <1>7, <1>8 DEF Walk
<1> QED BY <1>9 DEF s

\* The leaves of Chain, from leaf p on.
ChainFrom == AlongFrom([p \in DOMAIN pages |-> <<p>>])

LEMMA ChainFromIs ==
  ASSUME TreeInv, NEW R, Chained(pages, R)
  PROVE  /\ Chain = ChainFrom[<<FirstLeaf, MaxPage + 1>>]
         /\ \A n \in 0 .. MaxPage + 1 : ChainFrom[<<INVALID_PAGE, n>>] = <<>>
         /\ \A p \in DOMAIN pages : ChainFrom[<<p, 0>>] = <<>>
         /\ \A p \in DOMAIN pages : \A n \in 0 .. MaxPage :
              ChainFrom[<<p, n + 1>>] = <<p>> \o ChainFrom[<<pages[p].next, n>>]
<1> DEFINE h == [p \in DOMAIN pages |-> <<p>>]
<1>1. \A p \in DOMAIN pages : h[p] = <<p>>
  OBVIOUS
<1>2. Chain = Along(h) /\ ChainFrom = AlongFrom(h)
  BY DEF Chain, ChainFrom
<1> HIDE DEF h
<1> QED BY <1>1, <1>2, AlongIs

\* They are a walk.
LEMMA ChainWalks ==
  ASSUME TreeInv, NEW R, InOrder(pages, call, R), Chained(pages, R)
  PROVE  \A n \in 0 .. MaxPage : \A p \in LeafPages(pages) : Walk(R, p, ChainFrom[<<p, n + 1>>])
<1> DEFINE L == LeafPages(pages)
           S == {n \in Nat : n <= MaxPage => \A p \in L : Walk(R, p, ChainFrom[<<p, n + 1>>])}
<1>1. MaxPage \in Nat /\ L \subseteq DOMAIN pages
  BY TreeAssumption DEF LeafPages
<1>2. FullRanges(pages, R)
  BY FullRangesIs
<1>3. ASSUME NEW n \in 0 .. MaxPage, NEW p \in L,
             pages[p].next # INVALID_PAGE => Walk(R, pages[p].next, ChainFrom[<<pages[p].next, n>>])
                                             \/ ChainFrom[<<pages[p].next, n>>] = <<>>
      PROVE  Walk(R, p, ChainFrom[<<p, n + 1>>])
  <2> DEFINE t == ChainFrom[<<pages[p].next, n>>]
  <2>1. ChainFrom[<<p, n + 1>>] = <<p>> \o t
    BY <1>1, ChainFromIs
  <2>2. pages[p].next = INVALID_PAGE => t = <<>>
    BY <1>1, ChainFromIs
  <2> HIDE DEF t
  <2>3. CASE t = <<>>
    <3>1. <<p>> \o t = <<p>>
      BY <2>3
    <3> QED BY <2>1, <3>1, WalkAlone
  <2>4. CASE t # <<>>
    <3>1. Walk(R, pages[p].next, t) /\ pages[p].next # INVALID_PAGE
      BY <1>3, <2>2, <2>4 DEF t
    <3> QED BY <1>2, <2>1, <3>1, WalkLonger
  <2> QED BY <2>3, <2>4
<1>4. \A p \in L : pages[p].next # INVALID_PAGE => pages[p].next \in L
  BY DEF Chained
<1>5. 0 \in S
  <2> SUFFICES ASSUME NEW p \in L PROVE Walk(R, p, ChainFrom[<<p, 0 + 1>>])
    OBVIOUS
  <2>1. pages[p].next # INVALID_PAGE => ChainFrom[<<pages[p].next, 0>>] = <<>>
    BY <1>1, <1>4, ChainFromIs
  <2>2. 0 \in 0 .. MaxPage
    BY <1>1
  <2> QED BY <1>3, <2>1, <2>2
<1>6. ASSUME NEW n \in S PROVE n + 1 \in S
  <2> DEFINE m == n + 1
  <2> SUFFICES ASSUME m <= MaxPage, NEW p \in L PROVE Walk(R, p, ChainFrom[<<p, m + 1>>])
    OBVIOUS
  <2>1. m \in 0 .. MaxPage /\ n <= MaxPage
    BY <1>1
  <2>2. pages[p].next # INVALID_PAGE => Walk(R, pages[p].next, ChainFrom[<<pages[p].next, n + 1>>])
    BY <1>4, <2>1
  <2> HIDE DEF S
  <2> QED BY <1>3, <2>1, <2>2
<1>7. S = Nat
  <2>1. S \in SUBSET Nat
    OBVIOUS
  <2> HIDE DEF S
  <2> QED BY <1>5, <1>6, <2>1, NatInductive
<1> HIDE DEF S
<1>8. ASSUME NEW n \in 0 .. MaxPage PROVE \A p \in L : Walk(R, p, ChainFrom[<<p, n + 1>>])
  <2>1. n \in Nat /\ n <= MaxPage
    BY <1>1
  <2>2. n \in S
    BY <1>7, <2>1
  <2> QED BY <2>1, <2>2 DEF S
<1> QED BY <1>8, Zenon

\* The chain begins at the first leaf.
LEMMA ChainIs ==
  ASSUME TreeInv, NEW R, InOrder(pages, call, R), Chained(pages, R)
  PROVE  Walk(R, FirstLeaf, Chain)
<1>1. MaxPage \in 0 .. MaxPage
  BY TreeAssumption
<1>2. FirstLeaf \in LeafPages(pages)
  BY FirstIs
<1>3. Walk(R, FirstLeaf, ChainFrom[<<FirstLeaf, MaxPage + 1>>])
  BY <1>1, <1>2, ChainWalks
<1> QED BY <1>3, ChainFromIs

\* The leaves are linked both ways.
LEMMA InvImpliesLinked == ChainInv => ChainLinked
<1> SUFFICES ASSUME ChainInv PROVE ChainLinked
  OBVIOUS
<1>1. TreeInv
  BY DEF ChainInv
<1>2. PICK R : InOrder(pages, call, R) /\ Chained(pages, R)
  BY DEF ChainInv, ChainIn
<1> DEFINE L == LeafPages(pages)
           s == Chain
<1>3. /\ s \in Seq(L) /\ Len(s) \in Nat /\ DOMAIN s = 1 .. Len(s) /\ s[1] = FirstLeaf
      /\ \A i \in 1 .. Len(s) - 1 : pages[s[i]].next = s[i + 1]
      /\ \A i, j \in 1 .. Len(s) : i < j => s[j] # root_ /\ AllBelow(R[s[i]], R[s[j]])
  BY <1>1, <1>2, ChainIs DEF Walk
<1>4. FullRanges(pages, R)
  BY <1>1, <1>2, FullRangesIs
<1>5. \A l \in L : R[l] \subseteq Keys /\ (l # root_ => R[l] # {})
  BY <1>4 DEF FullRanges, LeafPages
<1> HIDE DEF s
<1>6. ASSUME NEW i \in DOMAIN s, NEW j \in DOMAIN s, i < j PROVE s[i] # s[j]
  <2>1. s[j] # root_ /\ AllBelow(R[s[i]], R[s[j]]) /\ s[j] \in L
    BY <1>3, <1>6
  <2>2. PICK x \in R[s[j]] : x \in Keys
    BY <1>5, <2>1
  <2>3. x \in Int
    BY <2>2, SlotsAssumption
  <2>4. ~(x < x)
    BY <2>3
  <2> QED BY <2>1, <2>2, <2>4 DEF AllBelow
<1>7. IsInjective(s)
  <2>1. \A i, j \in DOMAIN s : i < j \/ j < i \/ i = j
    BY <1>3
  <2> QED BY <1>6, <2>1 DEF IsInjective
<1>9. Backed(pages)
  BY DEF ChainInv
<1>8. ASSUME NEW n \in DOMAIN s
      PROVE  /\ pages[s[n]].prev = IF n = 1 THEN INVALID_PAGE ELSE s[n - 1]
             /\ pages[s[n]].level \in {0, INVALID_TREE_LEVEL}
  <2>1. s[n] \in L /\ pages[s[n]].level \in {0, INVALID_TREE_LEVEL}
    BY <1>3 DEF LeafPages, Inner
  <2>2. CASE n = 1
    BY <1>1, <1>2, <1>3, <1>9, <2>1, <2>2, FirstHasNoPrev
  <2>3. CASE n # 1
    <3> DEFINE m == n - 1
    <3>1. m \in 1 .. Len(s) - 1 /\ m \in 1 .. Len(s) /\ m + 1 = n
      BY <1>3, <2>3
    <3> HIDE DEF m
    <3>2. s[m] \in L /\ pages[s[m]].next = s[n]
      BY <1>3, <3>1
    <3>3. s[n] # INVALID_PAGE
      BY <1>1, <2>1, LinkIsPage, DomainIs DEF LeafPages, TreeInv, Nodes
    <3>4. pages[s[n]].prev = s[m]
      BY <1>9, <3>2, <3>3 DEF Backed
    <3> QED BY <2>1, <2>3, <3>4 DEF m
  <2> QED BY <2>2, <2>3
<1> QED BY <1>7, <1>8 DEF ChainLinked, s

-----------------------------------------------------------------------------
(* The keys along the chain. *)

\* t ascends, from keys of S to keys above them.
Rising(S, t) ==
  /\ t \in Seq(Keys) /\ Ascending(t)
  /\ \A j \in 1 .. Len(t) : t[j] \in S \/ \A x \in S : x < t[j]

LEMMA RisingLonger ==
  ASSUME NEW S \in SUBSET Keys, NEW T \in SUBSET Keys, T # {}, AllBelow(S, T),
         NEW s \in Seq(Keys), Ascending(s), \A i \in 1 .. Len(s) : s[i] \in S,
         NEW t, Rising(T, t)
  PROVE  Rising(S, s \o t)
<1> DEFINE u == s \o t
           m == Len(s)
<1>1. /\ t \in Seq(Keys) /\ m \in Nat /\ Len(t) \in Nat
      /\ \A j \in 1 .. Len(t) : t[j] \in T \/ \A x \in T : x < t[j]
      /\ \A i, j \in 1 .. Len(t) : i < j => t[i] < t[j]
  BY DEF Rising, Ascending
<1>2. /\ u \in Seq(Keys) /\ Len(u) = m + Len(t)
      /\ \A i \in 1 .. m : u[i] = s[i]
      /\ \A i \in m + 1 .. m + Len(t) : i - m \in 1 .. Len(t) /\ u[i] = t[i - m]
  BY <1>1
<1>3. Keys \subseteq Int
  BY SlotsAssumption
\* What t has is above S.
<1>4. ASSUME NEW j \in 1 .. Len(t), NEW x \in S PROVE x < t[j]
  <2>1. t[j] \in Keys
    BY <1>1
  <2>2. PICK y \in T : y <= t[j]
    <3>1. CASE t[j] \in T
      <4>1. t[j] \in Int
        BY <1>3, <2>1
      <4>2. t[j] <= t[j]
        BY <4>1
      <4> QED BY <3>1, <4>2
    <3>2. CASE \A y \in T : y < t[j]
      <4>1. PICK y \in T : y < t[j]
        BY <3>2
      <4>2. y \in Int /\ t[j] \in Int
        BY <1>3, <2>1
      <4> QED BY <4>1, <4>2
    <3> QED BY <1>1, <3>1, <3>2
  <2>3. x < y
    BY DEF AllBelow
  <2>4. x \in Int /\ y \in Int /\ t[j] \in Int
    BY <1>3, <2>1
  <2> QED BY <2>2, <2>3, <2>4
<1> HIDE DEF u, m
<1>5. ASSUME NEW i \in 1 .. Len(u), NEW j \in 1 .. Len(u), i < j PROVE u[i] < u[j]
  <2>1. CASE j <= m
    <3>1. i \in 1 .. m /\ j \in 1 .. m
      BY <1>1, <1>2, <1>5, <2>1
    <3> QED BY <1>2, <1>5, <3>1 DEF Ascending, m
  <2>2. CASE i <= m /\ j > m
    <3>1. i \in 1 .. m /\ j \in m + 1 .. m + Len(t)
      BY <1>1, <1>2, <2>2
    <3>2. u[i] \in S /\ u[j] = t[j - m] /\ j - m \in 1 .. Len(t)
      BY <1>2, <3>1 DEF m
    <3> QED BY <1>4, <3>2
  <2>3. CASE i > m
    <3>1. i \in m + 1 .. m + Len(t) /\ j \in m + 1 .. m + Len(t) /\ i - m < j - m
      BY <1>1, <1>2, <1>5, <2>3
    <3> QED BY <1>1, <1>2, <3>1
  <2> QED BY <1>1, <1>2, <2>1, <2>2, <2>3
<1>6. ASSUME NEW j \in 1 .. Len(u) PROVE u[j] \in S \/ \A x \in S : x < u[j]
  <2>1. CASE j <= m
    <3>1. j \in 1 .. m
      BY <1>1, <2>1
    <3> QED BY <1>2, <3>1 DEF m
  <2>2. CASE j > m
    <3>1. j \in m + 1 .. m + Len(t)
      BY <1>1, <1>2, <2>2
    <3> QED BY <1>2, <1>4, <3>1
  <2> QED BY <1>1, <2>1, <2>2
<1>7. Rising(S, u)
  BY <1>2, <1>5, <1>6 DEF Rising, Ascending
<1> QED BY <1>7 DEF u

\* The keys of Scan, from leaf p on.
ScanFrom == AlongFrom([p \in DOMAIN pages |-> LiveKeys(pages[p])])

LEMMA ScanFromIs ==
  ASSUME TreeInv, NEW R, Chained(pages, R)
  PROVE  /\ Scan = ScanFrom[<<FirstLeaf, MaxPage + 1>>]
         /\ \A n \in 0 .. MaxPage + 1 : ScanFrom[<<INVALID_PAGE, n>>] = <<>>
         /\ \A p \in DOMAIN pages : ScanFrom[<<p, 0>>] = <<>>
         /\ \A p \in DOMAIN pages : \A n \in 0 .. MaxPage :
              ScanFrom[<<p, n + 1>>] = LiveKeys(pages[p]) \o ScanFrom[<<pages[p].next, n>>]
<1> DEFINE h == [p \in DOMAIN pages |-> LiveKeys(pages[p])]
<1>1. \A p \in DOMAIN pages : h[p] = LiveKeys(pages[p])
  OBVIOUS
<1>2. Scan = Along(h) /\ ScanFrom = AlongFrom(h)
  BY DEF Scan, ScanFrom
<1> HIDE DEF h
<1> QED BY <1>1, <1>2, AlongIs

LEMMA ScanRises ==
  ASSUME TreeInv, NEW R, InOrder(pages, call, R), Chained(pages, R)
  PROVE  \A n \in Nat : n <= MaxPage + 1 =>
           \A p \in LeafPages(pages) : Rising(R[p], ScanFrom[<<p, n>>])
<1> DEFINE L == LeafPages(pages)
           Is(n) == n <= MaxPage + 1 => \A p \in L : Rising(R[p], ScanFrom[<<p, n>>])
           S == {n \in Nat : Is(n)}
<1>1. MaxPage \in Nat /\ L \subseteq DOMAIN pages /\ Nodes(pages)
  BY TreeAssumption DEF LeafPages, TreeInv
<1>2. \A p \in L : R[p] \in SUBSET Keys /\ (p # root_ => R[p] # {})
  BY FullRangesIs DEF FullRanges, LeafPages
<1>3. Rising({}, <<>>) /\ \A T : Rising(T, <<>>)
  <2> DEFINE t == <<>>
  <2>1. t \in Seq(Keys) /\ Len(t) = 0
    OBVIOUS
  <2> HIDE DEF t
  <2>2. \A T : Rising(T, t)
    BY <2>1 DEF Rising, Ascending
  <2> QED BY <2>2 DEF t
<1>4. 0 \in S
  BY <1>1, <1>3, ScanFromIs
<1>5. ASSUME NEW n \in S PROVE n + 1 \in S
  <2> SUFFICES ASSUME n + 1 <= MaxPage + 1, NEW p \in L
               PROVE  Rising(R[p], ScanFrom[<<p, n + 1>>])
    OBVIOUS
  <2> DEFINE s == LiveKeys(pages[p])
             q == pages[p].next
             t == ScanFrom[<<q, n>>]
  <2>1. n \in 0 .. MaxPage /\ n \in 0 .. MaxPage + 1 /\ n <= MaxPage + 1
    BY <1>1
  <2>2. ScanFrom[<<p, n + 1>>] = s \o t
    BY <1>1, <2>1, ScanFromIs
  <2>3. s \in Seq(Keys) /\ Ascending(s) /\ \A i \in 1 .. Len(s) : s[i] \in R[p]
    <3>1. PageOK(pages[p]) /\ LeafIn(pages[p], R[p])
      BY <1>1 DEF Nodes, NodeOK, InOrder
    <3> QED BY <3>1, LeafAscending
  <2>4. CASE q = INVALID_PAGE
    <3>1. t = <<>>
      BY <2>1, <2>4, ScanFromIs
    <3> HIDE DEF s, t, q
    <3>2. s \o t = s
      BY <2>3, <3>1
    <3> QED BY <2>2, <2>3, <3>2 DEF Rising
  <2>5. CASE q # INVALID_PAGE
    <3>1. q \in L /\ q # root_ /\ AllBelow(R[p], R[q])
      BY <2>5 DEF Chained
    <3>2. Rising(R[q], t)
      BY <2>1, <3>1
    <3> HIDE DEF s, t, q
    <3> QED BY <1>2, <2>2, <2>3, <3>1, <3>2, RisingLonger
  <2> QED BY <2>4, <2>5
<1>6. S = Nat
  <2>1. S \in SUBSET Nat
    OBVIOUS
  <2> HIDE DEF S
  <2> QED BY <1>4, <1>5, <2>1, NatInductive
<1> HIDE DEF S
<1>7. ASSUME NEW n \in Nat PROVE Is(n)
  BY <1>6 DEF S
<1> QED BY <1>7

\* A scan finds the keys in ascending order.
LEMMA InvImpliesAscending == ChainInv => ScanAscending
<1> SUFFICES ASSUME ChainInv PROVE ScanAscending
  OBVIOUS
<1>1. TreeInv
  BY DEF ChainInv
<1>2. PICK R : InOrder(pages, call, R) /\ Chained(pages, R)
  BY DEF ChainInv, ChainIn
<1>3. MaxPage + 1 \in Nat /\ MaxPage + 1 <= MaxPage + 1
  BY TreeAssumption
<1>4. FirstLeaf \in LeafPages(pages)
  BY <1>1, <1>2, FirstIs
<1>5. Rising(R[FirstLeaf], ScanFrom[<<FirstLeaf, MaxPage + 1>>])
  BY <1>1, <1>2, <1>3, <1>4, ScanRises
<1>6. Rising(R[FirstLeaf], Scan)
  BY <1>1, <1>2, <1>5, ScanFromIs
<1> DEFINE s == Scan
<1>7. s \in Seq(Keys) /\ \A i, j \in 1 .. Len(s) : i < j => s[i] < s[j]
  BY <1>6 DEF Rising, Ascending
<1> HIDE DEF s
<1>8. \A i \in 1 .. Len(s) - 1 : s[i] < s[i + 1]
  <2> SUFFICES ASSUME NEW i \in 1 .. Len(s) - 1 PROVE s[i] < s[i + 1]
    OBVIOUS
  <2>1. i \in 1 .. Len(s) /\ i + 1 \in 1 .. Len(s) /\ i < i + 1
    BY <1>7
  <2> HIDE DEF s
  <2> QED BY <1>7, <2>1
<1> QED BY <1>8 DEF ScanAscending, s

-----------------------------------------------------------------------------
(* No leaf is missing from the chain. *)

\* The leaves from p on.
Onward(R, p) == {m \in LeafPages(pages) : m = p \/ AllBelow(R[p], R[m])}

\* What a leaf is followed by.
LEMMA OnwardIs ==
  ASSUME NEW R, FullRanges(pages, R), Chained(pages, R), NEW p \in LeafPages(pages)
  PROVE  /\ pages[p].next = INVALID_PAGE => Onward(R, p) = {p}
         /\ pages[p].next # INVALID_PAGE =>
              Onward(R, pages[p].next) = Onward(R, p) \ {p}
<1> DEFINE L == LeafPages(pages)
           q == pages[p].next
<1>1. \A l \in L : R[l] \in SUBSET Keys /\ (l # root_ \/ (\E m \in L : m # l) => R[l] # {})
  BY DEF FullRanges, LeafPages
<1>2. q # INVALID_PAGE => q \in L \ {root_} /\ AllBelow(R[p], R[q])
  BY DEF Chained
<1>3. \A m \in L \ {p} : \/ AllBelow(R[m], R[p])
                         \/ q # INVALID_PAGE /\ (m = q \/ AllBelow(R[q], R[m]))
  BY DEF Chained
<1> HIDE DEF q
\* No leaf is both before and after another one.
<1>4. ASSUME NEW l \in L, NEW m \in L, l # m \/ l # root_, AllBelow(R[l], R[m])
      PROVE  ~AllBelow(R[m], R[l])
  <2>1. R[l] \in SUBSET Keys /\ R[l] # {} /\ R[m] \in SUBSET Keys /\ R[m] # {}
    BY <1>1, <1>4
  <2> QED BY <1>4, <2>1, NotLowerBoth
<1>5. CASE q = INVALID_PAGE
  <2>1. \A m \in L \ {p} : ~AllBelow(R[p], R[m])
    BY <1>3, <1>4, <1>5
  <2> QED BY <1>5, <2>1 DEF Onward, q
<1>6. CASE q # INVALID_PAGE
  <2>1. p # q
    BY <1>2, <1>4, <1>6
  <2>2. ASSUME NEW m \in Onward(R, q) PROVE m \in Onward(R, p) \ {p}
    <3>1. m \in L /\ (m = q \/ AllBelow(R[q], R[m]))
      BY DEF Onward
    <3>2. m # p
      BY <1>2, <1>4, <1>6, <2>1, <3>1
    <3>3. AllBelow(R[p], R[m])
      <4>1. CASE m = q
        BY <1>2, <1>6, <4>1
      <4>2. CASE AllBelow(R[q], R[m])
        BY <1>1, <1>2, <1>6, <3>1, <4>2, LowerTwice
      <4> QED BY <3>1, <4>1, <4>2
    <3> QED BY <3>1, <3>2, <3>3 DEF Onward
  <2>3. ASSUME NEW m \in Onward(R, p) \ {p} PROVE m \in Onward(R, q)
    <3>1. m \in L \ {p} /\ AllBelow(R[p], R[m])
      BY DEF Onward
    <3>2. m = q \/ AllBelow(R[q], R[m])
      BY <1>3, <1>4, <3>1
    <3> QED BY <3>1, <3>2 DEF Onward
  <2> QED BY <1>6, <2>2, <2>3 DEF q
<1> QED BY <1>5, <1>6 DEF q

\* The leaves from p on are all on the chain from p.
LEMMA ChainHasOnward ==
  ASSUME TreeInv, NEW R, InOrder(pages, call, R), Chained(pages, R)
  PROVE  \A n \in Nat : n <= MaxPage + 1 =>
           \A p \in LeafPages(pages) : Cardinality(Onward(R, p)) <= n =>
             Onward(R, p) \subseteq ToSet(ChainFrom[<<p, n>>])
<1> DEFINE L == LeafPages(pages)
           Is(n) == n <= MaxPage + 1 =>
                      \A p \in L : Cardinality(Onward(R, p)) <= n =>
                        Onward(R, p) \subseteq ToSet(ChainFrom[<<p, n>>])
           S == {n \in Nat : Is(n)}
<1>1. MaxPage \in Nat /\ L \subseteq DOMAIN pages
  BY TreeAssumption DEF LeafPages
<1>2. FullRanges(pages, R)
  BY FullRangesIs
<1>3. ASSUME NEW p \in L
      PROVE  /\ IsFiniteSet(Onward(R, p)) /\ Cardinality(Onward(R, p)) \in Nat
             /\ p \in Onward(R, p)
  <2>1. PICK n \in PageNum : DOMAIN pages = 0 .. n
    BY DEF TreeInv, Nodes
  <2>2. n \in Nat /\ 0 \in Int
    BY <1>1, <2>1 DEF PageNum
  <2>3. IsFiniteSet(DOMAIN pages)
    BY <2>1, <2>2, FS_Interval
  <2>4. Onward(R, p) \subseteq DOMAIN pages
    BY DEF Onward, LeafPages
  <2> QED BY <2>3, <2>4, FS_Subset, FS_CardinalityType DEF Onward
<1>4. 0 \in S
  <2> SUFFICES ASSUME NEW p \in L PROVE ~(Cardinality(Onward(R, p)) <= 0)
    OBVIOUS
  <2> QED BY <1>3, FS_EmptySet
<1>5. ASSUME NEW n \in S PROVE n + 1 \in S
  <2> SUFFICES ASSUME n + 1 <= MaxPage + 1, NEW p \in L, Cardinality(Onward(R, p)) <= n + 1
               PROVE  Onward(R, p) \subseteq ToSet(ChainFrom[<<p, n + 1>>])
    OBVIOUS
  <2> DEFINE q == pages[p].next
             t == ChainFrom[<<q, n>>]
  <2>1. n \in 0 .. MaxPage /\ n <= MaxPage + 1 /\ n \in Nat
    BY <1>1
  <2>2. ChainFrom[<<p, n + 1>>] = <<p>> \o t
    BY <1>1, <2>1, ChainFromIs
  <2>3. q # INVALID_PAGE => Onward(R, q) \subseteq ToSet(t)
    <3> SUFFICES ASSUME q # INVALID_PAGE PROVE Onward(R, q) \subseteq ToSet(t)
      OBVIOUS
    <3>1. q \in L /\ Onward(R, q) = Onward(R, p) \ {p}
      BY <1>2, OnwardIs DEF Chained
    <3>2. Cardinality(Onward(R, q)) = Cardinality(Onward(R, p)) - 1
      BY <1>3, <3>1, FS_RemoveElement
    <3>3. Cardinality(Onward(R, q)) <= n
      BY <1>3, <2>1, <3>1, <3>2
    <3> QED BY <2>1, <3>1, <3>3
  <2>4. q # INVALID_PAGE => Onward(R, q) = Onward(R, p) \ {p}
    BY <1>2, OnwardIs
  <2>5. q = INVALID_PAGE => Onward(R, p) = {p}
    BY <1>2, OnwardIs
  <2>6. t \in Seq(L)
    <3>1. q # INVALID_PAGE => q \in L
      BY DEF Chained
    <3>2. n = 0 \/ q = INVALID_PAGE => t = <<>>
      BY <1>1, <2>1, <3>1, ChainFromIs
    <3>3. ASSUME n # 0, q # INVALID_PAGE PROVE t \in Seq(L)
      <4> DEFINE m == n - 1
      <4>1. m \in 0 .. MaxPage /\ m + 1 = n
        BY <1>1, <2>1, <3>3
      <4> HIDE DEF m, q, t
      <4>2. Walk(R, q, ChainFrom[<<q, m + 1>>])
        BY <3>1, <3>3, <4>1, ChainWalks
      <4> QED BY <4>1, <4>2 DEF Walk, t
    <3>4. <<>> \in Seq(L)
      OBVIOUS
    <3> HIDE DEF t, q, L
    <3> QED BY <3>2, <3>3, <3>4
  <2> HIDE DEF q, t, S
  <2>7. {p} \cup ToSet(t) \subseteq ToSet(<<p>> \o t)
    <3> DEFINE u == <<p>> \o t
    <3>1. /\ DOMAIN u = 1 .. Len(u) /\ Len(u) = Len(t) + 1 /\ u[1] = p /\ Len(t) \in Nat
          /\ \A i \in 1 .. Len(t) : u[i + 1] = t[i]
          /\ DOMAIN t = 1 .. Len(t)
      BY <2>6
    <3> HIDE DEF u
    <3>2. p \in ToSet(u)
      BY <3>1 DEF ToSet
    <3>3. ASSUME NEW i \in DOMAIN t PROVE t[i] \in ToSet(u)
      <4>1. i + 1 \in DOMAIN u /\ u[i + 1] = t[i]
        BY <3>1
      <4> QED BY <4>1 DEF ToSet
    <3>4. ToSet(t) \subseteq ToSet(u)
      BY <3>3 DEF ToSet
    <3> QED BY <3>2, <3>4 DEF u
  <2> QED BY <2>2, <2>3, <2>4, <2>5, <2>7
<1>6. S = Nat
  <2>1. S \in SUBSET Nat
    OBVIOUS
  <2> HIDE DEF S
  <2> QED BY <1>4, <1>5, <2>1, NatInductive
<1> HIDE DEF S
<1>7. ASSUME NEW n \in Nat PROVE Is(n)
  BY <1>6 DEF S
<1> QED BY <1>7

\* The chain has all leaves.
LEMMA ChainHasAll ==
  ASSUME TreeInv, NEW R, InOrder(pages, call, R), Chained(pages, R)
  PROVE  ToSet(Chain) = LeafPages(pages)
<1> DEFINE L == LeafPages(pages)
           n == MaxPage + 1
<1>1. FirstLeaf \in L /\ \A m \in L \ {FirstLeaf} : AllBelow(R[FirstLeaf], R[m])
  BY FirstIs, FirstLowest
<1>2. Onward(R, FirstLeaf) = L
  BY <1>1 DEF Onward
<1>3. n \in Nat /\ n <= MaxPage + 1 /\ MaxPage \in Nat
  BY TreeAssumption
<1>4. Cardinality(L) <= n
  <2>1. IsFiniteSet(PageNum) /\ Cardinality(PageNum) = n
    <3>1. 0 \in Int /\ MaxPage \in Int
      BY <1>3
    <3>2. IsFiniteSet(0 .. MaxPage) /\ Cardinality(0 .. MaxPage) = MaxPage + 1
      BY <1>3, <3>1, FS_Interval
    <3> QED BY <3>2 DEF PageNum
  <2>2. L \subseteq PageNum
    BY DomainIs DEF LeafPages, TreeInv, Nodes
  <2> QED BY <2>1, <2>2, FS_Subset
<1> HIDE DEF n, L
<1>5. Onward(R, FirstLeaf) \subseteq ToSet(ChainFrom[<<FirstLeaf, n>>])
  BY <1>1, <1>2, <1>3, <1>4, ChainHasOnward DEF L
<1>6. L \subseteq ToSet(Chain)
  BY <1>2, <1>5, ChainFromIs DEF n
<1>7. ToSet(Chain) \subseteq L
  <2>1. Chain \in Seq(L)
    BY ChainIs DEF Walk, L
  <2> QED BY <2>1 DEF ToSet
<1> QED BY <1>6, <1>7 DEF L

-----------------------------------------------------------------------------
(* The leaves under a page. *)

\* s has leaves with higher and higher keys.
Row(R, s) ==
  /\ s \in Seq(LeafPages(pages))
  /\ \A i, j \in 1 .. Len(s) : i < j => AllBelow(R[s[i]], R[s[j]])

\* The leaves of s are all before those of t.
RowsApart(R, s, t) ==
  \A i \in 1 .. Len(s) : \A j \in 1 .. Len(t) : AllBelow(R[s[i]], R[t[j]])

LEMMA RowJoined ==
  ASSUME NEW R, NEW s, NEW t, Row(R, s), Row(R, t), RowsApart(R, s, t)
  PROVE  /\ Row(R, s \o t)
         /\ ToSet(s \o t) = ToSet(s) \cup ToSet(t)
<1> DEFINE u == s \o t
           m == Len(s)
           n == Len(t)
           L == LeafPages(pages)
<1>1. s \in Seq(L) /\ t \in Seq(L) /\ m \in Nat /\ n \in Nat
  BY DEF Row
<1>2. /\ u \in Seq(L) /\ Len(u) = m + n
      /\ \A i \in 1 .. m : u[i] = s[i]
      /\ \A i \in m + 1 .. m + n : i - m \in 1 .. n /\ u[i] = t[i - m]
      /\ \A i \in 1 .. n : i + m \in 1 .. m + n /\ u[i + m] = t[i]
      /\ \A i \in 1 .. m : i \in 1 .. m + n
  BY <1>1
<1>3. DOMAIN s = 1 .. m /\ DOMAIN t = 1 .. n /\ DOMAIN u = 1 .. m + n
  BY <1>1, <1>2
<1> HIDE DEF u, m, n, L
<1>4. ASSUME NEW i \in 1 .. m + n, NEW j \in 1 .. m + n, i < j
      PROVE  AllBelow(R[u[i]], R[u[j]])
  <2>1. CASE j <= m
    <3>1. i \in 1 .. m /\ j \in 1 .. m
      BY <1>1, <1>4, <2>1
    <3>2. AllBelow(R[s[i]], R[s[j]])
      BY <1>4, <3>1 DEF Row, m
    <3> QED BY <1>2, <3>1, <3>2
  <2>2. CASE i <= m /\ j > m
    <3>1. i \in 1 .. m /\ j \in m + 1 .. m + n
      BY <1>1, <2>2
    <3>2. u[i] = s[i] /\ u[j] = t[j - m] /\ j - m \in 1 .. n
      BY <1>2, <3>1
    <3> QED BY <3>1, <3>2 DEF RowsApart, m, n
  <2>3. CASE i > m
    <3> DEFINE a == i - m
               b == j - m
    <3>1. i \in m + 1 .. m + n /\ j \in m + 1 .. m + n /\ a < b
      BY <1>1, <1>4, <2>3
    <3>2. u[i] = t[a] /\ u[j] = t[b] /\ a \in 1 .. n /\ b \in 1 .. n
      BY <1>2, <3>1
    <3> HIDE DEF a, b
    <3> QED BY <3>1, <3>2 DEF Row, n
  <2> QED BY <1>1, <2>1, <2>2, <2>3
<1>5. Row(R, u)
  BY <1>2, <1>4 DEF Row, L
<1>6. ToSet(u) = ToSet(s) \cup ToSet(t)
  <2>1. ASSUME NEW i \in DOMAIN u PROVE u[i] \in ToSet(s) \cup ToSet(t)
    <3>1. CASE i <= m
      <4>1. i \in 1 .. m
        BY <1>1, <1>3, <3>1
      <4> QED BY <1>2, <1>3, <4>1 DEF ToSet
    <3>2. CASE i > m
      <4>1. i \in m + 1 .. m + n
        BY <1>1, <1>3, <3>2
      <4>2. i - m \in DOMAIN t /\ u[i] = t[i - m]
        BY <1>2, <1>3, <4>1
      <4> QED BY <4>2 DEF ToSet
    <3> QED BY <1>1, <1>3, <3>1, <3>2
  <2>2. ASSUME NEW i \in DOMAIN s PROVE s[i] \in ToSet(u)
    <3>1. i \in DOMAIN u /\ u[i] = s[i]
      BY <1>2, <1>3
    <3> QED BY <3>1 DEF ToSet
  <2>3. ASSUME NEW i \in DOMAIN t PROVE t[i] \in ToSet(u)
    <3>1. i + m \in DOMAIN u /\ u[i + m] = t[i]
      BY <1>2, <1>3
    <3> QED BY <3>1 DEF ToSet
  <2> QED BY <2>1, <2>2, <2>3 DEF ToSet
<1> QED BY <1>5, <1>6 DEF u

\* One row after the other.
LEMMA FlattenRow ==
  ASSUME NEW R, NEW s, NEW n \in Nat \ {0}, Len(s) = n, \A i \in 1 .. n : Row(R, s[i]),
         \A i, j \in 1 .. n : i < j => RowsApart(R, s[i], s[j])
  PROVE  /\ Row(R, FlattenSeq(s))
         /\ \A l : l \in ToSet(FlattenSeq(s)) <=> \E i \in 1 .. n : l \in ToSet(s[i])
<1> DEFINE f == FlatFrom(s)
           Is(m) == /\ Row(R, f[m])
                    /\ \A l : l \in ToSet(f[m]) <=> \E i \in 1 .. m : l \in ToSet(s[i])
           S == {m \in Nat : m \in 1 .. n => Is(m)}
<1>1. f = [i \in 1 .. n |-> IF i = 1 THEN s[i] ELSE f[i - 1] \o s[i]]
  BY FlattenBy
<1>2. FlattenSeq(s) = f[n]
  BY FlattenBy
<1> HIDE DEF f
<1>3. 0 \in S
  OBVIOUS
<1>4. ASSUME NEW m \in S PROVE m + 1 \in S
  <2> DEFINE j == m + 1
  <2> SUFFICES ASSUME j \in 1 .. n PROVE Is(j)
    OBVIOUS
  <2>1. m \in Nat /\ j - 1 = m /\ (j # 1 => m \in 1 .. n) /\ \A i \in 1 .. m : i \in 1 .. n /\ i < j
    OBVIOUS
  <2>2. 1 .. j = 1 .. m \cup {j}
    BY <2>1
  <2>3. j # 1 => Is(m)
    BY <2>1
  <2>4. j = 1 => m = 0
    BY <2>1
  <2> HIDE DEF j, S
  <2>5. f[j] = IF j = 1 THEN s[j] ELSE f[m] \o s[j]
    BY <1>1, <2>1
  <2>6. CASE j = 1
    <3>1. f[j] = s[j] /\ 1 .. j = {j}
      BY <2>5, <2>6
    <3> QED BY <3>1
  <2>7. CASE j # 1
    <3>1. RowsApart(R, f[m], s[j])
      <4> SUFFICES ASSUME NEW a \in 1 .. Len(f[m]), NEW b \in 1 .. Len(s[j])
                   PROVE  AllBelow(R[f[m][a]], R[s[j][b]])
        BY DEF RowsApart
      <4>1. f[m][a] \in ToSet(f[m])
        BY <2>3, <2>7 DEF ToSet, Row
      <4>2. PICK i \in 1 .. m : f[m][a] \in ToSet(s[i])
        BY <2>3, <2>7, <4>1
      <4>3. PICK c \in 1 .. Len(s[i]) : f[m][a] = s[i][c]
        <5>1. s[i] \in Seq(LeafPages(pages))
          BY <2>1 DEF Row
        <5>2. DOMAIN s[i] = 1 .. Len(s[i])
          BY <5>1
        <5> QED BY <4>2, <5>2 DEF ToSet
      <4>4. RowsApart(R, s[i], s[j])
        BY <2>1
      <4> QED BY <4>3, <4>4 DEF RowsApart
    <3>2. Row(R, f[m] \o s[j]) /\ ToSet(f[m] \o s[j]) = ToSet(f[m]) \cup ToSet(s[j])
      BY <2>3, <2>7, <3>1, RowJoined
    <3> QED BY <2>2, <2>3, <2>5, <2>7, <3>2
  <2> QED BY <2>6, <2>7
<1>5. S = Nat
  <2>1. S \in SUBSET Nat
    OBVIOUS
  <2> HIDE DEF S
  <2> QED BY <1>3, <1>4, <2>1, NatInductive
<1> HIDE DEF S
<1>6. n \in S /\ n \in 1 .. n
  BY <1>5
<1>7. Is(n)
  BY <1>6 DEF S
<1> QED BY <1>2, <1>7

\* s has the leaves with keys of page p.
Hangs(R, p, s) ==
  /\ Row(R, s)
  /\ \A l \in ToSet(s) : R[l] \subseteq R[p]
  /\ \A l \in LeafPages(pages) : R[l] \cap R[p] # {} => l \in ToSet(s)

\* A leaf has itself.
LEMMA HangsAlone ==
  ASSUME TreeInv, NEW R, InOrder(pages, call, R), NEW p \in LeafPages(pages)
  PROVE  Hangs(R, p, <<p>>)
<1> DEFINE s == <<p>>
<1>1. s \in Seq(LeafPages(pages)) /\ Len(s) = 1 /\ ToSet(s) = {p}
  BY DEF ToSet
<1> HIDE DEF s
<1>2. Row(R, s)
  BY <1>1 DEF Row
<1>3. Hangs(R, p, s)
  BY <1>1, <1>2, LeavesApart DEF Hangs
<1> QED BY <1>3 DEF s

\* The children of an inner page have their leaves one after the other.
LEMMA HangsUnder ==
  ASSUME TreeInv, NEW R, InOrder(pages, call, R), ~call.active,
         NEW p \in DOMAIN pages, Inner(pages[p]), NEW f,
         \A i \in 0 .. SepCount(pages[p]) :
           Hangs(R, ChildOf(pages[p], i), f[ChildOf(pages[p], i)])
  PROVE  Hangs(R, p, LeavesBy(f, p))
<1> DEFINE pg == pages[p]
           m == SepCount(pg)
           n == m + 1
           F == SepKeys(pg)
           G == Kids(pg)
           s == [i \in 1 .. n |-> f[ChildOf(pg, i - 1)]]
           X(i) == Between(F, m, i, R[p])
<1>1. Nodes(pages) /\ R \in [DOMAIN pages -> SUBSET Keys]
  BY DEF TreeInv, InOrder, RangesOf
<1>2. /\ m \in Nat \ {0} /\ F \in [1 .. m -> Keys]
      /\ \A i \in 0 .. m : G[i] = ChildOf(pg, i) /\ G[i] \in DOMAIN pages
  BY <1>1, InnerSeps, InnerIs DEF Below
<1>3. Divided(F, m, G, R[p], R)
  <2>1. Owned(R, call) = R
    BY DEF Owned
  <2> QED BY <2>1, InnerSeps
<1>4. \A i \in 0 .. m : R[G[i]] = X(i)
  BY <1>3 DEF Divided
<1>5. LeavesBy(f, p) = FlattenSeq(s)
  BY <1>2 DEF LeavesBy
<1>6. n \in Nat \ {0} /\ Len(s) = n
  BY <1>2
<1>7. ASSUME NEW i \in 1 .. n
      PROVE  /\ i - 1 \in 0 .. m
             /\ Hangs(R, G[i - 1], s[i])
  <2> DEFINE j == i - 1
  <2>1. j \in 0 .. m /\ s[i] = f[ChildOf(pg, j)]
    BY <1>2
  <2> HIDE DEF j, s
  <2>2. G[j] = ChildOf(pg, j) /\ Hangs(R, ChildOf(pg, j), f[ChildOf(pg, j)])
    BY <1>2, <2>1
  <2>3. Hangs(R, G[j], s[i])
    BY <2>1, <2>2
  <2> QED BY <2>1, <2>3 DEF j
<1>8. Keys \subseteq Int /\ R[p] \subseteq Keys
  BY <1>1, SlotsAssumption
<1>9. ASSUME NEW i \in 0 .. m, NEW j \in 0 .. m, i < j PROVE AllBelow(X(i), X(j))
  <2> SUFFICES ASSUME NEW x \in X(i), NEW y \in X(j) PROVE x < y
    BY DEF AllBelow
  <2> DEFINE a == i + 1
  <2>1. a \in 1 .. m /\ j \in 1 .. m /\ (a < j \/ a = j) /\ i < m /\ 0 < j
    BY <1>2, <1>9
  <2>2. x \in R[p] /\ y \in R[p] /\ x < F[a] /\ F[j] <= y
    BY <2>1 DEF Between
  <2> HIDE DEF X, F, a, m
  <2>3. x \in Int /\ y \in Int /\ F[a] \in Int /\ F[j] \in Int
    BY <1>2, <1>8, <2>1, <2>2
  <2>4. a < j => F[a] < F[j]
    BY <1>3, <2>1 DEF Divided
  <2> QED BY <2>1, <2>2, <2>3, <2>4
<1> HIDE DEF s, X, m, n, F, G
<1>10. ASSUME NEW i \in 1 .. n, NEW l \in ToSet(s[i]) PROVE R[l] \subseteq X(i - 1)
  BY <1>4, <1>7 DEF Hangs
<1>11. ASSUME NEW i \in 1 .. n PROVE DOMAIN s[i] = 1 .. Len(s[i]) /\ Row(R, s[i])
  <2>1. s[i] \in Seq(LeafPages(pages)) /\ Row(R, s[i])
    BY <1>7 DEF Hangs, Row
  <2> QED BY <2>1
<1>12. ASSUME NEW i \in 1 .. n, NEW j \in 1 .. n, i < j PROVE RowsApart(R, s[i], s[j])
  <2> SUFFICES ASSUME NEW a \in 1 .. Len(s[i]), NEW b \in 1 .. Len(s[j])
               PROVE  AllBelow(R[s[i][a]], R[s[j][b]])
    BY DEF RowsApart
  <2> DEFINE c == i - 1
             d == j - 1
  <2>1. c \in 0 .. m /\ d \in 0 .. m /\ c < d
    BY <1>6, <1>7, <1>12
  <2>2. s[i][a] \in ToSet(s[i]) /\ s[j][b] \in ToSet(s[j])
    BY <1>11 DEF ToSet
  <2>3. R[s[i][a]] \subseteq X(c) /\ R[s[j][b]] \subseteq X(d)
    BY <1>10, <2>2
  <2> HIDE DEF c, d
  <2>4. AllBelow(X(c), X(d))
    BY <1>9, <2>1
  <2> QED BY <2>3, <2>4 DEF AllBelow
<1> DEFINE u == FlattenSeq(s)
<1>13. Row(R, u) /\ \A l : l \in ToSet(u) <=> \E i \in 1 .. n : l \in ToSet(s[i])
  BY <1>6, <1>11, <1>12, FlattenRow
<1> HIDE DEF u
<1>14. ASSUME NEW l \in ToSet(u) PROVE R[l] \subseteq R[p]
  <2>1. PICK i \in 1 .. n : l \in ToSet(s[i])
    BY <1>13
  <2>2. R[l] \subseteq X(i - 1)
    BY <1>10, <2>1
  <2> QED BY <2>2 DEF X, Between
<1>15. ASSUME NEW l \in LeafPages(pages), R[l] \cap R[p] # {} PROVE l \in ToSet(u)
  <2>1. PICK x \in R[l] : x \in R[p]
    BY <1>15
  <2>2. PICK i \in 0 .. m : x \in X(i)
    <3>1. \A i, j \in 1 .. m : i < j => F[i] < F[j]
      BY <1>3 DEF Divided
    <3> QED BY <1>2, <1>8, <2>1, <3>1, Placed DEF X
  <2> DEFINE j == i + 1
  <2>3. j \in 1 .. n /\ j - 1 = i
    BY <1>2, <1>6 DEF n
  <2> HIDE DEF j
  <2>4. Hangs(R, G[i], s[j])
    BY <1>7, <2>3
  <2>5. R[l] \cap R[G[i]] # {}
    BY <1>4, <2>1, <2>2
  <2> QED BY <1>13, <2>3, <2>4, <2>5 DEF Hangs
<1> QED BY <1>5, <1>13, <1>14, <1>15 DEF Hangs, u

\* All of them, from the top down.
LEMMA UnderHangs ==
  ASSUME TreeInv, NEW R, InOrder(pages, call, R), ~call.active, NEW p \in DOMAIN pages
  PROVE  Hangs(R, p, LeavesUnder(p))
<1> DEFINE D == DOMAIN pages
           f == UnderFrom
           Is(m) == \A q \in D : pages[q].level <= m => Hangs(R, q, f[q])
           S == {m \in Nat : Is(m)}
<1>1. Nodes(pages)
  BY DEF TreeInv
<1>2. \A q \in D : f[q] = LeavesBy(f, q)
  BY <1>1, UnderExists
<1> HIDE DEF f
<1>3. \A q \in D : pages[q].level \in Nat
  BY <1>1, PageFields DEF Nodes, NodeOK, PageOK
<1>4. ASSUME NEW q \in D, ~Inner(pages[q]) PROVE Hangs(R, q, f[q])
  <2>1. SepCount(pages[q]) = 0 /\ q \in LeafPages(pages)
    BY <1>4, InnerSeps DEF LeafPages
  <2>2. f[q] = <<q>>
    BY <1>2, <2>1 DEF LeavesBy
  <2> QED BY <2>1, <2>2, HangsAlone
<1>5. ASSUME NEW q \in D, Inner(pages[q])
      PROVE  /\ pages[q].level # 0
             /\ \A i \in 0 .. SepCount(pages[q]) :
                  /\ ChildOf(pages[q], i) \in D
                  /\ pages[q].level = pages[ChildOf(pages[q], i)].level + 1
  BY <1>1, <1>5, InnerIs DEF Below, Inner
<1>6. 0 \in S
  <2> SUFFICES ASSUME NEW q \in D, pages[q].level <= 0 PROVE Hangs(R, q, f[q])
    OBVIOUS
  <2> QED BY <1>3, <1>4, <1>5
<1>7. ASSUME NEW m \in S PROVE m + 1 \in S
  <2> SUFFICES ASSUME NEW q \in D, pages[q].level <= m + 1 PROVE Hangs(R, q, f[q])
    OBVIOUS
  <2>1. CASE ~Inner(pages[q])
    BY <1>4, <2>1
  <2>2. CASE Inner(pages[q])
    <3>1. ASSUME NEW i \in 0 .. SepCount(pages[q])
          PROVE  Hangs(R, ChildOf(pages[q], i), f[ChildOf(pages[q], i)])
      <4> DEFINE c == ChildOf(pages[q], i)
      <4>1. c \in D /\ pages[q].level = pages[c].level + 1
        BY <1>5, <2>2
      <4> HIDE DEF c
      <4>2. pages[c].level <= m
        BY <1>3, <4>1
      <4>3. Hangs(R, c, f[c])
        BY <4>1, <4>2
      <4> QED BY <4>3 DEF c
    <3>2. Hangs(R, q, LeavesBy(f, q))
      BY <2>2, <3>1, HangsUnder
    <3> QED BY <1>2, <3>2
  <2> QED BY <2>1, <2>2
<1>8. S = Nat
  <2>1. S \in SUBSET Nat
    OBVIOUS
  <2> HIDE DEF S
  <2> QED BY <1>6, <1>7, <2>1, NatInductive
<1> HIDE DEF S
<1>9. pages[p].level \in S /\ pages[p].level <= pages[p].level
  BY <1>3, <1>8
<1>10. Hangs(R, p, f[p])
  BY <1>9 DEF S
<1>11. LeavesUnder(p) = f[p]
  BY Zenon DEF LeavesUnder, UnderFrom, f
<1> QED BY <1>10, <1>11

\* Row t begins with the leaves of row s.
Begins(s, t) == Len(s) <= Len(t) /\ \A i \in 1 .. Len(s) : s[i] = t[i]

\* Of two rows with the same leaves, each begins like the other.
LEMMA RowsAgree ==
  ASSUME NEW R, NEW s, NEW t, Row(R, s), Row(R, t), ToSet(s) = ToSet(t),
         \A l \in ToSet(s) : R[l] \in SUBSET Keys /\ R[l] # {}
  PROVE  Begins(s, t)
<1> DEFINE m == Len(s)
           n == Len(t)
           S == {k \in Nat : k <= m => k <= n /\ \A i \in 1 .. k : s[i] = t[i]}
<1>1. /\ m \in Nat /\ n \in Nat /\ DOMAIN s = 1 .. m /\ DOMAIN t = 1 .. n
      /\ \A i, j \in 1 .. m : i < j => AllBelow(R[s[i]], R[s[j]])
      /\ \A i, j \in 1 .. n : i < j => AllBelow(R[t[i]], R[t[j]])
  <2>1. s \in Seq(LeafPages(pages)) /\ t \in Seq(LeafPages(pages))
    BY DEF Row
  <2> QED BY <2>1 DEF Row
<1> HIDE DEF m, n
<1>2. /\ \A i \in 1 .. m : s[i] \in ToSet(s) /\ \E j \in 1 .. n : t[j] = s[i]
      /\ \A i \in 1 .. n : t[i] \in ToSet(s) /\ \E j \in 1 .. m : s[j] = t[i]
  BY <1>1 DEF ToSet
<1>3. ASSUME NEW l \in ToSet(s), NEW x \in ToSet(s), AllBelow(R[l], R[x])
      PROVE  ~AllBelow(R[x], R[l])
  BY <1>3, NotLowerBoth
<1>4. 0 \in S
  BY <1>1
<1>5. ASSUME NEW k \in S PROVE k + 1 \in S
  <2> DEFINE c == k + 1
  <2> SUFFICES ASSUME c <= m PROVE c <= n /\ \A i \in 1 .. c : s[i] = t[i]
    OBVIOUS
  <2>1. /\ k \in Nat /\ k <= m /\ k <= n /\ c \in 1 .. m /\ c \in Nat
        /\ \A i \in 1 .. k : s[i] = t[i] /\ i \in 1 .. m /\ i \in 1 .. n /\ i < c
        /\ \A i \in Nat : i >= 1 /\ i < c => i \in 1 .. k
        /\ \A i \in 1 .. c : i = c \/ i \in 1 .. k
    BY <1>1
  <2> HIDE DEF c, S
  <2>2. PICK j \in 1 .. n : t[j] = s[c]
    BY <1>2, <2>1
  <2>3. ~(j < c)
    <3> SUFFICES ASSUME j < c PROVE FALSE
      OBVIOUS
    <3>1. j \in 1 .. k
      BY <1>1, <2>1
    <3>2. s[j] = s[c] /\ AllBelow(R[s[j]], R[s[c]]) /\ s[c] \in ToSet(s)
      BY <1>1, <1>2, <2>1, <2>2, <3>1
    <3> QED BY <1>3, <3>2
  <2>4. c \in 1 .. n /\ c <= n /\ (c = j \/ c < j)
    BY <1>1, <2>1, <2>3
  <2>5. PICK i \in 1 .. m : s[i] = t[c]
    BY <1>2, <2>4
  <2>6. ~(i < c)
    <3> SUFFICES ASSUME i < c PROVE FALSE
      OBVIOUS
    <3>1. i \in 1 .. k
      BY <1>1, <2>1
    <3>2. t[i] = t[c] /\ AllBelow(R[t[i]], R[t[c]]) /\ t[c] \in ToSet(s)
      BY <1>1, <1>2, <2>1, <2>4, <2>5, <3>1
    <3> QED BY <1>3, <3>2
  <2>7. s[c] = t[c]
    <3>1. i = c \/ c < i
      BY <1>1, <2>1, <2>6
    <3>2. ASSUME c < j, c < i PROVE FALSE
      <4>1. AllBelow(R[t[c]], R[s[c]]) /\ AllBelow(R[s[c]], R[t[c]])
        BY <1>1, <2>1, <2>2, <2>4, <2>5, <3>2
      <4>2. s[c] \in ToSet(s) /\ t[c] \in ToSet(s)
        BY <1>2, <2>1, <2>4
      <4> QED BY <1>3, <4>1, <4>2
    <3> QED BY <2>2, <2>4, <2>5, <3>1, <3>2
  <2> QED BY <2>1, <2>4, <2>7
<1>6. S = Nat
  <2>1. S \in SUBSET Nat
    OBVIOUS
  <2> HIDE DEF S
  <2> QED BY <1>4, <1>5, <2>1, NatInductive
<1> HIDE DEF S
<1>7. m \in S /\ m <= m
  BY <1>1, <1>6
<1>8. m <= n /\ \A i \in 1 .. m : s[i] = t[i]
  BY <1>7 DEF S
<1> QED BY <1>8 DEF m, n, Begins

\* A row is known by its leaves.
LEMMA SameRow ==
  ASSUME NEW R, NEW s, NEW t, Row(R, s), Row(R, t), ToSet(s) = ToSet(t),
         \A l \in ToSet(s) : R[l] \in SUBSET Keys /\ R[l] # {}
  PROVE  s = t
<1>1. s \in Seq(LeafPages(pages)) /\ t \in Seq(LeafPages(pages))
  BY DEF Row
<1>2. Begins(s, t)
  BY RowsAgree, Zenon
<1>3. Begins(t, s)
  <2>1. \A l \in ToSet(t) : R[l] \in SUBSET Keys /\ R[l] # {}
    OBVIOUS
  <2>2. ToSet(t) = ToSet(s)
    OBVIOUS
  <2> QED BY <2>1, <2>2, RowsAgree, Zenon
<1>4. Len(s) = Len(t)
  BY <1>1, <1>2, <1>3 DEF Begins
<1> QED BY <1>1, <1>2, <1>4 DEF Begins

\* Between insertions the chain is the leaves of the tree, from left to right.
LEMMA InvImpliesTree == ChainInv => ChainIsTree
<1> SUFFICES ASSUME ChainInv, ~call.active
             PROVE  /\ Chain = LeavesUnder(root_)
                    /\ {p \in DOMAIN pages : SepCount(pages[p]) = 0} = ToSet(Chain)
  BY DEF ChainIsTree
<1> DEFINE L == LeafPages(pages)
           s == Chain
           t == LeavesUnder(root_)
<1>1. TreeInv /\ Nodes(pages) /\ root_ \in DOMAIN pages
  BY DomainIs DEF ChainInv, TreeInv, Nodes
<1>2. PICK R : InOrder(pages, call, R) /\ Chained(pages, R)
  BY DEF ChainInv, ChainIn
<1>3. ToSet(s) = L
  BY <1>1, <1>2, ChainHasAll
<1>4. {p \in DOMAIN pages : SepCount(pages[p]) = 0} = L
  BY <1>1, <1>2, InnerSeps DEF LeafPages
<1>5. /\ s \in Seq(L) /\ Len(s) \in Nat /\ Len(s) >= 1 /\ s[1] \in L /\ Row(R, s)
      /\ \A i, j \in 1 .. Len(s) : i < j => s[j] # root_
  BY <1>1, <1>2, ChainIs DEF Walk, Row
<1>6. R[root_] = Keys
  BY <1>2 DEF InOrder, Owned
<1>7. \A l \in L : R[l] \in SUBSET Keys /\ (l # root_ \/ (\E m \in L : m # l) => R[l] # {})
  BY <1>1, <1>2, FullRangesIs DEF FullRanges, LeafPages
<1>8. Hangs(R, root_, t)
  BY <1>1, <1>2, UnderHangs
<1>9. s = t
  <2>1. CASE root_ \in L
    <3>1. ASSUME NEW l \in L, l # root_ PROVE FALSE
      <4>1. R[l] # {} /\ R[l] \subseteq R[root_]
        BY <1>6, <1>7, <3>1
      <4>2. R[l] \cap R[root_] = {}
        BY <1>1, <1>2, <2>1, <3>1, LeavesApart
      <4> QED BY <4>1, <4>2
    <3>2. L = {root_}
      BY <2>1, <3>1
    <3> HIDE DEF s, t, L
    <3>3. Len(s) = 1
      <4> DEFINE n == Len(s)
      <4>1. n \in Nat /\ n >= 1
        BY <1>5
      <4>2. ASSUME n > 1 PROVE FALSE
        <5>1. 1 \in 1 .. n /\ 2 \in 1 .. n /\ 1 < 2
          BY <4>1, <4>2
        <5>2. s[2] \in L /\ s[2] # root_
          BY <1>5, <5>1
        <5> QED BY <3>2, <5>2
      <4> HIDE DEF n
      <4>3. n = 1
        BY <4>1, <4>2
      <4> QED BY <4>3 DEF n
    <3>4. s = <<root_>>
      BY <1>5, <3>2, <3>3
    <3>5. t = <<root_>>
      <4>1. SepCount(pages[root_]) = 0
        BY <1>1, <1>4, <2>1
      <4>2. UnderFrom[root_] = LeavesBy(UnderFrom, root_)
        BY <1>1, UnderExists
      <4>3. t = UnderFrom[root_]
        BY Zenon DEF LeavesUnder, UnderFrom, t
      <4> QED BY <4>1, <4>2, <4>3 DEF LeavesBy
    <3> QED BY <3>4, <3>5
  <2>2. CASE root_ \notin L
    <3>1. \A l \in L : R[l] \in SUBSET Keys /\ R[l] # {}
      BY <1>7, <2>2
    <3>2. L \subseteq ToSet(t)
      <4> SUFFICES ASSUME NEW l \in L PROVE l \in ToSet(t)
        OBVIOUS
      <4>1. R[l] \cap R[root_] # {}
        BY <1>6, <3>1
      <4> QED BY <1>8, <4>1 DEF Hangs
    <3>3. Row(R, t) /\ t \in Seq(L)
      BY <1>8 DEF Hangs, Row
    <3>4. ToSet(t) \subseteq L
      BY <3>3 DEF ToSet
    <3> HIDE DEF s, t, L
    <3>5. ToSet(s) = ToSet(t) /\ \A l \in ToSet(s) : R[l] \in SUBSET Keys /\ R[l] # {}
      BY <1>3, <3>1, <3>2, <3>4
    <3> QED BY <1>5, <3>3, <3>5, SameRow
  <2> QED BY <2>1, <2>2
<1> QED BY <1>3, <1>4, <1>9

-----------------------------------------------------------------------------
(* What a scan finds. *)

\* What two sequences have together.
LEMMA ToSetJoined ==
  ASSUME NEW S, NEW s \in Seq(S), NEW T, NEW t \in Seq(T)
  PROVE  ToSet(s \o t) = ToSet(s) \cup ToSet(t)
<1> DEFINE m == Len(s)
           n == Len(t)
           u == s \o t
<1>1. /\ m \in Nat /\ n \in Nat /\ DOMAIN s = 1 .. m /\ DOMAIN t = 1 .. n
      /\ DOMAIN u = 1 .. m + n
      /\ \A i \in 1 .. m : u[i] = s[i]
      /\ \A i \in m + 1 .. m + n : u[i] = t[i - m]
  OBVIOUS
<1> HIDE DEF m, n, u
<1>2. ASSUME NEW x \in ToSet(u) PROVE x \in ToSet(s) \/ x \in ToSet(t)
  <2>1. PICK i \in 1 .. m + n : u[i] = x
    BY <1>1, <1>2 DEF ToSet
  <2>2. i \in 1 .. m \/ (i \in m + 1 .. m + n /\ i - m \in 1 .. n)
    BY <1>1
  <2> QED BY <1>1, <2>1, <2>2 DEF ToSet
<1>3. ASSUME NEW x \in ToSet(s) PROVE x \in ToSet(u)
  <2>1. PICK i \in 1 .. m : s[i] = x
    BY <1>1, <1>3 DEF ToSet
  <2>2. i \in 1 .. m + n
    BY <1>1
  <2> QED BY <1>1, <2>1, <2>2 DEF ToSet
<1>4. ASSUME NEW x \in ToSet(t) PROVE x \in ToSet(u)
  <2>1. PICK i \in 1 .. n : t[i] = x
    BY <1>1, <1>4 DEF ToSet
  <2>2. i + m \in 1 .. m + n /\ i + m \in m + 1 .. m + n /\ (i + m) - m = i
    BY <1>1
  <2>3. u[i + m] = x
    BY <1>1, <2>1, <2>2
  <2> QED BY <1>1, <2>2, <2>3 DEF ToSet
<1> QED BY <1>2, <1>3, <1>4 DEF u

\* The keys that a leaf has.
KeysOf(p) == ToSet(LiveKeys(pages[p]))

\* From each leaf on, a scan finds the keys of the leaves on the chain.
LEMMA ScanFollowsChain ==
  ASSUME TreeInv, NEW R, InOrder(pages, call, R), Chained(pages, R)
  PROVE  \A n \in Nat : n <= MaxPage + 1 =>
           \A p \in LeafPages(pages) : \A x :
             x \in ToSet(ScanFrom[<<p, n>>])
               <=> \E q \in ToSet(ChainFrom[<<p, n>>]) : x \in KeysOf(q)
<1> DEFINE L == LeafPages(pages)
           Is(n) == n <= MaxPage + 1 =>
                      \A p \in L : \A x :
                        x \in ToSet(ScanFrom[<<p, n>>])
                          <=> \E q \in ToSet(ChainFrom[<<p, n>>]) : x \in KeysOf(q)
           S == {n \in Nat : Is(n)}
<1>1. MaxPage \in Nat /\ L \subseteq DOMAIN pages /\ Nodes(pages)
  BY TreeAssumption DEF LeafPages, TreeInv
<1>2. ToSet(<<>>) = {}
  BY DEF ToSet
<1>3. 0 \in S
  BY <1>1, <1>2, ScanFromIs, ChainFromIs
<1>4. ASSUME NEW n \in S PROVE n + 1 \in S
  <2> SUFFICES ASSUME n + 1 <= MaxPage + 1, NEW p \in L, NEW x
               PROVE  x \in ToSet(ScanFrom[<<p, n + 1>>])
                        <=> \E q \in ToSet(ChainFrom[<<p, n + 1>>]) : x \in KeysOf(q)
    OBVIOUS
  <2> DEFINE s == LiveKeys(pages[p])
             q == pages[p].next
             t == ScanFrom[<<q, n>>]
             u == ChainFrom[<<q, n>>]
  <2>1. n \in 0 .. MaxPage /\ n \in 0 .. MaxPage + 1 /\ n \in Nat /\ n <= MaxPage + 1
    BY <1>1
  <2>2. ScanFrom[<<p, n + 1>>] = s \o t /\ ChainFrom[<<p, n + 1>>] = <<p>> \o u
    BY <1>1, <2>1, ScanFromIs, ChainFromIs
  <2>3. s \in Seq(Keys)
    <3>1. PageOK(pages[p]) /\ LeafIn(pages[p], R[p])
      BY <1>1 DEF Nodes, NodeOK, InOrder
    <3> QED BY <3>1, LeafAscending
  <2>4. /\ t \in Seq(Keys) /\ u \in Seq(L)
        /\ \A y : y \in ToSet(t) <=> \E m \in ToSet(u) : y \in KeysOf(m)
    <3>1. CASE q = INVALID_PAGE
      <4>1. t = <<>> /\ u = <<>>
        BY <2>1, <3>1, ScanFromIs, ChainFromIs
      <4> HIDE DEF t, u
      <4> QED BY <1>2, <4>1
    <3>2. CASE q # INVALID_PAGE
      <4>1. q \in L
        BY <3>2 DEF Chained
      <4>2. t \in Seq(Keys)
        BY <2>1, <4>1, ScanRises DEF Rising
      <4>3. u \in Seq(L)
        <5>1. CASE n = 0
          <6>1. u = <<>>
            BY <1>1, <4>1, <5>1, ChainFromIs
          <6> QED BY <6>1
        <5>2. CASE n # 0
          <6>1. n - 1 \in 0 .. MaxPage /\ (n - 1) + 1 = n
            BY <1>1, <2>1, <5>2
          <6> DEFINE c == n - 1
          <6> HIDE DEF c
          <6>2. Walk(R, q, ChainFrom[<<q, c + 1>>])
            BY <4>1, <6>1, ChainWalks DEF c
          <6>3. Walk(R, q, u)
            BY <6>1, <6>2 DEF c
          <6> QED BY <6>3 DEF Walk
        <5> QED BY <5>1, <5>2
      <4>4. \A y : y \in ToSet(t) <=> \E m \in ToSet(u) : y \in KeysOf(m)
        BY <2>1, <4>1
      <4> QED BY <4>2, <4>3, <4>4
    <3> QED BY <3>1, <3>2
  <2> HIDE DEF t, u
  <2>5. ToSet(s \o t) = KeysOf(p) \cup ToSet(t)
    BY <2>3, <2>4, ToSetJoined DEF KeysOf
  <2>6. ToSet(<<p>> \o u) = {p} \cup ToSet(u)
    <3>1. <<p>> \in Seq(L) /\ ToSet(<<p>>) = {p}
      BY DEF ToSet
    <3> QED BY <2>4, <3>1, ToSetJoined
  <2> QED BY <2>2, <2>4, <2>5, <2>6
<1>5. S = Nat
  <2>1. S \in SUBSET Nat
    OBVIOUS
  <2> HIDE DEF S
  <2> QED BY <1>3, <1>4, <2>1, NatInductive
<1> HIDE DEF S
<1>6. ASSUME NEW n \in Nat PROVE Is(n)
  BY <1>5 DEF S
<1> QED BY <1>6

\* The keys of the tree, in ascending order, are what a scan finds.
ScanIsKeys ==
  /\ Scan \in Seq(Keys) /\ Ascending(Scan)
  /\ \A x : x \in ToSet(Scan) <=> HasKey(pages, x)

LEMMA NextImpliesScanIsKeys == NextInv => ScanIsKeys
<1> SUFFICES ASSUME NextInv PROVE ScanIsKeys
  OBVIOUS
<1>1. TreeInv
  BY DEF NextInv
<1>2. PICK R : InOrder(pages, call, R) /\ Chained(pages, R)
  BY DEF NextInv, ChainIn
<1> DEFINE n == MaxPage + 1
<1>3. n \in Nat /\ n <= MaxPage + 1
  BY TreeAssumption
<1>4. FirstLeaf \in LeafPages(pages)
  BY <1>1, <1>2, FirstIs
<1>5. Scan = ScanFrom[<<FirstLeaf, n>>] /\ Chain = ChainFrom[<<FirstLeaf, n>>]
  BY <1>1, <1>2, ScanFromIs, ChainFromIs
<1>6. Rising(R[FirstLeaf], Scan)
  BY <1>1, <1>2, <1>3, <1>4, <1>5, ScanRises
<1>7. \A x : x \in ToSet(Scan) <=> \E q \in ToSet(Chain) : x \in KeysOf(q)
  BY <1>1, <1>2, <1>3, <1>4, <1>5, ScanFollowsChain
<1>8. ToSet(Chain) = LeafPages(pages)
  BY <1>1, <1>2, ChainHasAll
<1>9. ASSUME NEW p \in DOMAIN pages, NEW x
      PROVE  x \in KeysOf(p) <=> \E i \in 1 .. pages[p].slotCount : LiveKeys(pages[p])[i] = x
  BY DEF KeysOf, LiveKeys, ToSet
<1>10. \A p \in DOMAIN pages : p \notin LeafPages(pages) => pages[p].slotCount = 0
  BY <1>1 DEF TreeInv, Nodes, NodeOK, LeafPages, Inner
<1>11. ASSUME NEW p \in DOMAIN pages, p \notin LeafPages(pages), NEW x PROVE x \notin KeysOf(p)
  BY <1>9, <1>10, <1>11
<1>12. \A x : HasKey(pages, x) <=> \E p \in LeafPages(pages) : x \in KeysOf(p)
  BY <1>9, <1>11 DEF HasKey, LeafPages
<1> QED BY <1>6, <1>7, <1>8, <1>12 DEF Rising, ScanIsKeys

LEMMA InvImpliesScanIsKeys == ChainInv => ScanIsKeys
BY NextImpliesScanIsKeys DEF ChainInv, NextInv

-----------------------------------------------------------------------------
(* A step changes one entry at most. *)

\* Of two ascending sequences with the same keys, each begins like the other.
LEMMA KeysAgree ==
  ASSUME NEW s \in Seq(Keys), NEW t \in Seq(Keys), Ascending(s), Ascending(t),
         ToSet(s) = ToSet(t)
  PROVE  Begins(s, t)
<1> DEFINE m == Len(s)
           n == Len(t)
           S == {k \in Nat : k <= m => k <= n /\ \A i \in 1 .. k : s[i] = t[i]}
<1>1. /\ m \in Nat /\ n \in Nat /\ DOMAIN s = 1 .. m /\ DOMAIN t = 1 .. n
      /\ \A i, j \in 1 .. m : i < j => s[i] < s[j]
      /\ \A i, j \in 1 .. n : i < j => t[i] < t[j]
  BY DEF Ascending
<1>2. /\ \A i \in 1 .. m : s[i] \in Int
      /\ \A i \in 1 .. n : t[i] \in Int
  <2>1. /\ \A i \in 1 .. m : s[i] \in Keys
        /\ \A i \in 1 .. n : t[i] \in Keys
    OBVIOUS
  <2>2. Keys \subseteq Int
    BY SlotsAssumption
  <2> QED BY <2>1, <2>2
<1> HIDE DEF m, n
<1>3. /\ \A i \in 1 .. m : \E j \in 1 .. n : t[j] = s[i]
      /\ \A i \in 1 .. n : \E j \in 1 .. m : s[j] = t[i]
  BY <1>1 DEF ToSet
<1>4. 0 \in S
  BY <1>1
<1>5. ASSUME NEW k \in S PROVE k + 1 \in S
  <2> DEFINE c == k + 1
  <2> SUFFICES ASSUME c <= m PROVE c <= n /\ \A i \in 1 .. c : s[i] = t[i]
    OBVIOUS
  <2>1. /\ k \in Nat /\ k <= m /\ k <= n /\ c \in 1 .. m /\ c \in Nat
        /\ \A i \in 1 .. k : s[i] = t[i] /\ i \in 1 .. m /\ i \in 1 .. n /\ i < c
        /\ \A i \in Nat : i >= 1 /\ i < c => i \in 1 .. k
        /\ \A i \in 1 .. c : i = c \/ i \in 1 .. k
    BY <1>1
  <2> HIDE DEF c, S
  <2>2. PICK j \in 1 .. n : t[j] = s[c]
    BY <1>3, <2>1
  <2>3. ~(j < c)
    <3> SUFFICES ASSUME j < c PROVE FALSE
      OBVIOUS
    <3>1. j \in 1 .. k
      BY <1>1, <2>1
    <3>2. s[j] = s[c] /\ s[j] < s[c]
      BY <1>1, <2>1, <2>2, <3>1
    <3> QED BY <1>2, <2>1, <3>2
  <2>4. c \in 1 .. n /\ c <= n /\ (c = j \/ c < j)
    BY <1>1, <2>1, <2>3
  <2>5. PICK i \in 1 .. m : s[i] = t[c]
    BY <1>3, <2>4
  <2>6. ~(i < c)
    <3> SUFFICES ASSUME i < c PROVE FALSE
      OBVIOUS
    <3>1. i \in 1 .. k
      BY <1>1, <2>1
    <3>2. t[i] = t[c] /\ t[i] < t[c]
      BY <1>1, <2>1, <2>4, <2>5, <3>1
    <3> QED BY <1>2, <2>4, <3>2
  <2>7. s[c] = t[c]
    <3>1. i = c \/ c < i
      BY <1>1, <2>1, <2>6
    <3>2. ASSUME c < j, c < i PROVE FALSE
      <4>1. t[c] < s[c] /\ s[c] < t[c]
        BY <1>1, <2>1, <2>2, <2>4, <2>5, <3>2
      <4> QED BY <1>2, <2>1, <2>4, <4>1
    <3> QED BY <2>2, <2>4, <2>5, <3>1, <3>2
  <2> QED BY <2>1, <2>4, <2>7
<1>6. S = Nat
  <2>1. S \in SUBSET Nat
    OBVIOUS
  <2> HIDE DEF S
  <2> QED BY <1>4, <1>5, <2>1, NatInductive
<1> HIDE DEF S
<1>7. m \in S /\ m <= m
  BY <1>1, <1>6
<1>8. m <= n /\ \A i \in 1 .. m : s[i] = t[i]
  BY <1>7 DEF S
<1> QED BY <1>8 DEF m, n, Begins

\* An ascending sequence is known by its keys.
LEMMA SameKeysSame ==
  ASSUME NEW s \in Seq(Keys), NEW t \in Seq(Keys), Ascending(s), Ascending(t),
         ToSet(s) = ToSet(t)
  PROVE  s = t
<1>1. Begins(s, t) /\ Begins(t, s)
  BY KeysAgree
<1>2. Len(s) = Len(t)
  BY <1>1 DEF Begins
<1> QED BY <1>1, <1>2 DEF Begins

\* With one key less it is the same but for the entry of the key.
LEMMA OneKeyLess ==
  ASSUME NEW s \in Seq(Keys), NEW t \in Seq(Keys), Ascending(s), Ascending(t),
         NEW k \in ToSet(s), \A x : x \in ToSet(t) <=> x \in ToSet(s) /\ x # k
  PROVE  \E i \in DOMAIN s : RemoveAt(s, i) = t
<1>1. PICK i \in 1 .. Len(s) : s[i] = k
  BY DEF ToSet
<1> DEFINE u == RemoveAt(s, i)
<1>2. /\ u \in Seq(Keys) /\ Ascending(u)
      /\ \A j \in 1 .. Len(u) : \E x \in 1 .. Len(s) : u[j] = s[x] /\ u[j] # s[i]
      /\ \A x \in 1 .. Len(s) : x = i \/ \E j \in 1 .. Len(u) : u[j] = s[x]
  BY RemovedAscending
<1> HIDE DEF u
<1>3. DOMAIN u = 1 .. Len(u) /\ DOMAIN s = 1 .. Len(s)
  BY <1>2
<1>4. ASSUME NEW x PROVE x \in ToSet(u) <=> x \in ToSet(s) /\ x # k
  <2>1. /\ x \in ToSet(u) <=> \E j \in 1 .. Len(u) : u[j] = x
        /\ x \in ToSet(s) <=> \E j \in 1 .. Len(s) : s[j] = x
    BY <1>3 DEF ToSet
  <2>2. ASSUME x \in ToSet(u) PROVE x \in ToSet(s) /\ x # k
    BY <1>1, <1>2, <2>1, <2>2
  <2>3. ASSUME x \in ToSet(s), x # k PROVE x \in ToSet(u)
    <3>1. PICK j \in 1 .. Len(s) : s[j] = x
      BY <2>1, <2>3
    <3>2. j # i
      BY <1>1, <2>3, <3>1
    <3> QED BY <1>2, <2>1, <3>1, <3>2
  <2> QED BY <2>2, <2>3
<1>5. ToSet(u) = ToSet(t)
  BY <1>4
<1>6. u = t
  BY <1>2, <1>5, SameKeysSame
<1> QED BY <1>1, <1>3, <1>6 DEF u

\* What a step may do to the keys of the tree: insert one that it does not have, or
\* remove one that it has.
KeysStep ==
  \/ SameKeys(pages, pages')
  \/ \E k \in Keys : ~HasKey(pages, k) /\ GainsKey(pages, pages', k)
  \/ \E k \in Keys : HasKey(pages, k) /\ LosesKey(pages, pages', k)

\* That is what every step does.
LEMMA StepKeys ==
  ASSUME Orderly, NextInv, [TreeNext]_treeVars, TreeInv'
  PROVE  KeysStep
<1>1. TreeInv
  BY DEF NextInv
<1>2. PICK R : InOrder(pages, call, R)
  BY DEF NextInv, ChainIn
<1>3. ASSUME pages' = pages PROVE KeysStep
  BY <1>3 DEF KeysStep, SameKeys
<1>4. ASSUME SameKeys(pages, pages') PROVE KeysStep
  BY <1>4 DEF KeysStep
<1>5. CASE UNCHANGED treeVars
  BY <1>3, <1>5 DEF treeVars
<1>6. ASSUME NEW k \in Keys, Insertion(k) PROVE KeysStep
  <2> DEFINE at == Search(k)
  <2>1. Ready /\ ~Present(k) /\ ~HasKey(pages, k)
    BY <1>6, PresentIs DEF Insertion, MayInsert
  <2>2. \/ InsertKey(k, at) \/ InsertThrows(k, at) \/ InsertAborts(k, at)
        \/ SplitLeaf(k, at) \/ SplitLeafDies(k, at) \/ SplitLeafFails(k, at)
    BY <1>6 DEF Insertion
  <2>3. ASSUME InsertKey(k, at) \/ SplitLeaf(k, at) PROVE KeysStep
    <3>1. GainsKey(pages, pages', k)
      BY <1>1, <1>2, <2>1, <2>3, InsertKeyOrder, SplitLeafOrder
    <3> QED BY <2>1, <3>1 DEF KeysStep
  <2>4. CASE InsertThrows(k, at)
    BY <1>3, <2>4 DEF InsertThrows
  <2>5. CASE InsertAborts(k, at)
    BY <1>3, <2>5 DEF InsertAborts
  <2>6. CASE SplitLeafDies(k, at)
    BY <1>3, <2>6 DEF SplitLeafDies
  <2>7. ~SplitLeafFails(k, at)
    BY DEF SplitLeafFails, Orderly
  <2> QED BY <2>2, <2>3, <2>4, <2>5, <2>6, <2>7
<1>7. ASSUME NEW k \in Keys, Removal(k) PROVE KeysStep
  <2> DEFINE at == Search(k)
  <2>1. Ready /\ MayRemove(k)
    BY <1>7 DEF Removal, MayRemove
  <2>2. RemoveKey(k, at) \/ RemoveNothing(k, at) \/ RemoveThrows(k, at)
    BY <1>7 DEF Removal
  <2>3. CASE RemoveKey(k, at)
    <3>1. LosesKey(pages, pages', k)
      BY <1>1, <1>2, <2>1, <2>3, RemoveKeyOrder
    <3>2. HasKey(pages, k)
      BY <2>1, PresentIs DEF MayRemove, Orderly
    <3> QED BY <3>1, <3>2 DEF KeysStep
  <2>4. CASE RemoveNothing(k, at)
    BY <1>1, <1>2, <1>4, <2>1, <2>4, RemoveNothingOrder
  <2>5. CASE RemoveThrows(k, at)
    BY <1>3, <2>5 DEF RemoveThrows
  <2> QED BY <2>2, <2>3, <2>4, <2>5
<1>8. CASE InsertStep
  <2>1. CASE InsertSeparator
    BY <1>1, <1>2, <1>4, <2>1, InsertSeparatorOrder
  <2>2. CASE SplitInner
    BY <1>1, <1>2, <1>4, <2>2, SplitInnerOrder
  <2>3. CASE PromoteRoot
    BY <1>1, <1>2, <1>4, <2>3, PromoteRootOrder
  <2>4. CASE SplitInnerAborts
    BY <1>3, <2>4 DEF SplitInnerAborts
  <2>5. ~ClimbFails
    BY DEF ClimbFails, Orderly
  <2> QED BY <1>8, <2>1, <2>2, <2>3, <2>4, <2>5 DEF InsertStep
<1>9. CASE SearchFails
  BY <1>9 DEF SearchFails, Orderly
<1> QED BY <1>5, <1>6, <1>7, <1>8, <1>9 DEF TreeNext

\* So a scan finds one entry more, or one less, or the same.
LEMMA StepEntries ==
  ASSUME ScanIsKeys, ScanIsKeys', KeysStep
  PROVE  LET old == Scan
             new == Scan'
         IN  \/ new = old
             \/ \E i \in DOMAIN new : RemoveAt(new, i) = old
             \/ \E i \in DOMAIN old : RemoveAt(old, i) = new
<1> DEFINE old == Scan
           new == Scan'
<1>1. /\ old \in Seq(Keys) /\ Ascending(old)
      /\ \A x : x \in ToSet(old) <=> HasKey(pages, x)
  BY DEF ScanIsKeys
<1>2. /\ new \in Seq(Keys) /\ Ascending(new)
      /\ \A x : x \in ToSet(new) <=> HasKey(pages', x)
  BY DEF ScanIsKeys
<1> HIDE DEF old, new
<1>3. CASE SameKeys(pages, pages')
  <2>1. ToSet(old) = ToSet(new)
    BY <1>1, <1>2, <1>3 DEF SameKeys
  <2> QED BY <1>1, <1>2, <2>1, SameKeysSame DEF old, new
<1>4. ASSUME NEW k \in Keys, ~HasKey(pages, k), GainsKey(pages, pages', k)
      PROVE  \E i \in DOMAIN new : RemoveAt(new, i) = old
  <2>1. k \in ToSet(new) /\ \A x : x \in ToSet(old) <=> x \in ToSet(new) /\ x # k
    BY <1>1, <1>2, <1>4 DEF GainsKey
  <2> QED BY <1>1, <1>2, <2>1, OneKeyLess
<1>5. ASSUME NEW k \in Keys, HasKey(pages, k), LosesKey(pages, pages', k)
      PROVE  \E i \in DOMAIN old : RemoveAt(old, i) = new
  <2>1. k \in ToSet(old) /\ \A x : x \in ToSet(new) <=> x \in ToSet(old) /\ x # k
    BY <1>1, <1>2, <1>5 DEF LosesKey
  <2> QED BY <1>1, <1>2, <2>1, OneKeyLess
<1> QED BY <1>3, <1>4, <1>5 DEF KeysStep, old, new

\* The step changes the keys that a scan finds as it changes those of the pages.
LEMMA KeysFollow ==
  ASSUME ScanIsKeys, ScanIsKeys'
  PROVE  /\ SameKeys(pages, pages') => ToSet(Scan)' = ToSet(Scan)
         /\ \A k : GainsKey(pages, pages', k) => ToSet(Scan)' = ToSet(Scan) \cup {k}
         /\ \A k : LosesKey(pages, pages', k) => ToSet(Scan)' = ToSet(Scan) \ {k}
<1> DEFINE s == ToSet(Scan)
<1>1. /\ \A x : x \in s <=> HasKey(pages, x)
      /\ \A x : x \in s' <=> HasKey(pages', x)
  BY DEF ScanIsKeys
<1> HIDE DEF s
<1>2. SameKeys(pages, pages') => s' = s
  BY <1>1 DEF SameKeys
<1>3. \A k : GainsKey(pages, pages', k) => s' = s \cup {k}
  BY <1>1 DEF GainsKey
<1>4. \A k : LosesKey(pages, pages', k) => s' = s \ {k}
  BY <1>1 DEF LosesKey
<1> QED BY <1>2, <1>3, <1>4 DEF s

-----------------------------------------------------------------------------
\* The leaves of the tree are doubly linked, none of them twice on the chain (ChainLinked,
\* for the links that splitLeaf and promoteRoot set): for any number of pages, any keys
\* and sizes, with clients and a pager that are Orderly.
THEOREM ChainStaysLinked ==
  ASSUME Orderly
  PROVE  TreeSpec /\ []LevelsFit => []ChainLinked
<1>1. ChainInv /\ [TreeNext]_treeVars /\ LevelsFit' => ChainInv'
  BY StepInv, StepChain DEF ChainInv
<1>2. TreeSpec /\ []LevelsFit => []ChainInv
  BY <1>1, ChainInit, PTL DEF TreeSpec
<1> QED BY <1>2, InvImpliesLinked, PTL

\* A scan with Cursor::next finds the keys in ascending order (ScanAscending).
THEOREM ScansAscend ==
  ASSUME Orderly
  PROVE  TreeSpec /\ []LevelsFit => []ScanAscending
<1>1. ChainInv /\ [TreeNext]_treeVars /\ LevelsFit' => ChainInv'
  BY StepInv, StepChain DEF ChainInv
<1>2. TreeSpec /\ []LevelsFit => []ChainInv
  BY <1>1, ChainInit, PTL DEF TreeSpec
<1> QED BY <1>2, InvImpliesAscending, PTL

\* Between insertions the chain has the leaves that search can come to, from left to
\* right, and no leaf is lost (ChainIsTree).
THEOREM ChainStaysTree ==
  ASSUME Orderly
  PROVE  TreeSpec /\ []LevelsFit => []ChainIsTree
<1>1. ChainInv /\ [TreeNext]_treeVars /\ LevelsFit' => ChainInv'
  BY StepInv, StepChain DEF ChainInv
<1>2. TreeSpec /\ []LevelsFit => []ChainInv
  BY <1>1, ChainInit, PTL DEF TreeSpec
<1> QED BY <1>2, InvImpliesTree, PTL

\* No step loses an entry, doubles one or puts it elsewhere, in splitting, compacting and
\* promoting pages (OneEntryAtATime).
THEOREM EntriesComeAndGo ==
  ASSUME Orderly
  PROVE  TreeSpec /\ []LevelsFit => OneEntryAtATime
<1>1. ChainInv /\ [TreeNext]_treeVars /\ LevelsFit' => ChainInv'
  BY StepInv, StepChain DEF ChainInv
<1>2. TreeSpec /\ []LevelsFit => []ChainInv
  BY <1>1, ChainInit, PTL DEF TreeSpec
<1>3. ChainInv /\ [TreeNext]_treeVars /\ ChainInv' => KeysStep
  BY StepKeys DEF ChainInv, NextInv
<1>4. ScanIsKeys /\ ScanIsKeys' /\ KeysStep =>
        [LET old == Scan
             new == Scan'
         IN  \/ new = old
             \/ \E i \in DOMAIN new : RemoveAt(new, i) = old
             \/ \E i \in DOMAIN old : RemoveAt(old, i) = new]_treeVars
  BY StepEntries
<1> QED BY <1>2, <1>3, <1>4, InvImpliesScanIsKeys, PTL DEF TreeSpec, OneEntryAtATime
=============================================================================
