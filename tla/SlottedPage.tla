----------------------------- MODULE SlottedPage -----------------------------
(***************************************************************************)
(* The pages of the B+ tree (src/src/btree/btree_page.*, and the functions *)
(* of btree.cpp that work on one page).                                    *)
(*                                                                         *)
(* In a leaf, cells grow up from the header and the slot table grows down  *)
(* from the footer.  Sizes are counted in slots (four bytes); a cell is a  *)
(* key, which stands for its value too, followed by filler.  A slot that   *)
(* is no longer counted keeps its offset, and the code does read the first *)
(* of those, so `slots' is the whole slot table and slotCount says how     *)
(* much of it is in use.  Inner pages never lose an entry except by        *)
(* compaction: theirs is the sequence `seps' of separator keys and         *)
(* children.  Slot indices start at 0, as in the code.  `room' is what a   *)
(* page has of space: page 0 has less, for the FileHeader is in it.        *)
(***************************************************************************)
EXTENDS Integers, Sequences, FiniteSets, SequencesExt

CONSTANTS
  Keys,      \* the keys clients use, positive integers ordered as memcmp does
  CellSize,  \* the size of the cell of each key, header and value included
  SepSize,   \* the size of a separator's cell
  Usable,    \* what a page holds of cells and slots
  ZeroUsable \* what page 0 holds of them

ASSUME SlotsAssumption ==
  /\ Keys \subseteq Nat \ {0}
  /\ CellSize \in [Keys -> Nat \ {0}]
  /\ SepSize \in Nat \ {0}
  /\ Usable \in Nat \ {0}
  /\ ZeroUsable \in 1 .. Usable

NoKey == 0     \* what filler and zeroed bytes read as
INVALID_TREE_LEVEL == 255

-----------------------------------------------------------------------------
(* Leaves. *)

\* getKey: slot i of a leaf, counted or not.
KeyAt(pg, i) ==
  IF i < Len(pg.slots) /\ pg.slots[i + 1] <= Len(pg.area)
  THEN pg.area[pg.slots[i + 1]]
  ELSE NoKey

LiveKeys(pg) == [i \in 1 .. pg.slotCount |-> KeyAt(pg, i - 1)]

Cell(k) == [i \in 1 .. CellSize[k] |-> IF i = 1 THEN k ELSE NoKey]

\* Cells one after the other, and the slots that point at them.
Cells(ks) ==
  LET upto[n \in 0 .. Len(ks)] == IF n = 0 THEN <<>> ELSE upto[n - 1] \o Cell(ks[n])
  IN upto[Len(ks)]

Offsets(ks) ==
  LET offset[n \in DOMAIN ks] == IF n = 1 THEN 1 ELSE offset[n - 1] + CellSize[ks[n - 1]]
  IN [n \in DOMAIN ks |-> offset[n]]

FreeSpace(pg) == pg.room - pg.slotCount - Len(pg.area)

\* Mutant: the slot of the new entry is forgotten.
CellOnly(k) == CellSize[k]

EntrySize(k) == CellSize[k] + 1

\* Slots that are not counted are overwritten as the cells grow.
Uncovered(slots, left) ==
  SubSeq(slots, 1, IF Len(slots) <= left THEN Len(slots) ELSE left)

\* Mutant: the slots after the new one are not moved.
InsertWithoutShift(pg, index, k) ==
  [pg EXCEPT
     !.slots = SubSeq(@, 1, index) \o <<Len(pg.area) + 1>>
                 \o SubSeq(@, index + 2, Len(@)),
     !.slotCount = @ + 1,
     !.area = @ \o Cell(k)]

\* insertIntoLeaf: the slots from index on move up by one.
InsertIntoLeaf(pg, index, k) ==
  [pg EXCEPT
     !.slots = Uncovered(InsertAt(SubSeq(@, 1, pg.slotCount), index + 1, Len(pg.area) + 1)
                           \o SubSeq(@, pg.slotCount + 2, Len(@)),
                         pg.room - Len(pg.area) - CellSize[k]),
     !.slotCount = @ + 1,
     !.area = @ \o Cell(k)]

\* remove: the slots after index move down by one.  Nothing checks that index
\* is below slotCount.
RemoveFromLeaf(pg, index) ==
  [pg EXCEPT
     !.slots = IF index >= pg.slotCount THEN @
               ELSE RemoveAt(SubSeq(@, 1, pg.slotCount), index + 1)
                      \o SubSeq(@, pg.slotCount, Len(@)),
     !.slotCount = @ - 1]

\* compactPage's buffer has no room for the first slot's worth of cells above
\* the slot table: a page with no space left cannot be compacted.
Compactable(pg) ==
  Len(Cells(LiveKeys(pg))) <= pg.room - (pg.slotCount + 1)

\* compactPage rewrites the cells of the counted slots in slot order.  Its
\* buffer also wipes the slots after them, but for the first.
Compact(pg) ==
  LET ks == LiveKeys(pg) IN
  [pg EXCEPT
     !.slots = IF Len(@) > pg.slotCount THEN Append(Offsets(ks), @[pg.slotCount + 1])
               ELSE Offsets(ks),
     !.area = Cells(ks)]

\* A new page filled by insertIntoLeaf.
FillLeaf(pg, ks) ==
  [pg EXCEPT !.slots = Offsets(ks), !.slotCount = Len(ks), !.area = Cells(ks)]

-----------------------------------------------------------------------------
(* Inner pages. *)

SepCount(pg) == Len(pg.seps)

\* getChild
ChildOf(pg, i) == IF i = SepCount(pg) THEN pg.next ELSE pg.seps[i + 1].child

InnerFree(pg) == pg.room - SepCount(pg) * (SepSize + 1)

\* Mutant: the slot of the new separator is forgotten.
SepCellOnly == SepSize

\* splitAndInsert counts the child's page number twice.
SepNeed == SepSize + 2

\* Mutant: the child after the new separator stays what it was.
InsertWithoutSetChild(pg, index, k, l, r) ==
  [pg EXCEPT !.seps = InsertAt(@, index + 1, [key |-> k, child |-> l])]

\* insertIntoInner, with the setChild it ends in.
InsertIntoInner(pg, index, k, l, r) ==
  LET s == InsertAt(pg.seps, index + 1, [key |-> k, child |-> l])
  IN  IF index + 1 = Len(s) THEN [pg EXCEPT !.seps = s, !.next = r]
      ELSE [pg EXCEPT !.seps = [s EXCEPT ![index + 2].child = r]]

-----------------------------------------------------------------------------
(* Searching and splitting. *)

\* Mutant: the search stops one entry early.
SearchShort(ks, k) ==
  LET below == {i \in DOMAIN ks : ks[i] < k}
  IN IF below = {} THEN 0 ELSE Cardinality(below) - 1

\* searchLeaf and searchInner: the binary search of k in the sorted ks.
SearchIn(ks, k) ==
  LET find[range \in (0 .. Len(ks)) \X (-1 .. Len(ks) - 1)] ==
        LET low == range[1]
            high == range[2]
            mid == low + (high - low) \div 2
        IN  IF low > high THEN low
            ELSE IF k = ks[mid + 1] THEN mid
            ELSE IF k > ks[mid + 1] THEN find[<<mid + 1, high>>]
            ELSE IF mid = 0 THEN mid ELSE find[<<low, mid - 1>>]
  IN find[<<0, Len(ks) - 1>>]

\* The sum of the first n sizes.
SumOf(sizes, n) ==
  LET upto[i \in 0 .. n] == IF i = 0 THEN 0 ELSE upto[i - 1] + sizes[i]
  IN upto[n]

\* splitLeaf and splitInner: the number of entries that stay in the left page,
\* the sum of whose sizes is nearest to half of that page.
SplitIndex(pg, sizes) ==
  LET minOccupancy == pg.room \div 2
      last == CHOOSE i \in DOMAIN sizes : /\ SumOf(sizes, i) >= minOccupancy
                                          /\ SumOf(sizes, i - 1) < minOccupancy
  IN  IF SumOf(sizes, last) - minOccupancy <= minOccupancy - SumOf(sizes, last - 1)
      THEN last ELSE last - 1
=============================================================================
