# LiliumDB in TLA+

LiliumDB is a small embedded database: a file of pages, a buffer pool over it,
and a B+ tree over the pool (`src/src/`; paths below are relative to the
repository unless they start with `src/src/`). This directory models the three
layers, checks the models with TLC and proves with TLAPS the invariants of the buffer
pool and of its free list, what it keeps through a crash, the order of the tree, its
chain of leaves, and that tree and cursor are a sorted map, also over a pool that
drops pages. The reference is the code; the comments in the headers, the tests
and `notes/lilium_db_notes.txt` are what the code is compared with.

## 1. The system

The program has one thread. What makes it hard is not threads but the order of
operations that clients choose, caches and counters that describe the same thing
twice, errors in the middle of an operation, and the death of the process
between two writes.

| Component | State | Operations | Uses |
|---|---|---|---|
| `StdPageIO` (`storage/`) | a file of 4096-byte pages, an iostream, `pageCount_` | open, readPage, writePage | the file system |
| `LRUPager` (`pager/lru_pager.*`) | `frames_` and `pool_`, `lruList_`, `pageMap_`, `nextFreeFrame_`, `freespaceHead_`, `appendStart_`, `highestAllocated_` | open, fetchPage, newPage, deletePage, flushPage, flushAll, close, destructor; pin, unpin, markDirty for guards | `StdPageIO` |
| `PageGuard` (`pager/page_guard.*`) | page number, a pointer into the pool, its own `dirty_` | span, subspan, setHeader, reset, move | calls back into the pager through `PinManager` |
| slotted pages (`btree/btree_page.*`) | cells, slot table, header of a page | getKey, getValue, getChild, setChild, insertIntoLeaf, insertIntoInner, compactPage | `ByteSpan` |
| `BTree` (`btree/btree.*`) | nothing but the root's page number; the tree is in the pages | insert, remove, seek, first, last; splitLeaf, splitInner, promoteRoot | `Pager`, slotted pages |
| `Cursor` (`btree/cursor.*`) | a guard and a slot | next, prev, key, value | `Pager`, slotted pages |
| file format (`common/file_format.h`) | – | the fields of FileHeader and PageHeader | – |
| `ByteSpan`, `Flags`, `Result`, `Status`, `hexdump` (`utils/`, `common/`) | none | access with bounds checks; error channel; printing | – |
| `rebalance`, `mergeLeaf`, `mergeInner` | – | empty stubs, called by nobody | – |

How they interact. A client holds `PageGuard`s; each pins a frame, and the pager
reuses a frame only if nothing pins it, writing it first if it is dirty. Whether
it is dirty depends on the guard having called `markDirty`. New pages are
appended to the file in page-number order only, whichever order evictions and
flushes come in. The tree holds guards on the path from the root while it
splits, and links leaves through the page headers.

What makes each component correct:

* **Pool**: the four structures that say which page is where agree; a pinned
  frame is never reused; a frame that is dropped without writing is equal to the
  file; every page a client owns can be had; the pool is invisible: a page
  contains what was last written to it.
* **Free list**: no page is handed out while somebody owns it.
* **Sessions**: flush loops end; `close` succeeds on a stream that works; a file
  that has been closed can be opened again; a session that dies leaves what was
  there after the last `flushAll` or `close`.
* **Tree**: separators tell children apart; the chain of leaves is the sequence
  of leaves under the root; a scan finds keys in order; a step changes one entry
  at most; tree and cursor are a sorted map, also over a pool that drops pages
  which it does not know to be changed.

## 2. The modules

| Module | Models | Lines of code behind it |
|---|---|---|
| `StdPageIO` | the file and its stream | `storage/std_page_io.cpp` |
| `LRUPager` (EXTENDS `StdPageIO`) | pager and guards | `pager/lru_pager.cpp`, `pager/page_guard.cpp` |
| `PageStore` | what a pager promises: pages that keep their contents | the comments of `pager/pager.h` |
| `DurableStore` (EXTENDS `PageStore`) | and what is left when the session dies | the same; implemented by `Durability` |
| `Durability` (EXTENDS `LRUPager`) | the pager over sessions that die, with a history of what the client counts on | `pager/lru_pager.cpp` |
| `MCDurability` | two guards and symmetry for TLC | – |
| `LRUPagerProofs` | theorems about `LRUPager` | – |
| `DurabilityProofs` | theorems about `Durability`, when nothing is deleted | – |
| `FreeListProofs` | theorems about the free list, in a session and on file | – |
| `SlottedPage` | one page of the tree: cells, slots, search, split point | `btree/btree_page.*`, parts of `btree/btree.cpp` |
| `BTree` (EXTENDS `SlottedPage`) | insert and remove, level by level | `btree/btree.cpp` |
| `BTreePool` (EXTENDS `BTree`) | the tree over a pool that evicts what it takes for unchanged | `btree/btree.cpp`, `pager/page_guard.cpp` |
| `BTreeCursor` (EXTENDS `BTree`) | seek, first, last and one cursor | `btree/btree.cpp`, `btree/cursor.*` |
| `OrderedMap` | what tree and cursor promise: a sorted map | implemented by `BTreeCursor` and, for the keys, by `BTreePool` |
| `MCBTree`, `MCBTreeCursor`, `MCBTreePool` | entry sizes for TLC | – |
| `BTreeProofs` | lemmas about sums, searching, cells, sequences and one page; theorems about the pages of `BTree` | – |
| `BTreeOrderProofs` (EXTENDS `BTreeProofs`) | theorems about the order of the keys in `BTree` | – |
| `BTreeChainProofs` (EXTENDS `BTreeOrderProofs`) | theorems about the chain of leaves, and what a scan finds | – |
| `BTreeMapProofs` (EXTENDS `BTreeChainProofs`, `BTreeCursor`) | theorems about the cursor, and that `OrderedMap` is implemented | – |
| `BTreePoolProofs` (EXTENDS `BTreeChainProofs`, `BTreePool`) | theorems about the tree over a pool that drops pages | – |

### StdPageIO and LRUPager

The variables carry the names of the fields without the trailing underscore.
A page (`PageImage`) has the fields that the pager reads back: whether the file
header is valid, its page count and free-list head (page 0 only), the header's
`next`, and a `body` that stands for everything else. `file` is what is on disk,
`good` is the state of the iostream, which stays bad after one error. An append
that fails half-way, or in which the process dies, leaves the file `torn`: its
size is no number of pages, and `open` refuses it (`TearAppend`). `live`, a
history variable, is the set of pages the client owns: created, or found in a
file it opened, and not deleted.

An operation is one step with all that it calls: `NewPageFresh` takes a frame
(perhaps evicting and writing a page), initialises it and pins it. An error
return that changes something is an action of its own (`FetchPageFails`,
`NewPageFreshFails`); one that changes nothing is a stutter. The loops of
`flushPage`, `flushAll`, `close` and the destructor take one step per page, with
`call` as their program counter, so that a crash or an error can come between
two writes. An assertion or a null dereference is the outcome `status =
"aborted"`. Uninitialised fields are an arbitrary choice (`OpenRejected`: a pager
that is destroyed because the file was rejected writes whatever it has into the
header).

`Usage` says which of the things that clients and the environment may do occur
in a run: flushing, deleting, touching pages one does not own, writing through a
guard older than a flush, closing with guards alive, stream errors, crashes,
foreign files, a `newPage` when every frame is in use. It guards actions only; no
handler is changed by it. Properties
that hold for every client are checked with all of it, properties that need a
discipline with the discipline's part of it, and the divergences of section 5
are what happens with a little more.

### PageStore, DurableStore and Durability

`PageStore` is a store of pages with handles on them, and no pool, file or free
list. A session of it that dies may forget or corrupt anything. `DurableStore`
says what it may not: `kept` is, for each page that was there at the last `Sync`
or `Stop`, the contents it has had since, and after a `Die` the store has exactly
those pages, each with one of those contents.

`Durability` runs `LRUPager` with the same history: `Keep` starts it anew when a
`flushAll`, `close` or destructor returns without an error, and adds to it what
the client writes otherwise. When the process dies (`Dies`) the client goes on
with the pages of `kept` as they are on file (`GoOn`); in `LRUPager` alone, whose
theorems are about any client, it goes on with some of its pages. `"crash"`
lets the process die between two operations, `"crashFlushing"` between two
writes of a flush loop.

One assumption is made about what is not in the repository: a write is with the
operating system, which outlives the process, when `writePage` returns. Nothing
in `StdPageIO` flushes the stream, so the code leaves this to the library:
libstdc++ passes a write of 1024 bytes or more straight on, and a page has 4096.
With a library that kept pages back, `SyncedSurvive` would not hold. The code
calls no `fsync` either, and nothing is claimed of a machine that loses power.

### SlottedPage, BTree and BTreeCursor

Sizes are counted in slots (four bytes). Page 0, the root, has less `room` than
the other pages, for the FileHeader is in it; a leaf that splits takes half of
its own page for the measure, so the root splits earlier. A leaf has an `area` of cells, growing
up, and a table `slots` of offsets into it of which `slotCount` count; those
after them keep their contents until an insertion or a compaction overwrites
them, because the code reads the first of them. A value goes with its key. Inner
pages are a sequence of separators and children, since no entry of theirs is
ever dead. `SearchIn` is the binary search of the code, step by step, and
`SplitIndex` its choice of the split point.

`insert` takes one step for the leaf and one for each inner page it has to
change; `call` is the insertion on its way up. Between two of the steps the pager
may fail, which ends the insertion with what it has done so far. `remove`, `seek`
and the cursor's moves are one step each. Outcomes: `answer` is what the
operation returned (`"throws"` is the out_of_range of `ByteSpan`), `status` is
`"aborted"` after an assertion and `"corrupt"` when a page has been overrun.

`Usage` here: removing absent keys, removing or seeking separators, emptying
leaves, seeking past the end of a leaf, splitting inner pages where `splitInner`
is wrong (see section 5), failures of the pager. Clients insert keys that are not
in the tree, and drop their cursor before they change it.

### BTreePool

The tree changes a page through `span()`, which marks it dirty, or through
`setHeader`, which does not. `clean` holds, for each page that is not marked,
what is on file of it; every operation of `BTree` is repeated here with the pages
that it `Marks`. Between two operations the pager may write a page (`WriteBack`)
or drop one that is not marked and read it again (`Drop`), which takes it back to
what is on file. During an operation the pages that it still needs are pinned.
How the pool chooses its victims is `LRUPager`'s matter: here any page may go at
any time, which is more than the pool can do.

## 3. The runs

| Run | Question | Bounds |
|---|---|---|
| `LRUPager_disciplined` | Does a client that marks what it writes lose anything, with evictions, misses, flushes, sessions, foreign files, deleting a page that is not in the pool (which aborts), and crashes also inside a flush? `CleanMatchesFile`, `LiveReachable`, `SyncedSurvive`, `ImplementsDurableStore` | 2 frames, 2 guards, 3 pages |
| `LRUPager_any_usage` | What holds whatever the client and the environment do? `PoolConsistent`, `PinsMatchGuards`, `FlushEnds`, `CloseLeavesOpenable` | 1 frame, 2 guards, 2 pages, all of `Usage` |
| `LRUPager_free_list` | Deleting, reusing and evicting pages, with crashes between operations: is a page handed out twice (`FreeListNotLive`, and `SyncedNotFree` after a crash), are contents kept (`SyncedSurvive`, `ImplementsDurableStore`)? | 2 frames, 1 guard, 4 pages, one body |
| `BTree_disciplined` | Are tree and cursor a sorted map (`ImplementsMap`, `CursorMovesAsInMap`), and why: `SeparatorsSeparate`, `ChainIsTree`, `ScanAscending` | 7 keys of two sizes, leaves of 1 or 2 entries, inner pages of 3 separators, 9 pages |
| `BTree_any_usage` | What survives absent keys, empty leaves, full pages and failing splits? `ChainLinked`, `OneEntryAtATime`, `WalksInOrder` | 5 keys, one as large as page 0, leaves of 2 or 3 small entries, 5 pages |
| `BTreePool` | Does a page that is changed without being marked and then dropped change the set of keys (`ImplementsPooledMap`, `UnmarkedIsOnFile`) or break the walk back (`PrevLeadsLeft`)? With a pager that fails inside a split and inner pages that split at an edge | 5 keys, leaves and inner pages of 2 entries, 6 pages, page 0 of the size of the others |
| six runs that end in a violation | the divergences of section 5 | |

Why the bounds suffice. The pool's hazards need a frame to be taken from one
page for another while guards, flags and counters still speak of the first: one
frame and two pages do that, and two frames add the choice of a victim and its
order. Three pages let evictions append to the file out of order, and a crash
come when page 0 and one of two new pages are on file. The free list takes four: a
list of three pages over two frames has a part in the pool, a part on file, and a
head that neither may pass over (with three pages, `newPage` refused for want of a
frame looked harmless; section 5). Its contents are told apart by the link
alone. Two guards are what moving and sharing a pin takes. `MaxPage` is the only bound on behaviours
(`NewPageFresh`, `Flushing`); sessions, crashes and operations are unlimited.
`INVALID_PAGE` is 99: any number above `MaxPage` will do as long as nothing
computes with it. Elsewhere one body besides the empty one tells "kept" from "lost".
Leaves of one to three entries make every position of a new entry relative to
the split happen, below, at and above it; two sizes make the split point depend
on sizes; seven keys make leaf splits overflow an inner page, and three
separators give its split an interior position; a key as
large as page 0 makes the right page of a split overflow and makes a page
exactly full. A page that the pool drops goes back to an older state of its own,
so `BTreePool` needs a few splits and promotions and no more; it gives page 0
the size of the others to stay small, which the two other runs do not.

Deadlock is checked for the pager, except in `LRUPager_any_usage`: a torn file
can never be opened again. For the tree it is not: after an assertion,
or when all of `MaxPage` is allocated, the model has no next step.

Fairness. `FlushEnds` (every flush loop ends) assumes weak fairness of
`FlushLoop`, the steps of the loop in progress. The loop belongs to a call that
is on the only thread's stack, so as long as the process lives nothing else runs
until it has taken its next step. Nothing is assumed of clients, of the stream or
of crashes.

Each property of a passing run has a mutant, a definition with a plausible error
next to the one it replaces ("Mutant:" in the comments), with which TLC finds
the property violated.

## 4. What is proved

Each theorem holds for every value of the constants that the assumptions named in
the modules allow: any number of pages, frames and guards, any contents, keys and
sizes.

### The pool, for any client

From `IOAssumption` and `PagerAssumption` alone, for every `Usage`:

* `LRUPagerProofs!TypeCorrect`: `Spec => []TypeOK`. Inductive as it stands.
  The work is in eviction: `MoveToFront` and `Cons` keep a sequence of frames a
  sequence of frames (lemmas `ConsFacts`, `RemoveAtFacts`, `MoveToFrontFacts`).
* `LRUPagerProofs!PoolIsConsistent`: `Spec => []PoolConsistent`. Inductive
  relative to `TypeOK`. `TakeFramePool` is its core: a fresh frame is in no
  structure, and a victim leaves all of them before it is given to the new page.
* `LRUPagerProofs!PinsAreGuards`: `Spec => []PinsMatchGuards`. Needs
  `PoolConsistent`, since a guard unpins the frame that `pageMap_` names and not
  the one it points at, and `NoGuardWhenClosed`, since `open` starts with an
  empty pool. `TakenFrameUnheld` is the step that matters: the victim has a pin
  count of zero, so by the invariant nobody holds it.
* `LRUPagerProofs!ClosedFileCanBeOpened`: `close` and the destructor never
  leave a file that the next `open` rejects. The invariant (`CloseInv`) says that
  page 0 is a valid header on file as soon as the file has a page, and in the pool
  while the stream works; that after a torn append the stream has failed and its page
  is still dirty, so that nothing more is written; and that the loop has cleaned the
  pages it has passed, so that it does not report success over a page it skipped.

### What outlives the process

`Disciplined` is what these need: the client deletes no page, fetches none that it
does not own, does not use `span()` through a guard older than the last flush
(`"staleSpan"`) nor `setHeader` on a page that is not marked dirty (`"headerOnly"`),
changes nothing in a file opened read-only, and the stream reports no error. With any one of
these allowed TLC finds `CleanMatchesFile` or `LiveReachable` violated. Crashes, also between two writes
of a flush, foreign files, misses, closing with guards alive and deleting a page
that is not in the pool are all allowed.

* `DurabilityProofs!DurableTypeCorrect` (any `Usage`).
* `DurabilityProofs!CleanIsOnFile`: `[]CleanMatchesFile`; an eviction that does not
  write loses nothing.
* `DurabilityProofs!LiveIsReachable`: `[]LiveReachable`; a page of the client's is in
  the pool or on file.
* `DurabilityProofs!SyncedPagesSurvive`: `[]SyncedSurvive`; what the last completed
  `flushAll` or `close` left is on file in every state, with contents the page has had
  since.
* `DurabilityProofs!PagerImplementsStore`: `Durability` implements
  `DurableStore`, sessions, crashes and reopenings included. One lemma per action:
  most steps are stutters, since the map of contents (`content`) does not change when
  a page moves between the pool and the file.

They rest on one inductive invariant, `DurableInv`, with the pool's own. None of its
parts is inductive alone. `LiveReachable` needs `CleanMatchesFile`, since an eviction
drops a clean frame; both need that guards are on pages of the client's
(`GuardsLive`) and that page 0 is a valid header in each copy of it (`HeaderOK`). That
what is in safety survives (`KeptOK`) needs the count in the header: page 0 may
be written at any time, and each copy of it must count the pages in safety. When
`flushAll` returns, everything is on file because its loop has cleaned the pages it has
passed (`FlushLoopOK`).

### The free list

`DeletesOwnPages` is the client of these: it deletes only pages of its own, stores no
links in them (`Links`) and calls `newPage` when a frame can be had; the stream reports
no error and the process dies between operations. Without any one of these TLC finds
`FreeListNotLive` violated. Left out of the proof, though TLC finds nothing wrong with
them in the run's bounds: `flushPage`, guards older than a flush, files opened read-only
and foreign files.

* `FreeListProofs!FreePagesAreNotLive`: `[]FreeListNotLive`; no page that `newPage`
  would hand out, now or later, is in use.
* `FreeListProofs!FreePagesOnFileAreNotKept`: `[]SyncedNotFree`; nor does a crash
  leave a list that leads to a page in safety.

`deletePage` marks nothing dirty: a page's link is lost if it is evicted while it is
clean, and after a crash the header, the links that have reached the file and those that have
not are from different times. The invariant, `FreeInv`, gives every page a height
(`Heights`): 0 for a page in use, and above it the order in which pages were deleted.
In the session (`FreeListOK`) the head is the highest page and every link leads down or
nowhere: the link in the pool, and also the one on file of a page that an eviction
would drop without writing. Links may skip pages that are lost, but none that is in the pool. The part
that carries it is about the order of eviction: pages deleted later were used later, so
they are nearer the front of `lruList_` (`Before`) and stay in the pool longer than
those below them. When a page's link reaches the file, all below it has reached it
before, or has been dropped; so the list that a crash would leave (`FreeOnFileOK`) has
heights too, of its own: those of the session up to the page just written, and above them
what was on file already (`SplicedHeights`). If victims are chosen freely TLC finds
`FreeListNotLive` violated.

What the invariant needs besides: no page number is lost, so that every page up to
`highestAllocated_` is in the pool or on file (`SessionOK`); pages of the client's are not linked
(`NotLinked`); clean pages are on file (`CleanOnFile`), and the copies of the header
agree (`HeaderOK`). From heights to the two properties is a walk: `FreeList` is a recursive
function, all of whose values have a height (`WalkInList`).

### One page

The first part of `BTreeProofs` says what the operators on a
page do, for any page that is in order (`PageOK`: within its bounds, and each
counted slot points at a key).

* `SearchSeparates`: the binary search of `searchLeaf` and `searchInner`, on
  ascending keys, returns how many are smaller than the one looked for;
  `SearchWithin`: on any keys it ends, within them.
* `SplitBounds`: where a split is made; what stays fits, and something goes.
* `InsertIntoLeafIs`, `RemoveFromLeafIs`, `CompactIs`, `LeafSplitIs`,
  `InsertIntoInnerIs`, `LeftInnerIs`, `RightInnerIs`, `RootCopyIs`,
  `PromotedRootIs`: each operation keeps a page in order, and what becomes of its
  entries and children.

### The tree

* `BTreeProofs!TreeTypeCorrect`: `TreeSpec /\ []LevelsFit => []TypeOK`, for any
  `Usage`: whatever a client does and wherever the pager fails, pages stay within
  their bounds.
* `BTreeProofs!SmallTreeTypeCorrect`: without `LevelsFit` when there are fewer pages
  than levels, as in the runs.
* `BTreePoolProofs!PoolTypeCorrect`: the same over a pool that writes and drops pages
  at will, for any `Usage`.
* `BTreePoolProofs!UnmarkedPagesAreOnFile`: unless the entry in the last slot of a
  leaf is removed (section 5), a page that is not marked dirty is on file as the tree
  left it (`UnmarkedIsOnFile`).

`TypeOK` is not inductive: that a half of a split fits, or the copy of a root,
depends on what the step before has made of the page. `TreeInv` adds that every page is a leaf
or, at level n > 0, an inner page all of whose children are pages at level n - 1
(`Nodes`), and that an insertion on its way up stands at the end of a way down from
the root, beside a new page at the same level, in a leaf that has been compacted
(`CallOK`). Levels are also what makes `search` end: `PathFromExists` builds the
recursive function of `Path` by descending levels. A page that is dropped goes
back to an older self, and `PoolInv` says that this is a node too, which holds
because no page but the root ever changes its level (`LevelsKept`, proved with each
step).

Two assumptions. `RoomAssumption`: a page has room for one separator, as any page
of 4096 bytes has (keys are at most 255 bytes); without it a promotion could overrun the
new root. `LevelsFit`: no inner page is at level 255. The level is a byte in the page
header, and 255, `INVALID_TREE_LEVEL`, is how the code tells an empty root; a tree
with that many levels is far beyond what a file holds, but nothing in the code
checks it.

### The order of the tree

* `BTreeOrderProofs!SeparatorsHold`: `TreeSpec /\ []LevelsFit => []SeparatorsSeparate`
  for clients and a pager that are `Orderly`: between operations every separator is
  above all keys under the child on its left and not above those under the child on
  its right, however high a split has gone.
* `BTreeOrderProofs!SmallTreeSeparatorsHold`: without `LevelsFit`, as above.

`Orderly` leaves four things out of `Usage`, each because the code does not keep the
order with it (section 5). Removing an absent key may take its neighbour's slot, and
removing a separator finds nothing; a separator that is no longer a key could be inserted again.
`splitInner` loses a child unless the split is below its new entry (`"innerEdge"`).
A pager that fails inside a split leaves a page that no inner page knows. Emptying leaves
and seeking past the end of one are allowed, and so are full pages that throw.

`SeparatorsSeparate` speaks of the keys that are under a child, and a child that has
lost its keys says nothing about where the next one goes, so it is not inductive. The invariant,
`OrderInv`, gives every page a range of keys: the root's is all keys, the ranges of the
pages of a level do not meet, keys in a leaf are in its range, and the separators
of an inner page divide its range among its children (`Divided`). While an insertion
is going up the ranges and the separators disagree: a page has been cut in two at
`call.key`, and the inner page above still counts the whole range for the left
half. Inner pages are therefore compared with `Owned`, where the left half has both, and
`ClimbIn` says of the two halves what the cut has made of them. A step up makes its page
know the new sibling (`DividedMore`), and may cut that page in turn (`DividedCut`,
`CutIs`). That the range is cut into two parts neither of which is empty needs that no
separator is inserted as a key, and so that every separator is still a key in some leaf
(`SepsPresent`). That the new key goes where the ranges say is the descent of `search`:
every page on its way has the key in its range (`SearchOwns`). At the end
the keys under a page are within its range (`KeysUnderIs`), by induction over levels.

### The chain of leaves

For clients and pagers that are `Orderly`, from `TreeSpec /\ []LevelsFit`:

* `BTreeChainProofs!ChainStaysLinked`: `[]ChainLinked`; the leaves form one list without
  repetition, in every state, inside an insertion too, and `prev` is the inverse of `next`.
* `BTreeChainProofs!ScansAscend`: `[]ScanAscending`; a walk along `next` meets the keys
  in order.
* `BTreeChainProofs!ChainStaysTree`: `[]ChainIsTree`; between insertions the list is exactly
  the leaves that `search` can come to, from left to right, and no leaf is missing.
* `BTreeChainProofs!EntriesComeAndGo`: `OneEntryAtATime`; splitting, compacting and promoting
  lose, repeat and reorder nothing.

None of these is inductive: which leaf follows one that is split, and what a promoted root
is to its neighbours, is a matter of where the leaves stand. `ChainInv` adds the links
to the ranges of `OrderInv`. The `next` of a leaf has the next range: it is above the leaf's,
and every other leaf's range is below the leaf's or above its next's (`Chained`); `prev`
leads back to where `next` has come from (`Backed`); a leaf that has been split is followed by
its new right half (`SplitChained`). `Chained` speaks of a leaf and its neighbours only, so that
it need be looked at where a step changes a link or cuts a range, in `SplitLeaf` and in
`PromoteRoot` of a leaf. That the first leaf is the lowest, and that `Chain` has every leaf once in
the order of the ranges, follow by walking along it; the leaves under a page are
in that order too, by induction over levels, and two rows of the same leaves in the order
of their ranges are the same (`SameRow`).

For the keys there is one lemma, `InvImpliesScanIsKeys`: a scan ascends, and has the keys that are in
some leaf and no other. Two ascending sequences of the same keys are the same, so a
step need only be looked at for the keys it adds to or takes from the leaves (`KeysStep`), wherever
it moves their entries.

### Tree and cursor as a sorted map

From `Spec /\ []LevelsFit`, the tree with one cursor:

* `BTreeMapProofs!CursorTypeCorrect` (`Orderly`): `[]CursorTypeOK`.
* `BTreeMapProofs!CursorWalksInOrder` (`Orderly`): `WalksInOrder`; while no leaf is empty,
  `next` and `prev` go from one entry of a scan to its neighbour.
* `BTreeMapProofs!CursorMoves` (`Disciplined`): `CursorMovesAsInMap`; `seek`, `first`, `last`,
  `next` and `prev` go where they go in the map.
* `BTreeMapProofs!TreeImplementsMap` (`Disciplined`): `ImplementsMap`; an insertion is one step of
  the map, when the key goes into its leaf, and all that it does after that is a stutter.

`Disciplined` is `Orderly` without `"emptyLeaf"` and `"seekEnd"`: with an empty leaf `next`
stops at it, and `seek` past the end of a leaf answers with no entry (section 5). `CursorInv` is
`ChainInv` and `CursorTypeOK`; `MapInv` adds that no leaf is empty but a root that
is alone, between insertions (`Filled`), and that a valid cursor is at an entry. What takes work is
that a local neighbour is the neighbour in the whole map: the next key above an entry is in
its leaf, or the first of the leaf that `Chained` has after it, and leaves are below or above each
other as their ranges are (`LowestIs`, `HighestIs`). `seek` of a key that is no separator comes to
the leaf that has the key in its range, since the descent follows the ranges.

### Over a pool that drops pages

For `Orderly` clients that remove no entry in the last slot of a leaf, from
`PoolSpec /\ []LevelsFit`:

* `BTreePoolProofs!BackwardWalksEnd`: `[]PrevLeadsLeft`; every `prev` but the first leaf's leads
  to a leaf further left or to the root, even one that a drop has brought back.
* `BTreePoolProofs!PoolImplementsMap`: `ImplementsPooledMap`; dropping pages loses no key.

A drop breaks `Backed`: `splitLeaf` sets the `prev` of the leaf after the new one without marking
it, and the old one comes back. `PoolChainInv` has the rest of `ChainInv`, `PoolInv` and
`UnmarkedIsOnFile`, and instead of `Backed` that `prev` leads left (`LeadsLeft`), the one a leaf has
now and the one it would have if it were dropped (`Left`). Each step of the tree keeps what has led
left (`LeftKept`), because ranges are only ever cut and a new leaf is to the right of the one it is
split from. A leaf's old `prev` may also be the root, from when the root was a leaf; an
emptied root that goes back to an older version of itself must be alone in the tree (`LoneRoot`).
Since `UnmarkedIsOnFile` says that a drop changes neither entries nor `next`, it changes
no key.

### How, and what stays with TLC

The provers have no induction over data with an operator as parameter. The recursive
functions of `SlottedPage` and `BTree` are reasoned about all the same: that such
a function exists is proved by writing down the limit of its approximations, what
its values are by induction, and induction is the fact that a set of naturals which has
0 and is closed under adding 1 is all of them (`NatInductive`). It works for functions of
one argument, so `SearchIn` recurses over a pair, and so do `Chain` and `Scan`: over a page and
the steps still allowed (`Stops`), since the next links might lead round in a circle, which the proofs
then show they do not.

Only model-checked:

* `FlushEnds`, and whatever needs fairness or ENABLED: out of the provers' reach.
* What the tree's properties say of clients and pagers that the theorems leave out.
  `ChainLinked`, `CursorTypeOK`, `OneEntryAtATime` and `WalksInOrder` hold in `BTree_any_usage` with
  absent keys, separators and a pager that fails inside a split, where there is
  no order to prove them from; `PrevLeadsLeft` and `ImplementsPooledMap` in `BTreePool` with a pager
  that fails and `"innerEdge"`.
* `SyncedSurvive` and the refinement of `DurableStore` for a client that deletes pages
  (`LRUPager_free_list`): they are proved for one that does not, and would need
  `FreeInv` and `DurableInv` together.

Every other invariant, action property and refinement of a run that passes is a theorem,
for the usages named above.

## 5. Where the code does something else than it says

Each of these is a run that ends in a violation, with a finding in
`PROJECT.json`:

* `LRUPager_flush_uncached_aborts`: flushing a page that is not in the pool is
  documented to have no effect and dereferences a null iterator. `flushPage` of
  a page that is in the pool can do the same on its way from `appendStart_`,
  which eviction does not advance, and `deletePage` of an evicted page likewise.
* `LRUPager_stale_span`: `span()` through a guard that was dirty before a flush
  does not mark the page dirty, and the write is lost at eviction or close.
* `LRUPager_double_allocation`: `deletePage` links pages with `setHeader`, which
  does not mark them dirty; after an eviction the page's old `next` is taken for
  the free list and a page in use is handed out. If the old `next` was
  `INVALID_PAGE`, the pages deleted before are lost instead.
* `LRUPager_close_fails`: `newPage` without a frame to use leaves a hole in the
  page numbers, after which `close` cannot append the pages above it. If a page above
  the hole is deleted, the `flushAll` that fails at the hole has put the header with
  this page as the head of the free list on file; should the process die then,
  the next session misreads the head and hands out page 0, which is why the run of the
  free list and its theorems leave such a `newPage` out (`"noFrame"`). `flushPage`
  on a new file fails for a like reason: page 0 is not on file yet and
  `appendStart_` is 1.
* `BTree_seek_separator`: the first key of a right leaf becomes a separator, and
  the search for it goes left. `seek` passes it over and `remove` does not find
  it.
* `BTree_remove_absent`: removing the last key of a leaf twice removes the key
  before it too.

Others that were met, not run for want of a statement that says otherwise, or
because they are another face of the above: after a `fetchPage` that cannot read
its page a second one succeeds with another page's bytes; a new root that has
been emptied aborts in `compactPage`; an empty leaf that is not the root throws
on every search; a leaf with fewer than four free bytes throws where it should
split; `splitLeaf` overruns the right page when a large entry follows others;
`splitInner` loses a child unless the split is at or before the new separator and
that is not the last of the page; inserting a separator's key again drops a
child, and with it keys that were inserted once; `seek` past the end of a leaf
returns a valid cursor on no entry, also
where the next leaf has the entry; next and prev stop at an empty leaf.

Of a tree over a pool that evicts: `remove` of the entry in a leaf's last slot
has no slots to move and changes the header only (`btree.cpp:71`), so the entry
comes back when the page is dropped; with `"lastSlot"` added to the `Usage` of
`BTreePool` its `ImplementsPooledMap` and `UnmarkedIsOnFile` fail. The `prev` that
`splitLeaf` gives the leaf after the new one (`btree.cpp:461`) is lost in the same
way; `PrevLeadsLeft` says what is left of it.

Of crashes: `flushAll` writes page 0 first. When a page made since the last
`flushAll` has been deleted and the process dies right after page 0, the free
list on file starts at a page that the file does not have; the first `newPage`
of the next session fails, and the next ones take zeros for a link and hand out
page 0. With `"delete"` and `"crashFlushing"` together `FreeListNotLive`,
`SyncedNotFree` and the refinement fail, so `LRUPager_free_list` has crashes
between operations only. A crash inside `flushAll` also leaves a header that
counts more pages than the file has, and the next session can then neither
append to the file nor close it without an error, until every page in between
has been made again. `flushPage` puts a new page on file without the header that
counts it: after a crash it is out of the range of `fetchPage`.

## 6. Not modelled, and the plan

Left out: time stamps, versions, page types and flags (nothing reads them back
but the validation of the header, which is one boolean); use of a pager after
`close` and guards that outlive their pager; a machine that loses power; several
cursors, or a cursor kept while the tree changes (it is a page and a slot, and
notices nothing); what a tree is after a crash in the middle of a split (there is
no log, and nothing promises that an insertion is atomic). Of `ByteSpan` only the
exception is modelled, as the outcome `"throws"`: its accessors are pure bounds
checks. `Flags` is a typed bit mask that no other part sets; `Result`, `Status`
and `DbResult` are the error channel, and every early return through them is a
failing action of the module that has it; `hexdump` prints; `rebalance`,
`mergeLeaf` and `mergeInner` are empty; the catalog, the record format and the
query layer of the notes have no code yet.

Order of work. Done: the pager with its abstract store; the tree with its cursor
and the sorted map; crashes and what they leave; the tree over a pool that evicts;
the theorems of section 4. What is left, should the code stay as it is:

1. `SyncedSurvive` and the refinement of `DurableStore` for a client that deletes pages,
   from `FreeInv` and `DurableInv` together.
2. `ChainLinked` and `OneEntryAtATime` where the order is lost: after a split that the pager
   ends half-way the links are still right, but the ranges no longer say so.
3. Tree, pool and file in one model, when the code has a log or an order of writes that a
   crash in a split could be checked against.
