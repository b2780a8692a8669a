--------------------------- MODULE FreeListProofs ---------------------------
(***************************************************************************)
(* Theorems about the free list of LRUPager, for every size of the pool    *)
(* and every number of pages and guards: newPage hands out no page that    *)
(* the client owns, in a session and after a crash.                        *)
(***************************************************************************)
EXTENDS Durability, LRUPagerProofs

USE PagesAssumption, PagerAssumption

\* A client that deletes pages of its own, stores no links in them, and calls
\* newPage when there is a frame for the page; a process that dies between two
\* operations.  "anyPage", "noFrame", "flushUncached", "crashFlushing", "ioError" and
\* links of the client's each break FreeListNotLive; flushPage, guards older than a
\* flush, sessions that only read and foreign files are left out of the proof.
DeletesOwnPages ==
  /\ Usage \cap {"anyPage", "noFrame", "flushPage", "flushUncached", "staleSpan",
                 "readOnly", "foreignFile", "crashFlushing", "ioError"} = {}
  /\ Links \subseteq {INVALID_PAGE}

-----------------------------------------------------------------------------
(* The inductive invariant. *)

Dirty(p)  == Cached(p) /\ FrameOf(p).dirty
Linked(p) == FrameOf(p).data.next

\* Page q has been used after page p: its frame is nearer the front of lruList_.
Before(q, p) ==
  \E i, j \in 1 .. Len(lruList) :
    i < j /\ lruList[i] = pageMap[q] /\ lruList[j] = pageMap[p]

\* How high pages are in a free list: the one deleted last is the highest, and 0
\* stands for no place.  Page 0 is never free.
Heights ==
  {h \in [PageNum -> Nat] :
     h[0] = 0 /\ \A p, q \in PageNum : 0 < h[p] /\ h[p] = h[q] => p = q}

\* A link that leads down from page p, or nowhere.
Down(h, p, n) == n # INVALID_PAGE => n \in PageNum /\ 0 < h[n] /\ h[n] < h[p]

HeadIs(h, n) ==
  IF n = INVALID_PAGE THEN \A p \in PageNum : h[p] = 0
  ELSE n \in PageNum /\ 0 < h[n] /\ \A p \in PageNum : h[p] <= h[n]

\* The free list of the session: links lead down, also that which a page in the
\* pool gets if its frame is dropped; the higher a page, the nearer the front of
\* lruList_ it is; and links of pages in the pool pass over no page in the pool.
FreeListOK(h) ==
  /\ HeadIs(h, freespaceHead)
  /\ \A p \in PageNum : Cached(p) /\ p \notin live => 0 < h[p]
  /\ \A p \in live : h[p] = 0
  /\ \A p \in PageNum : 0 < h[p] /\ Cached(p) => Down(h, p, Linked(p))
  /\ \A p, q \in PageNum :
       Cached(p) /\ Cached(q) /\ 0 < h[q] /\ h[q] < h[p] =>
         Linked(p) # INVALID_PAGE /\ h[q] <= h[Linked(p)]
  /\ \A p \in PageNum : 0 < h[p] /\ ~Dirty(p) => Down(h, p, LinkOnFile(p))
  /\ \A p, q \in PageNum :
       Cached(p) /\ 0 < h[p] /\ h[p] < h[q] => Cached(q) /\ Before(q, p)

HeadOnFile == IF file.pageCount = 0 THEN INVALID_PAGE ELSE file.image[0].free

\* The free list that a crash would leave.
FreeOnFileOK(h) ==
  /\ HeadOnFile # INVALID_PAGE => HeadOnFile \in PageNum /\ 0 < h[HeadOnFile]
  /\ \A p \in DOMAIN kept : h[p] = 0
  /\ \A p \in PageNum : 0 < h[p] => Down(h, p, LinkOnFile(p))

\* The client's pages, and page 0, are not linked.
NotLinked ==
  /\ LinkOnFile(0) = INVALID_PAGE
  /\ \A p \in live : Cached(p) => Linked(p) = INVALID_PAGE
  /\ \A p \in live : ~Dirty(p) => LinkOnFile(p) = INVALID_PAGE
  /\ \A p \in DOMAIN kept : LinkOnFile(p) = INVALID_PAGE

\* A page that is clean is on file; page 0, which is never deleted, as it is.
CleanOnFile ==
  /\ \A p \in PageNum : Cached(p) /\ ~Dirty(p) => p < file.pageCount
  /\ Cached(0) /\ ~Dirty(0) => file.image[0] = FrameOf(0).data

StreamOK == mode = ReadWrite /\ good /\ ~file.torn

\* No page number has been lost: all are in the pool or on file.
SessionOK ==
  /\ StreamOK
  /\ DOMAIN kept \subseteq live
  /\ \A g \in GuardId : guards[g] # NoGuard => guards[g].page \in live
  /\ IF status = "open"
     THEN /\ highestAllocated \in PageNum
          /\ \A p \in PageNum :
               p <= highestAllocated => Cached(p) \/ p < file.pageCount
          /\ 0 \in live
     ELSE /\ call = NoCall
          /\ live = DOMAIN kept
          /\ \A p \in PageNum : ~Cached(p)

\* The copies of the header agree except while flushAll brings a new one.
HeaderOK ==
  /\ 0 < file.pageCount => file.image[0].magic
  /\ Cached(0) => FrameOf(0).data.magic
  /\ call = NoCall =>
       /\ 0 < file.pageCount => file.image[0].count \in 1 .. file.pageCount
       /\ Cached(0) =>
            /\ FrameOf(0).data.free = HeadOnFile
            /\ FrameOf(0).data.count =
                 IF file.pageCount = 0 THEN 1 ELSE file.image[0].count

\* The only loops are those over all pages: those passed are clean.
FlushLoopOK ==
  call # NoCall =>
    /\ call.op \in {"flushAll", "close", "destroy"}
    /\ call.last = highestAllocated
    /\ Cached(0)
    /\ FrameOf(0).data.free = freespaceHead
    /\ FrameOf(0).data.count = highestAllocated + 1
    /\ \A p \in PageNum : p < call.at => ~Dirty(p)

PagesOK == SessionOK /\ HeaderOK /\ FlushLoopOK /\ CleanOnFile /\ NotLinked

FreeInv ==
  /\ PagesOK
  /\ status = "open" => \E h \in Heights : FreeListOK(h)
  /\ call = NoCall => \E h \in Heights : FreeOnFileOK(h)

-----------------------------------------------------------------------------
(* The order of lruList_. *)

\* INVALID_PAGE, the end of the list, is the number of no page.
LEMMA NoPageIsInvalid == INVALID_PAGE \notin PageNum /\ 0 \in PageNum
BY SMT DEF PageNum

\* x comes before y in the list s.
Precedes(s, x, y) == \E i, j \in 1 .. Len(s) : i < j /\ s[i] = x /\ s[j] = y

\* Before is about frames in lruList_.
LEMMA BeforeIs ==
  ASSUME NEW q, NEW p
  PROVE  Before(q, p) <=> Precedes(lruList, pageMap[q], pageMap[p])
BY DEF Before, Precedes

\* An element put in front of a list precedes the others.
LEMMA ConsPrecedes ==
  ASSUME NEW S, NEW s \in Seq(S), NEW e \in S
  PROVE  /\ \A x, y : Precedes(s, x, y) => Precedes(Cons(e, s), x, y)
         /\ \A y \in Range(s) : Precedes(Cons(e, s), e, y)
<1> DEFINE c == Cons(e, s)
           n == Len(s)
<1>1. /\ Len(c) = n + 1
      /\ c[1] = e
      /\ \A j \in 2 .. n + 1 : c[j] = s[j - 1]
  BY ConsFacts
<1>2. n \in Nat /\ DOMAIN s = 1 .. n
  BY LenProperties
<1> HIDE DEF c, n
<1>3. \A j \in 1 .. n : j + 1 \in 1 .. Len(c) /\ c[j + 1] = s[j] /\ 1 < j + 1
  <2> SUFFICES ASSUME NEW j \in 1 .. n
               PROVE  j + 1 \in 1 .. Len(c) /\ c[j + 1] = s[j] /\ 1 < j + 1
    OBVIOUS
  <2>1. j + 1 \in 2 .. n + 1 /\ j + 1 - 1 = j
    BY <1>2
  <2> QED BY <1>1, <1>2, <2>1
<1>4. ASSUME NEW x, NEW y, Precedes(s, x, y) PROVE Precedes(c, x, y)
  <2>1. PICK i \in 1 .. n, j \in 1 .. n : i < j /\ s[i] = x /\ s[j] = y
    BY <1>4 DEF Precedes, n
  <2>2. i + 1 < j + 1
    BY <1>2, <2>1
  <2> QED BY <1>3, <2>1, <2>2 DEF Precedes
<1>5. ASSUME NEW y \in Range(s) PROVE Precedes(c, e, y)
  <2>1. PICK j \in 1 .. n : s[j] = y
    BY <1>2 DEF Range
  <2>2. 1 \in 1 .. Len(c)
    BY <1>1, <1>2
  <2> QED BY <1>1, <1>3, <2>1, <2>2 DEF Precedes
<1> QED BY <1>4, <1>5 DEF c

\* Without its i-th element a list keeps the order of the others.
LEMMA RemoveAtPrecedes ==
  ASSUME NEW S, NEW s \in Seq(S), NEW i \in 1 .. Len(s), NEW x, NEW y,
         Precedes(s, x, y), x # s[i], y # s[i]
  PROVE  Precedes(RemoveAt(s, i), x, y)
<1> DEFINE r == RemoveAt(s, i)
           n == Len(s)
           at(j) == IF j < i THEN j ELSE j - 1
<1>1. /\ Len(r) = n - 1
      /\ \A j \in 1 .. n - 1 : r[j] = IF j < i THEN s[j] ELSE s[j + 1]
  BY RemoveAtFacts
<1>2. n \in Nat /\ i \in 1 .. n
  BY LenProperties
<1> HIDE DEF r, n
<1>3. ASSUME NEW j \in 1 .. n, j # i PROVE at(j) \in 1 .. n - 1 /\ r[at(j)] = s[j]
  <2>1. CASE j < i
    <3>1. at(j) = j /\ j \in 1 .. n - 1
      BY <1>2, <2>1
    <3> QED BY <1>1, <2>1, <3>1
  <2>2. CASE i < j
    <3>1. at(j) = j - 1 /\ j - 1 \in 1 .. n - 1 /\ ~(j - 1 < i) /\ j - 1 + 1 = j
      BY <1>2, <2>2
    <3>2. r[j - 1] = s[j - 1 + 1]
      BY <1>1, <3>1
    <3> QED BY <3>1, <3>2
  <2> QED BY <1>2, <1>3, <2>1, <2>2
<1>4. PICK j \in 1 .. n, k \in 1 .. n : j < k /\ s[j] = x /\ s[k] = y
  BY DEF Precedes, n
<1>5. j # i /\ k # i
  BY <1>4
<1>6. at(j) < at(k)
  BY <1>2, <1>4, <1>5
<1>7. at(j) \in 1 .. Len(r) /\ at(k) \in 1 .. Len(r) /\ r[at(j)] = x /\ r[at(k)] = y
  BY <1>1, <1>3, <1>4, <1>5
<1> HIDE DEF at
<1> QED BY <1>6, <1>7 DEF Precedes, r

\* An element moved to the front precedes the others, which stay in order.
LEMMA MoveToFrontPrecedes ==
  ASSUME NEW S, NEW s \in Seq(S), NEW i \in 1 .. Len(s)
  PROVE  /\ \A x, y : Precedes(s, x, y) /\ x # s[i] /\ y # s[i] =>
              Precedes(MoveToFront(s, i), x, y)
         /\ \A y \in Range(s) \ {s[i]} : Precedes(MoveToFront(s, i), s[i], y)
<1> DEFINE r == RemoveAt(s, i)
           m == MoveToFront(s, i)
           n == Len(s)
<1>1. n \in Nat /\ DOMAIN s = 1 .. n /\ s[i] \in S /\ i \in 1 .. n
  BY LenProperties, ElementOfSeq
<1>2. /\ r \in Seq(S)
      /\ Len(r) = n - 1
      /\ \A j \in 1 .. n - 1 : r[j] = IF j < i THEN s[j] ELSE s[j + 1]
  BY RemoveAtFacts
<1>3. /\ \A x, y : Precedes(r, x, y) => Precedes(m, x, y)
      /\ \A y \in Range(r) : Precedes(m, s[i], y)
  BY <1>1, <1>2, ConsPrecedes DEF MoveToFront
<1>4. ASSUME NEW y \in Range(s) \ {s[i]} PROVE y \in Range(r)
  <2>1. PICK j \in 1 .. n : s[j] = y
    BY <1>1 DEF Range
  <2>2. DOMAIN r = 1 .. n - 1
    BY <1>2, LenProperties
  <2> HIDE DEF r, n
  <2>3. CASE j < i
    <3>1. j \in 1 .. n - 1 /\ r[j] = s[j]
      BY <1>1, <1>2, <2>3
    <3> QED BY <2>1, <2>2, <3>1 DEF Range
  <2>4. CASE i < j
    <3>1. j - 1 \in 1 .. n - 1 /\ ~(j - 1 < i) /\ j - 1 + 1 = j
      BY <1>1, <2>4
    <3>2. r[j - 1] = s[j - 1 + 1]
      BY <1>2, <3>1
    <3>3. r[j - 1] = y
      BY <2>1, <3>1, <3>2
    <3> QED BY <2>2, <3>1, <3>3 DEF Range
  <2> QED BY <1>1, <1>4, <2>1, <2>3, <2>4
<1>5. \A x, y : Precedes(s, x, y) /\ x # s[i] /\ y # s[i] => Precedes(r, x, y)
  BY RemoveAtPrecedes
<1> QED BY <1>3, <1>4, <1>5

-----------------------------------------------------------------------------
(* What a step that puts a page into a frame does to the pages. *)

\* Page q is as it was, in the pool and on file.
Alike(q) ==
  /\ Cached(q)' <=> Cached(q)
  /\ Cached(q) => /\ (FrameOf(q).data)' = FrameOf(q).data
                  /\ (FrameOf(q).dirty)' = FrameOf(q).dirty
  /\ file'.image[q] = file.image[q]
  /\ q < file'.pageCount <=> q < file.pageCount

\* Page q has lost its frame, as the last of those that are not pinned.
Dropped(q) ==
  /\ Cached(q) /\ ~Cached(q)'
  /\ q < file'.pageCount
  /\ file'.image[q] = IF Dirty(q) THEN FrameOf(q).data ELSE file.image[q]
  /\ \A r \in PageNum : Before(q, r) => FrameOf(r).pinCount # 0

\* Page p is in front of lruList_; page v, unless it is p, had to go.
Placed(p, v) ==
  /\ StreamOK'
  /\ file.pageCount <= file'.pageCount
  /\ Cached(p)'
  /\ file'.image[p] = file.image[p]
  /\ p < file'.pageCount <=> p < file.pageCount
  /\ v # p => ~Cached(p) /\ Dropped(v)
  /\ \A q \in PageNum \ {p, v} : Alike(q)
  /\ \A q, r \in PageNum \ {p, v} : Before(q, r) => Before(q, r)'
  /\ \A q \in PageNum \ {p, v} : Cached(q) => Before(p, q)'

\* Only pages in the pool are in lruList_, and all of them.
LEMMA InLruList ==
  ASSUME TypeOK, PoolConsistent, NEW q \in PageNum
  PROVE  /\ Cached(q) <=> pageMap[q] \in Range(lruList)
         /\ Cached(q) => pageMap[q] \in FrameIndex
         /\ \A p \in PageNum : Before(q, p) \/ Before(p, q) => Cached(q)
<1>1. lruList \in Seq(FrameIndex) /\ DOMAIN lruList = 1 .. Len(lruList)
  BY LenProperties DEF TypeOK, ListTypeOK
<1>2. Range(lruList) = 0 .. nextFreeFrame - 1
  BY DEF PoolConsistent
<1>3. pageMap[q] \in FrameIndex \cup {NoFrame} /\ nextFreeFrame \in 0 .. PoolSize
  BY DEF TypeOK, ListTypeOK
<1>4. Cached(q) <=> pageMap[q] \in Range(lruList)
  <2>1. ASSUME Cached(q) PROVE pageMap[q] \in 0 .. nextFreeFrame - 1
    <3>1. pageMap[q] < nextFreeFrame /\ pageMap[q] \in FrameIndex
      BY <1>3, <2>1 DEF PoolConsistent, Cached
    <3> QED BY <1>3, <3>1, SMT DEF FrameIndex
  <2>2. ASSUME pageMap[q] \in 0 .. nextFreeFrame - 1 PROVE Cached(q)
    BY <1>3, <2>2, SMT DEF Cached, NoFrame
  <2> QED BY <1>2, <2>1, <2>2
<1>5. \A i \in 1 .. Len(lruList) : lruList[i] \in Range(lruList)
  BY <1>1 DEF Range
<1>6. ASSUME NEW p \in PageNum, Before(q, p) \/ Before(p, q) PROVE Cached(q)
  <2>1. pageMap[q] \in Range(lruList)
    BY <1>5, <1>6 DEF Before
  <2> QED BY <1>4, <2>1
<1> QED BY <1>3, <1>4, <1>6 DEF Cached

\* Writing a frame back writes its page and no other.
LEMMA WriteBackOnFile ==
  ASSUME TypeOK, PoolConsistent, StreamOK, CleanOnFile,
         NEW f \in 0 .. nextFreeFrame - 1, WriteBack(f), NEW r, r = frames[f].pageNum
  PROVE  /\ StreamOK'
         /\ file.pageCount <= file'.pageCount
         /\ r \in PageNum /\ pageMap[r] = f /\ Cached(r)
         /\ r < file'.pageCount
         /\ file'.image[r] = IF Dirty(r) THEN FrameOf(r).data ELSE file.image[r]
         /\ \A q \in PageNum \ {r} : /\ file'.image[q] = file.image[q]
                                     /\ q < file'.pageCount <=> q < file.pageCount
<1>1. f \in FrameIndex /\ f # NoFrame
  BY SMT DEF FrameIndex, NoFrame, TypeOK, ListTypeOK
<1>2. r \in PageNum /\ pageMap[r] = f
  BY DEF PoolConsistent
<1>3. Cached(r) /\ FrameOf(r) = frames[f] /\ (Dirty(r) <=> frames[f].dirty)
  BY <1>1, <1>2 DEF Cached, FrameOf, Dirty
<1>4. file.pageCount \in Nat /\ r \in Nat /\ PageNum \subseteq Nat
  BY <1>2, SMT DEF TypeOK, IOTypeOK, FileType, PageNum
<1>5. CASE frames[f].dirty
  <2>1. WritePage(r, frames[f].data)
    BY <1>5 DEF WriteBack
  <2>2. UNCHANGED <<mode, good>> /\ r <= file.pageCount
    BY <2>1 DEF WritePage, CanWrite
  <2>3. /\ file'.image = [file.image EXCEPT ![r] = frames[f].data]
        /\ file'.pageCount = IF r = file.pageCount THEN r + 1 ELSE file.pageCount
        /\ file'.torn = (file.torn /\ r # file.pageCount)
    BY <2>1 DEF WritePage, TypeOK, IOTypeOK, FileType
  <2>4. file'.image[r] = frames[f].data /\ \A q \in PageNum \ {r} : file'.image[q] = file.image[q]
    BY <1>2, <2>3 DEF TypeOK, IOTypeOK, FileType
  <2>5. r < file'.pageCount /\ file.pageCount <= file'.pageCount
    BY <1>4, <2>2, <2>3
  <2>6. \A q \in PageNum \ {r} : q < file'.pageCount <=> q < file.pageCount
    BY <1>4, <2>2, <2>3
  <2>7. StreamOK'
    BY <2>2, <2>3 DEF StreamOK
  <2> QED
    BY <1>2, <1>3, <1>5, <2>4, <2>5, <2>6, <2>7
<1>6. CASE ~frames[f].dirty
  <2>1. UNCHANGED ioVars
    BY <1>6 DEF WriteBack
  <2>2. r < file.pageCount
    BY <1>2, <1>3, <1>6 DEF CleanOnFile
  <2>3. file.pageCount <= file'.pageCount
    BY <1>4, <2>1 DEF ioVars
  <2> QED
    BY <1>2, <1>3, <1>6, <2>1, <2>2, <2>3 DEF ioVars, StreamOK
<1> QED
  BY <1>5, <1>6

\* A page whose frame and copy on file are left alone.
LEMMA SameFrame ==
  ASSUME NEW q, pageMap'[q] = pageMap[q],
         Cached(q) => frames'[pageMap[q]] = frames[pageMap[q]],
         file'.image[q] = file.image[q],
         q < file'.pageCount <=> q < file.pageCount
  PROVE  Alike(q)
BY DEF Alike, Cached, FrameOf

\* The order of lruList_ among pages whose frames keep theirs.
LEMMA OrderKept ==
  ASSUME NEW f, NEW S, \A q \in S : pageMap'[q] = pageMap[q] /\ pageMap[q] # f,
         \A x, y : Precedes(lruList, x, y) /\ x # f /\ y # f => Precedes(lruList', x, y)
  PROVE  \A q, r \in S : Before(q, r) => Before(q, r)'
<1> SUFFICES ASSUME NEW q \in S, NEW r \in S, Before(q, r) PROVE Before(q, r)'
  OBVIOUS
<1>1. Precedes(lruList, pageMap[q], pageMap[r])
  BY BeforeIs
<1>2. Precedes(lruList', pageMap'[q], pageMap'[r])
  BY <1>1
<1> QED BY <1>2 DEF Before, Precedes

\* allocateFrame gives page p a frame.
LEMMA TakeFramePlaces ==
  ASSUME TypeOK, PoolConsistent, StreamOK, CleanOnFile,
         NEW p \in PageNum, NEW f \in FrameIndex, ~Cached(p), TakeFrame(p, f),
         \A k \in FrameIndex \ {f} : frames'[k] = frames[k]
  PROVE  pageMap'[p] = f /\ \E v \in PageNum : Placed(p, v)
<1>0. /\ lruList \in Seq(FrameIndex)
      /\ pageMap \in [PageNum -> FrameIndex \cup {NoFrame}]
      /\ f # NoFrame
      /\ file.pageCount \in Nat
  BY SMT DEF TypeOK, ListTypeOK, IOTypeOK, FileType, FrameIndex, NoFrame
<1>1. CASE nextFreeFrame < PoolSize
  <2>1. /\ f = nextFreeFrame
        /\ lruList' = Cons(f, lruList)
        /\ pageMap' = [pageMap EXCEPT ![p] = f]
        /\ UNCHANGED ioVars
    BY <1>1, SMT DEF TakeFrame
  <2>2. pageMap'[p] = f /\ \A q \in PageNum \ {p} : pageMap'[q] = pageMap[q]
    BY <1>0, <2>1
  <2>3. \A q \in PageNum \ {p} : pageMap[q] # f
    BY <1>0, <2>1, SMT DEF PoolConsistent, Cached, TypeOK, ListTypeOK, FrameIndex, NoFrame
  <2>4. \A q \in PageNum \ {p} : Alike(q)
    <3> SUFFICES ASSUME NEW q \in PageNum \ {p} PROVE Alike(q)
      OBVIOUS
    <3>1. Cached(q) => frames'[pageMap[q]] = frames[pageMap[q]]
      BY <1>0, <2>3 DEF Cached
    <3> QED BY <2>1, <2>2, <3>1, SameFrame DEF ioVars
  <2>5. \A x, y : Precedes(lruList, x, y) => Precedes(lruList', x, y)
    BY <1>0, <2>1, ConsPrecedes
  <2>6. \A q, r \in PageNum \ {p} : Before(q, r) => Before(q, r)'
    BY <2>2, <2>3, <2>5, OrderKept
  <2>7. \A q \in PageNum \ {p} : Cached(q) => Before(p, q)'
    <3> SUFFICES ASSUME NEW q \in PageNum \ {p}, Cached(q) PROVE Before(p, q)'
      OBVIOUS
    <3>1. Precedes(lruList', f, pageMap[q])
      BY <1>0, <2>1, InLruList, ConsPrecedes
    <3>2. Precedes(lruList', pageMap'[p], pageMap'[q])
      BY <2>2, <3>1
    <3> QED BY <3>2 DEF Before, Precedes
  <2>8. Cached(p)' /\ StreamOK' /\ file'.pageCount = file.pageCount /\ file.pageCount <= file'.pageCount
    BY <1>0, <2>1, <2>2 DEF Cached, StreamOK, ioVars
  <2>9. Placed(p, p)
    BY <2>1, <2>4, <2>6, <2>7, <2>8 DEF Placed, ioVars
  <2> QED BY <2>2, <2>9
<1>2. CASE nextFreeFrame = PoolSize
  <2>0. PICK v : v = frames[f].pageNum
    OBVIOUS
  <2>1. PICK i \in 1 .. Len(lruList) :
          Victim(i) /\ f = lruList[i] /\ lruList' = MoveToFront(lruList, i)
    BY <1>2, SMT DEF TakeFrame
  <2>2. WriteBack(f) /\ pageMap' = Remap(p, f)
    BY <1>2, SMT DEF TakeFrame
  <2>3. f \in 0 .. nextFreeFrame - 1
    BY <2>1, UsedFrames
  <2>4. /\ StreamOK'
        /\ file.pageCount <= file'.pageCount
        /\ v \in PageNum /\ pageMap[v] = f /\ Cached(v)
        /\ v < file'.pageCount
        /\ file'.image[v] = IF Dirty(v) THEN FrameOf(v).data ELSE file.image[v]
        /\ \A q \in PageNum \ {v} : /\ file'.image[q] = file.image[q]
                                    /\ q < file'.pageCount <=> q < file.pageCount
    BY <2>0, <2>2, <2>3, WriteBackOnFile
  <2>5. v # p
    BY <2>4
  <2>6. /\ pageMap'[p] = f
        /\ pageMap'[v] = NoFrame
        /\ \A q \in PageNum \ {p, v} : pageMap'[q] = pageMap[q]
    BY <1>0, <2>0, <2>2, <2>4, <2>5 DEF Remap
  <2>7. \A q \in PageNum \ {p, v} : pageMap[q] # f
    BY <1>0, <2>0, CachedFrame DEF Cached
  <2>8. \A q \in PageNum \ {p, v} : Alike(q)
    <3> SUFFICES ASSUME NEW q \in PageNum \ {p, v} PROVE Alike(q)
      OBVIOUS
    <3>1. Cached(q) => frames'[pageMap[q]] = frames[pageMap[q]]
      BY <1>0, <2>7 DEF Cached
    <3> QED BY <2>4, <2>6, <3>1, SameFrame
  <2>9. /\ \A x, y : Precedes(lruList, x, y) /\ x # f /\ y # f => Precedes(lruList', x, y)
        /\ \A y \in Range(lruList) \ {f} : Precedes(lruList', f, y)
    BY <1>0, <2>1, MoveToFrontPrecedes
  <2>10. \A q, r \in PageNum \ {p, v} : Before(q, r) => Before(q, r)'
    BY <2>6, <2>7, <2>9, OrderKept
  <2>11. \A q \in PageNum \ {p, v} : Cached(q) => Before(p, q)'
    <3> SUFFICES ASSUME NEW q \in PageNum \ {p, v}, Cached(q) PROVE Before(p, q)'
      OBVIOUS
    <3>1. Precedes(lruList', f, pageMap[q])
      BY <2>7, <2>9, InLruList
    <3>2. Precedes(lruList', pageMap'[p], pageMap'[q])
      BY <2>6, <3>1
    <3> QED BY <3>2 DEF Before, Precedes
  <2>12. ASSUME NEW r \in PageNum, Before(v, r) PROVE FrameOf(r).pinCount # 0
    <3>1. PICK k, j \in 1 .. Len(lruList) : k < j /\ lruList[k] = f /\ lruList[j] = pageMap[r]
      BY <2>4, <2>12 DEF Before
    <3>2. k = i
      <4>1. DOMAIN lruList = 1 .. Len(lruList) /\ IsInjective(lruList)
        BY <1>0, LenProperties DEF PoolConsistent
      <4> QED BY <2>1, <3>1, <4>1 DEF IsInjective
    <3>3. j \in i + 1 .. Len(lruList)
      BY <3>1, <3>2
    <3> QED BY <2>1, <3>1, <3>3 DEF Victim, FrameOf
  <2>13. Dropped(v)
    BY <2>4, <2>6, <2>12 DEF Dropped, Cached
  <2>14. Cached(p)'
    BY <1>0, <2>6 DEF Cached
  <2>15. Placed(p, v)
    BY <2>4, <2>5, <2>8, <2>10, <2>11, <2>13, <2>14 DEF Placed
  <2> QED BY <2>4, <2>6, <2>15
<1> QED
  BY <1>1, <1>2 DEF TakeFrame

\* A page of the pool is moved to the front.
LEMMA TouchPlaces ==
  ASSUME TypeOK, PoolConsistent, StreamOK,
         NEW p \in PageNum, NEW f \in FrameIndex, Cached(p), Touch(p, f),
         \A k \in FrameIndex \ {f} : frames'[k] = frames[k]
  PROVE  pageMap'[p] = f /\ Placed(p, p)
<1>1. PICK i \in 1 .. Len(lruList) : lruList[i] = f /\ lruList' = MoveToFront(lruList, i)
  BY DEF Touch
<1>2. f = pageMap[p] /\ UNCHANGED <<ioVars, pageMap>>
  BY DEF Touch
<1>3. lruList \in Seq(FrameIndex) /\ file.pageCount \in Nat
  BY DEF TypeOK, ListTypeOK, IOTypeOK, FileType
<1>4. \A q \in PageNum \ {p} : pageMap[q] # f
  BY <1>2, CachedFrame DEF Cached
<1>5. \A q \in PageNum \ {p} : Alike(q)
  <2> SUFFICES ASSUME NEW q \in PageNum \ {p} PROVE Alike(q)
    OBVIOUS
  <2>1. Cached(q) => frames'[pageMap[q]] = frames[pageMap[q]]
    BY <1>4, InLruList
  <2> QED BY <1>2, <2>1, SameFrame DEF ioVars
<1>6. /\ \A x, y : Precedes(lruList, x, y) /\ x # f /\ y # f => Precedes(lruList', x, y)
      /\ \A y \in Range(lruList) \ {f} : Precedes(lruList', f, y)
  BY <1>1, <1>3, MoveToFrontPrecedes
<1>7. \A q, r \in PageNum \ {p} : Before(q, r) => Before(q, r)'
  BY <1>2, <1>4, <1>6, OrderKept
<1>8. \A q \in PageNum \ {p} : Cached(q) => Before(p, q)'
  <2> SUFFICES ASSUME NEW q \in PageNum \ {p}, Cached(q) PROVE Before(p, q)'
    OBVIOUS
  <2>1. Precedes(lruList', f, pageMap[q])
    BY <1>4, <1>6, InLruList
  <2>2. Precedes(lruList', pageMap'[p], pageMap'[q])
    BY <1>2, <2>1
  <2> QED BY <2>2 DEF Before, Precedes
<1>9. Cached(p)' /\ StreamOK' /\ file.pageCount <= file'.pageCount
  BY <1>2, <1>3 DEF Cached, StreamOK, ioVars
<1> QED
  BY <1>2, <1>5, <1>7, <1>8, <1>9 DEF Placed, ioVars

\* fetchPage puts page p into a frame, as it was in the pool or on file.
LEMMA FetchPlaces ==
  ASSUME TypeOK, PoolConsistent, StreamOK, CleanOnFile,
         NEW p \in PageNum, NEW f \in FrameIndex, Fetch(p, f),
         \A k \in FrameIndex \ {f} : frames'[k] = frames[k]
  PROVE  /\ pageMap'[p] = f
         /\ \E v \in PageNum : Placed(p, v)
         /\ Fetched(p, f).data = IF Cached(p) THEN FrameOf(p).data ELSE file.image[p]
         /\ Fetched(p, f).dirty <=> Dirty(p)
         /\ Cached(p) \/ p < file.pageCount
<1>1. CASE Cached(p) /\ Touch(p, f)
  <2>1. pageMap'[p] = f /\ Placed(p, p)
    BY <1>1, TouchPlaces
  <2>2. Fetched(p, f) = FrameOf(p)
    BY <1>1 DEF Touch, Fetched, FrameOf
  <2> QED BY <1>1, <2>1, <2>2 DEF Dirty
<1>2. CASE ~Cached(p) /\ TakeFrame(p, f) /\ CanReadNext(p)
  <2>1. pageMap'[p] = f /\ \E v \in PageNum : Placed(p, v)
    BY <1>2, TakeFramePlaces
  <2>2. file'.image[p] = file.image[p] /\ (p < file'.pageCount <=> p < file.pageCount)
    BY <2>1 DEF Placed
  <2>3. p < file'.pageCount
    BY <1>2 DEF CanReadNext
  <2>4. Fetched(p, f).data = file'.image[p] /\ ~Fetched(p, f).dirty
    BY <1>2 DEF Fetched
  <2>5. /\ Fetched(p, f).data = file.image[p]
        /\ Fetched(p, f).dirty <=> Dirty(p)
    BY <1>2, <2>2, <2>4 DEF Dirty
  <2> QED BY <1>2, <2>1, <2>2, <2>3, <2>5
<1> QED BY <1>1, <1>2 DEF Fetch

-----------------------------------------------------------------------------
(* What it does to the free list. *)

\* The client holds no guards on pages that it does not own.
LEMMA FreeUnpinned ==
  ASSUME TypeOK, PoolConsistent, PinsMatchGuards, SessionOK,
         NEW q \in PageNum, Cached(q), q \notin live
  PROVE  FrameOf(q).pinCount = 0
<1> DEFINE f == pageMap[q]
<1>1. f \in FrameIndex /\ frames[f].pageNum = q
  BY CachedFrame
<1>2. ASSUME NEW g \in Holders(f) PROVE FALSE
  <2>1. g \in GuardId /\ guards[g] # NoGuard /\ guards[g].frame = f
    BY DEF Holders
  <2>2. guards[g].page \in PageNum /\ pageMap[guards[g].page] = f /\ Cached(guards[g].page)
    BY <2>1, HeldGuard
  <2>3. guards[g].page = q
    BY <1>1, <2>2, CachedFrame
  <2> QED BY <2>1, <2>3 DEF SessionOK
<1>3. Cardinality(Holders(f)) = 0
  BY <1>2, FS_EmptySet
<1> QED BY <1>1, <1>3 DEF PinsMatchGuards, FrameOf

\* A page that is alike has the same links.
LEMMA AlikeLinks ==
  ASSUME NEW q, Alike(q)
  PROVE  /\ Cached(q)' <=> Cached(q)
         /\ Cached(q) => Linked(q)' = Linked(q)
         /\ Dirty(q)' <=> Dirty(q)
         /\ LinkOnFile(q)' = LinkOnFile(q)
BY DEF Alike, Linked, Dirty, LinkOnFile

\* A page that is dropped has on file the link it had in the pool, or the one it
\* had on file.
LEMMA DroppedLinks ==
  ASSUME CleanOnFile, NEW q \in PageNum, Dropped(q)
  PROVE  /\ ~Cached(q)' /\ ~Dirty(q)'
         /\ LinkOnFile(q)' = IF Dirty(q) THEN Linked(q) ELSE LinkOnFile(q)
BY DEF Dropped, Linked, Dirty, LinkOnFile, CleanOnFile

\* The heights of the pages that are at most at n.
UpTo(h, n) == [q \in PageNum |-> IF h[q] <= n THEN h[q] ELSE 0]

\* The lower part of a list is a list.
LEMMA UpToHeights ==
  ASSUME NEW h \in Heights, NEW n \in Nat
  PROVE  /\ UpTo(h, n) \in Heights
         /\ \A q \in PageNum : 0 < UpTo(h, n)[q] <=> 0 < h[q] /\ h[q] <= n
         /\ \A q \in PageNum : 0 < UpTo(h, n)[q] => UpTo(h, n)[q] = h[q]
         /\ \A q, m : q \in PageNum /\ 0 < UpTo(h, n)[q] /\ Down(h, q, m) =>
              Down(UpTo(h, n), q, m)
<1> DEFINE u == UpTo(h, n)
<1>1. h \in [PageNum -> Nat] /\ h[0] = 0 /\ \A p, q \in PageNum : 0 < h[p] /\ h[p] = h[q] => p = q
  BY DEF Heights
<1>2. \A q \in PageNum : u[q] = IF h[q] <= n THEN h[q] ELSE 0
  BY DEF UpTo
<1>3. u \in [PageNum -> Nat]
  BY <1>1 DEF UpTo
<1> HIDE DEF u
<1>4. \A q \in PageNum : 0 < u[q] <=> 0 < h[q] /\ h[q] <= n
  BY <1>1, <1>2
<1>5. \A q \in PageNum : 0 < u[q] => u[q] = h[q]
  BY <1>1, <1>2
<1>6. u[0] = 0 /\ \A p, q \in PageNum : 0 < u[p] /\ u[p] = u[q] => p = q
  BY <1>1, <1>2, <1>5, NoPageIsInvalid
<1>7. ASSUME NEW q \in PageNum, NEW m, 0 < u[q], Down(h, q, m), m # INVALID_PAGE
      PROVE  m \in PageNum /\ 0 < u[m] /\ u[m] < u[q]
  <2>1. m \in PageNum /\ 0 < h[m] /\ h[m] < h[q]
    BY <1>7 DEF Down
  <2>2. h[q] <= n /\ u[q] = h[q]
    BY <1>4, <1>5, <1>7
  <2>3. h[m] \in Nat /\ h[q] \in Nat
    BY <1>1, <2>1
  <2>4. h[m] <= n
    BY <2>1, <2>2, <2>3
  <2> QED BY <1>4, <1>5, <2>1, <2>2, <2>4
<1> QED BY <1>3, <1>4, <1>5, <1>6, <1>7 DEF u, Heights, Down

\* The list without the pages higher than n, none of which stays in the pool: the
\* page that has been placed is the client's.
LEMMA PlacedListOK ==
  ASSUME TypeOK, PoolConsistent, PinsMatchGuards, SessionOK, CleanOnFile,
         NEW p \in PageNum, NEW v \in PageNum, Placed(p, v),
         NEW h \in Heights, FreeListOK(h), NEW n \in Nat,
         NEW u, u = UpTo(h, n), u[p] = 0,
         \A q \in PageNum \ {p} : Cached(q) => h[q] <= n,
         HeadIs(u, freespaceHead'), live' = live \cup {p}
  PROVE  u \in Heights /\ FreeListOK(u)'
<1>0. h \in [PageNum -> Nat] /\ live \subseteq PageNum
  BY DEF Heights, TypeOK, ClientTypeOK
<1>1. /\ u \in Heights
      /\ \A q \in PageNum : 0 < u[q] <=> 0 < h[q] /\ h[q] <= n
      /\ \A q \in PageNum : 0 < u[q] => u[q] = h[q]
      /\ \A q, m : q \in PageNum /\ 0 < u[q] /\ Down(h, q, m) => Down(u, q, m)
  BY UpToHeights
<1>1a. u \in [PageNum -> Nat]
  BY <1>1 DEF Heights
<1>2. /\ \A q \in PageNum \ {p, v} : Alike(q)
      /\ v # p => Dropped(v)
      /\ \A q, r \in PageNum \ {p, v} : Before(q, r) => Before(q, r)'
  BY DEF Placed
<1>3. \A q \in PageNum \ {p} : Cached(q)' => q # v /\ Cached(q) /\ Alike(q)
  BY <1>2, DroppedLinks, AlikeLinks
<1>4. \A q \in PageNum : Cached(q)' /\ q \notin live' => 0 < u[q]
  <2> SUFFICES ASSUME NEW q \in PageNum, Cached(q)', q \notin live' PROVE 0 < u[q]
    OBVIOUS
  <2>1. q # p /\ q \notin live
    OBVIOUS
  <2>2. Cached(q)
    BY <1>3, <2>1
  <2>3. 0 < h[q]
    BY <2>1, <2>2 DEF FreeListOK
  <2> QED BY <1>1, <2>1, <2>2, <2>3
<1>5. \A q \in live' : u[q] = 0
  <2> SUFFICES ASSUME NEW q \in live PROVE u[q] = 0
    OBVIOUS
  <2>1. h[q] = 0 /\ q \in PageNum
    BY <1>0 DEF FreeListOK
  <2>2. ~(0 < u[q]) /\ u[q] \in Nat
    BY <1>1, <1>1a, <2>1
  <2> QED BY <2>2
<1>6. \A q \in PageNum : 0 < u[q] /\ Cached(q)' => Down(u, q, Linked(q)')
  <2> SUFFICES ASSUME NEW q \in PageNum, 0 < u[q], Cached(q)' PROVE Down(u, q, Linked(q)')
    OBVIOUS
  <2>1. q # p
    OBVIOUS
  <2>2. Cached(q) /\ Linked(q)' = Linked(q)
    BY <1>3, <2>1, AlikeLinks
  <2>3. Down(h, q, Linked(q))
    BY <1>1, <2>2 DEF FreeListOK
  <2> QED BY <1>1, <2>2, <2>3
<1>7. \A q, r \in PageNum :
        Cached(q)' /\ Cached(r)' /\ 0 < u[r] /\ u[r] < u[q] =>
          Linked(q)' # INVALID_PAGE /\ u[r] <= u[Linked(q)']
  <2> SUFFICES ASSUME NEW q \in PageNum, NEW r \in PageNum,
                      Cached(q)', Cached(r)', 0 < u[r], u[r] < u[q]
               PROVE  Linked(q)' # INVALID_PAGE /\ u[r] <= u[Linked(q)']
    OBVIOUS
  <2>1. 0 < u[q] /\ q # p /\ r # p
    BY <1>1a
  <2>2. Cached(q) /\ Linked(q)' = Linked(q) /\ Cached(r)
    BY <1>3, <2>1, AlikeLinks
  <2>3. u[r] = h[r] /\ u[q] = h[q]
    BY <1>1, <2>1
  <2>4. Linked(q) # INVALID_PAGE /\ h[r] <= h[Linked(q)]
    BY <2>2, <2>3 DEF FreeListOK
  <2>5. Down(h, q, Linked(q)) /\ Down(u, q, Linked(q))
    BY <1>1, <2>1, <2>2 DEF FreeListOK
  <2>6. Linked(q) \in PageNum /\ 0 < u[Linked(q)]
    BY <2>4, <2>5 DEF Down
  <2>7. u[Linked(q)] = h[Linked(q)]
    BY <1>1, <2>6
  <2> QED BY <2>2, <2>3, <2>4, <2>7
<1>8. \A q \in PageNum : 0 < u[q] /\ ~Dirty(q)' => Down(u, q, LinkOnFile(q)')
  <2> SUFFICES ASSUME NEW q \in PageNum, 0 < u[q], ~Dirty(q)' PROVE Down(u, q, LinkOnFile(q)')
    OBVIOUS
  <2>1. q # p /\ 0 < h[q]
    BY <1>1
  <2>2. CASE q = v
    <3>1. LinkOnFile(q)' = (IF Dirty(q) THEN Linked(q) ELSE LinkOnFile(q)) /\ Cached(q)
      BY <1>2, <2>1, <2>2, DroppedLinks DEF Dropped
    <3>2. Down(h, q, LinkOnFile(q)')
      BY <2>1, <3>1 DEF FreeListOK
    <3> QED BY <1>1, <3>2
  <2>3. CASE q # v
    <3>1. LinkOnFile(q)' = LinkOnFile(q) /\ ~Dirty(q)
      BY <1>2, <2>1, <2>3, AlikeLinks
    <3>2. Down(h, q, LinkOnFile(q)')
      BY <2>1, <3>1 DEF FreeListOK
    <3> QED BY <1>1, <3>2
  <2> QED BY <2>2, <2>3
<1>9. \A q, r \in PageNum :
        Cached(q)' /\ 0 < u[q] /\ u[q] < u[r] => Cached(r)' /\ Before(r, q)'
  <2> SUFFICES ASSUME NEW q \in PageNum, NEW r \in PageNum,
                      Cached(q)', 0 < u[q], u[q] < u[r]
               PROVE  Cached(r)' /\ Before(r, q)'
    OBVIOUS
  <2>1. 0 < u[r] /\ r # p /\ q # p
    BY <1>1a
  <2>2. Cached(q) /\ q # v
    BY <1>3, <2>1
  <2>3. u[r] = h[r] /\ u[q] = h[q] /\ 0 < h[q]
    BY <1>1, <2>1
  <2>4. Cached(r) /\ Before(r, q)
    BY <2>2, <2>3 DEF FreeListOK
  <2>5. r # v
    <3>1. h[q] # 0
      BY <1>0, <2>3
    <3>2. q \notin live
      BY <3>1 DEF FreeListOK
    <3>3. FrameOf(q).pinCount = 0
      BY <2>2, <3>2, FreeUnpinned
    <3> QED BY <1>2, <2>1, <2>4, <3>3 DEF Dropped
  <2> QED BY <1>2, <2>1, <2>2, <2>4, <2>5, AlikeLinks
<1> QED
  BY <1>1, <1>4, <1>5, <1>6, <1>7, <1>8, <1>9 DEF FreeListOK

\* A page that has been placed on file has the links it had, and a dropped one
\* those it had in the pool.
LEMMA PlacedLinksOnFile ==
  ASSUME CleanOnFile, NEW p \in PageNum, NEW v \in PageNum, Placed(p, v)
  PROVE  /\ \A q \in PageNum : q # v \/ q = p \/ ~Dirty(q) => LinkOnFile(q)' = LinkOnFile(q)
         /\ v # p /\ Dirty(v) => LinkOnFile(v)' = Linked(v)
<1>1. LinkOnFile(p)' = LinkOnFile(p)
  BY DEF Placed, LinkOnFile
<1>2. \A q \in PageNum \ {p, v} : LinkOnFile(q)' = LinkOnFile(q)
  BY AlikeLinks DEF Placed
<1>3. v # p => LinkOnFile(v)' = IF Dirty(v) THEN Linked(v) ELSE LinkOnFile(v)
  BY DroppedLinks DEF Placed
<1> QED
  BY <1>1, <1>2, <1>3

\* The head of the free list on file is the same, also when page 0 is dropped.
LEMMA PlacedHeadOnFile ==
  ASSUME TypeOK, TypeOK', CleanOnFile, HeaderOK, call = NoCall,
         NEW p \in PageNum, NEW v \in PageNum, Placed(p, v)
  PROVE  HeadOnFile' = HeadOnFile
<1>1. file.pageCount \in Nat /\ file'.pageCount \in Nat /\ 0 \in PageNum
  BY NoPageIsInvalid DEF TypeOK, IOTypeOK, FileType
<1>2. CASE v # p /\ v = 0
  <2>1. Cached(0) /\ 0 < file'.pageCount
        /\ file'.image[0] = IF Dirty(0) THEN FrameOf(0).data ELSE file.image[0]
    BY <1>2 DEF Placed, Dropped
  <2>2. FrameOf(0).data.free = HeadOnFile
    BY <2>1 DEF HeaderOK
  <2>3. HeadOnFile' = file'.image[0].free
    BY <1>1, <2>1 DEF HeadOnFile
  <2>4. CASE Dirty(0)
    BY <2>1, <2>2, <2>3, <2>4
  <2>5. CASE ~Dirty(0)
    <3>1. 0 < file.pageCount
      BY <1>1, <2>1, <2>5 DEF CleanOnFile
    <3> QED BY <1>1, <2>1, <2>3, <2>5, <3>1 DEF HeadOnFile
  <2> QED BY <2>4, <2>5
<1>3. CASE v = p \/ v # 0
  <2>1. file'.image[0] = file.image[0] /\ (0 < file'.pageCount <=> 0 < file.pageCount)
    BY <1>1, <1>3 DEF Placed, Alike
  <2>2. file'.pageCount = 0 <=> file.pageCount = 0
    BY <1>1, <2>1
  <2> QED BY <2>1, <2>2 DEF HeadOnFile
<1> QED
  BY <1>2, <1>3

\* The links that a crash would leave when page v of the free list is written
\* before its time: those of h up to v, and above them those of e.
Below(h, v, q) == 0 < h[q] /\ h[q] <= h[v]

Spliced(h, v, e) ==
  [q \in PageNum |-> IF Below(h, v, q) THEN h[q]
                     ELSE IF 0 < e[q] THEN e[q] + h[v] ELSE 0]

\* What is below a page of one list may stand above a whole other list.
LEMMA SplicedHeights ==
  ASSUME NEW h \in Heights, NEW e \in Heights, NEW v \in PageNum, 0 < h[v]
  PROVE  /\ Spliced(h, v, e) \in Heights
         /\ \A q \in PageNum : Below(h, v, q) => Spliced(h, v, e)[q] = h[q]
         /\ \A q \in PageNum : 0 < e[q] => 0 < Spliced(h, v, e)[q]
         /\ \A q \in PageNum : h[q] = 0 /\ e[q] = 0 => Spliced(h, v, e)[q] = 0
         /\ \A q \in PageNum : 0 < Spliced(h, v, e)[q] /\ ~Below(h, v, q) =>
              0 < e[q] /\ Spliced(h, v, e)[q] = e[q] + h[v]
<1> DEFINE s == Spliced(h, v, e)
<1>1. /\ h \in [PageNum -> Nat] /\ h[0] = 0
      /\ \A p, q \in PageNum : 0 < h[p] /\ h[p] = h[q] => p = q
  BY DEF Heights
<1>2. /\ e \in [PageNum -> Nat] /\ e[0] = 0
      /\ \A p, q \in PageNum : 0 < e[p] /\ e[p] = e[q] => p = q
  BY DEF Heights
<1>3. \A q \in PageNum : s[q] = IF Below(h, v, q) THEN h[q]
                                ELSE IF 0 < e[q] THEN e[q] + h[v] ELSE 0
  BY DEF Spliced
<1>4. \A q \in PageNum : Below(h, v, q) <=> 0 < h[q] /\ h[q] <= h[v]
  BY DEF Below
<1>5. h[v] \in Nat
  BY <1>1
<1>6. s \in [PageNum -> Nat]
  BY <1>1, <1>2, <1>5 DEF Spliced
<1> HIDE DEF s
<1>7. s[0] = 0
  BY <1>1, <1>2, <1>3, <1>4, NoPageIsInvalid
<1>8. ASSUME NEW p \in PageNum, NEW q \in PageNum, 0 < s[p], s[p] = s[q] PROVE p = q
  <2>1. h[p] \in Nat /\ h[q] \in Nat /\ e[p] \in Nat /\ e[q] \in Nat
    BY <1>1, <1>2
  <2>2. CASE Below(h, v, p) /\ Below(h, v, q)
    BY <1>1, <1>3, <1>4, <1>8, <2>2
  <2>3. CASE Below(h, v, p) /\ ~Below(h, v, q)
    <3>1. /\ s[p] = h[p] /\ 0 < h[p] /\ h[p] <= h[v]
          /\ (s[q] = e[q] + h[v] /\ 0 < e[q]) \/ s[q] = 0
      BY <1>3, <1>4, <2>3
    <3> QED BY <1>5, <1>8, <2>1, <3>1
  <2>4. CASE ~Below(h, v, p) /\ Below(h, v, q)
    <3>1. /\ s[q] = h[q] /\ 0 < h[q] /\ h[q] <= h[v]
          /\ (s[p] = e[p] + h[v] /\ 0 < e[p]) \/ s[p] = 0
      BY <1>3, <1>4, <2>4
    <3> QED BY <1>5, <1>8, <2>1, <3>1
  <2>5. CASE ~Below(h, v, p) /\ ~Below(h, v, q)
    <3>1. /\ (s[q] = e[q] + h[v] /\ 0 < e[q]) \/ s[q] = 0
          /\ (s[p] = e[p] + h[v] /\ 0 < e[p]) \/ s[p] = 0
      BY <1>3, <2>5
    <3>2. e[p] = e[q] /\ 0 < e[p]
      BY <1>5, <1>8, <2>1, <3>1
    <3> QED BY <1>2, <3>2
  <2> QED BY <2>2, <2>3, <2>4, <2>5
<1>9. s \in Heights
  BY <1>6, <1>7, <1>8 DEF Heights
<1>10. \A q \in PageNum : 0 < e[q] => 0 < s[q]
  <2> SUFFICES ASSUME NEW q \in PageNum, 0 < e[q] PROVE 0 < s[q]
    OBVIOUS
  <2>1. h[q] \in Nat /\ e[q] \in Nat
    BY <1>1, <1>2
  <2> QED BY <1>3, <1>4, <1>5, <2>1
<1>11. \A q \in PageNum : h[q] = 0 /\ e[q] = 0 => s[q] = 0
  BY <1>3, <1>4
<1>12. \A q \in PageNum : 0 < s[q] /\ ~Below(h, v, q) => 0 < e[q] /\ s[q] = e[q] + h[v]
  BY <1>3
<1> QED
  BY <1>3, <1>9, <1>10, <1>11, <1>12 DEF s

\* A page of the free list that leaves the pool leaves none in the pool below it.
LEMMA BelowDropped ==
  ASSUME TypeOK, PoolConsistent, PinsMatchGuards, SessionOK,
         NEW v \in PageNum, Dropped(v), NEW h \in Heights, FreeListOK(h),
         NEW q \in PageNum, q # v, Below(h, v, q)
  PROVE  ~Cached(q)
<1> SUFFICES ASSUME Cached(q) PROVE FALSE
  OBVIOUS
<1>1. /\ h \in [PageNum -> Nat] /\ live \subseteq PageNum
      /\ \A r, s \in PageNum : 0 < h[r] /\ h[r] = h[s] => r = s
  BY DEF Heights, TypeOK, ClientTypeOK
<1>2. 0 < h[q] /\ h[q] <= h[v]
  BY DEF Below
<1>3. h[q] < h[v]
  <2>1. h[q] # h[v] /\ h[q] \in Nat /\ h[v] \in Nat
    BY <1>1, <1>2
  <2> QED BY <1>2, <2>1
<1>4. Before(v, q)
  BY <1>2, <1>3 DEF FreeListOK
<1>5. q \notin live
  <2>1. h[q] # 0
    BY <1>1, <1>2
  <2> QED BY <2>1 DEF FreeListOK
<1>6. FrameOf(q).pinCount = 0
  BY <1>5, FreeUnpinned
<1> QED
  BY <1>4, <1>6 DEF Dropped

\* The free list that a crash would leave, after a page has been placed.
LEMMA PlacedOnFileOK ==
  ASSUME TypeOK, TypeOK', PoolConsistent, PinsMatchGuards, SessionOK, CleanOnFile,
         HeaderOK, NotLinked, call = NoCall,
         NEW p \in PageNum, NEW v \in PageNum, Placed(p, v),
         NEW h \in Heights, FreeListOK(h), NEW e \in Heights, FreeOnFileOK(e),
         DOMAIN kept' \subseteq DOMAIN kept
  PROVE  \E s \in Heights : FreeOnFileOK(s)'
<1>1. HeadOnFile' = HeadOnFile
  BY PlacedHeadOnFile
<1>2. /\ \A q \in PageNum : q # v \/ q = p \/ ~Dirty(q) => LinkOnFile(q)' = LinkOnFile(q)
      /\ v # p /\ Dirty(v) => LinkOnFile(v)' = Linked(v)
  BY PlacedLinksOnFile
<1>3. /\ HeadOnFile # INVALID_PAGE => HeadOnFile \in PageNum /\ 0 < e[HeadOnFile]
      /\ \A q \in DOMAIN kept : e[q] = 0
      /\ \A q \in PageNum : 0 < e[q] => Down(e, q, LinkOnFile(q))
  BY DEF FreeOnFileOK
<1>4. ASSUME \A q \in PageNum : LinkOnFile(q)' = LinkOnFile(q) \/ LinkOnFile(q)' = INVALID_PAGE
      PROVE  FreeOnFileOK(e)'
  <2>1. \A q \in PageNum : 0 < e[q] => Down(e, q, LinkOnFile(q)')
    BY <1>3, <1>4 DEF Down
  <2> QED BY <1>1, <1>3, <2>1 DEF FreeOnFileOK
<1>5. CASE v = p \/ ~Dirty(v)
  <2>1. \A q \in PageNum : LinkOnFile(q)' = LinkOnFile(q)
    BY <1>2, <1>5
  <2> QED BY <1>4, <2>1
<1>6. CASE v # p /\ Dirty(v) /\ v \in live
  <2>1. LinkOnFile(v)' = INVALID_PAGE
    BY <1>2, <1>6 DEF NotLinked, Dirty
  <2>2. \A q \in PageNum : LinkOnFile(q)' = LinkOnFile(q) \/ LinkOnFile(q)' = INVALID_PAGE
    BY <1>2, <2>1
  <2> QED BY <1>4, <2>2
<1>7. CASE v # p /\ Dirty(v) /\ v \notin live
  <2> DEFINE s == Spliced(h, v, e)
  <2>1. 0 < h[v] /\ Dropped(v)
    BY <1>7 DEF FreeListOK, Dirty, Placed
  <2>2. /\ s \in Heights
        /\ \A q \in PageNum : Below(h, v, q) => s[q] = h[q]
        /\ \A q \in PageNum : 0 < e[q] => 0 < s[q]
        /\ \A q \in PageNum : h[q] = 0 /\ e[q] = 0 => s[q] = 0
        /\ \A q \in PageNum : 0 < s[q] /\ ~Below(h, v, q) => 0 < e[q] /\ s[q] = e[q] + h[v]
    BY <2>1, SplicedHeights
  <2>3. /\ h \in [PageNum -> Nat] /\ e \in [PageNum -> Nat] /\ s \in [PageNum -> Nat]
        /\ live \subseteq PageNum
    BY <2>2 DEF Heights, TypeOK, ClientTypeOK
  <2> HIDE DEF s
  <2>4. \A q \in DOMAIN kept' : s[q] = 0
    <3> SUFFICES ASSUME NEW q \in DOMAIN kept PROVE s[q] = 0
      OBVIOUS
    <3>1. q \in live /\ q \in PageNum
      BY <2>3 DEF SessionOK
    <3>2. h[q] = 0
      BY <3>1 DEF FreeListOK
    <3> QED BY <1>3, <2>2, <3>1, <3>2
  <2>5. ASSUME NEW q \in PageNum, Below(h, v, q) PROVE Down(s, q, LinkOnFile(q)')
    <3>1. Down(h, q, LinkOnFile(q)')
      <4>1. CASE q = v
        <5>1. Cached(v) /\ LinkOnFile(q)' = Linked(v)
          BY <1>2, <1>7, <4>1 DEF Dirty
        <5> QED BY <2>1, <4>1, <5>1 DEF FreeListOK
      <4>2. CASE q # v
        <5>1. ~Cached(q)
          BY <2>1, <2>5, <4>2, BelowDropped
        <5>2. ~Dirty(q) /\ 0 < h[q]
          BY <2>5, <5>1 DEF Dirty, Below
        <5>3. LinkOnFile(q)' = LinkOnFile(q)
          BY <1>2, <4>2
        <5> QED BY <5>2, <5>3 DEF FreeListOK
      <4> QED BY <4>1, <4>2
    <3> SUFFICES ASSUME NEW m, m \in PageNum, 0 < h[m], h[m] < h[q]
                 PROVE  0 < s[m] /\ s[m] < s[q]
      BY <3>1 DEF Down
    <3>2. Below(h, v, m)
      <4>1. h[q] <= h[v]
        BY <2>5 DEF Below
      <4>2. h[m] <= h[v]
        BY <2>3, <4>1
      <4> QED BY <4>2 DEF Below
    <3> QED BY <2>2, <2>5, <3>2
  <2>6. ASSUME NEW q \in PageNum, 0 < s[q], ~Below(h, v, q)
        PROVE  Down(s, q, LinkOnFile(q)')
    <3>1. 0 < e[q] /\ s[q] = e[q] + h[v]
      BY <2>2, <2>6
    <3>2. q # v
      <4>1. h[v] <= h[v]
        BY <2>3
      <4> QED BY <2>1, <2>6, <4>1 DEF Below
    <3>3. Down(e, q, LinkOnFile(q)')
      BY <1>2, <1>3, <3>1, <3>2
    <3> SUFFICES ASSUME NEW m, m \in PageNum, 0 < e[m], e[m] < e[q]
                 PROVE  0 < s[m] /\ s[m] < s[q]
      BY <3>3 DEF Down
    <3>4. 0 < s[m] /\ h[m] \in Nat /\ h[v] \in Nat /\ e[m] \in Nat /\ e[q] \in Nat
      BY <2>2, <2>3
    <3>5. CASE Below(h, v, m)
      <4>1. s[m] = h[m] /\ h[m] <= h[v]
        BY <2>2, <3>5 DEF Below
      <4> QED BY <3>1, <3>4, <4>1
    <3>6. CASE ~Below(h, v, m)
      <4>1. s[m] = e[m] + h[v]
        BY <2>2, <3>4, <3>6
      <4> QED BY <3>1, <3>4, <4>1
    <3> QED BY <3>5, <3>6
  <2>7. HeadOnFile # INVALID_PAGE => HeadOnFile \in PageNum /\ 0 < s[HeadOnFile]
    BY <1>3, <2>2
  <2>8. FreeOnFileOK(s)'
    BY <1>1, <2>4, <2>5, <2>6, <2>7 DEF FreeOnFileOK
  <2> QED BY <2>2, <2>8
<1> QED
  BY <1>5, <1>6, <1>7

\* The whole list, when a page is placed that is not in it.
LEMMA PlacedWholeList ==
  ASSUME TypeOK, PoolConsistent, PinsMatchGuards, SessionOK, CleanOnFile,
         NEW p \in PageNum, NEW v \in PageNum, Placed(p, v),
         NEW h \in Heights, FreeListOK(h), h[p] = 0,
         freespaceHead' = freespaceHead, live' = live \cup {p}
  PROVE  \E u \in Heights : FreeListOK(u)'
<1>1. h \in [PageNum -> Nat] /\ HeadIs(h, freespaceHead)
  BY DEF Heights, FreeListOK
<1>2. PICK n \in Nat : \A q \in PageNum : h[q] <= n
  <2>1. CASE freespaceHead = INVALID_PAGE
    <3>1. \A q \in PageNum : h[q] <= 0
      BY <1>1, <2>1 DEF HeadIs
    <3> QED BY <3>1
  <2>2. CASE freespaceHead # INVALID_PAGE
    <3>1. freespaceHead \in PageNum /\ \A q \in PageNum : h[q] <= h[freespaceHead]
      BY <1>1, <2>2 DEF HeadIs
    <3> QED BY <1>1, <3>1
  <2> QED BY <2>1, <2>2
<1>3. PICK u : u = UpTo(h, n)
  OBVIOUS
<1>4. \A q \in PageNum : u[q] = h[q]
  BY <1>2, <1>3 DEF UpTo
<1>5. HeadIs(u, freespaceHead')
  BY <1>1, <1>4 DEF HeadIs
<1>6. u[p] = 0
  BY <1>4
<1> QED
  BY <1>2, <1>3, <1>5, <1>6, PlacedListOK

\* The list without its head, when that has been placed.
LEMMA PlacedHeadOfList ==
  ASSUME TypeOK, PoolConsistent, PinsMatchGuards, SessionOK, CleanOnFile,
         NEW p \in PageNum, NEW v \in PageNum, Placed(p, v),
         NEW h \in Heights, FreeListOK(h), p = freespaceHead,
         freespaceHead' = (IF Cached(p) THEN Linked(p) ELSE LinkOnFile(p)),
         live' = live \cup {p}
  PROVE  \E u \in Heights : FreeListOK(u)'
<1>1. /\ h \in [PageNum -> Nat]
      /\ \A r, s \in PageNum : 0 < h[r] /\ h[r] = h[s] => r = s
  BY DEF Heights
<1>2. 0 < h[p] /\ \A q \in PageNum : h[q] <= h[p]
  BY NoPageIsInvalid DEF FreeListOK, HeadIs
<1>3. Down(h, p, freespaceHead')
  BY <1>2 DEF FreeListOK, Dirty
<1>4. PICK n \in Nat : n = IF freespaceHead' = INVALID_PAGE THEN 0 ELSE h[freespaceHead']
  BY <1>1, <1>3 DEF Down
<1>5. n < h[p]
  BY <1>2, <1>3, <1>4 DEF Down
<1>6. ASSUME NEW q \in PageNum \ {p}, Cached(q) PROVE h[q] <= n
  <2>1. h[q] \in Nat /\ h[p] \in Nat /\ h[q] <= h[p]
    BY <1>1, <1>2
  <2>2. CASE h[q] = 0
    BY <2>2
  <2>3. CASE 0 < h[q]
    <3>1. h[q] < h[p]
      <4>1. h[q] # h[p]
        BY <1>1, <2>3
      <4> QED BY <2>1, <4>1
    <3>2. Cached(p)
      BY <1>6, <2>3, <3>1 DEF FreeListOK
    <3>3. Linked(p) # INVALID_PAGE /\ h[q] <= h[Linked(p)]
      BY <1>6, <2>3, <3>1, <3>2 DEF FreeListOK
    <3> QED BY <1>4, <3>2, <3>3
  <2> QED BY <2>1, <2>2, <2>3
<1>7. PICK u : u = UpTo(h, n)
  OBVIOUS
<1>8. \A q \in PageNum : u[q] = IF h[q] <= n THEN h[q] ELSE 0
  BY <1>7 DEF UpTo
<1>9. u[p] = 0
  BY <1>1, <1>5, <1>8
<1>10. HeadIs(u, freespaceHead')
  <2>1. CASE freespaceHead' = INVALID_PAGE
    <3>1. \A q \in PageNum : u[q] = 0
      <4> SUFFICES ASSUME NEW q \in PageNum PROVE u[q] = 0
        OBVIOUS
      <4>1. h[q] \in Nat /\ n = 0
        BY <1>1, <1>4, <2>1
      <4> QED BY <1>8, <4>1
    <3> QED BY <2>1, <3>1 DEF HeadIs
  <2>2. CASE freespaceHead' # INVALID_PAGE
    <3>1. freespaceHead' \in PageNum /\ 0 < h[freespaceHead'] /\ n = h[freespaceHead']
      BY <1>3, <1>4, <2>2 DEF Down
    <3>2. u[freespaceHead'] = n
      BY <1>8, <3>1
    <3>3. \A q \in PageNum : u[q] <= n
      <4> SUFFICES ASSUME NEW q \in PageNum PROVE u[q] <= n
        OBVIOUS
      <4>1. h[q] \in Nat
        BY <1>1
      <4> QED BY <1>8, <4>1
    <3> QED BY <2>2, <3>1, <3>2, <3>3 DEF HeadIs
  <2> QED BY <2>1, <2>2
<1> QED
  BY <1>6, <1>7, <1>9, <1>10, PlacedListOK

\* The list with a page of the client in front of it.
LEMMA DeletedListOK ==
  ASSUME TypeOK, NEW p \in PageNum \ {0}, p \in live, Cached(p), Placed(p, p),
         NEW h \in Heights, FreeListOK(h),
         Linked(p)' = freespaceHead, freespaceHead' = p, live' = live \ {p},
         ~Dirty(p)' => LinkOnFile(p)' = INVALID_PAGE
  PROVE  \E u \in Heights : FreeListOK(u)'
<1>1. /\ h \in [PageNum -> Nat] /\ h[0] = 0 /\ p \in PageNum /\ p # 0 /\ 0 \in PageNum
      /\ \A r, s \in PageNum : 0 < h[r] /\ h[r] = h[s] => r = s
  BY NoPageIsInvalid DEF Heights
<1>2. h[p] = 0 /\ HeadIs(h, freespaceHead)
  BY DEF FreeListOK
<1>3. PICK n \in Nat : n = IF freespaceHead = INVALID_PAGE THEN 0 ELSE h[freespaceHead]
  BY <1>1, <1>2 DEF HeadIs
<1>4. \A q \in PageNum : h[q] <= n
  BY <1>1, <1>2, <1>3 DEF HeadIs
<1>5. PICK u : u = [h EXCEPT ![p] = n + 1]
  OBVIOUS
<1>6. /\ u \in [PageNum -> Nat] /\ u[p] = n + 1 /\ 0 < u[p]
      /\ \A q \in PageNum \ {p} : u[q] = h[q] /\ u[q] < u[p]
  <2>1. u \in [PageNum -> Nat] /\ u[p] = n + 1
    BY <1>1, <1>5
  <2>2. \A q \in PageNum \ {p} : u[q] = h[q]
    BY <1>1, <1>5
  <2>3. \A q \in PageNum \ {p} : u[q] < n + 1
    BY <1>1, <1>4, <2>2
  <2> QED BY <2>1, <2>2, <2>3
<1>7. u \in Heights
  <2>1. u[0] = 0
    BY <1>1, <1>6
  <2>2. ASSUME NEW r \in PageNum, NEW s \in PageNum, 0 < u[r], u[r] = u[s] PROVE r = s
    <3>1. r = p <=> s = p
      BY <1>6, <2>2
    <3> QED BY <1>1, <1>6, <2>2, <3>1
  <2> QED BY <1>6, <2>1, <2>2 DEF Heights
<1>8. ASSUME NEW q \in PageNum \ {p}, NEW m, Down(h, q, m) PROVE Down(u, q, m)
  <2> SUFFICES ASSUME m \in PageNum, 0 < h[m], h[m] < h[q] PROVE 0 < u[m] /\ u[m] < u[q]
    BY <1>8 DEF Down
  <2>1. m # p
    BY <1>2
  <2> QED BY <1>6, <2>1
<1>9. \A q \in PageNum \ {p} : Alike(q)
  BY DEF Placed
<1>10. Cached(p)'
  BY DEF Placed
<1>11. HeadIs(u, freespaceHead')
  <2>1. \A q \in PageNum : u[q] <= u[p]
    BY <1>6
  <2> QED BY <1>6, <2>1, NoPageIsInvalid DEF HeadIs
<1>12. \A q \in PageNum : Cached(q)' /\ q \notin live' => 0 < u[q]
  <2> SUFFICES ASSUME NEW q \in PageNum \ {p}, Cached(q)', q \notin live PROVE 0 < u[q]
    BY <1>6
  <2>1. Cached(q)
    BY <1>9, AlikeLinks
  <2>2. 0 < h[q]
    BY <2>1 DEF FreeListOK
  <2> QED BY <1>6, <2>2
<1>13. \A q \in live' : u[q] = 0
  <2> SUFFICES ASSUME NEW q \in live \ {p} PROVE u[q] = 0
    OBVIOUS
  <2>1. q \in PageNum /\ h[q] = 0
    BY DEF TypeOK, ClientTypeOK, FreeListOK
  <2> QED BY <1>6, <2>1
<1>14. Down(u, p, freespaceHead)
  <2> SUFFICES ASSUME freespaceHead # INVALID_PAGE
               PROVE  freespaceHead \in PageNum /\ 0 < u[freespaceHead] /\ u[freespaceHead] < u[p]
    BY DEF Down
  <2>1. freespaceHead \in PageNum /\ 0 < h[freespaceHead]
    BY <1>2 DEF HeadIs
  <2>2. freespaceHead # p
    BY <1>2, <2>1
  <2> QED BY <1>6, <2>1, <2>2
<1>15. \A q \in PageNum : 0 < u[q] /\ Cached(q)' => Down(u, q, Linked(q)')
  <2> SUFFICES ASSUME NEW q \in PageNum \ {p}, 0 < u[q], Cached(q)'
               PROVE  Down(u, q, Linked(q)')
    BY <1>14
  <2>1. Cached(q) /\ Linked(q)' = Linked(q) /\ 0 < h[q]
    BY <1>6, <1>9, AlikeLinks
  <2>2. Down(h, q, Linked(q))
    BY <2>1 DEF FreeListOK
  <2> QED BY <1>8, <2>1, <2>2
<1>16. \A q, r \in PageNum :
         Cached(q)' /\ Cached(r)' /\ 0 < u[r] /\ u[r] < u[q] =>
           Linked(q)' # INVALID_PAGE /\ u[r] <= u[Linked(q)']
  <2> SUFFICES ASSUME NEW q \in PageNum, NEW r \in PageNum,
                      Cached(q)', Cached(r)', 0 < u[r], u[r] < u[q]
               PROVE  Linked(q)' # INVALID_PAGE /\ u[r] <= u[Linked(q)']
    OBVIOUS
  <2>1. r # p
    <3>1. u[q] \in Nat /\ u[r] \in Nat /\ u[q] <= u[p]
      BY <1>6
    <3> QED BY <3>1
  <2>2. u[r] = h[r] /\ 0 < h[r] /\ Cached(r)
    BY <1>6, <1>9, <2>1, AlikeLinks
  <2>3. CASE q = p
    <3>1. freespaceHead # INVALID_PAGE
      <4>1. h[r] \in Nat /\ h[r] # 0
        BY <1>1, <2>2
      <4> QED BY <1>2, <4>1 DEF HeadIs
    <3>2. freespaceHead \in PageNum /\ 0 < h[freespaceHead] /\ h[r] <= h[freespaceHead]
      BY <1>2, <3>1 DEF HeadIs
    <3>3. freespaceHead # p
      BY <1>2, <3>2
    <3> QED BY <1>6, <2>2, <2>3, <3>1, <3>2, <3>3
  <2>4. CASE q # p
    <3>1. Cached(q) /\ Linked(q)' = Linked(q) /\ u[q] = h[q]
      BY <1>6, <1>9, <2>4, AlikeLinks
    <3>2. Linked(q) # INVALID_PAGE /\ h[r] <= h[Linked(q)]
      BY <2>2, <3>1 DEF FreeListOK
    <3>3. 0 < h[q]
      <4>1. h[q] \in Nat /\ h[r] \in Nat
        BY <1>1
      <4> QED BY <2>2, <3>1, <4>1
    <3>4. Linked(q) \in PageNum /\ 0 < h[Linked(q)]
      BY <3>1, <3>2, <3>3 DEF FreeListOK, Down
    <3>5. Linked(q) # p
      BY <1>2, <3>4
    <3> QED BY <1>6, <2>2, <3>1, <3>2, <3>4, <3>5
  <2> QED BY <2>3, <2>4
<1>17. \A q \in PageNum : 0 < u[q] /\ ~Dirty(q)' => Down(u, q, LinkOnFile(q)')
  <2> SUFFICES ASSUME NEW q \in PageNum \ {p}, 0 < u[q], ~Dirty(q)'
               PROVE  Down(u, q, LinkOnFile(q)')
    BY DEF Down
  <2>1. ~Dirty(q) /\ LinkOnFile(q)' = LinkOnFile(q) /\ 0 < h[q]
    BY <1>6, <1>9, AlikeLinks
  <2>2. Down(h, q, LinkOnFile(q))
    BY <2>1 DEF FreeListOK
  <2> QED BY <1>8, <2>1, <2>2
<1>18. \A q, r \in PageNum :
         Cached(q)' /\ 0 < u[q] /\ u[q] < u[r] => Cached(r)' /\ Before(r, q)'
  <2> SUFFICES ASSUME NEW q \in PageNum, NEW r \in PageNum,
                      Cached(q)', 0 < u[q], u[q] < u[r]
               PROVE  Cached(r)' /\ Before(r, q)'
    OBVIOUS
  <2>1. q # p
    <3>1. u[q] \in Nat /\ u[r] \in Nat /\ u[r] <= u[p]
      BY <1>6
    <3> QED BY <3>1
  <2>2. u[q] = h[q] /\ 0 < h[q] /\ Cached(q)
    BY <1>6, <1>9, <2>1, AlikeLinks
  <2>3. CASE r = p
    BY <1>10, <2>1, <2>2, <2>3 DEF Placed
  <2>4. CASE r # p
    <3>1. Cached(r) /\ Before(r, q)
      <4>1. u[r] = h[r]
        BY <1>6, <2>4
      <4> QED BY <2>2, <4>1 DEF FreeListOK
    <3> QED BY <1>9, <2>1, <2>4, <3>1, AlikeLinks DEF Placed
  <2> QED BY <2>3, <2>4
<1>19. FreeListOK(u)'
  BY <1>11, <1>12, <1>13, <1>15, <1>16, <1>17, <1>18 DEF FreeListOK
<1> QED
  BY <1>7, <1>19

\* The header that a page in the pool, or else on file, contains.
HeaderOf(i) == [magic |-> i.magic, count |-> i.count, free |-> i.free]

HeaderZero == HeaderOf(IF Cached(0) THEN FrameOf(0).data ELSE file.image[0])

\* The session, when page p has been placed and nothing is lost by it.
LEMMA PlacedSessionOK ==
  ASSUME TypeOK, SessionOK, CleanOnFile, status = "open", status' = "open",
         NEW p \in PageNum, NEW v \in PageNum, Placed(p, v),
         0 \in live', DOMAIN kept' \subseteq live',
         \A g \in GuardId : guards'[g] # NoGuard => guards'[g].page \in live',
         highestAllocated' \in PageNum,
         \A q \in PageNum \ {p} : q <= highestAllocated' => q <= highestAllocated
  PROVE  SessionOK'
<1>1. Cached(p)' /\ StreamOK'
  BY DEF Placed
<1>2. ASSUME NEW q \in PageNum, q <= highestAllocated'
      PROVE  Cached(q)' \/ q < file'.pageCount
  <2>1. CASE q = p
    BY <1>1, <2>1
  <2>2. CASE q # p /\ q = v
    BY <2>2 DEF Placed, Dropped
  <2>3. CASE q # p /\ q # v
    <3>1. Alike(q)
      BY <2>3 DEF Placed
    <3>2. Cached(q) \/ q < file.pageCount
      BY <1>2, <2>3 DEF SessionOK
    <3> QED BY <3>1, <3>2 DEF Alike
  <2> QED BY <2>1, <2>2, <2>3
<1> QED
  BY <1>1, <1>2 DEF SessionOK

\* Pages that are clean, and links, when page p has been placed.
LEMMA PlacedCleanOnFile ==
  ASSUME CleanOnFile,
         NEW p \in PageNum, NEW v \in PageNum, Placed(p, v),
         Dirty(p)' \/ p < file.pageCount,
         p = 0 => Dirty(0)' \/ file.image[0] = (FrameOf(0).data)'
  PROVE  CleanOnFile'
<1>1. ASSUME NEW q \in PageNum, Cached(q)', ~Dirty(q)' PROVE q < file'.pageCount
  <2>1. CASE q = p
    BY <1>1, <2>1 DEF Placed
  <2>2. CASE q # p
    <3>1. q # v
      BY <1>1, <2>2 DEF Placed, Dropped
    <3>2. Alike(q)
      BY <2>2, <3>1 DEF Placed
    <3>3. Cached(q) /\ ~Dirty(q)
      BY <1>1, <3>2, AlikeLinks
    <3>4. q < file.pageCount
      BY <3>3 DEF CleanOnFile
    <3> QED BY <3>2, <3>4 DEF Alike
  <2> QED BY <2>1, <2>2
<1>2. ASSUME Cached(0)', ~Dirty(0)' PROVE file'.image[0] = (FrameOf(0).data)'
  <2>1. CASE p = 0
    BY <1>2, <2>1 DEF Placed
  <2>2. CASE p # 0
    <3>1. v # 0
      BY <1>2, <2>2 DEF Placed, Dropped
    <3>2. Alike(0)
      BY <2>2, <3>1, NoPageIsInvalid DEF Placed
    <3>3. Cached(0) /\ ~Dirty(0)
      BY <1>2, <3>2, AlikeLinks
    <3>4. file.image[0] = FrameOf(0).data
      BY <3>3 DEF CleanOnFile
    <3> QED BY <3>2, <3>3, <3>4 DEF Alike
  <2> QED BY <2>1, <2>2
<1> QED
  BY <1>1, <1>2 DEF CleanOnFile

\* The client's pages stay without links when a page is placed.
LEMMA PlacedNotLinked ==
  ASSUME TypeOK, SessionOK, CleanOnFile, NotLinked, status = "open",
         NEW p \in PageNum, NEW v \in PageNum, Placed(p, v),
         live' \subseteq live \cup {p}, DOMAIN kept' \subseteq DOMAIN kept,
         p \in live' => /\ Linked(p)' = INVALID_PAGE
                        /\ Dirty(p)' \/ LinkOnFile(p) = INVALID_PAGE
  PROVE  NotLinked'
<1>0. live \subseteq PageNum /\ 0 \in live /\ DOMAIN kept \subseteq live
  BY DEF TypeOK, ClientTypeOK, SessionOK
<1>1. /\ \A q \in PageNum : q # v \/ q = p \/ ~Dirty(q) => LinkOnFile(q)' = LinkOnFile(q)
      /\ v # p /\ Dirty(v) => LinkOnFile(v)' = Linked(v)
  BY PlacedLinksOnFile
<1>2. ASSUME NEW q \in live, LinkOnFile(q) = INVALID_PAGE PROVE LinkOnFile(q)' = INVALID_PAGE
  <2>1. CASE q # v \/ q = p \/ ~Dirty(q)
    BY <1>0, <1>1, <1>2, <2>1
  <2>2. CASE q = v /\ q # p /\ Dirty(q)
    BY <1>1, <2>2 DEF NotLinked, Dirty
  <2> QED BY <2>1, <2>2
<1>3. ASSUME NEW q \in live \ {p}, Cached(q)' PROVE Linked(q)' = INVALID_PAGE
  <2>1. q # v
    BY <1>3 DEF Placed, Dropped
  <2>2. Alike(q)
    BY <1>0, <1>3, <2>1 DEF Placed
  <2> QED BY <1>3, <2>2, AlikeLinks DEF NotLinked
<1>4. ASSUME NEW q \in live \ {p}, ~Dirty(q)' PROVE LinkOnFile(q)' = INVALID_PAGE
  <2>1. CASE q = v /\ Dirty(q)
    BY <1>1, <2>1 DEF NotLinked, Dirty
  <2>2. CASE ~Dirty(q)
    <3>1. LinkOnFile(q) = INVALID_PAGE
      BY <2>2 DEF NotLinked
    <3> QED BY <1>2, <3>1
  <2>3. CASE q # v /\ Dirty(q)
    <3>1. Alike(q)
      BY <1>0, <1>4, <2>3 DEF Placed
    <3> QED BY <1>4, <2>3, <3>1, AlikeLinks
  <2> QED BY <2>1, <2>2, <2>3
<1>5. LinkOnFile(0)' = INVALID_PAGE
  BY <1>0, <1>2 DEF NotLinked
<1>6. \A q \in DOMAIN kept' : LinkOnFile(q)' = INVALID_PAGE
  <2> SUFFICES ASSUME NEW q \in DOMAIN kept PROVE LinkOnFile(q)' = INVALID_PAGE
    OBVIOUS
  <2>1. q \in live /\ LinkOnFile(q) = INVALID_PAGE
    BY <1>0 DEF NotLinked
  <2> QED BY <1>2, <2>1
<1>7. p \in live' => Linked(p)' = INVALID_PAGE /\ (~Dirty(p)' => LinkOnFile(p)' = INVALID_PAGE)
  BY <1>1
<1>8. \A q \in live' : q \in live \ {p} \/ q = p
  OBVIOUS
<1>9. \A q \in live' : Cached(q)' => Linked(q)' = INVALID_PAGE
  BY <1>3, <1>7, <1>8
<1>10. \A q \in live' : ~Dirty(q)' => LinkOnFile(q)' = INVALID_PAGE
  BY <1>4, <1>7, <1>8
<1> QED
  BY <1>5, <1>6, <1>9, <1>10 DEF NotLinked

\* The header, when page p has been placed; flushAll, which comes with a new one,
\* starts a loop.
LEMMA PlacedHeaderOK ==
  ASSUME TypeOK, TypeOK', HeaderOK, CleanOnFile, call = NoCall,
         NEW p \in PageNum, NEW v \in PageNum, Placed(p, v),
         p = 0 => /\ Cached(0) \/ 0 < file.pageCount
                  /\ HeaderZero.magic => (FrameOf(0).data)'.magic
                  /\ call' = NoCall => HeaderOf((FrameOf(0).data)') = HeaderZero
  PROVE  HeaderOK'
<1> DEFINE n == file.pageCount
<1>1. /\ n \in Nat /\ file'.pageCount \in Nat /\ n <= file'.pageCount
      /\ HeadOnFile' = HeadOnFile /\ 0 \in PageNum
  BY PlacedHeadOnFile, NoPageIsInvalid DEF TypeOK, IOTypeOK, FileType, Placed
<1>2. /\ 0 < n => file.image[0].magic /\ file.image[0].count \in 1 .. n
      /\ Cached(0) => /\ FrameOf(0).data.magic
                      /\ FrameOf(0).data.free = HeadOnFile
                      /\ FrameOf(0).data.count = IF n = 0 THEN 1 ELSE file.image[0].count
  BY DEF HeaderOK
<1>3. CASE p = 0
  <2>1. /\ file'.image[0] = file.image[0]
        /\ 0 < file'.pageCount <=> 0 < n
        /\ file'.pageCount = 0 <=> n = 0
    BY <1>1, <1>3 DEF Placed
  <2>2. 0 < n => file'.image[0].count \in 1 .. file'.pageCount
    BY <1>1, <1>2, <2>1
  <2>3. /\ HeaderZero.magic
        /\ HeaderZero.free = HeadOnFile
        /\ HeaderZero.count = IF n = 0 THEN 1 ELSE file.image[0].count
    <3>1. CASE Cached(0)
      BY <1>2, <3>1 DEF HeaderZero, HeaderOf
    <3>2. CASE ~Cached(0)
      <4>1. 0 < n
        BY <1>3, <3>2
      <4> QED BY <1>1, <1>2, <3>2, <4>1 DEF HeaderZero, HeaderOf, HeadOnFile
    <3> QED BY <3>1, <3>2
  <2>4. (FrameOf(0).data)'.magic
    BY <1>3, <2>3
  <2>5. ASSUME call' = NoCall
        PROVE  /\ (FrameOf(0).data)'.free = HeadOnFile
               /\ (FrameOf(0).data)'.count = IF n = 0 THEN 1 ELSE file.image[0].count
    <3>1. /\ (FrameOf(0).data)'.free = HeaderZero.free
          /\ (FrameOf(0).data)'.count = HeaderZero.count
      BY <1>3, <2>5 DEF HeaderOf
    <3> QED BY <2>3, <3>1
  <2> QED BY <1>1, <1>2, <2>1, <2>2, <2>4, <2>5 DEF HeaderOK
<1>4. CASE p # 0 /\ v = 0
  <2>1. /\ Cached(0) /\ ~Cached(0)' /\ 0 < file'.pageCount
        /\ file'.image[0] = IF Dirty(0) THEN FrameOf(0).data ELSE file.image[0]
    BY <1>4 DEF Placed, Dropped
  <2>2. file'.image[0].magic /\ file'.image[0].count \in 1 .. file'.pageCount
    <3>1. CASE Dirty(0)
      <4>1. CASE n = 0
        BY <1>1, <1>2, <2>1, <3>1, <4>1
      <4>2. CASE n # 0
        <5>1. FrameOf(0).data.count \in 1 .. n
          BY <1>1, <1>2, <2>1, <4>2
        <5> QED BY <1>1, <1>2, <2>1, <3>1, <5>1
      <4> QED BY <4>1, <4>2
    <3>2. CASE ~Dirty(0)
      <4>1. 0 < n
        BY <1>1, <2>1, <3>2 DEF CleanOnFile
      <4> QED BY <1>1, <1>2, <2>1, <3>2, <4>1
    <3> QED BY <3>1, <3>2
  <2> QED BY <2>1, <2>2 DEF HeaderOK
<1>5. CASE p # 0 /\ v # 0
  <2>1. Alike(0)
    BY <1>1, <1>5 DEF Placed
  <2>2. /\ Cached(0)' <=> Cached(0)
        /\ Cached(0) => (FrameOf(0).data)' = FrameOf(0).data
        /\ file'.image[0] = file.image[0]
        /\ 0 < file'.pageCount <=> 0 < n
        /\ file'.pageCount = 0 <=> n = 0
    BY <1>1, <2>1 DEF Alike
  <2>3. 0 < n => file'.image[0].count \in 1 .. file'.pageCount
    BY <1>1, <1>2, <2>2
  <2> QED BY <1>1, <1>2, <2>2, <2>3 DEF HeaderOK
<1> QED
  BY <1>3, <1>4, <1>5

-----------------------------------------------------------------------------
(* The operations on pages. *)

\* The whole of the invariant, when page p has been placed.
LEMMA PlacedInv ==
  ASSUME TypeOK, TypeOK', PoolConsistent, PinsMatchGuards, FreeInv,
         status = "open", status' = "open", call = NoCall, FlushLoopOK',
         NEW p \in PageNum, NEW v \in PageNum, Placed(p, v),
         0 \in live', live' \subseteq live \cup {p}, DOMAIN kept' = DOMAIN kept \cap live',
         \A g \in GuardId : guards'[g] # NoGuard => guards'[g].page \in live',
         highestAllocated' \in PageNum,
         \A q \in PageNum \ {p} : q <= highestAllocated' => q <= highestAllocated,
         Dirty(p)' \/ p < file.pageCount,
         p \in live' => /\ Linked(p)' = INVALID_PAGE
                        /\ Dirty(p)' \/ LinkOnFile(p) = INVALID_PAGE,
         p = 0 => /\ Cached(0) \/ 0 < file.pageCount
                  /\ Dirty(0)' \/ file.image[0] = (FrameOf(0).data)'
                  /\ HeaderZero.magic => (FrameOf(0).data)'.magic
                  /\ call' = NoCall => HeaderOf((FrameOf(0).data)') = HeaderZero,
         \E u \in Heights : FreeListOK(u)'
  PROVE  FreeInv'
<1>1. PagesOK
  BY DEF FreeInv
<1>2. SessionOK /\ HeaderOK /\ CleanOnFile /\ NotLinked
  BY <1>1 DEF PagesOK
<1>3. DOMAIN kept' \subseteq DOMAIN kept /\ DOMAIN kept' \subseteq live'
  OBVIOUS
<1>4. SessionOK'
  BY <1>2, <1>3, PlacedSessionOK
<1>5. CleanOnFile'
  BY <1>2, PlacedCleanOnFile
<1>6. NotLinked'
  BY <1>2, <1>3, PlacedNotLinked
<1>7. HeaderOK'
  BY <1>2, PlacedHeaderOK
<1>8. \E e \in Heights : FreeOnFileOK(e)'
  <2>1. PICK h \in Heights : FreeListOK(h)
    BY DEF FreeInv
  <2>2. PICK e \in Heights : FreeOnFileOK(e)
    BY DEF FreeInv
  <2> QED BY <1>2, <1>3, <2>1, <2>2, PlacedOnFileOK
<1> QED
  BY <1>4, <1>5, <1>6, <1>7, <1>8 DEF FreeInv, PagesOK

\* Page p has been fetched into frame f, which is then x.
FetchedAs(p, f, x) == Fetch(p, f) /\ frames' = [frames EXCEPT ![f] = x]

LEMMA FetchedOK ==
  ASSUME TypeOK, PoolConsistent, StreamOK, CleanOnFile,
         NEW p \in PageNum, NEW f \in FrameIndex, NEW x, FetchedAs(p, f, x)
  PROVE  /\ \E v \in PageNum : Placed(p, v)
         /\ FrameOf(p)' = x
         /\ Cached(p)'
         /\ Dirty(p)' <=> x.dirty
         /\ Linked(p)' = x.data.next
         /\ Cached(p) \/ p < file.pageCount
         /\ Dirty(p) \/ p < file.pageCount
         /\ Fetched(p, f).dirty <=> Dirty(p)
         /\ Fetched(p, f).data = IF Cached(p) THEN FrameOf(p).data ELSE file.image[p]
         /\ Fetched(p, f).data.next = IF Cached(p) THEN Linked(p) ELSE LinkOnFile(p)
         /\ p = 0 /\ ~Dirty(0) => file.image[0] = Fetched(p, f).data
         /\ p = 0 => HeaderOf(Fetched(p, f).data) = HeaderZero
<1>1. frames \in [FrameIndex -> Frame]
  BY DEF TypeOK
<1>2. /\ Fetch(p, f)
      /\ frames'[f] = x /\ \A k \in FrameIndex \ {f} : frames'[k] = frames[k]
  BY <1>1 DEF FetchedAs
<1>3. /\ pageMap'[p] = f
      /\ \E v \in PageNum : Placed(p, v)
      /\ Fetched(p, f).data = IF Cached(p) THEN FrameOf(p).data ELSE file.image[p]
      /\ Fetched(p, f).dirty <=> Dirty(p)
      /\ Cached(p) \/ p < file.pageCount
  BY <1>2, FetchPlaces
<1>4. FrameOf(p)' = x
  BY <1>2, <1>3 DEF FrameOf
<1>5. Cached(p)'
  BY <1>3 DEF Placed
<1>6. Dirty(p)' <=> x.dirty
  BY <1>4, <1>5 DEF Dirty
<1>7. Linked(p)' = x.data.next
  BY <1>4 DEF Linked
<1>8. Dirty(p) \/ p < file.pageCount
  BY <1>3 DEF CleanOnFile
<1>9. Fetched(p, f).data.next = IF Cached(p) THEN Linked(p) ELSE LinkOnFile(p)
  BY <1>3 DEF Linked, LinkOnFile
<1>10. p = 0 /\ ~Dirty(0) => file.image[0] = Fetched(p, f).data
  BY <1>3 DEF CleanOnFile
<1>11. p = 0 => HeaderOf(Fetched(p, f).data) = HeaderZero
  BY <1>3 DEF HeaderZero
<1> HIDE DEF HeaderOf
<1> QED
  BY <1>3, <1>4, <1>5, <1>6, <1>7, <1>8, <1>9, <1>10, <1>11

\* What the client counts on after a step between two loops.
LEMMA KeepDomain ==
  ASSUME Keep, call = NoCall
  PROVE  DOMAIN kept' = DOMAIN kept \cap live'
<1>1. ~FlushAllDone
  BY DEF FlushAllDone, NoCall
<1> QED
  BY <1>1 DEF Keep

\* Nothing is said of loops when none runs.
LEMMA NoLoop == call' = NoCall => FlushLoopOK'
BY DEF FlushLoopOK

\* A guard constructed on a page of the client.
LEMMA HoldGuardsLive ==
  ASSUME TypeOK, SessionOK, NEW g \in GuardId, NEW p, NEW f, NEW d,
         guards' = [guards EXCEPT ![g] = [page |-> p, frame |-> f, dirty |-> d]],
         p \in live', live \subseteq live'
  PROVE  \A h \in GuardId : guards'[h] # NoGuard => guards'[h].page \in live'
<1> SUFFICES ASSUME NEW h \in GuardId, guards'[h] # NoGuard PROVE guards'[h].page \in live'
  OBVIOUS
<1>1. guards \in [GuardId -> Guard]
  BY DEF TypeOK, ClientTypeOK
<1>2. CASE h = g
  BY <1>1, <1>2
<1>3. CASE h # g
  BY <1>1, <1>3 DEF SessionOK
<1> QED
  BY <1>2, <1>3

\* fetchPage, of a page in the pool or on file.
LEMMA FetchPageFree ==
  ASSUME TypeOK, TypeOK', PoolConsistent, PinsMatchGuards, FreeInv, DeletesOwnPages, Keep,
         NEW g \in GuardId, NEW p \in PageNum, FetchPage(g, p)
  PROVE  FreeInv'
<1>1. /\ status = "open" /\ call = NoCall /\ p \in live
      /\ UNCHANGED <<status, metaVars, call, live>>
  BY DEF FetchPage, Open, Owned, DeletesOwnPages
<1>2. SessionOK /\ HeaderOK /\ CleanOnFile /\ NotLinked /\ StreamOK
  BY DEF FreeInv, PagesOK, SessionOK
<1>3. PICK f \in FrameIndex : Fetch(p, f) /\ Hold(g, p, f, Fetched(p, f), FALSE)
  BY DEF FetchPage
<1>4. PICK x : x = [Fetched(p, f) EXCEPT !.pinCount = @ + 1]
  OBVIOUS
<1>5. /\ frames' = [frames EXCEPT ![f] = x]
      /\ guards' = [guards EXCEPT ![g] = [page |-> p, frame |-> f, dirty |-> FALSE]]
  BY <1>3, <1>4 DEF Hold
<1>6. x.data = Fetched(p, f).data /\ x.dirty = Fetched(p, f).dirty
  <2>1. Fetched(p, f) \in Frame
    BY <1>3, FetchType
  <2> QED BY <1>4, <2>1 DEF Frame
<1>7. /\ \E v \in PageNum : Placed(p, v)
      /\ FrameOf(p)' = x
      /\ Dirty(p)' <=> x.dirty
      /\ Linked(p)' = x.data.next
      /\ Cached(p) \/ p < file.pageCount
      /\ Dirty(p) \/ p < file.pageCount
      /\ Fetched(p, f).dirty <=> Dirty(p)
      /\ Fetched(p, f).data.next = IF Cached(p) THEN Linked(p) ELSE LinkOnFile(p)
      /\ p = 0 /\ ~Dirty(0) => file.image[0] = Fetched(p, f).data
      /\ p = 0 => HeaderOf(Fetched(p, f).data) = HeaderZero
  <2>1. FetchedAs(p, f, x)
    BY <1>3, <1>5 DEF FetchedAs
  <2> QED BY <1>2, <2>1, FetchedOK
<1>8. PICK v \in PageNum : Placed(p, v)
  BY <1>7
<1>9. Linked(p)' = INVALID_PAGE /\ (Dirty(p)' \/ LinkOnFile(p) = INVALID_PAGE)
  <2>1. ~Dirty(p) => LinkOnFile(p) = INVALID_PAGE
    BY <1>1, <1>2 DEF NotLinked
  <2>2. Cached(p) => Linked(p) = INVALID_PAGE
    BY <1>1, <1>2 DEF NotLinked
  <2>3. ~Cached(p) => ~Dirty(p)
    BY DEF Dirty
  <2> QED BY <1>6, <1>7, <2>1, <2>2, <2>3
<1>10. \A h \in GuardId : guards'[h] # NoGuard => guards'[h].page \in live'
  BY <1>1, <1>2, <1>5, HoldGuardsLive
<1>11. \E u \in Heights : FreeListOK(u)'
  <2>1. PICK h \in Heights : FreeListOK(h)
    BY <1>1 DEF FreeInv
  <2>2. h[p] = 0
    BY <1>1, <2>1 DEF FreeListOK
  <2>3. freespaceHead' = freespaceHead /\ live' = live \cup {p}
    BY <1>1 DEF metaVars
  <2> QED BY <1>2, <1>8, <2>1, <2>2, <2>3, PlacedWholeList
<1>12. /\ 0 \in live' /\ live' \subseteq live \cup {p} /\ status' = "open"
       /\ highestAllocated' = highestAllocated /\ highestAllocated' \in PageNum
  BY <1>1, <1>2 DEF SessionOK, metaVars
<1>13. p = 0 => /\ Cached(0) \/ 0 < file.pageCount
                /\ Dirty(0)' \/ file.image[0] = (FrameOf(0).data)'
                /\ HeaderZero.magic => (FrameOf(0).data)'.magic
                /\ call' = NoCall => HeaderOf((FrameOf(0).data)') = HeaderZero
  <2> SUFFICES ASSUME p = 0
               PROVE  /\ Cached(0) \/ 0 < file.pageCount
                      /\ Dirty(0)' \/ file.image[0] = (FrameOf(0).data)'
                      /\ HeaderZero.magic => (FrameOf(0).data)'.magic
                      /\ HeaderOf((FrameOf(0).data)') = HeaderZero
    OBVIOUS
  <2>1. (FrameOf(0).data)' = Fetched(p, f).data
    BY <1>6, <1>7
  <2>2. HeaderOf((FrameOf(0).data)') = HeaderZero
    BY <1>7, <2>1
  <2>3. (FrameOf(0).data)'.magic = HeaderZero.magic
    BY <2>2 DEF HeaderOf
  <2> QED BY <1>6, <1>7, <2>1, <2>2, <2>3
<1>14. FlushLoopOK' /\ DOMAIN kept' = DOMAIN kept \cap live'
  BY <1>1, NoLoop, KeepDomain
<1> QED
  BY <1>1, <1>6, <1>7, <1>8, <1>9, <1>10, <1>11, <1>12, <1>13, <1>14, PlacedInv

\* A page that initPage has written is the client's, and not linked.
LEMMA InitPageNext ==
  ASSUME NEW p, NEW img \in PageImage
  PROVE  InitPage(p, img).next = INVALID_PAGE
BY DEF InitPage, PageImage, ZeroImage

\* newPage when the free list is empty.
LEMMA NewPageFreshFree ==
  ASSUME TypeOK, TypeOK', PoolConsistent, PinsMatchGuards, FreeInv, DeletesOwnPages, Keep,
         NEW g \in GuardId, NewPageFresh(g)
  PROVE  FreeInv'
<1>1. /\ status = "open" /\ call = NoCall
      /\ freespaceHead = INVALID_PAGE
      /\ highestAllocated < MaxPage
      /\ UNCHANGED <<status, freespaceHead, appendStart, call>>
  BY DEF NewPageFresh, Open
<1>2. SessionOK /\ HeaderOK /\ CleanOnFile /\ NotLinked /\ StreamOK
  BY DEF FreeInv, PagesOK, SessionOK
<1>3. PICK p : p = highestAllocated + 1
  OBVIOUS
<1>4. highestAllocated' = p /\ live' = live \cup {p}
  BY <1>3 DEF NewPageFresh
<1>5. p \in PageNum /\ p # 0 /\ \A q \in PageNum \ {p} : q <= p => q <= highestAllocated
  <2>1. highestAllocated \in PageNum
    BY <1>1, <1>2 DEF SessionOK
  <2> QED BY <1>1, <1>3, <2>1, SMT DEF PageNum
<1>6. PICK f \in FrameIndex :
        /\ TakeFrame(p, f)
        /\ Hold(g, p, f, [pageNum |-> p, pinCount |-> 0, dirty |-> TRUE,
                          data |-> InitPage(p, frames[f].data)], TRUE)
  BY <1>4 DEF NewPageFresh
<1>7. PICK x : x = [[pageNum |-> p, pinCount |-> 0, dirty |-> TRUE,
                     data |-> InitPage(p, frames[f].data)] EXCEPT !.pinCount = @ + 1]
  OBVIOUS
<1>8. /\ frames' = [frames EXCEPT ![f] = x]
      /\ guards' = [guards EXCEPT ![g] = [page |-> p, frame |-> f, dirty |-> TRUE]]
  BY <1>6, <1>7 DEF Hold
<1>9. frames \in [FrameIndex -> Frame] /\ frames[f].data \in PageImage
  BY DEF TypeOK, Frame
<1>10. x.dirty /\ x.data.next = INVALID_PAGE
  <2>1. x.dirty /\ x.data = InitPage(p, frames[f].data)
    BY <1>7
  <2> QED BY <1>9, <2>1, InitPageNext
<1>11. ~Cached(p)
  <2>1. highestAllocated \in Nat
    BY <1>1, <1>2 DEF SessionOK, PageNum
  <2>2. ~(p <= highestAllocated)
    BY <1>3, <2>1
  <2> QED BY <1>5, <2>2 DEF PoolConsistent
<1>12. frames'[f] = x /\ \A k \in FrameIndex \ {f} : frames'[k] = frames[k]
  BY <1>8, <1>9
<1>13. pageMap'[p] = f /\ \E v \in PageNum : Placed(p, v)
  BY <1>2, <1>5, <1>6, <1>11, <1>12, TakeFramePlaces
<1>14. PICK v \in PageNum : Placed(p, v)
  BY <1>13
<1>15. Cached(p)' /\ FrameOf(p)' = x
  BY <1>12, <1>13, <1>14 DEF Placed, FrameOf
<1>16. Dirty(p)' /\ Linked(p)' = INVALID_PAGE
  BY <1>10, <1>15 DEF Dirty, Linked
<1>17. p \in live' /\ live \subseteq live' /\ 0 \in live' /\ live' \subseteq live \cup {p}
  BY <1>1, <1>2, <1>4 DEF SessionOK
<1>18. \A h \in GuardId : guards'[h] # NoGuard => guards'[h].page \in live'
  BY <1>2, <1>8, <1>17, HoldGuardsLive
<1>19. \E u \in Heights : FreeListOK(u)'
  <2>1. PICK h \in Heights : FreeListOK(h)
    BY <1>1 DEF FreeInv
  <2>2. h[p] = 0
    BY <1>1, <1>5, <2>1 DEF FreeListOK, HeadIs
  <2> QED BY <1>1, <1>2, <1>4, <1>5, <1>14, <2>1, <2>2, PlacedWholeList
<1>20. FlushLoopOK' /\ DOMAIN kept' = DOMAIN kept \cap live'
  BY <1>1, NoLoop, KeepDomain
<1> QED
  BY <1>1, <1>4, <1>5, <1>14, <1>16, <1>17, <1>18, <1>19, <1>20, PlacedInv

\* newPage when it takes the head of the free list.
LEMMA NewPageReusedFree ==
  ASSUME TypeOK, TypeOK', PoolConsistent, PinsMatchGuards, FreeInv, DeletesOwnPages, Keep,
         NEW g \in GuardId, NewPageReused(g)
  PROVE  FreeInv'
<1>1. /\ status = "open" /\ call = NoCall
      /\ freespaceHead # INVALID_PAGE
      /\ UNCHANGED <<status, appendStart, highestAllocated, call>>
  BY DEF NewPageReused, Open
<1>2. SessionOK /\ HeaderOK /\ CleanOnFile /\ NotLinked /\ StreamOK
  BY DEF FreeInv, PagesOK, SessionOK
<1>3. PICK p : p = freespaceHead
  OBVIOUS
<1>4. PICK h \in Heights : FreeListOK(h)
  BY <1>1 DEF FreeInv
<1>5. p \in PageNum /\ p # 0
  <2>1. p \in PageNum /\ 0 < h[p] /\ h[0] = 0
    BY <1>1, <1>3, <1>4 DEF FreeListOK, HeadIs, Heights
  <2> QED BY <2>1
<1>6. PICK f \in FrameIndex :
        /\ Fetch(p, f)
        /\ freespaceHead' = Fetched(p, f).data.next
        /\ Hold(g, p, f, [Fetched(p, f) EXCEPT !.dirty = TRUE,
                                               !.data = InitPage(p, @)], TRUE)
  BY <1>3 DEF NewPageReused, NextFree
<1>7. PICK x : x = [[Fetched(p, f) EXCEPT !.dirty = TRUE, !.data = InitPage(p, @)]
                      EXCEPT !.pinCount = @ + 1]
  OBVIOUS
<1>8. /\ frames' = [frames EXCEPT ![f] = x]
      /\ guards' = [guards EXCEPT ![g] = [page |-> p, frame |-> f, dirty |-> TRUE]]
  BY <1>6, <1>7 DEF Hold
<1>9. x.dirty /\ x.data.next = INVALID_PAGE
  <2>1. Fetched(p, f) \in Frame
    BY <1>5, <1>6, FetchType
  <2>2. x.dirty /\ x.data = InitPage(p, Fetched(p, f).data) /\ Fetched(p, f).data \in PageImage
    BY <1>7, <2>1 DEF Frame
  <2> QED BY <2>2, InitPageNext
<1>10. /\ \E v \in PageNum : Placed(p, v)
       /\ Dirty(p)' <=> x.dirty
       /\ Linked(p)' = x.data.next
       /\ Fetched(p, f).data.next = IF Cached(p) THEN Linked(p) ELSE LinkOnFile(p)
  <2>1. FetchedAs(p, f, x)
    BY <1>6, <1>8 DEF FetchedAs
  <2> QED BY <1>2, <1>5, <2>1, FetchedOK
<1>11. PICK v \in PageNum : Placed(p, v)
  BY <1>10
<1>12. /\ live' = live \cup {p} /\ p \in live' /\ live \subseteq live' /\ 0 \in live'
       /\ highestAllocated' \in PageNum
  BY <1>1, <1>2, <1>3 DEF NewPageReused, SessionOK
<1>13. \A k \in GuardId : guards'[k] # NoGuard => guards'[k].page \in live'
  BY <1>2, <1>8, <1>12, HoldGuardsLive
<1>14. \E u \in Heights : FreeListOK(u)'
  BY <1>2, <1>3, <1>4, <1>5, <1>6, <1>10, <1>11, <1>12, PlacedHeadOfList
<1>15. FlushLoopOK' /\ DOMAIN kept' = DOMAIN kept \cap live'
  BY <1>1, NoLoop, KeepDomain
<1> QED
  BY <1>1, <1>5, <1>9, <1>10, <1>11, <1>12, <1>13, <1>14, <1>15, PlacedInv

\* No guard is on a page that is not pinned.
LEMMA UnpinnedNotHeld ==
  ASSUME TypeOK, PinsMatchGuards, NEW p \in PageNum, Cached(p), FrameOf(p).pinCount = 0,
         NEW g \in GuardId, guards[g] # NoGuard
  PROVE  guards[g].page # p
<1> SUFFICES ASSUME guards[g].page = p PROVE FALSE
  OBVIOUS
<1>1. guards[g].frame \in FrameIndex /\ pageMap[p] = guards[g].frame
  BY HeldGuard
<1>2. g \in Holders(pageMap[p])
  BY <1>1 DEF Holders
<1>3. Cardinality(Holders(pageMap[p])) = 0
  BY <1>1 DEF PinsMatchGuards, FrameOf
<1> QED
  BY <1>2, <1>3, HoldersFinite, FS_EmptySet

\* deletePage, which makes the page the head of the free list.
LEMMA DeletePageFree ==
  ASSUME TypeOK, TypeOK', PoolConsistent, PinsMatchGuards, FreeInv, DeletesOwnPages, Keep,
         NEW p \in PageNum, DeletePage(p)
  PROVE  FreeInv'
<1>1. /\ status = "open" /\ call = NoCall
      /\ p # 0 /\ p \in live /\ Cached(p)
      /\ FrameOf(p).pinCount = 0
      /\ freespaceHead' = p
      /\ live' = live \ {p}
      /\ UNCHANGED <<status, appendStart, highestAllocated, guards, call>>
  BY DEF DeletePage, Open, Owned, DeletesOwnPages, Deletable
<1>2. SessionOK /\ HeaderOK /\ CleanOnFile /\ NotLinked /\ StreamOK
  BY DEF FreeInv, PagesOK, SessionOK
<1>3. PICK f \in FrameIndex : f = pageMap[p]
  BY <1>1, CachedFrame
<1>4. PICK x : x = [frames[f] EXCEPT !.data.next = freespaceHead]
  OBVIOUS
<1>5. Touch(p, f) /\ frames' = [frames EXCEPT ![f] = x]
  BY <1>3, <1>4 DEF DeletePage
<1>6. frames \in [FrameIndex -> Frame]
  BY DEF TypeOK
<1>7. x.dirty = frames[f].dirty /\ x.data.next = freespaceHead
  <2>1. frames[f] \in Frame /\ frames[f].data \in PageImage
    BY <1>6 DEF Frame
  <2> QED BY <1>4, <2>1 DEF Frame, PageImage
<1>8. frames'[f] = x /\ \A k \in FrameIndex \ {f} : frames'[k] = frames[k]
  BY <1>5, <1>6
<1>9. pageMap'[p] = f /\ Placed(p, p)
  BY <1>1, <1>2, <1>5, <1>8, TouchPlaces
<1>10. Cached(p)' /\ FrameOf(p)' = x
  BY <1>8, <1>9 DEF Placed, FrameOf
<1>11. (Dirty(p)' <=> Dirty(p)) /\ Linked(p)' = freespaceHead
  BY <1>1, <1>3, <1>7, <1>10 DEF Dirty, Linked, FrameOf
<1>12. ~Dirty(p)' => LinkOnFile(p)' = INVALID_PAGE
  <2>1. ~Dirty(p) => LinkOnFile(p) = INVALID_PAGE
    BY <1>1, <1>2 DEF NotLinked
  <2>2. LinkOnFile(p)' = LinkOnFile(p)
    BY <1>9 DEF Placed, LinkOnFile
  <2> QED BY <1>11, <2>1, <2>2
<1>13. Dirty(p)' \/ p < file.pageCount
  BY <1>1, <1>2, <1>11 DEF CleanOnFile
<1>14. /\ 0 \in live' /\ live' \subseteq live \cup {p} /\ p \notin live'
       /\ highestAllocated' \in PageNum
  BY <1>1, <1>2 DEF SessionOK
<1>15. \A g \in GuardId : guards'[g] # NoGuard => guards'[g].page \in live'
  <2> SUFFICES ASSUME NEW g \in GuardId, guards[g] # NoGuard PROVE guards[g].page \in live \ {p}
    BY <1>1
  <2>1. guards[g].page # p
    BY <1>1, UnpinnedNotHeld
  <2> QED BY <1>2, <2>1 DEF SessionOK
<1>16. \E u \in Heights : FreeListOK(u)'
  <2>1. PICK h \in Heights : FreeListOK(h)
    BY <1>1 DEF FreeInv
  <2> QED BY <1>1, <1>9, <1>11, <1>12, <2>1, DeletedListOK
<1>17. FlushLoopOK' /\ DOMAIN kept' = DOMAIN kept \cap live'
  BY <1>1, NoLoop, KeepDomain
<1> QED
  BY <1>1, <1>9, <1>13, <1>14, <1>15, <1>16, <1>17, PlacedInv

\* A page of the session can be read.
LEMMA NoMisread ==
  ASSUME TypeOK, PoolConsistent, SessionOK, CleanOnFile, status = "open",
         NEW p \in PageNum, p <= highestAllocated
  PROVE  ~FetchMisreads(p)
<1> SUFFICES ASSUME FetchMisreads(p) PROVE FALSE
  OBVIOUS
<1>1. PICK f \in FrameIndex :
        /\ TakeFrame(p, f)
        /\ ~CanReadNext(p)
        /\ frames' = [frames EXCEPT ![f].pageNum = p, ![f].dirty = FALSE]
  BY DEF FetchMisreads
<1>2. ~Cached(p) /\ p < file.pageCount
  BY DEF FetchMisreads, SessionOK
<1>3. \A k \in FrameIndex \ {f} : frames'[k] = frames[k]
  BY <1>1 DEF TypeOK
<1>4. PICK v \in PageNum : Placed(p, v)
  BY <1>1, <1>2, <1>3, TakeFramePlaces DEF SessionOK
<1>5. good' /\ p < file'.pageCount
  BY <1>2, <1>4 DEF Placed, StreamOK
<1> QED
  BY <1>1, <1>5 DEF CanReadNext

-----------------------------------------------------------------------------
(* The end of a session. *)

\* A session that ends, in whatever way, leaves a free list on file.
LEMMA EndSessionFree ==
  ASSUME TypeOK', NEW s, s # "open", EndSession(s), file' = file, ~file.torn,
         0 < file.pageCount => file.image[0].magic /\ file.image[0].count \in 1 .. file.pageCount,
         LinkOnFile(0) = INVALID_PAGE,
         DOMAIN kept' = live', \A q \in live' : LinkOnFile(q) = INVALID_PAGE,
         \E e \in Heights : FreeOnFileOK(e)'
  PROVE  FreeInv'
<1>1. /\ status' = s /\ call' = NoCall /\ mode' = ReadWrite /\ good' = TRUE
      /\ guards' = [g \in GuardId |-> NoGuard]
      /\ \A p \in PageNum : pageMap'[p] = NoFrame
  BY DEF EndSession, EmptyPool
<1>2. \A p \in PageNum : ~Cached(p)'
  BY <1>1 DEF Cached
<1>3. \A q : LinkOnFile(q)' = LinkOnFile(q)
  BY DEF LinkOnFile
<1>4. SessionOK'
  BY <1>1, <1>2 DEF SessionOK, StreamOK
<1>5. HeaderOK' /\ FlushLoopOK'
  BY <1>1, <1>2, NoPageIsInvalid DEF HeaderOK, FlushLoopOK
<1>6. CleanOnFile'
  BY <1>2, NoPageIsInvalid DEF CleanOnFile
<1>7. NotLinked'
  <2>1. \A q \in live' : ~Cached(q)'
    BY <1>2 DEF TypeOK, ClientTypeOK
  <2>2. \A q \in live' : LinkOnFile(q)' = INVALID_PAGE
    BY <1>3
  <2>3. LinkOnFile(0)' = INVALID_PAGE
    BY <1>3
  <2> QED BY <2>1, <2>2, <2>3 DEF NotLinked
<1> QED
  BY <1>1, <1>4, <1>5, <1>6, <1>7 DEF FreeInv, PagesOK

\* The process dies between two operations.
LEMMA DiesFree ==
  ASSUME TypeOK, TypeOK', FreeInv, call = NoCall, NEW s, s # "open", Lose(s), GoOn
  PROVE  FreeInv'
<1>1. SessionOK /\ HeaderOK /\ NotLinked
  BY DEF FreeInv, PagesOK
<1>2. EndSession(s) /\ file' = file
  BY DEF Lose
<1>3. live' = DOMAIN kept /\ DOMAIN kept' = DOMAIN kept
  BY DEF GoOn
<1>4. PICK e \in Heights : FreeOnFileOK(e)
  BY DEF FreeInv
<1>5. HeadOnFile' = HeadOnFile /\ \A q : LinkOnFile(q)' = LinkOnFile(q)
  BY <1>2 DEF HeadOnFile, LinkOnFile
<1>6. FreeOnFileOK(e)'
  BY <1>3, <1>4, <1>5 DEF FreeOnFileOK
<1>7. /\ ~file.torn
      /\ 0 < file.pageCount => file.image[0].magic /\ file.image[0].count \in 1 .. file.pageCount
      /\ LinkOnFile(0) = INVALID_PAGE
      /\ \A q \in live' : LinkOnFile(q) = INVALID_PAGE
  BY <1>1, <1>3 DEF SessionOK, StreamOK, HeaderOK, NotLinked
<1> QED
  BY <1>2, <1>3, <1>4, <1>6, <1>7, EndSessionFree

\* When every page is clean, the free list of the session is on file.
LEMMA AllClean ==
  ASSUME TypeOK, PoolConsistent, SessionOK, CleanOnFile, NotLinked, FlushLoopOK,
         status = "open", call # NoCall, call.at > call.last,
         NEW h \in Heights, FreeListOK(h)
  PROVE  /\ \A p \in PageNum : ~Dirty(p)
         /\ 0 < file.pageCount
         /\ file.image[0] = FrameOf(0).data
         /\ HeadOnFile = freespaceHead
         /\ file.image[0].count = highestAllocated + 1
         /\ highestAllocated + 1 \in 1 .. file.pageCount
         /\ \A p \in PageNum : 0 < h[p] => Down(h, p, LinkOnFile(p))
         /\ \A p \in live : LinkOnFile(p) = INVALID_PAGE
<1>1. /\ call.last = highestAllocated /\ Cached(0)
      /\ FrameOf(0).data.free = freespaceHead
      /\ FrameOf(0).data.count = highestAllocated + 1
      /\ \A p \in PageNum : p < call.at => ~Dirty(p)
  BY DEF FlushLoopOK
<1>2. /\ highestAllocated \in PageNum
      /\ \A p \in PageNum : p <= highestAllocated => Cached(p) \/ p < file.pageCount
  BY DEF SessionOK
<1>3. ASSUME NEW p \in PageNum PROVE ~Dirty(p)
  <2>1. CASE Cached(p)
    <3>1. p <= highestAllocated
      BY <2>1 DEF PoolConsistent
    <3>2. p < call.at
      BY <1>1, <1>2, <3>1, SMT DEF PageNum, TypeOK, ClientTypeOK, Call
    <3> QED BY <1>1, <3>2
  <2>2. CASE ~Cached(p)
    BY <2>2 DEF Dirty
  <2> QED BY <2>1, <2>2
<1>4. 0 < file.pageCount /\ file.image[0] = FrameOf(0).data
  BY <1>1, <1>3, NoPageIsInvalid DEF CleanOnFile
<1>5. HeadOnFile = freespaceHead
  <2>1. file.pageCount # 0
    BY <1>4
  <2> QED BY <1>1, <1>4, <2>1 DEF HeadOnFile
<1>6. highestAllocated < file.pageCount
  <2>1. highestAllocated <= highestAllocated
    BY <1>2 DEF PageNum
  <2>2. CASE Cached(highestAllocated)
    BY <1>2, <1>3, <2>2 DEF CleanOnFile
  <2> QED BY <1>2, <2>1, <2>2
<1>7. highestAllocated + 1 \in 1 .. file.pageCount
  BY <1>2, <1>6, SMT DEF PageNum, TypeOK, IOTypeOK, FileType
<1>8. \A p \in PageNum : 0 < h[p] => Down(h, p, LinkOnFile(p))
  BY <1>3 DEF FreeListOK
<1>9. \A p \in live : LinkOnFile(p) = INVALID_PAGE
  BY <1>3 DEF NotLinked, TypeOK, ClientTypeOK
<1> QED
  BY <1>1, <1>3, <1>4, <1>5, <1>7, <1>8, <1>9

\* The free list that a crash would leave once flushAll or close is done.
LEMMA FlushedOnFileOK ==
  ASSUME TypeOK, NEW h \in Heights, FreeListOK(h),
         0 < file.pageCount, HeadOnFile = freespaceHead, file' = file, live' = live,
         \A p \in PageNum : 0 < h[p] => Down(h, p, LinkOnFile(p)),
         DOMAIN kept' = live'
  PROVE  FreeOnFileOK(h)'
<1>1. HeadOnFile' = freespaceHead /\ \A q : LinkOnFile(q)' = LinkOnFile(q)
  BY DEF HeadOnFile, LinkOnFile
<1>2. HeadIs(h, freespaceHead) /\ \A q \in live : h[q] = 0
  BY DEF FreeListOK
<1> QED
  BY <1>1, <1>2 DEF FreeOnFileOK, HeadIs

\* Steps that change neither the file nor the links, and mark pages dirty only.
LEMMA QuietFree ==
  ASSUME TypeOK, FreeInv, UNCHANGED <<file, mode, good, status, lruList, pageMap, freespaceHead,
                              highestAllocated, call, live>>,
         DOMAIN kept' = DOMAIN kept \cap live' \/ DOMAIN kept' = DOMAIN kept,
         \A g \in GuardId : guards'[g] # NoGuard => guards'[g].page \in live,
         \A p \in PageNum : Cached(p) =>
           /\ (FrameOf(p).data.next)' = FrameOf(p).data.next
           /\ HeaderOf((FrameOf(p).data)') = HeaderOf(FrameOf(p).data)
           /\ FrameOf(p).dirty => (FrameOf(p).dirty)'
           /\ ~(FrameOf(p).dirty)' => (FrameOf(p).data)' = FrameOf(p).data,
         call # NoCall => \A p \in PageNum : Dirty(p)' => Dirty(p)
  PROVE  FreeInv'
<1>1. /\ SessionOK /\ HeaderOK /\ FlushLoopOK /\ CleanOnFile /\ NotLinked
      /\ DOMAIN kept \subseteq live
  BY DEF FreeInv, PagesOK, SessionOK
<1>2. DOMAIN kept' = DOMAIN kept
  BY <1>1
<1>3. \A p : Cached(p)' <=> Cached(p)
  BY DEF Cached
<1>4. \A p, q : Before(p, q)' <=> Before(p, q)
  BY DEF Before
<1>5. \A p : LinkOnFile(p)' = LinkOnFile(p)
  BY DEF LinkOnFile
<1>6. \A p \in PageNum : /\ Cached(p) => Linked(p)' = Linked(p)
                         /\ Dirty(p) => Dirty(p)'
  BY <1>3 DEF Linked, Dirty
<1>7. \A p \in PageNum : ~Dirty(p)' => ~Dirty(p) /\ (Cached(p) => (FrameOf(p).data)' = FrameOf(p).data)
  BY <1>3, <1>6 DEF Dirty
<1>8. SessionOK'
  BY <1>1, <1>2, <1>3 DEF SessionOK, StreamOK
<1>9. Cached(0) => /\ (FrameOf(0).data)'.magic = FrameOf(0).data.magic
                   /\ (FrameOf(0).data)'.count = FrameOf(0).data.count
                   /\ (FrameOf(0).data)'.free = FrameOf(0).data.free
  BY NoPageIsInvalid DEF HeaderOf
<1>10. HeaderOK' /\ FlushLoopOK'
  <2>1. HeadOnFile' = HeadOnFile
    BY DEF HeadOnFile
  <2>2. HeaderOK'
    BY <1>1, <1>3, <1>9, <2>1 DEF HeaderOK
  <2>3. FlushLoopOK'
    BY <1>1, <1>3, <1>9 DEF FlushLoopOK
  <2> QED BY <2>2, <2>3
<1>11. CleanOnFile'
  BY <1>1, <1>3, <1>7, NoPageIsInvalid DEF CleanOnFile
<1>12. NotLinked'
  <2>1. live \subseteq PageNum
    BY DEF TypeOK, ClientTypeOK
  <2> QED BY <1>1, <1>2, <1>3, <1>5, <1>6, <1>7, <2>1 DEF NotLinked
<1>13. ASSUME NEW h \in Heights, FreeListOK(h) PROVE FreeListOK(h)'
  BY <1>3, <1>4, <1>5, <1>6, <1>7, <1>13 DEF FreeListOK
<1>14. ASSUME NEW h \in Heights, FreeOnFileOK(h) PROVE FreeOnFileOK(h)'
  <2>1. HeadOnFile' = HeadOnFile
    BY DEF HeadOnFile
  <2> QED BY <1>2, <1>5, <1>14, <2>1 DEF FreeOnFileOK
<1> QED
  BY <1>8, <1>10, <1>11, <1>12, <1>13, <1>14 DEF FreeInv, PagesOK

-----------------------------------------------------------------------------
(* The guards. *)

\* Steps between two loops that leave the links and headers alone.
LEMMA GuardStepFree ==
  ASSUME TypeOK, PoolConsistent, FreeInv, Keep, call = NoCall,
         UNCHANGED <<ioVars, status, lruList, pageMap, nextFreeFrame, metaVars, call, live>>,
         \A g \in GuardId : guards'[g] # NoGuard => guards'[g].page \in live,
         \A f \in FrameIndex :
           /\ frames'[f].data.next = frames[f].data.next
           /\ HeaderOf(frames'[f].data) = HeaderOf(frames[f].data)
           /\ frames[f].dirty => frames'[f].dirty
           /\ ~frames'[f].dirty => frames'[f].data = frames[f].data
  PROVE  FreeInv'
<1>1. UNCHANGED <<file, mode, good, status, lruList, pageMap, freespaceHead,
                  highestAllocated, call, live>>
  BY DEF ioVars, metaVars
<1>2. DOMAIN kept' = DOMAIN kept \cap live'
  BY KeepDomain
<1>3. ASSUME NEW p \in PageNum, Cached(p)
      PROVE  /\ (FrameOf(p).data.next)' = FrameOf(p).data.next
             /\ HeaderOf((FrameOf(p).data)') = HeaderOf(FrameOf(p).data)
             /\ FrameOf(p).dirty => (FrameOf(p).dirty)'
             /\ ~(FrameOf(p).dirty)' => (FrameOf(p).data)' = FrameOf(p).data
  <2>1. PICK f \in FrameIndex : f = pageMap[p]
    BY <1>3, CachedFrame
  <2>2. FrameOf(p) = frames[f] /\ FrameOf(p)' = frames'[f]
    BY <1>1, <2>1 DEF FrameOf
  <2> HIDE DEF HeaderOf
  <2> QED BY <2>2
<1> QED
  BY <1>1, <1>2, <1>3, QuietFree

\* A write through a guard.
LEMMA WriteSpanFree ==
  ASSUME TypeOK, PoolConsistent, PinsMatchGuards, FreeInv, DeletesOwnPages, Keep,
         NEW g \in GuardId, NEW v, WriteSpan(g, v)
  PROVE  FreeInv'
<1>1. PICK q : q = guards[g]
  OBVIOUS
<1>2. /\ call = NoCall /\ q # NoGuard
      /\ q.dirty => frames[q.frame].dirty
      /\ frames' = [f \in FrameIndex |->
                      [frames[f] EXCEPT
                         !.data.body = IF f = q.frame THEN v ELSE @,
                         !.dirty = @ \/ (~q.dirty /\ f = pageMap[q.page])]]
      /\ guards' = [guards EXCEPT ![g].dirty = TRUE]
      /\ UNCHANGED <<ioVars, status, lruList, pageMap, nextFreeFrame, metaVars, call, live>>
  BY <1>1 DEF WriteSpan, Open, DeletesOwnPages
<1>3. pageMap[q.page] = q.frame
  BY <1>1, <1>2, HeldGuard
<1>4. guards \in [GuardId -> Guard] /\ frames \in [FrameIndex -> Frame]
  BY DEF TypeOK, ClientTypeOK
<1>5. ASSUME NEW h \in GuardId, guards'[h] # NoGuard PROVE guards'[h].page \in live
  <2>1. guards'[h].page = guards[h].page
    BY <1>2, <1>4 DEF Guard
  <2>2. guards[h] # NoGuard
    BY <1>1, <1>2, <1>4, <1>5
  <2> QED BY <2>1, <2>2 DEF FreeInv, PagesOK, SessionOK
<1>6. ASSUME NEW f \in FrameIndex
      PROVE  /\ frames'[f].data.next = frames[f].data.next
             /\ HeaderOf(frames'[f].data) = HeaderOf(frames[f].data)
             /\ frames[f].dirty => frames'[f].dirty
             /\ ~frames'[f].dirty => frames'[f].data = frames[f].data
  <2>1. frames[f] \in Frame /\ frames[f].data \in PageImage
    BY <1>4 DEF Frame
  <2>2. /\ frames'[f].data = [frames[f].data EXCEPT
                                 !.body = IF f = q.frame THEN v ELSE frames[f].data.body]
        /\ frames'[f].dirty = (frames[f].dirty \/ (~q.dirty /\ f = pageMap[q.page]))
    BY <1>2, <2>1 DEF Frame
  <2>3. /\ frames'[f].data.next = frames[f].data.next
        /\ HeaderOf(frames'[f].data) = HeaderOf(frames[f].data)
    BY <2>1, <2>2 DEF PageImage, HeaderOf
  <2>4. f # q.frame => frames'[f].data = frames[f].data
    BY <2>1, <2>2 DEF PageImage
  <2>5. frames[f].dirty => frames'[f].dirty
    BY <2>2
  <2>6. f = q.frame => frames'[f].dirty
    BY <1>2, <1>3, <2>2
  <2> QED BY <2>3, <2>4, <2>5, <2>6
<1> QED
  BY <1>2, <1>5, <1>6, GuardStepFree

\* A write of the client's to the header of a page.
LEMMA SetHeaderFree ==
  ASSUME TypeOK, PoolConsistent, PinsMatchGuards, FreeInv, DeletesOwnPages, Keep,
         NEW g \in GuardId, NEW n \in Links, SetHeader(g, n)
  PROVE  FreeInv'
<1>1. PICK q : q = guards[g]
  OBVIOUS
<1>2. /\ call = NoCall /\ q # NoGuard /\ n = INVALID_PAGE
      /\ frames' = [frames EXCEPT ![q.frame].data.next = n]
      /\ guards' = guards
      /\ UNCHANGED <<ioVars, status, lruList, pageMap, nextFreeFrame, metaVars, call, live>>
  BY <1>1 DEF SetHeader, Open, DeletesOwnPages
<1>3. q.page \in PageNum /\ q.frame \in FrameIndex /\ pageMap[q.page] = q.frame /\ Cached(q.page)
  BY <1>1, <1>2, HeldGuard
<1>4. q.page \in live
  BY <1>1, <1>2 DEF FreeInv, PagesOK, SessionOK
<1>5. frames[q.frame].data.next = INVALID_PAGE
  BY <1>3, <1>4 DEF FreeInv, PagesOK, NotLinked, Linked, FrameOf
<1>6. frames \in [FrameIndex -> Frame]
  BY DEF TypeOK
<1>7. ASSUME NEW f \in FrameIndex PROVE frames'[f] = frames[f]
  <2>1. frames[f] \in Frame /\ frames[f].data \in PageImage
    BY <1>6 DEF Frame
  <2>2. CASE f = q.frame
    <3>1. frames'[f] = [frames[f] EXCEPT !.data.next = frames[f].data.next]
      BY <1>2, <1>5, <1>6, <2>2
    <3>2. [frames[f].data EXCEPT !.next = frames[f].data.next] = frames[f].data
      BY <2>1 DEF PageImage
    <3>3. [frames[f] EXCEPT !.data = frames[f].data] = frames[f]
      BY <2>1 DEF Frame
    <3> QED BY <3>1, <3>2, <3>3
  <2>3. CASE f # q.frame
    BY <1>2, <1>6, <2>3
  <2> QED BY <2>2, <2>3
<1>8. \A h \in GuardId : guards'[h] # NoGuard => guards'[h].page \in live
  BY <1>2 DEF FreeInv, PagesOK, SessionOK
<1> QED
  BY <1>2, <1>7, <1>8, GuardStepFree

\* Frames that have a pin less.
LEMMA UnpinKeeps ==
  ASSUME TypeOK, NEW p, NEW f \in FrameIndex
  PROVE  Unpin(p)[f].data = frames[f].data /\ Unpin(p)[f].dirty = frames[f].dirty
BY DEF Unpin, TypeOK, Frame

\* A guard that lets its page go.
LEMMA ResetGuardFree ==
  ASSUME TypeOK, PoolConsistent, FreeInv, Keep, NEW g \in GuardId, ResetGuard(g)
  PROVE  FreeInv'
<1>1. /\ call = NoCall
      /\ frames' = Unpin(guards[g].page)
      /\ guards' = [guards EXCEPT ![g] = NoGuard]
      /\ UNCHANGED <<ioVars, status, lruList, pageMap, nextFreeFrame, metaVars, call, live>>
  BY DEF ResetGuard, Open
<1>2. \A f \in FrameIndex : frames'[f].data = frames[f].data /\ frames'[f].dirty = frames[f].dirty
  BY <1>1, UnpinKeeps
<1>3. guards \in [GuardId -> Guard]
  BY DEF TypeOK, ClientTypeOK
<1>4. ASSUME NEW h \in GuardId, guards'[h] # NoGuard PROVE guards'[h].page \in live
  <2>1. h # g /\ guards'[h] = guards[h]
    BY <1>1, <1>3, <1>4
  <2> QED BY <1>4, <2>1 DEF FreeInv, PagesOK, SessionOK
<1> QED
  BY <1>1, <1>2, <1>4, GuardStepFree

\* A guard moved to another, which lets its own page go.
LEMMA MoveGuardFree ==
  ASSUME TypeOK, PoolConsistent, FreeInv, Keep,
         NEW g \in GuardId, NEW h \in GuardId, MoveGuard(g, h)
  PROVE  FreeInv'
<1>1. /\ call = NoCall /\ g # h /\ guards[g] # NoGuard
      /\ frames' = IF guards[h] = NoGuard THEN frames ELSE Unpin(guards[h].page)
      /\ guards' = [guards EXCEPT ![h] = guards[g], ![g] = NoGuard]
      /\ UNCHANGED <<ioVars, status, lruList, pageMap, nextFreeFrame, metaVars, call, live>>
  BY DEF MoveGuard, Open, MoveTo
<1>2. \A f \in FrameIndex : frames'[f].data = frames[f].data /\ frames'[f].dirty = frames[f].dirty
  BY <1>1, UnpinKeeps
<1>3. guards \in [GuardId -> Guard]
  BY DEF TypeOK, ClientTypeOK
<1>4. ASSUME NEW k \in GuardId, guards'[k] # NoGuard PROVE guards'[k].page \in live
  <2>1. \A o \in GuardId : guards[o] # NoGuard => guards[o].page \in live
    BY DEF FreeInv, PagesOK, SessionOK
  <2>2. guards'[k] = guards[k] \/ guards'[k] = guards[g]
    BY <1>1, <1>3, <1>4
  <2> QED BY <1>1, <1>4, <2>1, <2>2
<1> QED
  BY <1>1, <1>2, <1>4, GuardStepFree

-----------------------------------------------------------------------------
(* flushAll and close. *)

\* The start of flushAll: the header in page 0 is brought up to date.
LEMMA FlushAllFree ==
  ASSUME TypeOK, TypeOK', PoolConsistent, PinsMatchGuards, FreeInv, Keep,
         NEW op \in {"flushAll", "close", "destroy"}, FlushAll(op)
  PROVE  FreeInv'
<1>1. /\ status = "open" /\ call = NoCall
      /\ call' = [op |-> op, at |-> 0, last |-> highestAllocated]
      /\ UNCHANGED <<status, metaVars, guards, live>>
  BY DEF FlushAll, Open
<1>2. SessionOK /\ HeaderOK /\ CleanOnFile /\ NotLinked /\ StreamOK
  BY DEF FreeInv, PagesOK, SessionOK
<1>3. PICK f \in FrameIndex : Fetch(0, f) /\ PutFileHeader(f)
  BY DEF FlushAll
<1>4. PICK x : x = [Fetched(0, f) EXCEPT !.dirty = TRUE,
                                         !.data.count = HeaderCount,
                                         !.data.free = freespaceHead]
  OBVIOUS
<1>5. frames' = [frames EXCEPT ![f] = x]
  BY <1>3, <1>4 DEF PutFileHeader
<1>6. 0 \in PageNum /\ highestAllocated \in PageNum /\ 0 \in live
  BY <1>1, <1>2, NoPageIsInvalid DEF SessionOK
<1>7. /\ x.dirty
      /\ x.data.next = Fetched(0, f).data.next
      /\ x.data.magic = Fetched(0, f).data.magic
      /\ x.data.count = highestAllocated + 1
      /\ x.data.free = freespaceHead
  <2>1. Fetched(0, f) \in Frame
    BY <1>3, <1>6, FetchType
  <2>2. Fetched(0, f).data \in PageImage
    BY <2>1 DEF Frame
  <2>3. x.dirty /\ x.data = [Fetched(0, f).data EXCEPT !.count = HeaderCount, !.free = freespaceHead]
    BY <1>4, <2>1 DEF Frame
  <2>4. HeaderCount = highestAllocated + 1
    BY <1>6, NoPageIsInvalid DEF HeaderCount
  <2>5. /\ x.data.next = Fetched(0, f).data.next
        /\ x.data.magic = Fetched(0, f).data.magic
        /\ x.data.count = HeaderCount
        /\ x.data.free = freespaceHead
    BY <2>2, <2>3 DEF PageImage
  <2> QED BY <2>3, <2>4, <2>5
<1>8. /\ \E v \in PageNum : Placed(0, v)
      /\ FrameOf(0)' = x
      /\ Cached(0)'
      /\ Dirty(0)' <=> x.dirty
      /\ Linked(0)' = x.data.next
      /\ Cached(0) \/ 0 < file.pageCount
      /\ Fetched(0, f).data.next = IF Cached(0) THEN Linked(0) ELSE LinkOnFile(0)
      /\ HeaderOf(Fetched(0, f).data) = HeaderZero
  <2>1. FetchedAs(0, f, x) /\ 0 \in PageNum
    BY <1>3, <1>5, <1>6 DEF FetchedAs
  <2>2. /\ \E v \in PageNum : Placed(0, v)
        /\ FrameOf(0)' = x
        /\ Cached(0)'
        /\ Dirty(0)' <=> x.dirty
        /\ Linked(0)' = x.data.next
    BY <1>2, <1>3, <2>1, FetchedOK
  <2>3. Cached(0) \/ 0 < file.pageCount
    BY <1>2, <1>3, <2>1, FetchedOK
  <2>4. Fetched(0, f).data.next = IF Cached(0) THEN Linked(0) ELSE LinkOnFile(0)
    BY <1>2, <1>3, <2>1, FetchedOK
  <2>5. HeaderOf(Fetched(0, f).data) = HeaderZero
    BY <1>2, <1>3, <2>1, FetchedOK
  <2> QED BY <2>2, <2>3, <2>4, <2>5
<1>9. PICK v \in PageNum : Placed(0, v)
  BY <1>8
<1>10. Linked(0)' = INVALID_PAGE
  BY <1>2, <1>6, <1>7, <1>8 DEF NotLinked
<1>11. HeaderZero.magic => (FrameOf(0).data)'.magic
  <2>1. HeaderZero.magic = Fetched(0, f).data.magic
    BY <1>8 DEF HeaderOf
  <2> QED BY <1>7, <1>8, <2>1
<1>12. call' # NoCall
  BY <1>1 DEF NoCall
<1>13. FlushLoopOK'
  <2>1. highestAllocated' = highestAllocated /\ freespaceHead' = freespaceHead
    BY <1>1 DEF metaVars
  <2>2. \A q \in PageNum : ~(q < 0)
    BY SMT DEF PageNum
  <2>3. (FrameOf(0).data)'.free = freespaceHead' /\ (FrameOf(0).data)'.count = highestAllocated' + 1
    BY <1>7, <1>8, <2>1
  <2> QED BY <1>1, <1>8, <2>1, <2>2, <2>3 DEF FlushLoopOK
<1>14. \E u \in Heights : FreeListOK(u)'
  <2>1. PICK h \in Heights : FreeListOK(h)
    BY <1>1 DEF FreeInv
  <2>2. h[0] = 0
    BY DEF Heights
  <2>3. freespaceHead' = freespaceHead /\ live' = live \cup {0}
    BY <1>1, <1>6 DEF metaVars
  <2> QED BY <1>2, <1>6, <1>9, <2>1, <2>2, <2>3, PlacedWholeList
<1>15. /\ DOMAIN kept' = DOMAIN kept \cap live'
       /\ highestAllocated' \in PageNum /\ highestAllocated' = highestAllocated
  BY <1>1, <1>6, KeepDomain DEF metaVars
<1>16. \A g \in GuardId : guards'[g] # NoGuard => guards'[g].page \in live'
  BY <1>1, <1>2 DEF SessionOK
<1>17. live' = live
  BY <1>1
<1> QED
  BY <1>1, <1>6, <1>7, <1>8, <1>9, <1>10, <1>11, <1>12, <1>13, <1>14, <1>15, <1>16, <1>17, PlacedInv

\* One page of the loop is flushed, or was not in the pool.
LEMMA FlushedPageFree ==
  ASSUME TypeOK, PoolConsistent, FreeInv, status = "open",
         call # NoCall, call' # NoCall, NEW p \in PageNum,
         p = call.at, call' = NextPage(call),
         UNCHANGED <<status, lruList, pageMap, freespaceHead, highestAllocated, guards, live>>,
         DOMAIN kept' = DOMAIN kept \cap live',
         StreamOK', file.pageCount <= file'.pageCount, file'.pageCount \in Nat,
         \A q \in PageNum \ {p} : /\ file'.image[q] = file.image[q]
                                  /\ q < file'.pageCount <=> q < file.pageCount,
         \A q \in PageNum : /\ Cached(q) => (FrameOf(q).data)' = FrameOf(q).data
                            /\ Dirty(q)' <=> Dirty(q) /\ q # p,
         Cached(p) => /\ p < file'.pageCount
                      /\ file'.image[p] = IF Dirty(p) THEN FrameOf(p).data ELSE file.image[p],
         ~Cached(p) => file' = file
  PROVE  FreeInv'
<1>0. /\ SessionOK /\ HeaderOK /\ FlushLoopOK /\ CleanOnFile /\ NotLinked
      /\ DOMAIN kept \subseteq live /\ live \subseteq PageNum /\ 0 \in live
      /\ call \in Call
  BY DEF FreeInv, PagesOK, SessionOK, TypeOK, ClientTypeOK
<1>0a. PageNum \subseteq Nat /\ file.pageCount \in Nat
  BY SMT DEF TypeOK, IOTypeOK, FileType, PageNum
<1>1. \A q : Cached(q)' <=> Cached(q)
  BY DEF Cached
<1>2. \A q, r : Before(q, r)' <=> Before(q, r)
  BY DEF Before
<1>3. DOMAIN kept' = DOMAIN kept
  BY <1>0
<1>4. \A q \in PageNum : Cached(q) => Linked(q)' = Linked(q)
  BY DEF Linked
<1>5. /\ \A q \in PageNum \ {p} : LinkOnFile(q)' = LinkOnFile(q)
      /\ Cached(p) /\ Dirty(p) => LinkOnFile(p)' = Linked(p)
      /\ ~Dirty(p) => LinkOnFile(p)' = LinkOnFile(p)
  <2>1. \A q \in PageNum \ {p} : LinkOnFile(q)' = LinkOnFile(q)
    BY DEF LinkOnFile
  <2>2. Cached(p) /\ Dirty(p) => LinkOnFile(p)' = Linked(p)
    BY DEF LinkOnFile, Linked
  <2>3. Cached(p) /\ ~Dirty(p) => LinkOnFile(p)' = LinkOnFile(p)
    BY <1>0 DEF LinkOnFile, CleanOnFile
  <2>4. ~Cached(p) => LinkOnFile(p)' = LinkOnFile(p)
    BY DEF LinkOnFile
  <2> QED BY <2>1, <2>2, <2>3, <2>4
<1>6. \A q \in PageNum : q < file.pageCount => q < file'.pageCount
  BY <1>0a
<1>7. SessionOK'
  BY <1>0, <1>1, <1>3, <1>6 DEF SessionOK
<1>8. CleanOnFile'
  <2>1. ASSUME NEW q \in PageNum, Cached(q)', ~Dirty(q)' PROVE q < file'.pageCount
    <3>1. CASE q = p
      BY <1>1, <2>1, <3>1
    <3>2. CASE q # p
      <4>1. ~Dirty(q) /\ Cached(q)
        BY <1>1, <2>1, <3>2
      <4>2. q < file.pageCount
        BY <1>0, <4>1 DEF CleanOnFile
      <4> QED BY <1>6, <4>2
    <3> QED BY <3>1, <3>2
  <2>2. ASSUME Cached(0)', ~Dirty(0)' PROVE file'.image[0] = (FrameOf(0).data)'
    <3>1. Cached(0) /\ (FrameOf(0).data)' = FrameOf(0).data
      BY <1>0, <1>1, <2>2
    <3>2. CASE p = 0
      BY <1>0, <3>1, <3>2 DEF CleanOnFile
    <3>3. CASE p # 0
      <4>1. ~Dirty(0) /\ file'.image[0] = file.image[0]
        BY <1>0, <2>2, <3>3
      <4> QED BY <1>0, <3>1, <4>1 DEF CleanOnFile
    <3> QED BY <3>2, <3>3
  <2> QED BY <2>1, <2>2 DEF CleanOnFile
<1>9. NotLinked'
  <2>1. ASSUME NEW q \in live, LinkOnFile(q) = INVALID_PAGE PROVE LinkOnFile(q)' = INVALID_PAGE
    <3>1. CASE q = p /\ Dirty(p)
      BY <1>0, <1>5, <3>1 DEF NotLinked, Dirty
    <3>2. CASE ~(q = p /\ Dirty(p))
      BY <1>0, <1>5, <2>1, <3>2
    <3> QED BY <3>1, <3>2
  <2>2. LinkOnFile(0)' = INVALID_PAGE
    BY <1>0, <2>1 DEF NotLinked
  <2>3. \A q \in DOMAIN kept' : LinkOnFile(q)' = INVALID_PAGE
    BY <1>0, <1>3, <2>1 DEF NotLinked
  <2>4. \A q \in live' : Cached(q)' => Linked(q)' = INVALID_PAGE
    BY <1>0, <1>1, <1>4 DEF NotLinked
  <2>5. ASSUME NEW q \in live', ~Dirty(q)' PROVE LinkOnFile(q)' = INVALID_PAGE
    <3>1. CASE q = p /\ Dirty(p)
      BY <1>0, <1>5, <3>1 DEF NotLinked, Dirty
    <3>2. CASE ~(q = p /\ Dirty(p))
      <4>1. ~Dirty(q) /\ q \in live
        BY <1>0, <2>5, <3>2
      <4> QED BY <1>0, <2>1, <4>1 DEF NotLinked
    <3> QED BY <3>1, <3>2
  <2> QED BY <2>2, <2>3, <2>4, <2>5 DEF NotLinked
<1>10. HeaderOK'
  <2>1. Cached(0) => FrameOf(0).data.magic /\ (FrameOf(0).data)' = FrameOf(0).data
    BY <1>0 DEF HeaderOK
  <2>2. 0 < file'.pageCount => file'.image[0].magic
    <3>1. CASE p = 0 /\ Cached(0)
      <4>1. ~Dirty(0) => 0 < file.pageCount
        BY <1>0, <3>1 DEF CleanOnFile
      <4> QED BY <1>0, <2>1, <3>1, <4>1 DEF HeaderOK
    <3>2. CASE p # 0 \/ ~Cached(0)
      BY <1>0, <3>2 DEF HeaderOK
    <3> QED BY <3>1, <3>2
  <2> QED BY <1>1, <2>1, <2>2 DEF HeaderOK
<1>11. FlushLoopOK'
  <2>1. call'.op = call.op /\ call'.last = call.last /\ call'.at = p + 1
    BY <1>0 DEF NextPage, Call
  <2>2. \A q \in PageNum : q < p + 1 => q < p \/ q = p
    BY <1>0a
  <2>3. \A q \in PageNum : q < call'.at => ~Dirty(q)'
    BY <1>0, <2>1, <2>2 DEF FlushLoopOK
  <2>4. Cached(0) => (FrameOf(0).data)' = FrameOf(0).data
    BY <1>0
  <2> QED BY <1>0, <1>1, <2>1, <2>3, <2>4 DEF FlushLoopOK
<1>12. ASSUME NEW h \in Heights, FreeListOK(h) PROVE FreeListOK(h)'
  <2>1. ASSUME NEW q \in PageNum, 0 < h[q], ~Dirty(q)' PROVE Down(h, q, LinkOnFile(q)')
    <3>1. CASE q = p /\ Dirty(p)
      BY <1>5, <1>12, <2>1, <3>1 DEF FreeListOK, Dirty
    <3>2. CASE ~(q = p /\ Dirty(p))
      <4>1. ~Dirty(q) /\ LinkOnFile(q)' = LinkOnFile(q)
        BY <1>5, <2>1, <3>2
      <4> QED BY <1>12, <2>1, <4>1 DEF FreeListOK
    <3> QED BY <3>1, <3>2
  <2> QED BY <1>1, <1>2, <1>4, <1>12, <2>1 DEF FreeListOK
<1> QED
  BY <1>7, <1>8, <1>9, <1>10, <1>11, <1>12 DEF FreeInv, PagesOK

\* The loops are those of flushAll, and call.at is a page in them.
LEMMA FlushingPage ==
  ASSUME TypeOK, FreeInv, Flushing
  PROVE  /\ status = "open" /\ call # NoCall /\ call.at \in PageNum
         /\ call.op # "flushPage"
         /\ ~FlushAllDone
         /\ SessionOK /\ HeaderOK /\ FlushLoopOK /\ CleanOnFile /\ NotLinked /\ StreamOK
<1>1. /\ status = "open" /\ call # NoCall /\ call.at <= call.last /\ call.at <= MaxPage
  BY DEF Flushing
<1>2. call.op # "flushPage"
  BY <1>1 DEF FreeInv, PagesOK, FlushLoopOK
<1>3. call.at \in PageNum
  BY <1>1, SMT DEF TypeOK, ClientTypeOK, Call, PageNum
<1>4. ~FlushAllDone
  BY <1>1, SMT DEF FlushAllDone, TypeOK, ClientTypeOK, Call, PageLink, PageNum
<1> QED
  BY <1>1, <1>2, <1>3, <1>4 DEF FreeInv, PagesOK, SessionOK

\* A turn of the loop of flushAll.
LEMMA FlushOneFree ==
  ASSUME TypeOK, TypeOK', PoolConsistent, FreeInv, Keep, FlushOne
  PROVE  FreeInv'
<1>1. PICK p : p = call.at
  OBVIOUS
<1>2. Flushing /\ call' = NextPage(call)
      /\ UNCHANGED <<status, lruList, pageMap, nextFreeFrame, freespaceHead,
                     highestAllocated, guards, live>>
  BY DEF FlushOne
<1>3. /\ status = "open" /\ call # NoCall /\ p \in PageNum /\ ~FlushAllDone
      /\ SessionOK /\ HeaderOK /\ FlushLoopOK /\ CleanOnFile /\ StreamOK
  BY <1>1, <1>2, FlushingPage
<1>4. DOMAIN kept' = DOMAIN kept \cap live'
  BY <1>3 DEF Keep
<1>5. call' # NoCall
  <2>1. call'.op = call.op
    BY <1>2 DEF NextPage, TypeOK, ClientTypeOK, Call
  <2>2. call.op # "none"
    BY <1>3 DEF FlushLoopOK
  <2> QED BY <2>1, <2>2 DEF NoCall
<1>6. file'.pageCount \in Nat /\ file.pageCount \in Nat
  BY SMT DEF TypeOK, IOTypeOK, FileType
<1>7. CASE Cached(p)
  <2>1. PICK f \in FrameIndex : f = pageMap[p] /\ frames[f].pageNum = p
    BY <1>3, <1>7, CachedFrame
  <2>2. WriteBack(f) /\ frames' = [frames EXCEPT ![f].dirty = FALSE]
    BY <1>1, <1>7, <2>1 DEF FlushOne
  <2>3. f \in 0 .. nextFreeFrame - 1
    <3>1. f < nextFreeFrame
      BY <1>3, <1>7, <2>1 DEF PoolConsistent
    <3> QED BY <3>1, SMT DEF FrameIndex, TypeOK, ListTypeOK
  <2>4. /\ StreamOK'
        /\ file.pageCount <= file'.pageCount
        /\ p < file'.pageCount
        /\ file'.image[p] = IF Dirty(p) THEN FrameOf(p).data ELSE file.image[p]
        /\ \A q \in PageNum \ {p} : /\ file'.image[q] = file.image[q]
                                    /\ q < file'.pageCount <=> q < file.pageCount
    BY <1>3, <2>1, <2>2, <2>3, WriteBackOnFile
  <2>5. frames \in [FrameIndex -> Frame]
    BY DEF TypeOK
  <2>6. \A k \in FrameIndex : /\ frames'[k].data = frames[k].data
                              /\ frames'[k].dirty <=> frames[k].dirty /\ k # f
    <3> SUFFICES ASSUME NEW k \in FrameIndex
                 PROVE  /\ frames'[k].data = frames[k].data
                        /\ frames'[k].dirty <=> frames[k].dirty /\ k # f
      OBVIOUS
    <3>1. frames[k] \in Frame
      BY <2>5
    <3>2. frames'[k] = IF k = f THEN [frames[k] EXCEPT !.dirty = FALSE] ELSE frames[k]
      BY <2>2, <2>5
    <3> QED BY <3>1, <3>2 DEF Frame
  <2>7. ASSUME NEW q \in PageNum
        PROVE  /\ Cached(q) => (FrameOf(q).data)' = FrameOf(q).data
               /\ Dirty(q)' <=> Dirty(q) /\ q # p
    <3>1. CASE ~Cached(q)
      <4>1. ~Cached(q)'
        BY <1>2, <3>1 DEF Cached
      <4> QED BY <3>1, <4>1 DEF Dirty
    <3>2. CASE Cached(q)
      <4>1. PICK k \in FrameIndex : k = pageMap[q] /\ frames[k].pageNum = q
        BY <3>2, CachedFrame
      <4>2. k = f <=> q = p
        BY <2>1, <4>1
      <4>3. Cached(q)' /\ FrameOf(q)' = frames'[k] /\ FrameOf(q) = frames[k]
        BY <1>2, <3>2, <4>1 DEF Cached, FrameOf
      <4> QED BY <2>6, <3>2, <4>2, <4>3 DEF Dirty
    <3> QED BY <3>1, <3>2
  <2> QED
    BY <1>1, <1>2, <1>3, <1>4, <1>5, <1>6, <1>7, <2>4, <2>7, FlushedPageFree
<1>8. CASE ~Cached(p)
  <2>1. UNCHANGED <<ioVars, frames, appendStart>>
    BY <1>1, <1>8 DEF FlushOne
  <2>2. file' = file /\ StreamOK'
    BY <1>3, <2>1 DEF ioVars, StreamOK
  <2>3. file.pageCount <= file'.pageCount
    BY <1>6, <2>2
  <2>4. \A q \in PageNum : /\ Cached(q)' <=> Cached(q)
                           /\ FrameOf(q)' = FrameOf(q)
    BY <1>2, <2>1 DEF Cached, FrameOf
  <2>5. \A q \in PageNum : /\ Cached(q) => (FrameOf(q).data)' = FrameOf(q).data
                           /\ Dirty(q)' <=> Dirty(q) /\ q # p
    BY <1>8, <2>4 DEF Dirty
  <2> QED
    BY <1>1, <1>2, <1>3, <1>4, <1>5, <1>6, <1>8, <2>2, <2>3, <2>5, FlushedPageFree
<1> QED
  BY <1>7, <1>8

\* No page of the loop fails to be written: the pages before it are on file.
LEMMA CanFlushNext ==
  ASSUME TypeOK, PoolConsistent, FreeInv, Flushing, Cached(call.at)
  PROVE  CanFlush(call.at)
<1>1. PICK p : p = call.at
  OBVIOUS
<1>2. /\ p \in PageNum /\ status = "open"
      /\ SessionOK /\ FlushLoopOK /\ CleanOnFile /\ StreamOK /\ call # NoCall
  BY <1>1, FlushingPage
<1>3. p <= file.pageCount
  <2>1. CASE p = 0
    BY <2>1, SMT DEF TypeOK, IOTypeOK, FileType
  <2>2. CASE p # 0
    <3>1. PICK q \in PageNum : q = p - 1
      BY <1>2, <2>2, SMT DEF PageNum
    <3>2. p <= highestAllocated
      BY <1>1, <1>2 DEF PoolConsistent
    <3>3. q <= highestAllocated /\ q < call.at
      BY <1>1, <1>2, <3>1, <3>2, SMT DEF PageNum, SessionOK
    <3>4. ~Dirty(q) /\ (Cached(q) \/ q < file.pageCount)
      BY <1>2, <3>3 DEF FlushLoopOK, SessionOK
    <3>5. q < file.pageCount
      BY <1>2, <3>4 DEF CleanOnFile
    <3> QED BY <1>2, <3>1, <3>5, SMT DEF PageNum, TypeOK, IOTypeOK, FileType
  <2> QED BY <2>1, <2>2
<1>4. FrameOf(p).pageNum = p
  BY <1>1, <1>2 DEF PoolConsistent
<1> QED
  BY <1>1, <1>2, <1>3, <1>4 DEF CanFlush, CanWrite, StreamOK

\* flushAll returns, to the client or to the end of the session.
LEMMA FlushReturnsFree ==
  ASSUME TypeOK, TypeOK', PoolConsistent, FreeInv, Keep, FlushReturns
  PROVE  FreeInv'
<1>1. status = "open" /\ call # NoCall /\ call.at > call.last
  BY DEF FlushReturns
<1>2. SessionOK /\ HeaderOK /\ FlushLoopOK /\ CleanOnFile /\ NotLinked
  BY DEF FreeInv, PagesOK
<1>3. PICK h \in Heights : FreeListOK(h)
  BY <1>1 DEF FreeInv
<1>4. /\ \A p \in PageNum : ~Dirty(p)
      /\ 0 < file.pageCount
      /\ file.image[0] = FrameOf(0).data
      /\ HeadOnFile = freespaceHead
      /\ file.image[0].count = highestAllocated + 1
      /\ highestAllocated + 1 \in 1 .. file.pageCount
      /\ \A p \in PageNum : 0 < h[p] => Down(h, p, LinkOnFile(p))
      /\ \A p \in live : LinkOnFile(p) = INVALID_PAGE
  BY <1>1, <1>2, <1>3, AllClean
<1>5. live' = live /\ file' = file
  BY DEF FlushReturns, ioVars
<1>6. DOMAIN kept' = live'
  <2>1. FlushAllDone
    BY <1>1, <1>2 DEF FlushAllDone, FlushLoopOK
  <2> QED BY <2>1 DEF Keep
<1>7. FreeOnFileOK(h)'
  BY <1>3, <1>4, <1>5, <1>6, FlushedOnFileOK
<1>8. CASE call.op \in {"close", "destroy"}
  <2>1. EndSession("closed")
    BY <1>8 DEF FlushReturns
  <2>2. ~file.torn /\ (0 < file.pageCount => file.image[0].magic) /\ 0 \in live
    BY <1>1, <1>2 DEF SessionOK, StreamOK, HeaderOK
  <2>3. 0 < file.pageCount =>
          file.image[0].magic /\ file.image[0].count \in 1 .. file.pageCount
    BY <1>4, <2>2
  <2> QED
    BY <1>4, <1>5, <1>6, <1>7, <2>1, <2>2, <2>3, EndSessionFree
<1>9. CASE call.op \notin {"close", "destroy"}
  <2>1. call' = NoCall /\ UNCHANGED <<ioVars, status, poolVars, metaVars, guards, live>>
    BY <1>9 DEF FlushReturns
  <2>2. /\ mode' = mode /\ good' = good /\ status' = "open" /\ guards' = guards
        /\ UNCHANGED <<frames, lruList, pageMap, freespaceHead, highestAllocated>>
    BY <1>1, <2>1 DEF ioVars, poolVars, metaVars
  <2>3. \A q : /\ Cached(q)' <=> Cached(q)
               /\ FrameOf(q)' = FrameOf(q)
               /\ Linked(q)' = Linked(q)
               /\ Dirty(q)' <=> Dirty(q)
               /\ LinkOnFile(q)' = LinkOnFile(q)
    BY <1>5, <2>2 DEF Cached, FrameOf, Linked, Dirty, LinkOnFile
  <2>4. \A q, r : Before(q, r)' <=> Before(q, r)
    BY <2>2 DEF Before
  <2>5. SessionOK'
    <3>1. \A g \in GuardId : guards'[g] # NoGuard => guards'[g].page \in live'
      BY <1>2, <1>5, <2>2 DEF SessionOK
    <3>2. \A p \in PageNum : p <= highestAllocated' => Cached(p)' \/ p < file'.pageCount
      BY <1>1, <1>2, <1>5, <2>2, <2>3 DEF SessionOK
    <3>3. StreamOK' /\ highestAllocated' \in PageNum /\ 0 \in live'
      BY <1>1, <1>2, <1>5, <2>2 DEF SessionOK, StreamOK
    <3> QED BY <1>6, <2>2, <3>1, <3>2, <3>3 DEF SessionOK
  <2>6. CleanOnFile'
    BY <1>2, <1>5, <2>3 DEF CleanOnFile
  <2>7. HeaderOK'
    <3>1. HeadOnFile' = HeadOnFile
      BY <1>5 DEF HeadOnFile
    <3>2. /\ file'.image[0].magic
          /\ file'.image[0].count \in 1 .. file'.pageCount
          /\ file'.image[0] = FrameOf(0)'.data
          /\ file'.pageCount # 0
      BY <1>2, <1>4, <1>5, <2>3 DEF HeaderOK
    <3>3. HeadOnFile' = file'.image[0].free
      BY <3>2 DEF HeadOnFile
    <3> QED BY <3>2, <3>3 DEF HeaderOK
  <2>8. NotLinked'
    <3>1. 0 \in live
      BY <1>1, <1>2 DEF SessionOK
    <3>2. LinkOnFile(0)' = INVALID_PAGE /\ \A p \in live' : LinkOnFile(p)' = INVALID_PAGE
      BY <1>4, <1>5, <2>3, <3>1
    <3>3. \A p \in live' : Cached(p)' => Linked(p)' = INVALID_PAGE
      BY <1>2, <1>5, <2>3 DEF NotLinked
    <3> QED BY <1>6, <3>2, <3>3 DEF NotLinked
  <2>9. FreeListOK(h)'
    BY <1>3, <1>5, <2>2, <2>3, <2>4 DEF FreeListOK
  <2>10. FlushLoopOK'
    BY <2>1, NoLoop
  <2> QED
    BY <1>7, <2>5, <2>6, <2>7, <2>8, <2>9, <2>10 DEF FreeInv, PagesOK
<1> QED
  BY <1>8, <1>9

\* The steps of flushing, together.
LEMMA FlushActionFree ==
  ASSUME TypeOK, TypeOK', PoolConsistent, PinsMatchGuards, FreeInv, DeletesOwnPages,
         Dies => GoOn, ~Dies => Keep, FlushAction
  PROVE  FreeInv'
<1>1. SessionOK /\ CleanOnFile /\ StreamOK
  BY DEF FreeInv, PagesOK, SessionOK
<1>2. ASSUME NEW s \in {"lost", "aborted"}, status = "open", call = NoCall, Lose(s)
      PROVE  FreeInv'
  <2>1. Dies
    BY <1>2 DEF Lose, EndSession, Dies
  <2> QED BY <1>2, <2>1, DiesFree
<1>3. CASE \E p \in PageNum : FlushPage(p)
  BY <1>3 DEF FlushPage, DeletesOwnPages
<1>4. ASSUME NEW op \in {"flushAll", "close", "destroy"}, FlushAll(op) PROVE FreeInv'
  <2>1. ~Dies
    BY <1>4 DEF FlushAll, Open, Dies
  <2> QED BY <1>4, <2>1, FlushAllFree
<1>5. ASSUME NEW op \in {"flushAll", "close", "destroy"}, FlushAllFails(op) PROVE FreeInv'
  <2>1. status = "open" /\ call = NoCall
    BY <1>5 DEF FlushAllFails, Open
  <2>2. 0 \in PageNum /\ 0 <= highestAllocated
    BY <1>1, <2>1, SMT DEF SessionOK, PageNum
  <2>3. ~FetchMisreads(0)
    BY <1>1, <2>1, <2>2, NoMisread
  <2>4. Lose("lost")
    BY <1>5, <2>3 DEF FlushAllFails
  <2> QED BY <1>2, <2>1, <2>4
<1>6. CASE FlushOne
  <2>1. ~Dies
    BY <1>6 DEF FlushOne, Dies, Flushing
  <2> QED BY <1>6, <2>1, FlushOneFree
<1>7. CASE FlushFails
  <2>1. Flushing
    BY <1>7 DEF FlushFails
  <2>2. Cached(call.at) => CanFlush(call.at)
    BY <2>1, CanFlushNext
  <2>3. call.op # "flushPage"
    BY <2>1, FlushingPage
  <2> QED BY <1>7, <2>2, <2>3 DEF FlushFails
<1>8. CASE FlushAborts
  BY <1>8, FlushingPage DEF FlushAborts
<1>9. CASE FlushReturns
  <2>1. ~Dies
    BY <1>9 DEF FlushReturns, EndSession, Dies
  <2> QED BY <1>9, <2>1, FlushReturnsFree
<1>10. CASE CloseReadOnly
  BY <1>1, <1>10 DEF CloseReadOnly, StreamOK, ReadOnly, ReadWrite
<1>11. CASE ClosePinned
  BY <1>2, <1>11 DEF ClosePinned, Open
<1> QED
  BY <1>3, <1>4, <1>5, <1>6, <1>7, <1>8, <1>9, <1>10, <1>11 DEF FlushAction, FlushLoop

\* The steps on pages, together.
LEMMA PageActionFree ==
  ASSUME TypeOK, TypeOK', PoolConsistent, PinsMatchGuards, FreeInv, DeletesOwnPages,
         Dies => GoOn, ~Dies => Keep, PageAction
  PROVE  FreeInv'
<1>1. SessionOK /\ CleanOnFile
  BY DEF FreeInv, PagesOK
<1>2. CASE \E g \in GuardId, p \in PageNum : FetchPage(g, p)
  <2>1. ~Dies
    BY <1>2 DEF FetchPage, Dies
  <2> QED BY <1>2, <2>1, FetchPageFree
<1>3. CASE \E g \in GuardId : NewPageFresh(g)
  <2>1. ~Dies
    BY <1>3 DEF NewPageFresh, Dies
  <2> QED BY <1>3, <2>1, NewPageFreshFree
<1>4. CASE \E g \in GuardId : NewPageReused(g)
  <2>1. ~Dies
    BY <1>4 DEF NewPageReused, Dies
  <2> QED BY <1>4, <2>1, NewPageReusedFree
<1>5. CASE \E p \in PageNum : DeletePage(p)
  <2>1. ~Dies
    BY <1>5 DEF DeletePage, Dies
  <2> QED BY <1>5, <2>1, DeletePageFree
<1>6. ASSUME NEW p \in PageNum, DeletePageAborts(p) PROVE FreeInv'
  <2>1. status = "open" /\ call = NoCall /\ Lose("aborted")
    BY <1>6 DEF DeletePageAborts, Open
  <2>2. Dies
    BY <2>1 DEF Lose, EndSession, Dies
  <2> QED BY <2>1, <2>2, DiesFree
<1>7. ASSUME NEW p \in PageNum PROVE ~FetchPageFails(p)
  BY <1>1, NoMisread DEF FetchPageFails, Open
<1>8. ~NewPageFreshFails
  BY DEF NewPageFreshFails, DeletesOwnPages
<1>9. ~NewPageReusedFails
  <2> SUFFICES ASSUME NewPageReusedFails PROVE FALSE
    OBVIOUS
  <2>1. /\ status = "open" /\ freespaceHead # INVALID_PAGE
        /\ freespaceHead <= highestAllocated /\ FetchMisreads(freespaceHead)
    BY DEF NewPageReusedFails, Open
  <2>2. freespaceHead \in PageNum
    BY <2>1 DEF TypeOK, MetaTypeOK, PageLink
  <2> QED BY <1>1, <2>1, <2>2, NoMisread
<1> QED
  BY <1>2, <1>3, <1>4, <1>5, <1>6, <1>7, <1>8, <1>9 DEF PageAction

\* The steps of guards, together.
LEMMA GuardActionFree ==
  ASSUME TypeOK, PoolConsistent, PinsMatchGuards, FreeInv, DeletesOwnPages,
         ~Dies => Keep, GuardAction
  PROVE  FreeInv'
<1>1. ~Dies
  BY DEF GuardAction, WriteSpan, SetHeader, ResetGuard, MoveGuard, Open, Dies
<1> QED
  BY <1>1, WriteSpanFree, SetHeaderFree, ResetGuardFree, MoveGuardFree DEF GuardAction

-----------------------------------------------------------------------------
(* The beginning of a session. *)

\* Page 0 is the only one in the pool.
LEMMA OpenPool ==
  ASSUME NEW img, NEW d, LoadPageZero(img, d)
  PROVE  /\ Cached(0)'
         /\ FrameOf(0)' = [pageNum |-> 0, pinCount |-> 0, dirty |-> d, data |-> img]
         /\ \A p \in PageNum \ {0} : ~Cached(p)'
         /\ Dirty(0)' <=> d
         /\ \A p \in PageNum \ {0} : ~Dirty(p)'
<1>1. /\ pageMap' = [p \in PageNum |-> IF p = 0 THEN 0 ELSE NoFrame]
      /\ frames' = [f \in FrameIndex |->
                      IF f = 0 THEN [pageNum |-> 0, pinCount |-> 0, dirty |-> d, data |-> img]
                               ELSE EmptyFrame]
  BY DEF LoadPageZero
<1>2. 0 \in PageNum /\ 0 \in FrameIndex /\ 0 # NoFrame
  BY SMT DEF PageNum, FrameIndex, NoFrame
<1>3. Cached(0)' /\ FrameOf(0)' = [pageNum |-> 0, pinCount |-> 0, dirty |-> d, data |-> img]
  BY <1>1, <1>2 DEF Cached, FrameOf
<1>4. \A p \in PageNum \ {0} : ~Cached(p)'
  BY <1>1 DEF Cached
<1> QED
  BY <1>3, <1>4 DEF Dirty

\* The heights of an empty list.
LEMMA NoHeights ==
  /\ [p \in PageNum |-> 0] \in Heights
  /\ \A p \in PageNum : [q \in PageNum |-> 0][p] = 0
BY NoPageIsInvalid DEF Heights

\* A free list none of whose pages is in the pool.
LEMMA OpenListOK ==
  ASSUME NEW h \in Heights, HeadIs(h, freespaceHead'),
         \A p \in PageNum \ {0} : ~Cached(p)', 0 \in live',
         \A p \in live' : h[p] = 0,
         \A p \in PageNum : 0 < h[p] => Down(h, p, LinkOnFile(p)')
  PROVE  FreeListOK(h)'
<1>1. h[0] = 0
  BY DEF Heights
<1>2. \A p \in PageNum : 0 < h[p] => ~Cached(p)'
  BY <1>1
<1>3. \A p, q \in PageNum : ~(Cached(p)' /\ Cached(q)' /\ 0 < h[q] /\ h[q] < h[p])
  BY <1>2
<1> QED
  BY <1>2, <1>3 DEF FreeListOK

\* What holds between two sessions.
LEMMA BetweenSessions ==
  ASSUME FreeInv, status # "open"
  PROVE  /\ call = NoCall /\ live = DOMAIN kept
         /\ SessionOK /\ HeaderOK /\ NotLinked
BY DEF FreeInv, PagesOK, SessionOK

\* open leaves a stream that can be written.
LEMMA OpenStreamOK ==
  ASSUME TypeOK, OpenStream(ReadWrite)
  PROVE  /\ StreamOK'
         /\ file'.pageCount = file.pageCount /\ file'.image = file.image
         /\ HeadOnFile' = HeadOnFile
         /\ \A p : LinkOnFile(p)' = LinkOnFile(p)
<1>1. /\ ~file.torn /\ mode' = ReadWrite /\ good' = TRUE
      /\ file' = [file EXCEPT !.exists = TRUE]
  BY DEF OpenStream
<1>2. file'.pageCount = file.pageCount /\ file'.image = file.image /\ file'.torn = file.torn
  BY <1>1 DEF TypeOK, IOTypeOK, FileType
<1> QED
  BY <1>1, <1>2 DEF StreamOK, HeadOnFile, LinkOnFile

\* open of an empty file.
LEMMA OpenEmptyFree ==
  ASSUME TypeOK, TypeOK', NoGuardWhenClosed, FreeInv, Keep, OpenEmpty(ReadWrite)
  PROVE  FreeInv'
<1>1. PICK img : img = InitPage(0, [ZeroImage EXCEPT !.magic = TRUE, !.count = 1,
                                                     !.free = INVALID_PAGE])
  OBVIOUS
<1>2. /\ status # "open" /\ file.pageCount = 0 /\ status' = "open"
      /\ highestAllocated' = 0 /\ freespaceHead' = INVALID_PAGE
      /\ LoadPageZero(img, TRUE)
      /\ live' = {0}
      /\ OpenStream(ReadWrite)
      /\ UNCHANGED <<guards, call>>
  BY <1>1 DEF OpenEmpty
<1>3. img.magic /\ img.count = 1 /\ img.free = INVALID_PAGE /\ img.next = INVALID_PAGE
  BY <1>1 DEF InitPage, ZeroImage
<1>4. /\ call = NoCall /\ live = DOMAIN kept
      /\ SessionOK /\ HeaderOK /\ NotLinked
  BY <1>2, BetweenSessions
<1>5. /\ StreamOK'
      /\ file'.pageCount = file.pageCount /\ file'.image = file.image
      /\ HeadOnFile' = HeadOnFile
      /\ \A p : LinkOnFile(p)' = LinkOnFile(p)
  BY <1>2, OpenStreamOK
<1>6. /\ Cached(0)'
      /\ FrameOf(0)' = [pageNum |-> 0, pinCount |-> 0, dirty |-> TRUE, data |-> img]
      /\ \A p \in PageNum \ {0} : ~Cached(p)'
      /\ Dirty(0)'
      /\ \A p \in PageNum \ {0} : ~Dirty(p)'
  BY <1>2, OpenPool
<1>7. DOMAIN kept' = DOMAIN kept \cap live'
  BY <1>4, KeepDomain
<1>8. \A p \in PageNum : LinkOnFile(p)' = INVALID_PAGE
  BY <1>2, <1>5, SMT DEF LinkOnFile, PageNum
<1>9. (FrameOf(0).data)' = img /\ Linked(0)' = INVALID_PAGE
  BY <1>3, <1>6 DEF Linked
<1>10. 0 \in PageNum /\ \A p \in PageNum : p <= 0 => p = 0
  BY SMT DEF PageNum
<1>11. \A g \in GuardId : guards'[g] = NoGuard
  BY <1>2 DEF NoGuardWhenClosed
<1>12. SessionOK'
  BY <1>2, <1>5, <1>6, <1>7, <1>10, <1>11 DEF SessionOK
<1>13. HeaderOK'
  <2>1. HeadOnFile' = INVALID_PAGE /\ ~(0 < file'.pageCount)
    BY <1>2, <1>5 DEF HeadOnFile
  <2> QED BY <1>2, <1>3, <1>5, <1>9, <2>1 DEF HeaderOK
<1>14. CleanOnFile'
  BY <1>6 DEF CleanOnFile
<1>15. NotLinked'
  <2>1. live' \subseteq PageNum /\ DOMAIN kept' \subseteq live'
    BY <1>2, <1>7, <1>10
  <2> QED BY <1>2, <1>8, <1>9, <1>10, <2>1 DEF NotLinked
<1>16. FlushLoopOK'
  BY <1>2, <1>4, NoLoop
<1>17. \E h \in Heights : FreeListOK(h)'
  <2>1. PICK h \in Heights : \A p \in PageNum : h[p] = 0
    BY NoHeights
  <2>2. HeadIs(h, freespaceHead')
    BY <1>2, <2>1 DEF HeadIs
  <2>3. 0 \in live' /\ \A p \in live' : h[p] = 0
    BY <1>2, <1>10, <2>1
  <2>4. \A p \in PageNum : Down(h, p, LinkOnFile(p)')
    BY <1>8 DEF Down
  <2> QED BY <1>6, <2>2, <2>3, <2>4, OpenListOK
<1>18. \E e \in Heights : FreeOnFileOK(e)'
  <2>1. PICK e \in Heights : FreeOnFileOK(e)
    BY <1>4 DEF FreeInv
  <2>2. FreeOnFileOK(e)'
    BY <1>5, <1>7, <2>1 DEF FreeOnFileOK
  <2> QED BY <2>2
<1> QED
  BY <1>12, <1>13, <1>14, <1>15, <1>16, <1>17, <1>18 DEF FreeInv, PagesOK

\* open of a file with pages: the header leads to the free list on file.
LEMMA OpenExistingFree ==
  ASSUME TypeOK, TypeOK', NoGuardWhenClosed, FreeInv, Keep, OpenExisting(ReadWrite)
  PROVE  FreeInv'
<1>1. PICK img : img = file.image[0]
  OBVIOUS
<1>2. /\ status # "open" /\ file.pageCount > 0 /\ status' = "open"
      /\ highestAllocated' = IF img.count = 0 THEN INVALID_PAGE ELSE img.count - 1
      /\ freespaceHead' = img.free
      /\ LoadPageZero(img, FALSE)
      /\ live' = live \cup {0}
      /\ OpenStream(ReadWrite)
      /\ UNCHANGED <<guards, call>>
  BY <1>1 DEF OpenExisting
<1>3. /\ call = NoCall /\ live = DOMAIN kept
      /\ SessionOK /\ HeaderOK /\ NotLinked
  BY <1>2, BetweenSessions
<1>4. /\ StreamOK'
      /\ file'.pageCount = file.pageCount /\ file'.image = file.image
      /\ HeadOnFile' = HeadOnFile
      /\ \A p : LinkOnFile(p)' = LinkOnFile(p)
  BY <1>2, OpenStreamOK
<1>5. /\ Cached(0)'
      /\ FrameOf(0)' = [pageNum |-> 0, pinCount |-> 0, dirty |-> FALSE, data |-> img]
      /\ \A p \in PageNum \ {0} : ~Cached(p)'
      /\ ~Dirty(0)'
      /\ \A p \in PageNum \ {0} : ~Dirty(p)'
  BY <1>2, OpenPool
<1>6. DOMAIN kept' = DOMAIN kept /\ DOMAIN kept \subseteq live'
  BY <1>2, <1>3, KeepDomain
<1>7. file.pageCount \in 0 .. MaxPage + 1 /\ 0 < file.pageCount /\ 0 \in PageNum
  BY <1>2, SMT DEF TypeOK, IOTypeOK, FileType, PageNum
<1>8. img.magic /\ img.count \in 1 .. file.pageCount
  BY <1>1, <1>3, <1>7 DEF HeaderOK
<1>9. /\ highestAllocated' \in PageNum
      /\ \A p \in PageNum : p <= highestAllocated' => p < file.pageCount
  <2>1. highestAllocated' = img.count - 1
    BY <1>2, <1>7, <1>8
  <2> QED BY <1>7, <1>8, <2>1, SMT DEF PageNum
<1>10. (FrameOf(0).data)' = img /\ HeadOnFile = img.free
  <2>1. file.pageCount # 0
    BY <1>7
  <2> QED BY <1>1, <1>5, <2>1 DEF HeadOnFile
<1>11. Linked(0)' = INVALID_PAGE
  BY <1>1, <1>3, <1>7, <1>10 DEF Linked, NotLinked, LinkOnFile
<1>12. SessionOK'
  <2>1. \A g \in GuardId : guards'[g] = NoGuard
    BY <1>2 DEF NoGuardWhenClosed
  <2> QED BY <1>2, <1>4, <1>6, <1>9, <2>1 DEF SessionOK
<1>13. HeaderOK'
  <2>1. file'.pageCount # 0
    BY <1>4, <1>7
  <2> QED BY <1>1, <1>4, <1>8, <1>10, <2>1 DEF HeaderOK
<1>14. CleanOnFile'
  <2>1. \A p \in PageNum : Cached(p)' => p = 0
    BY <1>5
  <2>2. 0 < file'.pageCount /\ file'.image[0] = (FrameOf(0).data)'
    BY <1>1, <1>4, <1>7, <1>10
  <2> QED BY <2>1, <2>2 DEF CleanOnFile
<1>15. NotLinked'
  <2>1. live' \subseteq PageNum
    BY DEF TypeOK, ClientTypeOK
  <2>2. \A p \in live' : LinkOnFile(p)' = INVALID_PAGE
    BY <1>2, <1>3, <1>4 DEF NotLinked
  <2>3. \A p \in live' : Cached(p)' => Linked(p)' = INVALID_PAGE
    BY <1>5, <1>11, <2>1
  <2>4. LinkOnFile(0)' = INVALID_PAGE
    BY <1>3, <1>4 DEF NotLinked
  <2> QED BY <1>6, <2>2, <2>3, <2>4 DEF NotLinked
<1>16. FlushLoopOK'
  BY <1>2, <1>3, NoLoop
<1>17. PICK e \in Heights : FreeOnFileOK(e)
  BY <1>3 DEF FreeInv
<1>18. FreeOnFileOK(e)'
  BY <1>4, <1>6, <1>17 DEF FreeOnFileOK
<1>19. ASSUME NEW u \in Heights, HeadIs(u, img.free),
              \A p \in PageNum : e[p] = 0 => u[p] = 0,
              \A p \in PageNum : 0 < u[p] => Down(u, p, LinkOnFile(p))
       PROVE  FreeListOK(u)'
  <2>1. \A p \in live' : p \in PageNum /\ e[p] = 0
    BY <1>2, <1>3, <1>7, <1>17 DEF FreeOnFileOK, Heights, TypeOK, ClientTypeOK
  <2>2. \A p \in live' : u[p] = 0
    BY <1>19, <2>1
  <2>3. 0 \in live'
    BY <1>2
  <2>4. \A p \in PageNum : 0 < u[p] => Down(u, p, LinkOnFile(p)')
    BY <1>4, <1>19
  <2>5. HeadIs(u, freespaceHead')
    BY <1>2, <1>19
  <2> QED BY <1>5, <2>2, <2>3, <2>4, <2>5, OpenListOK
<1>20. \E u \in Heights : FreeListOK(u)'
  <2>1. CASE img.free = INVALID_PAGE
    <3>1. PICK u \in Heights : \A p \in PageNum : u[p] = 0
      BY NoHeights
    <3>2. HeadIs(u, img.free) /\ \A p \in PageNum : ~(0 < u[p])
      BY <2>1, <3>1 DEF HeadIs
    <3> QED BY <1>19, <3>1, <3>2
  <2>2. CASE img.free # INVALID_PAGE
    <3>1. img.free \in PageNum /\ 0 < e[img.free] /\ e \in [PageNum -> Nat]
      BY <1>10, <1>17, <2>2 DEF FreeOnFileOK, Heights
    <3>2. PICK n \in Nat : n = e[img.free]
      BY <3>1
    <3>3. PICK u : u = UpTo(e, n)
      OBVIOUS
    <3>4. /\ u \in Heights
          /\ \A q \in PageNum : 0 < u[q] <=> 0 < e[q] /\ e[q] <= n
          /\ \A q, m : q \in PageNum /\ 0 < u[q] /\ Down(e, q, m) => Down(u, q, m)
      BY <3>3, UpToHeights
    <3>5. \A q \in PageNum : u[q] = IF e[q] <= n THEN e[q] ELSE 0
      BY <3>3 DEF UpTo
    <3>6. HeadIs(u, img.free)
      <4>1. u[img.free] = n
        BY <3>1, <3>2, <3>5
      <4>2. \A q \in PageNum : u[q] <= n
        <5> SUFFICES ASSUME NEW q \in PageNum PROVE u[q] <= n
          OBVIOUS
        <5>1. e[q] \in Nat
          BY <3>1
        <5> QED BY <3>5, <5>1
      <4> QED BY <2>2, <3>1, <3>2, <4>1, <4>2 DEF HeadIs
    <3>7. \A q \in PageNum : e[q] = 0 => u[q] = 0
      BY <3>5
    <3>8. \A q \in PageNum : 0 < u[q] => Down(u, q, LinkOnFile(q))
      BY <1>17, <3>4 DEF FreeOnFileOK
    <3> QED BY <1>19, <3>4, <3>6, <3>7, <3>8
  <2> QED BY <2>1, <2>2
<1> QED
  BY <1>12, <1>13, <1>14, <1>15, <1>16, <1>17, <1>18, <1>20 DEF FreeInv, PagesOK

-----------------------------------------------------------------------------
(* The invariant is inductive. *)

\* No page is free before the first session.
LEMMA FreeInit == DurableInit /\ DeletesOwnPages => FreeInv
<1> SUFFICES ASSUME DurableInit, DeletesOwnPages PROVE FreeInv
  OBVIOUS
<1>1. /\ file = NoFile /\ mode = ReadWrite /\ good = TRUE /\ status = "closed"
      /\ pageMap = [p \in PageNum |-> NoFrame]
      /\ guards = [g \in GuardId |-> NoGuard]
      /\ call = NoCall /\ live = {} /\ DOMAIN kept = {}
  BY DEF DurableInit, Init, DeletesOwnPages
<1>2. file.pageCount = 0 /\ ~file.torn
  BY <1>1 DEF NoFile
<1>3. \A p \in PageNum : ~Cached(p)
  BY <1>1 DEF Cached
<1>4. \A p \in PageNum : LinkOnFile(p) = INVALID_PAGE
  BY <1>2, SMT DEF LinkOnFile, PageNum
<1>5. SessionOK
  BY <1>1, <1>2, <1>3 DEF SessionOK, StreamOK
<1>6. HeaderOK /\ FlushLoopOK /\ CleanOnFile /\ NotLinked
  BY <1>1, <1>2, <1>3, <1>4, NoPageIsInvalid DEF HeaderOK, FlushLoopOK, CleanOnFile, NotLinked
<1>7. \E h \in Heights : FreeOnFileOK(h)
  <2>1. PICK h \in Heights : \A p \in PageNum : h[p] = 0
    BY NoHeights
  <2>2. FreeOnFileOK(h)
    BY <1>1, <1>2, <2>1 DEF FreeOnFileOK, HeadOnFile
  <2> QED BY <2>2
<1> QED
  BY <1>1, <1>5, <1>6, <1>7 DEF FreeInv, PagesOK

\* Every step keeps the invariant.
LEMMA FreeStep ==
  DeletesOwnPages /\ TypeOK /\ TypeOK' /\ PoolConsistent /\ PinsMatchGuards
    /\ NoGuardWhenClosed /\ FreeInv /\ [DurableNext]_durableVars => FreeInv'
<1> SUFFICES ASSUME DeletesOwnPages, TypeOK, TypeOK', PoolConsistent, PinsMatchGuards,
                    NoGuardWhenClosed, FreeInv, [DurableNext]_durableVars
             PROVE  FreeInv'
  OBVIOUS
<1>1. CASE DurableNext
  <2>1. Next /\ (Dies => GoOn) /\ (~Dies => Keep)
    BY <1>1 DEF DurableNext
  <2>2. CASE OpenPager
    <3>1. PICK m \in OpenModes : OpenEmpty(m) \/ OpenExisting(m) \/ OpenRejected(m)
      BY <2>2 DEF OpenPager
    <3>2. m = ReadWrite
      BY DEF OpenModes, DeletesOwnPages
    <3>3. ~Dies
      BY <3>1 DEF OpenEmpty, OpenExisting, OpenRejected, Dies
    <3>4. ~OpenRejected(m)
      <4>1. 0 < file.pageCount => file.image[0].magic
        BY DEF FreeInv, PagesOK, HeaderOK
      <4>2. file.pageCount \in Nat
        BY SMT DEF TypeOK, IOTypeOK, FileType
      <4> QED BY <4>1, <4>2 DEF OpenRejected
    <3> QED BY <2>1, <3>1, <3>2, <3>3, <3>4, OpenEmptyFree, OpenExistingFree
  <2>3. CASE PageAction
    BY <2>1, <2>3, PageActionFree
  <2>4. CASE GuardAction
    BY <2>1, <2>4, GuardActionFree
  <2>5. CASE FlushAction
    BY <2>1, <2>5, FlushActionFree
  <2>6. CASE Crash
    <3>1. status = "open" /\ call = NoCall /\ Lose("lost")
      BY <2>6 DEF Crash, DeletesOwnPages
    <3>2. Dies
      BY <3>1 DEF Lose, EndSession, Dies
    <3> QED BY <2>1, <3>1, <3>2, DiesFree
  <2>7. CASE StreamFails
    BY <2>7 DEF StreamFails, DeletesOwnPages
  <2> QED
    BY <2>1, <2>2, <2>3, <2>4, <2>5, <2>6, <2>7 DEF Next
<1>2. CASE UNCHANGED durableVars
  <2>1. /\ UNCHANGED <<file, mode, good, status, lruList, pageMap, freespaceHead,
                       highestAllocated, call, live>>
        /\ UNCHANGED <<frames, guards, kept>>
    BY <1>2 DEF durableVars, vars, ioVars, poolVars, metaVars
  <2>2. \A p : /\ FrameOf(p)' = FrameOf(p)
               /\ Cached(p)' <=> Cached(p)
               /\ Dirty(p)' <=> Dirty(p)
    BY <2>1 DEF FrameOf, Cached, Dirty
  <2>3. \A g \in GuardId : guards'[g] # NoGuard => guards'[g].page \in live
    BY <2>1 DEF FreeInv, PagesOK, SessionOK
  <2> HIDE DEF HeaderOf
  <2> QED BY <2>1, <2>2, <2>3, QuietFree
<1> QED
  BY <1>1, <1>2

-----------------------------------------------------------------------------
(* The pages that newPage would hand out. *)

\* A set of naturals has a least element.
LEMMA NatMin ==
  ASSUME NEW T \in SUBSET Nat, T # {}
  PROVE  \E m \in T : \A n \in T : m <= n
<1>1. \E x \in T : \A y \in T : ~(y < x)
  <2> DEFINE R == OpToRel(<, Nat)
  <2>1. \A y, x \in Nat : <<y, x>> \in R <=> y < x
    BY DEF OpToRel
  <2>2. IsWellFoundedOn(R, Nat)
    BY NatLessThanWellFounded, Zenon
  <2> HIDE DEF R
  <2>3. \E x \in T : \A y \in T : ~ (<<y, x>> \in R)
    BY <2>2, WFMin
  <2> QED BY <2>1, <2>3, Zenon
<1> QED BY <1>1

\* A set of naturals with 0 that is closed under adding 1 is all of them: induction,
\* as a fact about a set, so that it needs no operator as a parameter.
LEMMA NatInductive ==
  ASSUME NEW S \in SUBSET Nat, 0 \in S, \A n \in S : n + 1 \in S
  PROVE  S = Nat
<1> SUFFICES ASSUME Nat \ S # {} PROVE FALSE
  OBVIOUS
<1>1. PICK m \in Nat \ S : \A n \in Nat \ S : m <= n
  BY NatMin
<1>2. m # 0 /\ m - 1 \in Nat /\ m - 1 \in S
  BY <1>1
<1> QED BY <1>1, <1>2

\* f walks along the links from head on, in n steps.
Walks(f, n, head, link) ==
  f = [i \in 0 .. n |->
         IF i = 0 THEN head
         ELSE IF f[i - 1] \in PageNum THEN link[f[i - 1]] ELSE INVALID_PAGE]

\* There is such a walk, of any length.
LEMMA WalkExists ==
  ASSUME NEW head, NEW link, NEW n \in Nat
  PROVE  \E f : Walks(f, n, head, link)
<1> DEFINE S == {m \in Nat : \E f : Walks(f, m, head, link)}
<1>1. 0 \in S
  <2> DEFINE f == [i \in 0 .. 0 |-> head]
  <2>1. Walks(f, 0, head, link)
    BY DEF Walks
  <2> HIDE DEF f
  <2> QED BY <2>1
<1>2. ASSUME NEW m \in S PROVE m + 1 \in S
  <2>1. PICK f : Walks(f, m, head, link)
    OBVIOUS
  <2>2. m \in Nat
    OBVIOUS
  <2> DEFINE g == [i \in 0 .. m + 1 |->
                     IF i = 0 THEN head
                     ELSE IF f[i - 1] \in PageNum THEN link[f[i - 1]] ELSE INVALID_PAGE]
  <2>3. \A i \in 0 .. m : g[i] = f[i]
    <3> SUFFICES ASSUME NEW i \in 0 .. m PROVE g[i] = f[i]
      OBVIOUS
    <3>1. i \in 0 .. m + 1
      BY <2>2
    <3>2. g[i] = IF i = 0 THEN head
                 ELSE IF f[i - 1] \in PageNum THEN link[f[i - 1]] ELSE INVALID_PAGE
      BY <3>1
    <3>3. f[i] = IF i = 0 THEN head
                 ELSE IF f[i - 1] \in PageNum THEN link[f[i - 1]] ELSE INVALID_PAGE
      BY <2>1 DEF Walks
    <3> QED BY <3>2, <3>3
  <2>4. \A i \in 0 .. m + 1 : i # 0 => g[i - 1] = f[i - 1]
    <3> SUFFICES ASSUME NEW i \in 0 .. m + 1, i # 0 PROVE g[i - 1] = f[i - 1]
      OBVIOUS
    <3>1. i - 1 \in 0 .. m
      BY <2>2
    <3> HIDE DEF g
    <3> QED BY <2>3, <3>1
  <2>5. g = [i \in 0 .. m + 1 |->
               IF i = 0 THEN head
               ELSE IF g[i - 1] \in PageNum THEN link[g[i - 1]] ELSE INVALID_PAGE]
    <3>1. g = [i \in 0 .. m + 1 |->
                 IF i = 0 THEN head
                 ELSE IF f[i - 1] \in PageNum THEN link[f[i - 1]] ELSE INVALID_PAGE]
      OBVIOUS
    <3> HIDE DEF g
    <3> QED BY <2>4, <3>1
  <2>6. Walks(g, m + 1, head, link)
    BY <2>5 DEF Walks
  <2> HIDE DEF g
  <2> QED BY <2>2, <2>6
<1>3. S = Nat
  <2>1. S \in SUBSET Nat
    OBVIOUS
  <2> HIDE DEF S
  <2> QED BY <1>1, <1>2, <2>1, NatInductive
<1> QED
  BY <1>3

\* A walk that starts in a free list whose links lead down stays in it.
LEMMA WalkInList ==
  ASSUME NEW f, NEW n \in Nat, NEW head, NEW link, Walks(f, n, head, link),
         NEW h, head # INVALID_PAGE => head \in PageNum /\ 0 < h[head],
         \A p \in PageNum : 0 < h[p] => Down(h, p, link[p])
  PROVE  \A i \in 0 .. n : f[i] # INVALID_PAGE => f[i] \in PageNum /\ 0 < h[f[i]]
<1> DEFINE In(q) == q # INVALID_PAGE => q \in PageNum /\ 0 < h[q]
           S == {m \in Nat : m <= n => In(f[m])}
<1>1. \A i \in 0 .. n : f[i] = IF i = 0 THEN head
        ELSE IF f[i - 1] \in PageNum THEN link[f[i - 1]] ELSE INVALID_PAGE
  BY DEF Walks
<1>2. 0 \in S
  <2>1. f[0] = head
    BY <1>1
  <2> QED BY <2>1
<1>3. ASSUME NEW m \in S PROVE m + 1 \in S
  <2> SUFFICES ASSUME m + 1 <= n PROVE In(f[m + 1])
    OBVIOUS
  <2>1. m + 1 \in 0 .. n /\ m <= n /\ m + 1 # 0 /\ m + 1 - 1 = m
    OBVIOUS
  <2>2. In(f[m])
    BY <2>1
  <2>3. f[m + 1] = IF f[m] \in PageNum THEN link[f[m]] ELSE INVALID_PAGE
    BY <1>1, <2>1
  <2>4. CASE f[m] \in PageNum
    <3>1. Down(h, f[m], link[f[m]])
      BY <2>2, <2>4, NoPageIsInvalid
    <3> QED BY <2>3, <2>4, <3>1 DEF Down
  <2>5. CASE f[m] \notin PageNum
    BY <2>3, <2>5
  <2> QED BY <2>4, <2>5
<1>4. S = Nat
  <2>1. S \in SUBSET Nat
    OBVIOUS
  <2> HIDE DEF S
  <2> QED BY <1>2, <1>3, <2>1, NatInductive
<1>5. \A i \in 0 .. n : In(f[i])
  BY <1>4
<1> QED
  BY <1>5

\* Every page of the session's free list has a height.
LEMMA FreeListHeights ==
  ASSUME NEW h \in Heights, FreeListOK(h)
  PROVE  \A p \in FreeList : p \in PageNum /\ 0 < h[p]
<1> DEFINE link == [p \in PageNum |-> LinkOf(p)]
           n == MaxPage + 1
           Is(f) == f = [i \in 0 .. n |->
                           IF i = 0 THEN freespaceHead
                           ELSE IF f[i - 1] \in PageNum THEN LinkOf(f[i - 1]) ELSE INVALID_PAGE]
           w == CHOOSE f : Is(f)
<1>1. n \in Nat
  BY PagesAssumption
<1>2. \A p \in PageNum : link[p] = LinkOf(p)
  OBVIOUS
<1> HIDE DEF link, n
<1>3. ASSUME NEW f PROVE Walks(f, n, freespaceHead, link) <=> Is(f)
  BY <1>2 DEF Walks
<1>4. \E f : Is(f)
  <2>1. PICK f : Walks(f, n, freespaceHead, link)
    BY <1>1, WalkExists
  <2> QED BY <1>3, <2>1
<1>5. Is(w)
  BY <1>4, Zenon
<1>6. FreeList = {w[i] : i \in 0 .. n} \ {INVALID_PAGE}
  BY Zenon DEF FreeList, n
<1> HIDE DEF w, Is
<1>7. \A p \in PageNum : 0 < h[p] => Down(h, p, link[p])
  <2> SUFFICES ASSUME NEW p \in PageNum, 0 < h[p] PROVE Down(h, p, LinkOf(p))
    BY <1>2
  <2>1. CASE Cached(p)
    BY <2>1 DEF LinkOf, FreeListOK, Linked
  <2>2. CASE ~Cached(p)
    <3>1. LinkOf(p) = LinkOnFile(p) /\ ~Dirty(p)
      BY <2>2 DEF LinkOf, LinkOnFile, Dirty
    <3> QED BY <3>1 DEF FreeListOK
  <2> QED BY <2>1, <2>2
<1>8. freespaceHead # INVALID_PAGE => freespaceHead \in PageNum /\ 0 < h[freespaceHead]
  BY DEF FreeListOK, HeadIs
<1>9. Walks(w, n, freespaceHead, link)
  BY <1>3, <1>5
<1>10. \A i \in 0 .. n : w[i] # INVALID_PAGE => w[i] \in PageNum /\ 0 < h[w[i]]
  BY <1>1, <1>7, <1>8, <1>9, WalkInList
<1> QED
  BY <1>6, <1>10

\* Every page of the free list on file has a height.
LEMMA FreeOnFileHeights ==
  ASSUME 0 < file.pageCount, TypeOK, NEW h \in Heights, FreeOnFileOK(h)
  PROVE  \A p \in FreeOnFile : p \in PageNum /\ 0 < h[p]
<1> DEFINE link == [p \in PageNum |-> LinkOnFile(p)]
           n == MaxPage + 1
           head == file.image[0].free
           Is(f) == f = [i \in 0 .. n |->
                           IF i = 0 THEN file.image[0].free
                           ELSE IF f[i - 1] \in PageNum THEN LinkOnFile(f[i - 1])
                                ELSE INVALID_PAGE]
           w == CHOOSE f : Is(f)
<1>1. n \in Nat /\ file.pageCount # 0
  BY PagesAssumption
<1>2. \A p \in PageNum : link[p] = LinkOnFile(p)
  OBVIOUS
<1> HIDE DEF link, n
<1>3. ASSUME NEW f PROVE Walks(f, n, head, link) <=> Is(f)
  BY <1>2 DEF Walks
<1>4. \E f : Is(f)
  <2>1. PICK f : Walks(f, n, head, link)
    BY <1>1, WalkExists
  <2> QED BY <1>3, <2>1
<1>5. Is(w)
  BY <1>4, Zenon
<1>6. FreeOnFile = {w[i] : i \in 0 .. n} \ {INVALID_PAGE}
  BY Zenon DEF FreeOnFile, n
<1> HIDE DEF w, Is
<1>7. \A p \in PageNum : 0 < h[p] => Down(h, p, link[p])
  BY <1>2 DEF FreeOnFileOK
<1>8. head # INVALID_PAGE => head \in PageNum /\ 0 < h[head]
  BY <1>1 DEF FreeOnFileOK, HeadOnFile
<1>9. Walks(w, n, head, link)
  BY <1>3, <1>5
<1>10. \A i \in 0 .. n : w[i] # INVALID_PAGE => w[i] \in PageNum /\ 0 < h[w[i]]
  BY <1>1, <1>7, <1>8, <1>9, WalkInList
<1> QED
  BY <1>6, <1>10

-----------------------------------------------------------------------------
(* The theorems. *)

\* The pager's own steps are steps of LRUPager.
LEMMA StepsArePagers ==
  /\ DurableInit => Init
  /\ [DurableNext]_durableVars => [Next]_vars
BY DEF DurableInit, DurableNext, durableVars

\* The invariant and what it rests on.
LEMMA FreeInvariant ==
  ASSUME DeletesOwnPages
  PROVE  DurableSpec => [](TypeOK /\ FreeInv)
<1>1. DurableInit => FreeInv
  BY FreeInit
<1>2. TypeOK /\ TypeOK' /\ PoolConsistent /\ PinsMatchGuards /\ NoGuardWhenClosed
        /\ FreeInv /\ [DurableNext]_durableVars => FreeInv'
  BY FreeStep
<1> QED
  BY <1>1, <1>2, StepsArePagers, TypeInit, TypeStep, PoolInit, PoolStep, ClosedInit,
     ClosedStep, PinsInit, PinsStep, PTL DEF DurableSpec

\* newPage hands out no page that is the client's already, however pages were
\* deleted, evicted, written back and used again, and whatever sessions died:
\* the links that lead from freespaceHead_, those in the pool and those on file
\* together, pass over every page the client owns.
THEOREM FreePagesAreNotLive ==
  ASSUME DeletesOwnPages PROVE DurableSpec => []FreeListNotLive
<1>1. FreeInv => FreeListNotLive
  <2> SUFFICES ASSUME FreeInv, status = "open" PROVE FreeList \cap live = {}
    BY DEF FreeListNotLive
  <2>1. PICK h \in Heights : FreeListOK(h)
    BY DEF FreeInv
  <2>2. \A p \in FreeList : p \in PageNum /\ 0 < h[p]
    BY <2>1, FreeListHeights
  <2>3. \A p \in live : h[p] = 0
    BY <2>1 DEF FreeListOK
  <2> QED
    BY <2>2, <2>3
<1> QED
  BY <1>1, FreeInvariant, PTL

\* Should the process die between two operations, the free list that the header
\* on file starts leads to no page that was flushed and not deleted since, though
\* header and pages were written at different times.
THEOREM FreePagesOnFileAreNotKept ==
  ASSUME DeletesOwnPages PROVE DurableSpec => []SyncedNotFree
<1>1. TypeOK /\ FreeInv => SyncedNotFree
  <2> SUFFICES ASSUME TypeOK, FreeInv, file.pageCount > 0, call = NoCall
               PROVE  FreeOnFile \cap DOMAIN kept = {}
    BY DEF SyncedNotFree
  <2>1. PICK h \in Heights : FreeOnFileOK(h)
    BY DEF FreeInv
  <2>2. file.pageCount \in Nat
    BY SMT DEF TypeOK, IOTypeOK, FileType
  <2>3. 0 < file.pageCount
    BY <2>2
  <2>4. \A p \in FreeOnFile : p \in PageNum /\ 0 < h[p]
    BY <2>1, <2>3, FreeOnFileHeights
  <2>5. \A p \in DOMAIN kept : h[p] = 0
    BY <2>1 DEF FreeOnFileOK
  <2> QED
    BY <2>4, <2>5
<1> QED
  BY <1>1, FreeInvariant, PTL
=============================================================================
