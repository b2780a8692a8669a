-------------------------- MODULE DurabilityProofs --------------------------
(***************************************************************************)
(* Theorems about Durability, for every size of the pool, every number of  *)
(* pages, guards and contents: type correctness for every use of the       *)
(* pager, and, for the uses that Disciplined allows, that eviction forgets *)
(* nothing, that the client's pages can be had, that what flushAll or      *)
(* close has put in safety survives every crash, and that the pager, over  *)
(* sessions and crashes, implements DurableStore: every step of it is a    *)
(* step of the store or changes nothing that its client can see.           *)
(***************************************************************************)
EXTENDS Durability, LRUPagerProofs

USE PagesAssumption, PagerAssumption

\* What must not happen for the safety properties to hold: every one of these
\* alone breaks CleanMatchesFile or LiveReachable.
Disciplined ==
  Usage \cap {"delete", "anyPage", "headerOnly", "staleSpan", "writeReadOnly",
              "ioError"} = {}

-----------------------------------------------------------------------------
(* The inductive invariant. *)

\* The image of page p as the pager sees it.
DataOf(p) == IF Cached(p) THEN FrameOf(p).data ELSE file.image[p]

Reachable(p) == Cached(p) \/ p < file.pageCount

\* CleanMatchesFile for one page.
CleanAt(p) ==
  Cached(p) /\ ~FrameOf(p).dirty =>
    p < file.pageCount /\ file.image[p] = FrameOf(p).data

\* A crash leaves page p with its contents.
OnFile(p) == p < file.pageCount /\ ContentsOf(p) = Visible(file.image[p])

GoodHeader(img) == img.magic /\ img.count > 0 /\ img.free = INVALID_PAGE

SessionOK ==
  /\ good
  /\ freespaceHead = INVALID_PAGE
  /\ highestAllocated \in PageNum
  /\ status # "open" =>
       call = NoCall /\ mode = ReadWrite /\ \A p \in PageNum : ~Cached(p)

\* Page 0 is a valid file header, on file and in the pool, unless the file is no
\* database: then it is never opened.
HeaderOK ==
  IF status = "open"
  THEN /\ Reachable(0) /\ GoodHeader(DataOf(0))
       /\ 0 < file.pageCount => GoodHeader(file.image[0])
  ELSE 0 < file.pageCount =>
         GoodHeader(file.image[0]) \/ (~file.image[0].magic /\ live = {})

\* A session that only reads has nothing to write.
ReadOnlyOK ==
  mode = ReadOnly => \A p \in live : OnFile(p) /\ p < file.image[0].count

FlushingAll == call.op \in {"flushAll", "close", "destroy"}

\* flushAll has cleaned the pages it has passed, and page 0 counts all pages.
FlushLoopOK ==
  FlushingAll =>
    /\ call.last = highestAllocated
    /\ Cached(0) /\ DataOf(0).count = highestAllocated + 1
    /\ \A p \in PageNum : Cached(p) /\ p < call.at => ~FrameOf(p).dirty
    /\ call.op # "flushAll" => Unpinned

\* The client holds guards on its own pages only.
GuardsLive == \A g \in GuardId : guards[g] # NoGuard => guards[g].page \in live

\* What is in safety is the client's, may be written to the file at any time,
\* and page 0 may be written without it: each copy counts the pages in safety.
KeptOK ==
  /\ DOMAIN kept \subseteq live
  /\ \A p \in DOMAIN kept : ContentsOf(p) \in kept[p]
  /\ status = "open" => \A p \in DOMAIN kept : p < DataOf(0).count
  /\ SyncedSurvive

DurableInv ==
  /\ SessionOK
  /\ HeaderOK
  /\ CleanMatchesFile
  /\ LiveReachable
  /\ ReadOnlyOK
  /\ FlushLoopOK
  /\ GuardsLive
  /\ KeptOK

-----------------------------------------------------------------------------
(* Type correctness. *)

LEMMA VisibleType ==
  ASSUME NEW img \in PageImage
  PROVE  Visible(img) \in Contents
BY DEF Visible, Contents, PageImage

LEMMA ImageType ==
  ASSUME TypeOK, NEW p \in PageNum
  PROVE  file.image[p] \in PageImage
BY DEF TypeOK, IOTypeOK, FileType

LEMMA DataType ==
  ASSUME TypeOK, NEW p \in PageNum
  PROVE  DataOf(p) \in PageImage
BY ImageType DEF DataOf, Cached, FrameOf, TypeOK, ListTypeOK, Frame

LEMMA ContentsAreVisible ==
  ASSUME NEW p PROVE ContentsOf(p) = Visible(DataOf(p))
BY DEF ContentsOf, DataOf

LEMMA ContentsType ==
  ASSUME TypeOK, NEW p \in PageNum
  PROVE  ContentsOf(p) \in Contents
BY DataType, VisibleType, ContentsAreVisible

\* The same after a step.
LEMMA ContentsTypeNext ==
  TypeOK' => (\A p \in PageNum : ContentsOf(p) \in Contents)'
<1>1. TypeOK => \A p \in PageNum : ContentsOf(p) \in Contents
  BY ContentsType
<1> QED
  BY <1>1, PTL

LEMMA DurableTypeInit == DurableInit => DurableTypeOK
<1> SUFFICES ASSUME DurableInit PROVE DurableTypeOK
  OBVIOUS
<1>1. kept \in [{} -> SUBSET Contents]
  BY DEF DurableInit
<1> QED
  BY <1>1, TypeInit DEF DurableInit, DurableTypeOK

LEMMA DurableTypeStep ==
  DurableTypeOK /\ [DurableNext]_durableVars => DurableTypeOK'
<1> SUFFICES ASSUME DurableTypeOK, [DurableNext]_durableVars PROVE DurableTypeOK'
  OBVIOUS
<1>0. TypeOK' /\ live' \subseteq PageNum
  BY TypeStep DEF DurableTypeOK, DurableNext, durableVars, TypeOK, ClientTypeOK
<1>1. PICK S \in SUBSET live : kept \in [S -> SUBSET Contents]
  BY DEF DurableTypeOK
<1>2. S = DOMAIN kept /\ DOMAIN kept \subseteq PageNum
  BY <1>1 DEF DurableTypeOK, TypeOK, ClientTypeOK
<1>3. \A p \in live' : ContentsOf(p)' \in Contents
  BY <1>0, ContentsTypeNext
<1>4. CASE GoOn
  <2>1. \A p \in DOMAIN kept : {Visible(file.image[p])} \in SUBSET Contents
    BY <1>2, ImageType, VisibleType DEF DurableTypeOK
  <2>2. kept' \in [DOMAIN kept -> SUBSET Contents]
    BY <1>4, <2>1 DEF GoOn
  <2> QED
    BY <1>0, <1>4, <2>2 DEF GoOn, DurableTypeOK
<1>5. CASE Keep /\ FlushAllDone
  <2>1. kept' = [p \in live' |-> {ContentsOf(p)'}]
    BY <1>5 DEF Keep
  <2>2. kept' \in [live' -> SUBSET Contents]
    BY <1>3, <2>1
  <2> QED
    BY <1>0, <2>2 DEF DurableTypeOK
<1>6. CASE Keep /\ ~FlushAllDone
  <2> DEFINE T == DOMAIN kept \cap live'
  <2>1. kept' = [p \in T |-> kept[p] \cup {ContentsOf(p)'}]
    BY <1>6 DEF Keep
  <2>2. \A p \in T : kept[p] \cup {ContentsOf(p)'} \in SUBSET Contents
    BY <1>1, <1>3
  <2>3. kept' \in [T -> SUBSET Contents]
    BY <2>1, <2>2
  <2> QED
    BY <1>0, <2>3 DEF DurableTypeOK
<1>7. CASE UNCHANGED durableVars
  BY <1>0, <1>1, <1>7 DEF durableVars, vars, DurableTypeOK
<1> QED
  BY <1>4, <1>5, <1>6, <1>7 DEF DurableNext

\* What is in safety is a part of what the client owns, and contents of pages,
\* however sessions end.
THEOREM DurableTypeCorrect == DurableSpec => []DurableTypeOK
BY DurableTypeInit, DurableTypeStep, PTL DEF DurableSpec

-----------------------------------------------------------------------------
(* What a step within a session does to a page. *)

\* The file's copy of page q is as it was, or is what the pager has.
SameOnFile(q) ==
  /\ file'.image[q] = file.image[q]
  /\ q < file'.pageCount <=> q < file.pageCount

WrittenOnFile(q) == q < file'.pageCount /\ file'.image[q] = DataOf(q)

FileStep(q) == SameOnFile(q) \/ WrittenOnFile(q)

\* The page can still be had, and its frame dropped.
PageStep(q) ==
  /\ FileStep(q)
  /\ Reachable(q) => Reachable(q)'
  /\ CleanAt(q)'

\* It contains what it did.
PageKept(q) == PageStep(q) /\ DataOf(q)' = DataOf(q)

StreamKept == UNCHANGED <<mode, good>> /\ (mode = ReadOnly => file' = file)

\* A step within a session that changes the pages S only.
InSession(S) ==
  /\ StreamKept
  /\ \A q \in PageNum : PageStep(q)
  /\ \A q \in PageNum \ S : DataOf(q)' = DataOf(q)

\* Writing a frame back writes its page and no other.
LEMMA WriteBackFile ==
  ASSUME TypeOK, PoolConsistent, CleanMatchesFile,
         NEW f \in 0 .. nextFreeFrame - 1, WriteBack(f)
  PROVE  /\ StreamKept
         /\ f \in FrameIndex
         /\ frames[f].pageNum \in PageNum
         /\ pageMap[frames[f].pageNum] = f
         /\ Cached(frames[f].pageNum)
         /\ WrittenOnFile(frames[f].pageNum)
         /\ \A q \in PageNum \ {frames[f].pageNum} : SameOnFile(q)
<1> DEFINE r == frames[f].pageNum
<1>1. f \in FrameIndex /\ f # NoFrame
  BY SMT DEF FrameIndex, NoFrame, TypeOK, ListTypeOK
<1>2. r \in PageNum /\ pageMap[r] = f
  BY DEF PoolConsistent
<1>3. Cached(r) /\ DataOf(r) = frames[f].data
  BY <1>1, <1>2 DEF Cached, DataOf, FrameOf
<1>4. CASE frames[f].dirty
  <2>1. WritePage(r, frames[f].data)
    BY <1>4 DEF WriteBack
  <2>2. mode = ReadWrite /\ UNCHANGED <<mode, good>> /\ r <= file.pageCount
    BY <2>1 DEF WritePage, CanWrite
  <2>3. /\ file'.image = [file.image EXCEPT ![r] = frames[f].data]
        /\ file'.pageCount = IF r = file.pageCount THEN r + 1 ELSE file.pageCount
    BY <2>1 DEF WritePage, TypeOK, IOTypeOK, FileType
  <2>4. WrittenOnFile(r)
    <3>1. r < file'.pageCount
      BY <1>2, <2>2, <2>3, SMT DEF PageNum, TypeOK, IOTypeOK, FileType
    <3> QED
      BY <1>2, <1>3, <2>3, <3>1 DEF WrittenOnFile, TypeOK, IOTypeOK, FileType
  <2>5. ASSUME NEW q \in PageNum \ {r} PROVE SameOnFile(q)
    <3>1. q < file'.pageCount <=> q < file.pageCount
      BY <1>2, <2>2, <2>3, SMT DEF PageNum, TypeOK, IOTypeOK, FileType
    <3> QED
      BY <2>3, <3>1 DEF SameOnFile, TypeOK, IOTypeOK, FileType
  <2>6. StreamKept
    BY <2>2 DEF StreamKept, ReadWrite, ReadOnly
  <2> QED
    BY <1>1, <1>2, <1>3, <2>4, <2>5, <2>6
<1>5. CASE ~frames[f].dirty
  <2>1. UNCHANGED ioVars
    BY <1>5 DEF WriteBack
  <2>2. r < file.pageCount /\ file.image[r] = frames[f].data
    BY <1>2, <1>3, <1>5 DEF CleanMatchesFile, FrameOf
  <2> QED
    BY <1>1, <1>2, <1>3, <2>1, <2>2 DEF ioVars, StreamKept, WrittenOnFile, SameOnFile
<1> QED
  BY <1>4, <1>5

\* A page whose frame is left alone, and one that is evicted, are kept.
LEMMA FrameKept ==
  ASSUME CleanMatchesFile, NEW q \in PageNum,
         pageMap'[q] = pageMap[q], SameOnFile(q),
         Cached(q) => /\ frames'[pageMap[q]].data = frames[pageMap[q]].data
                      /\ frames'[pageMap[q]].dirty = frames[pageMap[q]].dirty
  PROVE  PageKept(q)
<1>1. Cached(q)' <=> Cached(q)
  BY DEF Cached
<1>2. DataOf(q)' = DataOf(q)
  BY <1>1 DEF DataOf, FrameOf, SameOnFile
<1>3. CleanAt(q)'
  BY <1>1 DEF CleanAt, CleanMatchesFile, FrameOf, SameOnFile
<1> QED
  BY <1>1, <1>2, <1>3 DEF PageKept, PageStep, Reachable, FileStep, SameOnFile

LEMMA EvictedKept ==
  ASSUME NEW q \in PageNum, pageMap'[q] = NoFrame, WrittenOnFile(q)
  PROVE  PageKept(q)
BY DEF PageKept, PageStep, FileStep, WrittenOnFile, Reachable, CleanAt, DataOf, Cached

\* allocateFrame gives page p a frame; all other pages are kept.
LEMMA TakeFrameEffect ==
  ASSUME TypeOK, PoolConsistent, CleanMatchesFile,
         NEW p \in PageNum, NEW f \in FrameIndex, ~Cached(p), TakeFrame(p, f),
         \A k \in FrameIndex \ {f} : frames'[k] = frames[k]
  PROVE  /\ StreamKept
         /\ pageMap'[p] = f
         /\ SameOnFile(p)
         /\ \A q \in PageNum \ {p} : PageKept(q)
<1>1. CASE nextFreeFrame < PoolSize
  <2>1. f = nextFreeFrame /\ pageMap' = [pageMap EXCEPT ![p] = f] /\ UNCHANGED ioVars
    BY <1>1, SMT DEF TakeFrame
  <2>2. pageMap'[p] = f
    BY <2>1 DEF TypeOK, ListTypeOK
  <2>3. ASSUME NEW q \in PageNum \ {p} PROVE PageKept(q)
    <3>1. pageMap'[q] = pageMap[q] /\ SameOnFile(q)
      BY <2>1 DEF TypeOK, ListTypeOK, ioVars, SameOnFile
    <3>2. Cached(q) => pageMap[q] \in FrameIndex \ {f}
      BY <2>1, SMT DEF Cached, PoolConsistent, TypeOK, ListTypeOK, FrameIndex
    <3> QED
      BY <3>1, <3>2, FrameKept
  <2> QED
    BY <2>1, <2>2, <2>3 DEF ioVars, StreamKept, SameOnFile
<1>2. CASE nextFreeFrame = PoolSize
  <2> DEFINE r == frames[f].pageNum
  <2>1. PICK i \in 1 .. Len(lruList) : f = lruList[i]
    BY <1>2, SMT DEF TakeFrame
  <2>2. WriteBack(f) /\ pageMap' = Remap(p, f)
    BY <1>2, SMT DEF TakeFrame
  <2>3. f \in 0 .. nextFreeFrame - 1
    BY <2>1, UsedFrames
  <2>4. /\ StreamKept
        /\ r \in PageNum /\ pageMap[r] = f /\ Cached(r)
        /\ WrittenOnFile(r)
        /\ \A q \in PageNum \ {r} : SameOnFile(q)
    BY <2>2, <2>3, WriteBackFile
  <2>5. p # r
    BY <2>4
  <2>6. /\ pageMap'[p] = f
        /\ pageMap'[r] = NoFrame
        /\ \A q \in PageNum \ {p, r} : pageMap'[q] = pageMap[q]
    BY <2>2, <2>4, <2>5 DEF Remap, TypeOK, ListTypeOK
  <2>7. ASSUME NEW q \in PageNum \ {p, r} PROVE PageKept(q)
    <3>1. Cached(q) => pageMap[q] \in FrameIndex \ {f}
      BY <2>7, CachedFrame
    <3> QED
      BY <2>4, <2>6, <3>1, FrameKept
  <2>8. PageKept(r)
    BY <2>4, <2>6, EvictedKept
  <2> QED
    BY <2>4, <2>5, <2>6, <2>7, <2>8
<1> QED
  BY <1>1, <1>2 DEF TakeFrame

\* fetchPage puts page p into frame f, with its contents; all others are kept.
LEMMA FetchEffect ==
  ASSUME TypeOK, PoolConsistent, CleanMatchesFile,
         NEW p \in PageNum, NEW f \in FrameIndex, Fetch(p, f),
         \A k \in FrameIndex \ {f} : frames'[k] = frames[k]
  PROVE  /\ StreamKept
         /\ pageMap'[p] = f
         /\ SameOnFile(p)
         /\ Fetched(p, f).data = DataOf(p)
         /\ ~Fetched(p, f).dirty =>
              p < file'.pageCount /\ file'.image[p] = Fetched(p, f).data
         /\ \A q \in PageNum \ {p} : PageKept(q)
<1>1. CASE Cached(p) /\ Touch(p, f)
  <2>1. f = pageMap[p] /\ UNCHANGED <<ioVars, pageMap>>
    BY <1>1 DEF Touch
  <2>2. Fetched(p, f) = FrameOf(p)
    BY <1>1, <2>1 DEF Fetched, FrameOf
  <2>3. ASSUME NEW q \in PageNum \ {p} PROVE PageKept(q)
    <3>1. Cached(q) => pageMap[q] \in FrameIndex \ {f}
      BY <1>1, <2>1, CachedFrame
    <3> QED
      BY <2>1, <3>1, FrameKept DEF SameOnFile, ioVars
  <2>4. ~FrameOf(p).dirty => p < file.pageCount /\ file.image[p] = FrameOf(p).data
    BY <1>1 DEF CleanMatchesFile
  <2> QED
    BY <1>1, <2>1, <2>2, <2>3, <2>4 DEF StreamKept, SameOnFile, DataOf, ioVars
<1>2. CASE ~Cached(p) /\ TakeFrame(p, f) /\ CanReadNext(p)
  <2>1. /\ StreamKept
        /\ pageMap'[p] = f
        /\ SameOnFile(p)
        /\ \A q \in PageNum \ {p} : PageKept(q)
    BY <1>2, TakeFrameEffect
  <2>2. Fetched(p, f).data = file'.image[p] /\ p < file'.pageCount
    BY <1>2 DEF Fetched, CanReadNext
  <2>3. file'.image[p] = DataOf(p)
    BY <1>2, <2>1 DEF SameOnFile, DataOf
  <2> QED
    BY <2>1, <2>2, <2>3
<1> QED
  BY <1>1, <1>2 DEF Fetch

-----------------------------------------------------------------------------
(* The steps of a session, one by one. *)

\* Page p has got frame f.
LEMMA FrameSet ==
  ASSUME NEW p \in PageNum, NEW f \in FrameIndex, pageMap'[p] = f, SameOnFile(p),
         ~frames'[f].dirty => p < file'.pageCount /\ file'.image[p] = frames'[f].data
  PROVE  PageStep(p) /\ Cached(p)' /\ DataOf(p)' = frames'[f].data
<1>1. f # NoFrame
  BY SMT DEF FrameIndex, NoFrame
<1>2. Cached(p)' /\ FrameOf(p)' = frames'[f]
  BY <1>1 DEF Cached, FrameOf
<1> QED
  BY <1>2 DEF PageStep, FileStep, Reachable, CleanAt, DataOf

LEMMA UnchangedStep ==
  ASSUME CleanMatchesFile, UNCHANGED <<ioVars, poolVars>>
  PROVE  InSession({})
<1>1. \A q \in PageNum : PageKept(q)
  BY FrameKept DEF ioVars, poolVars, SameOnFile
<1> QED
  BY <1>1 DEF InSession, PageKept, StreamKept, ioVars

LEMMA FetchPageStep ==
  ASSUME TypeOK, PoolConsistent, CleanMatchesFile,
         NEW g \in GuardId, NEW p \in PageNum, FetchPage(g, p)
  PROVE  InSession({})
<1>1. PICK f \in FrameIndex : Fetch(p, f) /\ Hold(g, p, f, Fetched(p, f), FALSE)
  BY DEF FetchPage
<1>2. Fetched(p, f) \in Frame
  BY <1>1, FetchType
<1>3. /\ frames'[f].data = Fetched(p, f).data
      /\ frames'[f].dirty = Fetched(p, f).dirty
      /\ \A k \in FrameIndex \ {f} : frames'[k] = frames[k]
  BY <1>1, <1>2 DEF Hold, TypeOK, Frame
<1>4. /\ StreamKept
      /\ pageMap'[p] = f
      /\ SameOnFile(p)
      /\ Fetched(p, f).data = DataOf(p)
      /\ ~Fetched(p, f).dirty => p < file'.pageCount /\ file'.image[p] = Fetched(p, f).data
      /\ \A q \in PageNum \ {p} : PageKept(q)
  BY <1>1, <1>3, FetchEffect
<1>5. PageStep(p) /\ DataOf(p)' = DataOf(p)
  BY <1>3, <1>4, FrameSet
<1> QED
  BY <1>4, <1>5 DEF InSession, PageKept

LEMMA NewPageFreshStep ==
  ASSUME TypeOK, PoolConsistent, CleanMatchesFile, highestAllocated \in PageNum,
         NEW g \in GuardId, NEW p, p = highestAllocated', NewPageFresh(g)
  PROVE  /\ p \in PageNum /\ p = highestAllocated + 1 /\ p # 0
         /\ InSession({p})
         /\ Cached(p)'
         /\ ContentsOf(p)' = [next |-> INVALID_PAGE, body |-> EmptyBody]
<1>1. p \in PageNum /\ p = highestAllocated + 1 /\ p # 0 /\ ~(p <= highestAllocated)
  BY SMT DEF NewPageFresh, PageNum
<1>2. ~Cached(p)
  BY <1>1 DEF PoolConsistent
<1> DEFINE fr(f) == [pageNum |-> p, pinCount |-> 0, dirty |-> TRUE,
                     data |-> InitPage(p, frames[f].data)]
<1>3. PICK f \in FrameIndex : TakeFrame(p, f) /\ Hold(g, p, f, fr(f), TRUE)
  BY DEF NewPageFresh
<1>4. /\ frames'[f].data = InitPage(p, frames[f].data)
      /\ frames'[f].dirty = TRUE
      /\ \A k \in FrameIndex \ {f} : frames'[k] = frames[k]
  BY <1>3 DEF Hold, TypeOK
<1> HIDE DEF fr
<1>5. /\ StreamKept
      /\ pageMap'[p] = f
      /\ SameOnFile(p)
      /\ \A q \in PageNum \ {p} : PageKept(q)
  BY <1>1, <1>2, <1>3, <1>4, TakeFrameEffect
<1>6. PageStep(p) /\ Cached(p)' /\ DataOf(p)' = frames'[f].data
  BY <1>1, <1>4, <1>5, FrameSet
<1>7. InSession({p})
  BY <1>5, <1>6 DEF InSession, PageKept
<1>8. Visible(InitPage(p, frames[f].data)) = [next |-> INVALID_PAGE, body |-> EmptyBody]
  BY <1>1 DEF Visible, InitPage, ZeroImage
<1>9. ContentsOf(p)' = Visible(DataOf(p)')
  BY DEF ContentsOf, DataOf
<1> QED
  BY <1>1, <1>4, <1>6, <1>7, <1>8, <1>9

\* A step that changes the frame of one page p, and marks it.
LEMMA FrameChangedStep ==
  ASSUME TypeOK, PoolConsistent, CleanMatchesFile, UNCHANGED <<ioVars, pageMap>>,
         NEW p \in PageNum, Cached(p), frames'[pageMap[p]].dirty,
         \A k \in FrameIndex \ {pageMap[p]} :
           frames'[k].data = frames[k].data /\ frames'[k].dirty = frames[k].dirty
  PROVE  InSession({p}) /\ DataOf(p)' = frames'[pageMap[p]].data
<1>1. pageMap[p] \in FrameIndex
  BY CachedFrame
<1>2. \A q \in PageNum : SameOnFile(q)
  BY DEF ioVars, SameOnFile
<1>3. ASSUME NEW q \in PageNum \ {p} PROVE PageKept(q)
  <2>1. Cached(q) => pageMap[q] \in FrameIndex \ {pageMap[p]}
    BY CachedFrame
  <2> QED
    BY <1>2, <2>1, FrameKept
<1>4. PageStep(p) /\ DataOf(p)' = frames'[pageMap[p]].data
  BY <1>1, <1>2, FrameSet
<1> QED
  BY <1>3, <1>4 DEF InSession, PageKept, StreamKept, ioVars

\* The header fields of page 0 that the pager keeps.
SameHeader(i, j) == i.magic = j.magic /\ i.count = j.count /\ i.free = j.free

LEMMA WriteSpanStep ==
  ASSUME TypeOK, PoolConsistent, PinsMatchGuards, CleanMatchesFile, Disciplined,
         NEW g \in GuardId, NEW v \in Bodies, WriteSpan(g, v),
         NEW p, p = guards[g].page
  PROVE  /\ p \in PageNum
         /\ InSession({p})
         /\ SameHeader(DataOf(p)', DataOf(p))
         /\ mode = ReadWrite
<1>0. PICK f \in FrameIndex : f = pageMap[p]
  BY HeldGuard DEF WriteSpan
<1>1. p \in PageNum /\ guards[g].frame = f /\ Cached(p)
  BY <1>0, HeldGuard DEF WriteSpan
<1>2. mode = ReadWrite /\ (guards[g].dirty => frames[f].dirty) /\ UNCHANGED <<ioVars, pageMap>>
  BY <1>1 DEF WriteSpan, MayModify, Disciplined
<1>3. frames' = [k \in FrameIndex |->
                   [frames[k] EXCEPT
                      !.data.body = IF k = f THEN v ELSE @,
                      !.dirty = @ \/ (~guards[g].dirty /\ k = f)]]
  BY <1>0, <1>1 DEF WriteSpan
<1>4. \A k \in FrameIndex : frames[k] \in Frame /\ frames[k].data \in PageImage
  BY DEF TypeOK, Frame
<1>5. \A k \in FrameIndex \ {f} :
        frames'[k].data = frames[k].data /\ frames'[k].dirty = frames[k].dirty
  BY <1>3, <1>4 DEF Frame, PageImage
<1>6. frames'[f].dirty
  BY <1>2, <1>3, <1>4 DEF Frame
<1>7. frames'[f].data = [frames[f].data EXCEPT !.body = v]
  BY <1>3, <1>4 DEF Frame
<1>8. SameHeader(frames'[f].data, frames[f].data)
  BY <1>4, <1>7 DEF PageImage, SameHeader
<1>9. DataOf(p) = frames[f].data
  BY <1>0, <1>1 DEF DataOf, FrameOf
<1>10. InSession({p}) /\ DataOf(p)' = frames'[f].data
  BY <1>0, <1>1, <1>2, <1>5, <1>6, FrameChangedStep
<1> QED
  BY <1>1, <1>2, <1>8, <1>9, <1>10

LEMMA SetHeaderStep ==
  ASSUME TypeOK, PoolConsistent, PinsMatchGuards, CleanMatchesFile, Disciplined,
         NEW g \in GuardId, NEW n \in Links, SetHeader(g, n),
         NEW p, p = guards[g].page
  PROVE  /\ p \in PageNum
         /\ InSession({p})
         /\ SameHeader(DataOf(p)', DataOf(p))
         /\ mode = ReadWrite
<1>0. PICK f \in FrameIndex : f = pageMap[p]
  BY HeldGuard DEF SetHeader
<1>1. p \in PageNum /\ guards[g].frame = f /\ Cached(p)
  BY <1>0, HeldGuard DEF SetHeader
<1>2. mode = ReadWrite /\ frames[f].dirty /\ UNCHANGED <<ioVars, pageMap>>
  BY <1>1 DEF SetHeader, MayModify, Disciplined
<1>3. frames' = [frames EXCEPT ![f] = [frames[f] EXCEPT
                                         !.data = [frames[f].data EXCEPT !.next = n]]]
  BY <1>1 DEF SetHeader
<1>4. frames[f] \in Frame /\ frames[f].data \in PageImage
  BY DEF TypeOK, Frame
<1>5. /\ \A k \in FrameIndex \ {f} : frames'[k] = frames[k]
      /\ frames'[f] = [frames[f] EXCEPT !.data = [frames[f].data EXCEPT !.next = n]]
  BY <1>3 DEF TypeOK
<1>6. frames'[f].dirty /\ frames'[f].data = [frames[f].data EXCEPT !.next = n]
  BY <1>2, <1>4, <1>5 DEF Frame
<1>7. SameHeader(frames'[f].data, frames[f].data)
  BY <1>4, <1>6 DEF PageImage, SameHeader
<1>8. DataOf(p) = frames[f].data
  BY <1>0, <1>1 DEF DataOf, FrameOf
<1>9. InSession({p}) /\ DataOf(p)' = frames'[f].data
  BY <1>0, <1>1, <1>2, <1>5, <1>6, FrameChangedStep
<1> QED
  BY <1>1, <1>2, <1>7, <1>8, <1>9

\* Releasing a guard changes pin counts only.
LEMMA UnpinStep ==
  ASSUME TypeOK, CleanMatchesFile, UNCHANGED <<ioVars, pageMap>>,
         NEW p, frames' = frames \/ frames' = Unpin(p)
  PROVE  InSession({})
<1>1. \A k \in FrameIndex :
        frames'[k].data = frames[k].data /\ frames'[k].dirty = frames[k].dirty
  BY DEF Unpin, TypeOK, Frame
<1>2. \A q \in PageNum : Cached(q) => pageMap[q] \in FrameIndex
  BY DEF Cached, TypeOK, ListTypeOK
<1>3. \A q \in PageNum : PageKept(q)
  BY <1>1, <1>2, FrameKept DEF SameOnFile, ioVars
<1> QED
  BY <1>3 DEF InSession, PageKept, StreamKept, ioVars

\* updateFileHeader has put the number of pages into page 0.
LEMMA FlushAllStep ==
  ASSUME TypeOK, PoolConsistent, CleanMatchesFile, highestAllocated \in PageNum,
         NEW op, FlushAll(op)
  PROVE  /\ InSession({0})
         /\ Cached(0)'
         /\ DataOf(0)' = [DataOf(0) EXCEPT !.count = highestAllocated + 1,
                                           !.free = freespaceHead]
<1>0. 0 \in PageNum
  BY SMT DEF PageNum
<1>1. PICK f \in FrameIndex : Fetch(0, f) /\ PutFileHeader(f)
  BY DEF FlushAll
<1>2. Fetched(0, f) \in Frame /\ Fetched(0, f).data \in PageImage
  BY <1>0, <1>1, FetchType DEF Frame
<1>3. HeaderCount = highestAllocated + 1
  BY SMT DEF HeaderCount, PageNum
<1>4. /\ frames'[f].data = [Fetched(0, f).data EXCEPT !.count = highestAllocated + 1,
                                                       !.free = freespaceHead]
      /\ frames'[f].dirty
      /\ \A k \in FrameIndex \ {f} : frames'[k] = frames[k]
  BY <1>1, <1>2, <1>3 DEF PutFileHeader, TypeOK, Frame
<1>5. /\ StreamKept
      /\ pageMap'[0] = f
      /\ SameOnFile(0)
      /\ Fetched(0, f).data = DataOf(0)
      /\ \A q \in PageNum \ {0} : PageKept(q)
  BY <1>0, <1>1, <1>4, FetchEffect
<1>6. PageStep(0) /\ Cached(0)' /\ DataOf(0)' = frames'[f].data
  BY <1>0, <1>4, <1>5, FrameSet
<1> QED
  BY <1>4, <1>5, <1>6 DEF InSession, PageKept

\* The flush loop has cleaned one page.
LEMMA FlushOneStep ==
  ASSUME TypeOK, PoolConsistent, CleanMatchesFile, FlushOne
  PROVE  /\ InSession({})
         /\ pageMap' = pageMap
         /\ \A q \in PageNum : Cached(q) =>
              /\ FrameOf(q)'.dirty => FrameOf(q).dirty
              /\ q = call.at => ~FrameOf(q)'.dirty
         /\ \A k \in FrameIndex : frames'[k].pinCount = frames[k].pinCount
<1>1. PICK p \in PageNum : p = call.at
  BY SMT DEF FlushOne, Flushing, TypeOK, ClientTypeOK, Call, PageNum
<1>2. pageMap' = pageMap
  BY DEF FlushOne
<1>3. CASE ~Cached(p)
  <2>1. UNCHANGED <<ioVars, poolVars>>
    BY <1>1, <1>3 DEF FlushOne, poolVars
  <2> QED
    BY <1>1, <1>2, <1>3, <2>1, UnchangedStep DEF poolVars, FrameOf
<1>4. CASE Cached(p)
  <2>0. PICK f \in FrameIndex : f = pageMap[p]
    BY <1>4, CachedFrame
  <2>1. WriteBack(f) /\ frames' = [frames EXCEPT ![f].dirty = FALSE]
    BY <1>1, <1>4, <2>0 DEF FlushOne
  <2>2. f \in 0 .. nextFreeFrame - 1 /\ frames[f].pageNum = p
    <3>1. f < nextFreeFrame /\ frames[f].pageNum = p
      BY <1>4, <2>0, CachedFrame DEF PoolConsistent
    <3> QED
      BY <3>1, SMT DEF FrameIndex, TypeOK, ListTypeOK
  <2>3. /\ StreamKept
        /\ WrittenOnFile(p)
        /\ \A q \in PageNum \ {p} : SameOnFile(q)
    BY <2>1, <2>2, WriteBackFile
  <2>4. /\ frames'[f].data = frames[f].data /\ ~frames'[f].dirty
        /\ frames'[f].pinCount = frames[f].pinCount
        /\ \A k \in FrameIndex \ {f} : frames'[k] = frames[k]
    BY <2>1 DEF TypeOK, Frame
  <2>5. ASSUME NEW q \in PageNum \ {p} PROVE PageKept(q)
    <3>1. Cached(q) => pageMap[q] \in FrameIndex \ {f}
      BY <2>0, <2>2, CachedFrame
    <3> QED
      BY <1>2, <2>3, <2>4, <3>1, FrameKept
  <2>6. Cached(p)' /\ FrameOf(p)' = frames'[f] /\ DataOf(p) = frames[f].data
    BY <1>2, <1>4, <2>0 DEF Cached, FrameOf, DataOf
  <2>7. PageStep(p) /\ DataOf(p)' = DataOf(p)
    BY <2>3, <2>4, <2>6
       DEF PageStep, FileStep, WrittenOnFile, Reachable, CleanAt, DataOf
  <2>8. InSession({})
    BY <2>3, <2>5, <2>7 DEF InSession, PageKept
  <2>9. ASSUME NEW q \in PageNum, Cached(q)
        PROVE  (FrameOf(q)'.dirty => FrameOf(q).dirty) /\ (q = p => ~FrameOf(q)'.dirty)
    <3>1. pageMap[q] \in FrameIndex
      BY <2>9, CachedFrame
    <3> QED
      BY <1>2, <2>0, <2>4, <3>1 DEF FrameOf
  <2> QED
    BY <1>1, <1>2, <2>4, <2>8, <2>9
<1> QED
  BY <1>3, <1>4

-----------------------------------------------------------------------------
(* The invariant: within a session, at its start and at its end. *)

\* A step within a session preserves the invariant, if it keeps page 0 a header
\* that counts the pages in safety and owns no page that cannot be had.
LEMMA InSessionInv ==
  ASSUME TypeOK, DurableInv, status = "open", status' = "open", Keep, ~FlushAllDone,
         NEW S, InSession(S),
         freespaceHead' = freespaceHead,
         highestAllocated' \in PageNum, highestAllocated <= highestAllocated',
         live \subseteq live', live' \subseteq PageNum,
         \A p \in live' \ live : Reachable(p)' /\ p <= highestAllocated',
         GoodHeader(DataOf(0)'),
         \A p \in DOMAIN kept : p < DataOf(0)'.count,
         mode = ReadOnly =>
           live' = live /\ \A p \in live : ContentsOf(p)' = ContentsOf(p),
         GuardsLive', FlushLoopOK'
  PROVE  DurableInv'
<1>0. 0 \in PageNum /\ live \subseteq PageNum
  BY SMT DEF PageNum, TypeOK, ClientTypeOK
<1>1. /\ UNCHANGED <<mode, good>>
      /\ mode = ReadOnly => file' = file
      /\ \A q \in PageNum : FileStep(q) /\ (Reachable(q) => Reachable(q)') /\ CleanAt(q)'
  BY DEF InSession, StreamKept, PageStep
<1>2. SessionOK'
  BY <1>1 DEF DurableInv, SessionOK
<1>3. HeaderOK'
  <2>1. GoodHeader(DataOf(0)) /\ Reachable(0)'
    BY <1>0, <1>1 DEF DurableInv, HeaderOK
  <2>2. 0 < file'.pageCount => GoodHeader(file'.image[0])
    BY <1>0, <1>1, <2>1 DEF FileStep, SameOnFile, WrittenOnFile, DurableInv, HeaderOK
  <2> QED
    BY <2>1, <2>2 DEF HeaderOK, GoodHeader
<1>4. CleanMatchesFile'
  BY <1>1 DEF CleanAt, CleanMatchesFile
<1>5. LiveReachable'
  <2>1. ASSUME NEW p \in live' PROVE Reachable(p)' /\ p <= highestAllocated'
    <3>1. CASE p \in live
      <4>1. p \in PageNum /\ Reachable(p) /\ p <= highestAllocated
        BY <1>0, <3>1 DEF DurableInv, LiveReachable, Reachable
      <4>2. p <= highestAllocated'
        BY <4>1, SMT DEF DurableInv, SessionOK, PageNum
      <4> QED
        BY <1>1, <4>1, <4>2
    <3> QED
      BY <3>1
  <2> QED
    BY <2>1 DEF LiveReachable, Reachable
<1>6. ReadOnlyOK'
  <2> SUFFICES ASSUME mode = ReadOnly, NEW p \in live
               PROVE  OnFile(p)' /\ p < file'.image[0].count
    BY <1>1 DEF ReadOnlyOK
  <2>1. OnFile(p) /\ p < file.image[0].count
    BY DEF DurableInv, ReadOnlyOK
  <2> QED
    BY <1>1, <2>1 DEF OnFile
<1>7. KeptOK'
  <2>1. /\ DOMAIN kept \subseteq live
        /\ \A p \in DOMAIN kept :
             /\ ContentsOf(p) \in kept[p]
             /\ p < DataOf(0).count
             /\ p < file.pageCount
             /\ p < file.image[0].count
             /\ Visible(file.image[p]) \in kept[p]
    BY DEF DurableInv, KeptOK, SyncedSurvive
  <2>2. kept' = [p \in DOMAIN kept |-> kept[p] \cup {ContentsOf(p)'}]
    <3>1. DOMAIN kept \cap live' = DOMAIN kept
      BY <2>1
    <3> QED
      BY <3>1 DEF Keep
  <2>3. ASSUME NEW p \in DOMAIN kept
        PROVE  /\ p < file'.pageCount
               /\ p < file'.image[0].count
               /\ Visible(file'.image[p]) \in kept'[p]
    <3>1. p \in PageNum /\ FileStep(p) /\ FileStep(0)
      BY <1>0, <1>1, <2>1
    <3>2. p < file'.pageCount
      BY <2>1, <3>1 DEF FileStep, SameOnFile, WrittenOnFile
    <3>3. p < file'.image[0].count
      BY <2>1, <3>1 DEF FileStep, SameOnFile, WrittenOnFile
    <3>4. Visible(file'.image[p]) \in kept[p]
      BY <2>1, <3>1, ContentsAreVisible DEF FileStep, SameOnFile, WrittenOnFile
    <3> QED
      BY <2>2, <3>2, <3>3, <3>4
  <2>4. DOMAIN kept' = DOMAIN kept
    BY <2>2
  <2>5. \A p \in DOMAIN kept : ContentsOf(p)' \in kept'[p]
    BY <2>2
  <2> QED
    BY <2>1, <2>3, <2>4, <2>5 DEF KeptOK, SyncedSurvive
<1> QED
  BY <1>2, <1>3, <1>4, <1>5, <1>6, <1>7 DEF DurableInv

\* A step that changes no contents and leaves the header alone.
LEMMA QuietInv ==
  ASSUME TypeOK, DurableInv, status = "open", status' = "open", Keep, ~FlushAllDone,
         InSession({}), UNCHANGED <<freespaceHead, highestAllocated, live>>,
         GuardsLive', FlushLoopOK'
  PROVE  DurableInv'
<1>0. 0 \in PageNum /\ live \subseteq PageNum
  BY SMT DEF PageNum, TypeOK, ClientTypeOK
<1>1. \A q \in PageNum : DataOf(q)' = DataOf(q) /\ ContentsOf(q)' = ContentsOf(q)
  BY DEF InSession, DataOf, ContentsOf
<1>2. GoodHeader(DataOf(0)') /\ \A p \in DOMAIN kept : p < DataOf(0)'.count
  BY <1>0, <1>1 DEF DurableInv, HeaderOK, KeptOK
<1>3. highestAllocated' \in PageNum /\ highestAllocated <= highestAllocated'
  BY SMT DEF DurableInv, SessionOK, PageNum
<1> QED
  BY <1>0, <1>1, <1>2, <1>3, InSessionInv

\* When flushAll or close is done, all pages of the client are on file.
LEMMA AllFlushed ==
  ASSUME TypeOK, DurableInv, status = "open", FlushAllDone, NEW p \in live
  PROVE  OnFile(p) /\ p < file.image[0].count
<1>0. 0 \in PageNum /\ p \in PageNum
  BY SMT DEF PageNum, TypeOK, ClientTypeOK
<1>1. p <= highestAllocated /\ Reachable(p)
  BY DEF DurableInv, LiveReachable, Reachable
<1>2. /\ call.last = highestAllocated
      /\ Cached(0) /\ DataOf(0).count = highestAllocated + 1
      /\ \A q \in PageNum : Cached(q) /\ q < call.at => ~FrameOf(q).dirty
  BY DEF FlushAllDone, FlushingAll, DurableInv, FlushLoopOK
<1>3. 0 < call.at /\ p < call.at /\ p < highestAllocated + 1
  BY <1>0, <1>1, <1>2, SMT DEF FlushAllDone, DurableInv, SessionOK, PageNum, TypeOK,
                               ClientTypeOK, Call
<1>4. \A q \in {0, p} : Cached(q) => q < file.pageCount /\ file.image[q] = FrameOf(q).data
  BY <1>0, <1>2, <1>3 DEF DurableInv, CleanMatchesFile
<1>5. p < file.image[0].count
  BY <1>2, <1>3, <1>4 DEF DataOf
<1>6. OnFile(p)
  BY <1>1, <1>4 DEF OnFile, Reachable, ContentsOf
<1> QED
  BY <1>5, <1>6

\* A session ends with the client's pages on file.
LEMMA EndSessionInv ==
  ASSUME TypeOK, DurableInv, NEW s \in {"closed", "lost", "aborted"}, EndSession(s), file' = file,
         live' \subseteq PageNum, status = "open",
         \A p \in live' : p < file.pageCount /\ p < file.image[0].count,
         DOMAIN kept' \subseteq live',
         \A p \in DOMAIN kept' : Visible(file.image[p]) \in kept'[p]
  PROVE  DurableInv'
<1>1. /\ status' \notin {"open"} /\ status' # "open"
      /\ \A p \in PageNum : ~Cached(p)'
      /\ call' = NoCall /\ mode' = ReadWrite /\ good' = TRUE
      /\ freespaceHead' = INVALID_PAGE /\ highestAllocated' = 0
      /\ \A g \in GuardId : guards'[g] = NoGuard
  BY DEF EndSession, EmptyPool, Cached
<1>2. SessionOK'
  <2>1. 0 \in PageNum
    BY SMT DEF PageNum
  <2> QED
    BY <1>1, <2>1 DEF SessionOK
<1>3. HeaderOK'
  BY <1>1 DEF DurableInv, HeaderOK
<1>4. CleanMatchesFile' /\ LiveReachable'
  BY <1>1 DEF CleanMatchesFile, LiveReachable
<1>5. ReadOnlyOK' /\ GuardsLive' /\ FlushLoopOK'
  BY <1>1 DEF ReadOnlyOK, ReadOnly, ReadWrite, GuardsLive, FlushLoopOK, FlushingAll, NoCall
<1>6. KeptOK'
  <2>1. \A p \in PageNum : ContentsOf(p)' = Visible(file.image[p])
    BY <1>1 DEF ContentsOf
  <2> QED
    BY <1>1, <2>1 DEF KeptOK, SyncedSurvive
<1> QED
  BY <1>2, <1>3, <1>4, <1>5, <1>6 DEF DurableInv

\* The process dies, and the client goes on with what was in safety.
LEMMA DiesInv ==
  ASSUME DurableTypeOK, DurableInv, status = "open",
         NEW s \in {"lost", "aborted"}, Lose(s), GoOn
  PROVE  DurableInv'
<1>1. EndSession(s) /\ file' = file /\ TypeOK
  BY DEF Lose, DurableTypeOK
<1>2. live' = DOMAIN kept /\ DOMAIN kept' = DOMAIN kept /\ DOMAIN kept \subseteq PageNum
  BY <1>1 DEF GoOn, DurableInv, KeptOK, TypeOK, ClientTypeOK
<1>3. \A p \in DOMAIN kept' : Visible(file.image[p]) \in kept'[p]
  BY DEF GoOn
<1>4. \A p \in live' : p < file.pageCount /\ p < file.image[0].count
  BY <1>2 DEF DurableInv, KeptOK, SyncedSurvive
<1> QED
  BY <1>1, <1>2, <1>3, <1>4, EndSessionInv

\* initFile.
LEMMA OpenEmptyInv ==
  ASSUME DurableTypeOK, DurableInv, Keep, NEW m \in OpenModes, OpenEmpty(m)
  PROVE  DurableInv'
<1>0. 0 \in PageNum /\ 0 \in FrameIndex /\ 0 # NoFrame /\ TypeOK
  BY SMT DEF PageNum, FrameIndex, NoFrame, DurableTypeOK
<1>1. live = {} /\ DOMAIN kept = {}
  <2>1. ASSUME NEW p \in live PROVE FALSE
    <3>1. p \in PageNum /\ p < 0
      BY <1>0 DEF OpenEmpty, DurableInv, SessionOK, LiveReachable, TypeOK, ClientTypeOK
    <3> QED
      BY <3>1, SMT DEF PageNum
  <2> QED
    BY <2>1 DEF DurableInv, KeptOK
<1>2. DOMAIN kept' = {}
  <2>1. ~FlushAllDone
    BY DEF OpenEmpty, DurableInv, SessionOK, FlushAllDone, NoCall
  <2> QED
    BY <1>1, <2>1 DEF Keep
<1> DEFINE img == InitPage(0, [ZeroImage EXCEPT !.magic = TRUE, !.count = 1,
                                                !.free = INVALID_PAGE])
<1>3. GoodHeader(img)
  BY SMT DEF InitPage, ZeroImage, GoodHeader
<1>4. /\ Cached(0)' /\ FrameOf(0)'.data = img /\ FrameOf(0)'.dirty = TRUE
      /\ \A p \in PageNum \ {0} : ~Cached(p)'
  BY <1>0 DEF OpenEmpty, LoadPageZero, Cached, FrameOf
<1>5. /\ status' = "open" /\ good' = TRUE /\ call' = call /\ guards' = guards
      /\ freespaceHead' = INVALID_PAGE /\ highestAllocated' = 0
      /\ file'.pageCount = 0 /\ mode' = m
      /\ live' \subseteq {0} /\ (m = ReadOnly => live' = {})
  BY DEF OpenEmpty, OpenStream, TypeOK, IOTypeOK, FileType, ReadOnly, ReadWrite, DurableTypeOK
<1>6. SessionOK'
  BY <1>0, <1>5 DEF SessionOK
<1>7. HeaderOK'
  BY <1>3, <1>4, <1>5 DEF HeaderOK, Reachable, DataOf
<1>8. CleanMatchesFile' /\ LiveReachable'
  BY <1>0, <1>4, <1>5, SMT DEF CleanMatchesFile, LiveReachable
<1>9. ReadOnlyOK' /\ FlushLoopOK'
  BY <1>5 DEF ReadOnlyOK, FlushLoopOK, FlushingAll, OpenEmpty, DurableInv, SessionOK, NoCall
<1>10. GuardsLive'
  <2>1. \A g \in GuardId : guards[g] = NoGuard
    BY <1>1 DEF DurableInv, GuardsLive
  <2> QED
    BY <1>5, <2>1 DEF GuardsLive
<1>11. KeptOK'
  BY <1>2 DEF KeptOK, SyncedSurvive
<1> QED
  BY <1>6, <1>7, <1>8, <1>9, <1>10, <1>11 DEF DurableInv

\* open() of a file with pages finds them all.
LEMMA OpenExistingInv ==
  ASSUME DurableTypeOK, DurableInv, Keep, NEW m \in OpenModes, OpenExisting(m)
  PROVE  DurableInv'
<1>0. 0 \in PageNum /\ 0 \in FrameIndex /\ 0 # NoFrame /\ TypeOK
  BY SMT DEF PageNum, FrameIndex, NoFrame, DurableTypeOK
<1>1. /\ status # "open" /\ call = NoCall /\ \A p \in PageNum : ~Cached(p)
      /\ GoodHeader(file.image[0]) /\ 0 < file.pageCount
  BY SMT DEF OpenExisting, DurableInv, SessionOK, HeaderOK, TypeOK, IOTypeOK, FileType
<1>2. /\ file'.image = file.image /\ file'.pageCount = file.pageCount
      /\ status' = "open" /\ good' = TRUE /\ call' = call /\ guards' = guards
      /\ freespaceHead' = INVALID_PAGE
      /\ live' = live \cup {0}
  BY <1>1 DEF OpenExisting, OpenStream, TypeOK, IOTypeOK, FileType, GoodHeader
<1>3. /\ Cached(0)' /\ FrameOf(0)'.data = file.image[0]
      /\ \A p \in PageNum \ {0} : ~Cached(p)'
  BY <1>0 DEF OpenExisting, LoadPageZero, Cached, FrameOf
<1>4. /\ highestAllocated' = file.image[0].count - 1
      /\ highestAllocated' \in PageNum
  <2>1. file.image[0].count \in 0 .. MaxPage + 1 /\ file.image[0].count > 0
    BY <1>0, <1>1, ImageType DEF GoodHeader, PageImage
  <2>2. highestAllocated' = file.image[0].count - 1
    BY <2>1, SMT DEF OpenExisting
  <2> QED
    BY <2>1, <2>2, SMT DEF PageNum
<1>5. \A p \in PageNum : ContentsOf(p)' = Visible(file.image[p])
  BY <1>2, <1>3 DEF ContentsOf
<1>6. \A p \in live' : p \in PageNum /\ p < file.pageCount /\ p < file.image[0].count
  <2>1. 0 < file.image[0].count
    BY <1>0, <1>1, ImageType, SMT DEF GoodHeader, PageImage
  <2> QED
    BY <1>0, <1>1, <1>2, <2>1 DEF DurableInv, LiveReachable, TypeOK, ClientTypeOK
<1>7. SessionOK'
  BY <1>2, <1>4 DEF SessionOK
<1>8. HeaderOK'
  BY <1>1, <1>2, <1>3 DEF HeaderOK, Reachable, DataOf
<1>9. CleanMatchesFile'
  BY <1>1, <1>2, <1>3 DEF CleanMatchesFile
<1>10. LiveReachable'
  <2>1. \A p \in live' : p <= highestAllocated'
    BY <1>0, <1>4, <1>6, ImageType, SMT DEF PageNum, PageImage
  <2> QED
    BY <1>2, <1>6, <2>1 DEF LiveReachable
<1>11. ReadOnlyOK' /\ FlushLoopOK'
  BY <1>1, <1>2, <1>5, <1>6 DEF ReadOnlyOK, OnFile, FlushLoopOK, FlushingAll, NoCall
<1>12. GuardsLive'
  BY <1>2 DEF DurableInv, GuardsLive
<1>13. KeptOK'
  <2>1. /\ DOMAIN kept \subseteq live
        /\ \A p \in DOMAIN kept : /\ p < file.pageCount
                                  /\ p < file.image[0].count
                                  /\ Visible(file.image[p]) \in kept[p]
    BY DEF DurableInv, KeptOK, SyncedSurvive
  <2>2. ~FlushAllDone /\ DOMAIN kept \cap live' = DOMAIN kept
    BY <1>1, <1>2, <2>1 DEF FlushAllDone, NoCall
  <2>3. kept' = [p \in DOMAIN kept |-> kept[p] \cup {ContentsOf(p)'}]
    BY <2>2 DEF Keep
  <2> QED
    BY <1>2, <1>3, <2>1, <2>3 DEF KeptOK, SyncedSurvive, DataOf
<1> QED
  BY <1>7, <1>8, <1>9, <1>10, <1>11, <1>12, <1>13 DEF DurableInv

-----------------------------------------------------------------------------
(* The invariant is inductive. *)

\* A page that can be had is read: fetchPage does not fail half-way.
LEMMA NoMisread ==
  ASSUME TypeOK, PoolConsistent, DurableInv, NEW p \in PageNum, Reachable(p),
         FetchMisreads(p)
  PROVE  FALSE
<1>1. PICK f \in FrameIndex :
        /\ TakeFrame(p, f)
        /\ ~CanReadNext(p)
        /\ frames' = [frames EXCEPT ![f].pageNum = p, ![f].dirty = FALSE]
  BY DEF FetchMisreads
<1>2. ~Cached(p) /\ p < file.pageCount
  BY DEF FetchMisreads, Reachable
<1>3. \A k \in FrameIndex \ {f} : frames'[k] = frames[k]
  BY <1>1 DEF TypeOK
<1>4. StreamKept /\ SameOnFile(p)
  BY <1>1, <1>2, <1>3, TakeFrameEffect DEF DurableInv
<1>5. CanReadNext(p)
  BY <1>2, <1>4 DEF StreamKept, SameOnFile, CanReadNext, DurableInv, SessionOK
<1> QED
  BY <1>1, <1>5

LEMMA NoLoop ==
  ASSUME call' = NoCall PROVE FlushLoopOK' /\ ~FlushingAll'
BY DEF FlushLoopOK, FlushingAll, NoCall

LEMMA OpenNotDone ==
  ASSUME call = NoCall PROVE ~FlushAllDone
BY DEF FlushAllDone, NoCall

\* open() of a file that is no database.
LEMMA OpenRejectedInv ==
  ASSUME DurableTypeOK, DurableInv, Keep, NEW m \in OpenModes, OpenRejected(m)
  PROVE  DurableInv'
<1>0. 0 \in PageNum
  BY SMT DEF PageNum
<1>1. /\ status # "open" /\ ~file.image[0].magic /\ file.pageCount > 0
      /\ UNCHANGED <<mode, good, status, poolVars, metaVars, guards, call, live>>
  BY DEF OpenRejected
<1>2. live = {} /\ DOMAIN kept = {}
  <2>1. file.pageCount \in Int
    BY DEF DurableTypeOK, TypeOK, IOTypeOK, FileType
  <2>2. live = {}
    BY <1>1, <2>1 DEF DurableInv, HeaderOK, GoodHeader
  <2> QED
    BY <2>2 DEF DurableInv, KeptOK
<1>3. ~file'.image[0].magic
  <2>1. CASE UNCHANGED file
    BY <1>1, <2>1
  <2>2. CASE \E n \in 0 .. MaxPage + 1, q \in PageLink :
               file' = [file EXCEPT !.image[0].count = n, !.image[0].free = q]
    BY <1>0, <1>1, <2>2, ImageType DEF DurableTypeOK, TypeOK, IOTypeOK, FileType, PageImage
  <2> QED
    BY <2>1, <2>2 DEF OpenRejected
<1>4. DOMAIN kept' = {}
  <2>1. ~FlushAllDone
    BY <1>1 DEF DurableInv, SessionOK, FlushAllDone, NoCall
  <2> QED
    BY <1>2, <2>1 DEF Keep
<1>5. SessionOK' /\ GuardsLive' /\ HeaderOK'
  BY <1>1, <1>2, <1>3 DEF SessionOK, DurableInv, GuardsLive, HeaderOK, Cached, poolVars, metaVars
<1>6. CleanMatchesFile' /\ LiveReachable' /\ ReadOnlyOK' /\ FlushLoopOK' /\ KeptOK'
  BY <1>1, <1>2, <1>4 DEF DurableInv, SessionOK, CleanMatchesFile, LiveReachable, ReadOnlyOK,
     FlushLoopOK, FlushingAll, NoCall, KeptOK, SyncedSurvive, Cached, poolVars
<1> QED
  BY <1>5, <1>6 DEF DurableInv

LEMMA OpenPagerInv ==
  ASSUME DurableTypeOK, DurableInv, Keep, OpenPager
  PROVE  DurableInv'
BY OpenEmptyInv, OpenExistingInv, OpenRejectedInv DEF OpenPager

LEMMA NewPageFreshInv ==
  ASSUME TypeOK, TypeOK', PoolConsistent, DurableInv, Disciplined, Keep,
         NEW g \in GuardId, NewPageFresh(g)
  PROVE  DurableInv'
<1>0. 0 \in PageNum /\ highestAllocated \in PageNum /\ live \subseteq PageNum
  BY SMT DEF PageNum, DurableInv, SessionOK, TypeOK, ClientTypeOK
<1>1. /\ status = "open" /\ status' = "open" /\ call' = NoCall /\ call = NoCall
      /\ freespaceHead' = freespaceHead
      /\ live' = live \cup {highestAllocated'}
      /\ mode = ReadWrite
  BY DEF NewPageFresh, Open, MayModify, Disciplined
<1>2. PICK p \in PageNum : p = highestAllocated'
  BY <1>0, NewPageFreshStep DEF DurableInv
<1>3. /\ p = highestAllocated + 1 /\ p # 0
      /\ InSession({p})
      /\ Cached(p)'
  BY <1>0, <1>2, NewPageFreshStep DEF DurableInv
<1>4. DataOf(0)' = DataOf(0)
  BY <1>0, <1>3 DEF InSession
<1>5. GoodHeader(DataOf(0)') /\ \A q \in DOMAIN kept : q < DataOf(0)'.count
  BY <1>1, <1>4 DEF DurableInv, HeaderOK, KeptOK
<1>6. \A q \in live' \ live : Reachable(q)' /\ q <= highestAllocated'
  BY <1>1, <1>2, <1>3, SMT DEF Reachable, PageNum
<1>7. highestAllocated <= highestAllocated'
  BY <1>0, <1>2, <1>3, SMT DEF PageNum
<1>8. GuardsLive'
  <2>1. PICK f \in FrameIndex, d \in BOOLEAN :
          guards' = [guards EXCEPT ![g] = [page |-> highestAllocated', frame |-> f, dirty |-> d]]
    BY DEF NewPageFresh, Hold
  <2> QED
    BY <1>1, <2>1 DEF GuardsLive, DurableInv, TypeOK, ClientTypeOK
<1>9. live \subseteq live' /\ live' \subseteq PageNum
  BY <1>0, <1>1, <1>2
<1>10. ~FlushAllDone /\ FlushLoopOK' /\ mode # ReadOnly
  BY <1>1, NoLoop, OpenNotDone DEF ReadOnly, ReadWrite
<1> QED
  BY <1>1, <1>2, <1>3, <1>5, <1>6, <1>7, <1>8, <1>9, <1>10, InSessionInv

LEMMA PageActionInv ==
  ASSUME DurableTypeOK, TypeOK', PoolConsistent, DurableInv, Disciplined, PageAction,
         Dies => GoOn, ~Dies => Keep
  PROVE  DurableInv'
<1>0. TypeOK /\ live \subseteq PageNum
  BY DEF DurableTypeOK, TypeOK, ClientTypeOK
<1>1. ASSUME NEW g \in GuardId, NEW p \in PageNum, FetchPage(g, p) PROVE DurableInv'
  <2>1. /\ status = "open" /\ status' = "open" /\ call' = NoCall /\ call = NoCall
        /\ UNCHANGED <<freespaceHead, highestAllocated, live>>
        /\ p \in live
    BY <1>1 DEF FetchPage, Open, Owned, Disciplined, metaVars
  <2>2. InSession({})
    BY <1>0, <1>1, FetchPageStep DEF DurableInv
  <2>3. GuardsLive'
    <3>1. PICK f \in FrameIndex :
            guards' = [guards EXCEPT ![g] = [page |-> p, frame |-> f, dirty |-> FALSE]]
      BY <1>1 DEF FetchPage, Hold
    <3> QED
      BY <1>0, <2>1, <3>1 DEF GuardsLive, DurableInv, TypeOK, ClientTypeOK
  <2> QED
    BY <1>0, <2>1, <2>2, <2>3, NoLoop, OpenNotDone, QuietInv DEF Dies
<1>2. ASSUME NEW p \in PageNum, FetchPageFails(p) PROVE FALSE
  <2>1. p \in live /\ FetchMisreads(p)
    BY <1>2 DEF FetchPageFails, Owned, Disciplined
  <2> QED
    BY <1>0, <2>1, NoMisread DEF DurableInv, LiveReachable, Reachable
<1>3. ASSUME NEW p \in PageNum, DeletePage(p) PROVE FALSE
  BY <1>3 DEF DeletePage, Disciplined
<1>4. ASSUME NEW p \in PageNum, DeletePageAborts(p) PROVE DurableInv'
  <2>1. Lose("aborted") /\ status = "open" /\ status' = "aborted"
    BY <1>4 DEF DeletePageAborts, Open, Lose, EndSession
  <2> QED
    BY <2>1, DiesInv DEF Dies
<1>5. ASSUME NEW g \in GuardId, NewPageFresh(g) PROVE DurableInv'
  <2>1. ~Dies
    BY <1>5 DEF NewPageFresh, Open, Dies
  <2> QED
    BY <1>0, <1>5, <2>1, NewPageFreshInv
<1>6. ASSUME NEW g \in GuardId, NewPageReused(g) PROVE FALSE
  BY <1>6 DEF NewPageReused, DurableInv, SessionOK
<1>7. CASE NewPageFreshFails
  <2>1. /\ status = "open" /\ status' = "open" /\ call' = NoCall /\ call = NoCall
        /\ UNCHANGED <<ioVars, poolVars, freespaceHead, guards, live>>
        /\ mode = ReadWrite
    BY <1>7 DEF NewPageFreshFails, Open, MayModify, Disciplined
  <2>2. highestAllocated' \in PageNum /\ highestAllocated <= highestAllocated'
    BY <1>7, SMT DEF NewPageFreshFails, DurableInv, SessionOK, PageNum
  <2>3. InSession({})
    BY <2>1, UnchangedStep DEF DurableInv
  <2>4. DataOf(0)' = DataOf(0)
    BY <2>1 DEF DataOf, Cached, FrameOf, ioVars, poolVars
  <2>5. GoodHeader(DataOf(0)') /\ \A q \in DOMAIN kept : q < DataOf(0)'.count
    BY <2>1, <2>4 DEF DurableInv, HeaderOK, KeptOK
  <2>6. ~FlushAllDone /\ FlushLoopOK' /\ mode # ReadOnly /\ GuardsLive'
    BY <2>1, NoLoop, OpenNotDone DEF ReadOnly, ReadWrite, DurableInv, GuardsLive
  <2> QED
    BY <1>0, <2>1, <2>2, <2>3, <2>5, <2>6, InSessionInv DEF Dies
<1>8. CASE NewPageReusedFails
  BY <1>8 DEF NewPageReusedFails, DurableInv, SessionOK
<1> QED
  BY <1>1, <1>2, <1>3, <1>4, <1>5, <1>6, <1>7, <1>8 DEF PageAction

\* A write through a guard.
LEMMA WriteInv ==
  ASSUME TypeOK, TypeOK', DurableInv, Keep,
         status = "open", status' = "open", call = NoCall, call' = NoCall, mode = ReadWrite,
         UNCHANGED <<freespaceHead, highestAllocated, live>>, GuardsLive',
         NEW p \in PageNum, InSession({p}), SameHeader(DataOf(p)', DataOf(p))
  PROVE  DurableInv'
<1>0. 0 \in PageNum /\ live \subseteq PageNum
  BY SMT DEF PageNum, TypeOK, ClientTypeOK
<1>1. SameHeader(DataOf(0)', DataOf(0))
  BY <1>0 DEF InSession, SameHeader
<1>2. GoodHeader(DataOf(0)') /\ \A q \in DOMAIN kept : q < DataOf(0)'.count
  BY <1>1 DEF SameHeader, GoodHeader, DurableInv, HeaderOK, KeptOK
<1>3. highestAllocated' \in PageNum /\ highestAllocated <= highestAllocated'
  BY SMT DEF DurableInv, SessionOK, PageNum
<1>4. ~FlushAllDone /\ FlushLoopOK' /\ mode # ReadOnly
  BY NoLoop, OpenNotDone DEF ReadOnly, ReadWrite
<1> QED
  BY <1>0, <1>2, <1>3, <1>4, InSessionInv

LEMMA GuardActionInv ==
  ASSUME TypeOK, TypeOK', PoolConsistent, PinsMatchGuards, DurableInv, Disciplined,
         GuardAction, Keep
  PROVE  DurableInv'
<1>1. ASSUME NEW g \in GuardId, NEW v \in Bodies, WriteSpan(g, v) PROVE DurableInv'
  <2>1. /\ status = "open" /\ status' = "open" /\ call = NoCall /\ call' = NoCall
        /\ UNCHANGED <<freespaceHead, highestAllocated, live>>
    BY <1>1 DEF WriteSpan, Open, metaVars
  <2>2. guards[g] # NoGuard /\ guards' = [guards EXCEPT ![g].dirty = TRUE]
    BY <1>1 DEF WriteSpan
  <2>3. \A h \in GuardId :
          guards'[h].page = guards[h].page /\ (guards'[h] # NoGuard => guards[h] # NoGuard)
    BY <2>2 DEF TypeOK, ClientTypeOK, Guard
  <2>4. GuardsLive'
    BY <2>1, <2>3 DEF GuardsLive, DurableInv
  <2>5. PICK p : p = guards[g].page
    OBVIOUS
  <2>6. p \in PageNum /\ InSession({p}) /\ SameHeader(DataOf(p)', DataOf(p)) /\ mode = ReadWrite
    BY <1>1, <2>5, WriteSpanStep DEF DurableInv
  <2> QED
    BY <2>1, <2>4, <2>6, WriteInv
<1>2. ASSUME NEW g \in GuardId, NEW n \in Links, SetHeader(g, n) PROVE DurableInv'
  <2>1. /\ status = "open" /\ status' = "open" /\ call = NoCall /\ call' = NoCall
        /\ UNCHANGED <<freespaceHead, highestAllocated, live, guards>>
    BY <1>2 DEF SetHeader, Open, metaVars
  <2>2. GuardsLive'
    BY <2>1 DEF GuardsLive, DurableInv
  <2>3. PICK p : p = guards[g].page
    OBVIOUS
  <2>4. p \in PageNum /\ InSession({p}) /\ SameHeader(DataOf(p)', DataOf(p)) /\ mode = ReadWrite
    BY <1>2, <2>3, SetHeaderStep DEF DurableInv
  <2> QED
    BY <2>1, <2>2, <2>4, WriteInv
<1>3. ASSUME NEW g \in GuardId, ResetGuard(g) PROVE DurableInv'
  <2>1. /\ status = "open" /\ status' = "open" /\ call = NoCall /\ call' = NoCall
        /\ UNCHANGED <<ioVars, pageMap, freespaceHead, highestAllocated, live>>
        /\ guards' = [guards EXCEPT ![g] = NoGuard]
        /\ frames' = Unpin(guards[g].page)
    BY <1>3 DEF ResetGuard, Open, metaVars
  <2>2. GuardsLive'
    BY <2>1 DEF GuardsLive, DurableInv, TypeOK, ClientTypeOK
  <2>3. InSession({})
    BY <2>1, UnpinStep DEF DurableInv
  <2> QED
    BY <2>1, <2>2, <2>3, NoLoop, OpenNotDone, QuietInv
<1>4. ASSUME NEW g \in GuardId, NEW h \in GuardId, MoveGuard(g, h) PROVE DurableInv'
  <2>1. /\ status = "open" /\ status' = "open" /\ call = NoCall /\ call' = NoCall
        /\ UNCHANGED <<ioVars, pageMap, freespaceHead, highestAllocated, live>>
        /\ guards' = MoveTo(g, h)
        /\ frames' = frames \/ frames' = Unpin(guards[h].page)
    BY <1>4 DEF MoveGuard, Open, metaVars
  <2>2. GuardsLive'
    BY <2>1 DEF GuardsLive, DurableInv, TypeOK, ClientTypeOK, MoveTo
  <2>3. InSession({})
    BY <2>1, UnpinStep DEF DurableInv
  <2> QED
    BY <2>1, <2>2, <2>3, NoLoop, OpenNotDone, QuietInv
<1> QED
  BY <1>1, <1>2, <1>3, <1>4 DEF GuardAction

LEMMA FlushAllInv ==
  ASSUME TypeOK, TypeOK', PoolConsistent, DurableInv, Keep,
         NEW op \in {"flushAll", "close", "destroy"}, FlushAll(op)
  PROVE  DurableInv'
<1>0. /\ 0 \in PageNum /\ live \subseteq PageNum
      /\ highestAllocated \in PageNum /\ highestAllocated <= highestAllocated
      /\ \A p \in PageNum : p <= highestAllocated => p < highestAllocated + 1
      /\ highestAllocated + 1 > 0
  BY SMT DEF PageNum, TypeOK, ClientTypeOK, DurableInv, SessionOK
<1>1. /\ status = "open" /\ status' = "open" /\ call = NoCall
      /\ call' = [op |-> op, at |-> 0, last |-> highestAllocated]
      /\ UNCHANGED <<freespaceHead, highestAllocated, live, guards>>
  BY DEF FlushAll, Open, metaVars
<1>2. /\ InSession({0})
      /\ Cached(0)'
      /\ DataOf(0)' = [DataOf(0) EXCEPT !.count = highestAllocated + 1,
                                        !.free = freespaceHead]
  BY <1>0, FlushAllStep DEF DurableInv
<1>3. /\ DataOf(0)'.count = highestAllocated + 1
      /\ DataOf(0)'.magic = DataOf(0).magic
      /\ DataOf(0)'.free = freespaceHead
      /\ Visible(DataOf(0)') = Visible(DataOf(0))
  BY <1>0, <1>2, DataType DEF PageImage, Visible
<1>4. GoodHeader(DataOf(0)')
  BY <1>0, <1>1, <1>3 DEF DurableInv, HeaderOK, SessionOK, GoodHeader
<1>5. \A q \in DOMAIN kept : q < DataOf(0)'.count
  <2>1. \A q \in live : q < highestAllocated + 1
    BY <1>0, <1>1 DEF DurableInv, LiveReachable
  <2> QED
    BY <1>3, <2>1 DEF DurableInv, KeptOK
<1>6. \A p \in live : ContentsOf(p)' = ContentsOf(p)
  <2>1. \A p \in PageNum : Visible(DataOf(p)') = Visible(DataOf(p))
    BY <1>2, <1>3 DEF InSession
  <2>2. \A p : ContentsOf(p)' = Visible(DataOf(p)')
    BY DEF ContentsOf, DataOf
  <2> QED
    BY <1>0, <2>1, <2>2, ContentsAreVisible
<1>7. FlushLoopOK'
  <2>1. \A p \in PageNum : ~(p < call'.at)
    BY <1>1, SMT DEF PageNum
  <2>2. op # "flushAll" => Unpinned'
    <3> SUFFICES ASSUME op # "flushAll", NEW k \in FrameIndex PROVE frames'[k].pinCount = 0
      BY DEF Unpinned
    <3>1. \A j \in FrameIndex : frames[j].pinCount = 0
      BY DEF FlushAll, MayStart, Unpinned
    <3>2. PICK f \in FrameIndex : Fetch(0, f) /\ PutFileHeader(f)
      BY DEF FlushAll
    <3>3. Fetched(0, f) \in Frame /\ Fetched(0, f).pinCount = 0
      BY <1>0, <3>1, <3>2, FetchType DEF Fetched
    <3> QED
      BY <3>1, <3>2, <3>3 DEF PutFileHeader, TypeOK, Frame
  <2> QED
    BY <1>1, <1>2, <1>3, <2>1, <2>2 DEF FlushLoopOK
<1>8. GuardsLive' /\ ~FlushAllDone
  BY <1>1, OpenNotDone DEF DurableInv, GuardsLive
<1>9. /\ highestAllocated' \in PageNum /\ highestAllocated <= highestAllocated'
      /\ live \subseteq live' /\ live' \subseteq PageNum /\ live' \ live = {}
      /\ mode = ReadOnly =>
           live' = live /\ \A p \in live : ContentsOf(p)' = ContentsOf(p)
  BY <1>0, <1>1, <1>6
<1> QED
  BY <1>1, <1>2, <1>4, <1>5, <1>7, <1>8, <1>9, InSessionInv

LEMMA FlushOneInv ==
  ASSUME TypeOK, TypeOK', PoolConsistent, DurableInv, Keep, FlushOne
  PROVE  DurableInv'
<1>1. /\ status = "open" /\ status' = "open"
      /\ call' = [call EXCEPT !.at = @ + 1]
      /\ UNCHANGED <<freespaceHead, highestAllocated, live, guards>>
      /\ call.at <= call.last
  BY DEF FlushOne, Flushing, NextPage
<1>2. call.at \in Int /\ call.last \in Int /\ 0 \in PageNum
  BY SMT DEF TypeOK, ClientTypeOK, Call, PageLink, PageNum
<1>3. ~FlushAllDone
  BY <1>1, <1>2, SMT DEF FlushAllDone
<1>4. /\ InSession({})
      /\ pageMap' = pageMap
      /\ \A q \in PageNum : Cached(q) =>
           /\ FrameOf(q)'.dirty => FrameOf(q).dirty
           /\ q = call.at => ~FrameOf(q)'.dirty
      /\ \A k \in FrameIndex : frames'[k].pinCount = frames[k].pinCount
  BY FlushOneStep DEF DurableInv
<1>5. call'.op = call.op /\ call'.at = call.at + 1 /\ call'.last = call.last
  BY <1>1 DEF TypeOK, ClientTypeOK, Call
<1>6. FlushLoopOK'
  <2> SUFFICES ASSUME FlushingAll
               PROVE  /\ call.last = highestAllocated
                      /\ Cached(0)' /\ DataOf(0)'.count = highestAllocated + 1
                      /\ \A p \in PageNum : Cached(p)' /\ p < call.at + 1 => ~FrameOf(p)'.dirty
                      /\ call.op # "flushAll" => Unpinned'
    BY <1>1, <1>5 DEF FlushLoopOK, FlushingAll
  <2>1. /\ call.last = highestAllocated
        /\ Cached(0) /\ DataOf(0).count = highestAllocated + 1
        /\ \A p \in PageNum : Cached(p) /\ p < call.at => ~FrameOf(p).dirty
        /\ call.op # "flushAll" => Unpinned
    BY DEF DurableInv, FlushLoopOK
  <2>2. \A p \in PageNum : Cached(p)' <=> Cached(p)
    BY <1>4 DEF Cached
  <2>3. DataOf(0)' = DataOf(0)
    BY <1>2, <1>4 DEF InSession
  <2>4. ASSUME NEW p \in PageNum, Cached(p), p < call.at + 1 PROVE ~FrameOf(p)'.dirty
    <3>1. p < call.at \/ p = call.at
      BY <1>2, <2>4, SMT DEF PageNum
    <3> QED
      BY <1>4, <2>1, <2>4, <3>1
  <2>5. call.op # "flushAll" => Unpinned'
    BY <1>4, <2>1 DEF Unpinned
  <2> QED
    BY <1>2, <2>1, <2>2, <2>3, <2>4, <2>5
<1>7. GuardsLive'
  BY <1>1 DEF DurableInv, GuardsLive
<1> QED
  BY <1>1, <1>3, <1>4, <1>6, <1>7, QuietInv

LEMMA FlushReturnsInv ==
  ASSUME DurableTypeOK, TypeOK', PoolConsistent, DurableInv, Keep, FlushReturns
  PROVE  DurableInv'
<1>0. TypeOK /\ live \subseteq PageNum /\ DOMAIN kept \subseteq live
  BY DEF DurableTypeOK, TypeOK, ClientTypeOK, DurableInv, KeptOK
<1>1. CASE call.op \in {"close", "destroy"}
  <2>1. EndSession("closed") /\ UNCHANGED <<file, live>> /\ FlushAllDone /\ status = "open"
    BY <1>1 DEF FlushReturns, FlushAllDone
  <2>2. \A p \in live : p < file.pageCount /\ p < file.image[0].count
    BY <1>0, <2>1, AllFlushed DEF OnFile
  <2>3. kept' = [p \in live |-> {ContentsOf(p)'}]
    BY <2>1 DEF Keep
  <2>4. \A p \in PageNum : ContentsOf(p)' = Visible(file.image[p])
    BY <2>1 DEF EndSession, EmptyPool, ContentsOf, Cached
  <2>5. DOMAIN kept' \subseteq live' /\ \A p \in DOMAIN kept' : Visible(file.image[p]) \in kept'[p]
    BY <1>0, <2>1, <2>3, <2>4
  <2> QED
    BY <1>0, <2>1, <2>2, <2>5, EndSessionInv
<1>2. CASE call.op \notin {"close", "destroy"}
  <2>1. /\ status = "open" /\ status' = "open" /\ call' = NoCall
        /\ UNCHANGED <<ioVars, poolVars, metaVars, guards, live>>
    BY <1>2 DEF FlushReturns
  <2>2. FlushLoopOK' /\ GuardsLive'
    BY <2>1, NoLoop DEF DurableInv, GuardsLive
  <2>3. \A p : /\ Cached(p)' <=> Cached(p)
               /\ FrameOf(p)' = FrameOf(p)
               /\ ContentsOf(p)' = ContentsOf(p)
               /\ DataOf(p)' = DataOf(p)
               /\ Reachable(p)' <=> Reachable(p)
    BY <2>1 DEF Cached, FrameOf, ContentsOf, DataOf, Reachable, ioVars, poolVars
  <2>4. CASE FlushAllDone
    <3>1. kept' = [p \in live |-> {ContentsOf(p)}]
      BY <2>1, <2>3, <2>4 DEF Keep
    <3>2. \A p \in live : OnFile(p) /\ p < file.image[0].count
      BY <1>0, <2>1, <2>4, AllFlushed
    <3>3. DataOf(0).count = highestAllocated + 1
      BY <2>4 DEF FlushAllDone, FlushingAll, DurableInv, FlushLoopOK
    <3>4. \A p \in live : p < highestAllocated + 1
      BY <1>0, <2>1, SMT DEF DurableInv, LiveReachable, SessionOK, PageNum
    <3>5. KeptOK'
      BY <2>1, <2>3, <3>1, <3>2, <3>3, <3>4 DEF KeptOK, SyncedSurvive, OnFile, ioVars
    <3>6. SessionOK' /\ HeaderOK' /\ CleanMatchesFile' /\ LiveReachable' /\ ReadOnlyOK'
      BY <2>1, <2>3, <3>2 DEF DurableInv, SessionOK, HeaderOK, CleanMatchesFile, LiveReachable,
                        ReadOnlyOK, OnFile, ioVars, metaVars
    <3> QED
      BY <2>2, <3>5, <3>6 DEF DurableInv
  <2>5. CASE ~FlushAllDone
    <3>1. InSession({})
      BY <2>1, UnchangedStep DEF DurableInv
    <3> QED
      BY <1>0, <2>1, <2>2, <2>5, <3>1, QuietInv DEF metaVars
  <2> QED
    BY <2>4, <2>5
<1> QED
  BY <1>1, <1>2

LEMMA CloseReadOnlyInv ==
  ASSUME DurableTypeOK, DurableInv, Keep, CloseReadOnly
  PROVE  DurableInv'
<1>0. TypeOK /\ live \subseteq PageNum
  BY DEF DurableTypeOK, TypeOK, ClientTypeOK
<1>1. /\ EndSession("closed") /\ UNCHANGED <<file, live>>
      /\ status = "open" /\ call = NoCall /\ mode = ReadOnly
  BY DEF CloseReadOnly, Open
<1>2. \A p \in live : p < file.pageCount /\ p < file.image[0].count
  BY <1>1 DEF DurableInv, ReadOnlyOK, OnFile
<1>3. DOMAIN kept \subseteq live /\ \A p \in DOMAIN kept : Visible(file.image[p]) \in kept[p]
  BY DEF DurableInv, KeptOK, SyncedSurvive
<1>4. kept' = [p \in DOMAIN kept \cap live |-> kept[p] \cup {ContentsOf(p)'}]
  BY <1>1, OpenNotDone DEF Keep
<1>5. DOMAIN kept' \subseteq live' /\ \A p \in DOMAIN kept' : Visible(file.image[p]) \in kept'[p]
  BY <1>1, <1>3, <1>4
<1> QED
  BY <1>0, <1>1, <1>2, <1>5, EndSessionInv

LEMMA FlushActionInv ==
  ASSUME DurableTypeOK, TypeOK', PoolConsistent, DurableInv, FlushAction,
         Dies => GoOn, ~Dies => Keep
  PROVE  DurableInv'
<1>0. TypeOK /\ 0 \in PageNum
  BY SMT DEF DurableTypeOK, PageNum
<1>1. ASSUME NEW s \in {"lost", "aborted"}, Lose(s), status = "open" PROVE DurableInv'
  <2>1. Dies
    BY <1>1 DEF Dies, Lose, EndSession
  <2> QED
    BY <1>1, <2>1, DiesInv
<1>2. ASSUME NEW p \in PageNum, FlushPage(p) PROVE DurableInv'
  <2>1. /\ status = "open" /\ status' = "open" /\ call = NoCall
        /\ UNCHANGED <<ioVars, poolVars, metaVars, guards, live>>
        /\ call'.op = "flushPage"
    BY <1>2 DEF FlushPage, Open
  <2>2. FlushLoopOK' /\ GuardsLive'
    BY <2>1 DEF FlushLoopOK, FlushingAll, DurableInv, GuardsLive
  <2>3. InSession({})
    BY <2>1, UnchangedStep DEF DurableInv
  <2> QED
    BY <1>0, <2>1, <2>2, <2>3, OpenNotDone, QuietInv DEF metaVars, Dies
<1>3. ASSUME NEW op \in {"flushAll", "close", "destroy"}, FlushAll(op) PROVE DurableInv'
  <2>1. ~Dies
    BY <1>3 DEF FlushAll, Open, Dies
  <2> QED
    BY <1>0, <1>3, <2>1, FlushAllInv
<1>4. ASSUME NEW op \in {"flushAll", "close", "destroy"}, FlushAllFails(op) PROVE DurableInv'
  <2>1. status = "open" /\ Reachable(0)
    BY <1>4 DEF FlushAllFails, Open, DurableInv, HeaderOK
  <2>2. ~FetchMisreads(0)
    BY <1>0, <2>1, NoMisread
  <2> QED
    BY <1>1, <1>4, <2>1, <2>2 DEF FlushAllFails
<1>5. CASE FlushOne
  <2>1. ~Dies
    BY <1>5 DEF FlushOne, Flushing, Dies
  <2> QED
    BY <1>0, <1>5, <2>1, FlushOneInv
<1>6. CASE FlushFails
  <2>1. status = "open" /\ call.at <= call.last
    BY <1>6 DEF FlushFails, Flushing
  <2>2. CASE call.op = "destroy"
    BY <1>1, <1>6, <2>1, <2>2 DEF FlushFails
  <2>3. CASE call.op # "destroy"
    <3>1. /\ status' = "open" /\ call' = NoCall
          /\ UNCHANGED <<ioVars, poolVars, freespaceHead, highestAllocated, guards, live>>
      BY <1>6, <2>1, <2>3 DEF FlushFails
    <3>2. ~FlushAllDone
      BY <2>1, SMT DEF FlushAllDone, DurableTypeOK, TypeOK, ClientTypeOK, Call, PageLink, PageNum
    <3>3. FlushLoopOK' /\ GuardsLive'
      BY <3>1, NoLoop DEF DurableInv, GuardsLive
    <3>4. InSession({})
      BY <3>1, UnchangedStep DEF DurableInv
    <3> QED
      BY <1>0, <2>1, <3>1, <3>2, <3>3, <3>4, QuietInv DEF Dies
  <2> QED
    BY <2>2, <2>3
<1>7. CASE FlushAborts
  BY <1>1, <1>7 DEF FlushAborts, Flushing
<1>8. CASE FlushReturns
  <2>1. ~Dies
    BY <1>8 DEF FlushReturns, EndSession, Dies
  <2> QED
    BY <1>8, <2>1, FlushReturnsInv
<1>9. CASE CloseReadOnly
  <2>1. ~Dies
    BY <1>9 DEF CloseReadOnly, EndSession, Dies
  <2> QED
    BY <1>9, <2>1, CloseReadOnlyInv
<1>10. CASE ClosePinned
  BY <1>1, <1>10 DEF ClosePinned, Open
<1> QED
  BY <1>2, <1>3, <1>4, <1>5, <1>6, <1>7, <1>8, <1>9, <1>10 DEF FlushAction, FlushLoop

LEMMA DurableInvInit == DurableInit => DurableInv
<1> SUFFICES ASSUME DurableInit PROVE DurableInv
  OBVIOUS
<1>1. /\ file \in {NoFile, ForeignFile}
      /\ mode = ReadWrite /\ good = TRUE /\ status = "closed"
      /\ pageMap = [p \in PageNum |-> NoFrame]
      /\ freespaceHead = INVALID_PAGE /\ highestAllocated = 0
      /\ guards = [g \in GuardId |-> NoGuard] /\ call = NoCall /\ live = {}
      /\ DOMAIN kept = {}
  BY DEF DurableInit, Init
<1>2. 0 \in PageNum
  BY SMT DEF PageNum
<1>3. SessionOK /\ CleanMatchesFile
  BY <1>1, <1>2 DEF SessionOK, CleanMatchesFile, Cached
<1>4. HeaderOK
  BY <1>1, <1>2 DEF HeaderOK, NoFile, ForeignFile, ZeroImage
<1>5. LiveReachable /\ ReadOnlyOK /\ FlushLoopOK /\ GuardsLive /\ KeptOK
  BY <1>1 DEF LiveReachable, ReadOnlyOK, FlushLoopOK, FlushingAll, GuardsLive, KeptOK,
              SyncedSurvive, NoCall
<1> QED
  BY <1>3, <1>4, <1>5 DEF DurableInv

LEMMA DurableInvStep ==
  Disciplined /\ DurableTypeOK /\ TypeOK' /\ PoolConsistent /\ PinsMatchGuards /\ DurableInv
    /\ [DurableNext]_durableVars => DurableInv'
<1> SUFFICES ASSUME Disciplined, DurableTypeOK, TypeOK', PoolConsistent, PinsMatchGuards,
                    DurableInv, [DurableNext]_durableVars
             PROVE  DurableInv'
  OBVIOUS
<1>0. TypeOK
  BY DEF DurableTypeOK
<1>1. CASE Next /\ IF Dies THEN GoOn ELSE Keep
  <2>1. (Dies => GoOn) /\ (~Dies => Keep)
    BY <1>1
  <2>2. CASE OpenPager
    <3>1. status # "open"
      BY <2>2 DEF OpenPager, OpenEmpty, OpenExisting, OpenRejected
    <3> QED
      BY <2>1, <2>2, <3>1, OpenPagerInv DEF Dies
  <2>3. CASE PageAction
    BY <2>1, <2>3, PageActionInv
  <2>4. CASE GuardAction
    <3>1. ~Dies
      BY <2>4 DEF GuardAction, WriteSpan, SetHeader, ResetGuard, MoveGuard, Open, Dies
    <3> QED
      BY <1>0, <2>1, <2>4, <3>1, GuardActionInv
  <2>5. CASE FlushAction
    BY <2>1, <2>5, FlushActionInv
  <2>6. CASE Crash
    <3>1. Lose("lost") /\ Dies /\ status = "open"
      BY <2>6 DEF Crash, Lose, EndSession, Dies
    <3> QED
      BY <2>1, <3>1, DiesInv
  <2>7. CASE StreamFails
    BY <2>7 DEF StreamFails, Disciplined
  <2> QED
    BY <1>1, <2>2, <2>3, <2>4, <2>5, <2>6, <2>7 DEF Next
<1>2. CASE UNCHANGED durableVars
  <2>1. \A p : Cached(p)' <=> Cached(p)
    BY <1>2 DEF durableVars, vars, poolVars, Cached
  <2> QED
    BY <1>2 DEF durableVars, vars, ioVars, poolVars, metaVars, DurableInv, SessionOK, HeaderOK,
            CleanMatchesFile, LiveReachable, ReadOnlyOK, OnFile, FlushLoopOK, FlushingAll,
            GuardsLive, KeptOK, SyncedSurvive, Cached, FrameOf, DataOf, ContentsOf, Reachable,
            Unpinned
<1> QED
  BY <1>1, <1>2 DEF DurableNext

\* The pager's own steps are steps of LRUPager.
LEMMA StepsOfPager ==
  /\ DurableInit => Init
  /\ [DurableNext]_durableVars => [Next]_vars
BY DEF DurableInit, DurableNext, durableVars

\* All the invariants together.
LEMMA DurableInvariant ==
  ASSUME Disciplined
  PROVE  DurableSpec => [](DurableTypeOK /\ PoolConsistent /\ PinsMatchGuards /\ DurableInv)
<1>1. DurableInit => DurableInv
  BY DurableInvInit
<1>2. DurableTypeOK /\ TypeOK' /\ PoolConsistent /\ PinsMatchGuards /\ DurableInv
        /\ [DurableNext]_durableVars => DurableInv'
  BY DurableInvStep
<1>3. DurableTypeOK => TypeOK
  BY DEF DurableTypeOK
<1> QED
  BY <1>1, <1>2, <1>3, StepsOfPager, TypeInit, PoolInit, PoolStep, ClosedInit, ClosedStep,
     PinsInit, PinsStep, DurableTypeInit, DurableTypeStep, PTL DEF DurableSpec

\* Eviction forgets nothing: a page that is not marked dirty is on file as it is
\* in the pool, in every session of a disciplined client.
THEOREM CleanIsOnFile ==
  ASSUME Disciplined PROVE DurableSpec => []CleanMatchesFile
<1>1. DurableInv => CleanMatchesFile
  BY DEF DurableInv
<1> QED
  BY <1>1, DurableInvariant, PTL

\* Every page of a disciplined client is in the pool or on file, and is one that
\* fetchPage accepts, whatever sessions died before.
THEOREM LiveIsReachable ==
  ASSUME Disciplined PROVE DurableSpec => []LiveReachable
<1>1. DurableInv => LiveReachable
  BY DEF DurableInv
<1> QED
  BY <1>1, DurableInvariant, PTL

\* At every moment the file holds, of each page that was there when flushAll or
\* close was last done, what it contained then or something written since, and
\* its header counts the page.
THEOREM SyncedPagesSurvive ==
  ASSUME Disciplined PROVE DurableSpec => []SyncedSurvive
<1>1. DurableInv => SyncedSurvive
  BY DEF DurableInv, KeptOK
<1> QED
  BY <1>1, DurableInvariant, PTL

-----------------------------------------------------------------------------
(* The store's variables. *)

\* The contents of the client's pages, and the pages it has guards on.
Store == [p \in live |-> ContentsOf(p)]
Held  == [g \in GuardId |-> guards[g].page]

\* All a client could notice.
SameView ==
  /\ status' = status /\ live' = live
  /\ \A p \in live : ContentsOf(p)' = ContentsOf(p)

\* A step in which nothing is put in safety and no page changes keeps kept.
LEMMA KeptUnchanged ==
  ASSUME DurableTypeOK, DurableInv, Keep, ~FlushAllDone, live \subseteq live',
         \A p \in live : ContentsOf(p)' = ContentsOf(p)
  PROVE  kept' = kept
<1>1. PICK S \in SUBSET live : kept \in [S -> SUBSET Contents]
  BY DEF DurableTypeOK
<1>2. S = DOMAIN kept /\ kept = [p \in S |-> kept[p]]
  BY <1>1
<1>3. \A p \in DOMAIN kept : kept[p] \cup {ContentsOf(p)'} = kept[p]
  BY <1>1, <1>2 DEF DurableInv, KeptOK
<1>4. DOMAIN kept \cap live' = DOMAIN kept
  BY <1>1, <1>2
<1>5. kept' = [p \in DOMAIN kept |-> kept[p] \cup {ContentsOf(p)'}]
  BY <1>4 DEF Keep
<1> QED
  BY <1>2, <1>3, <1>5

\* A step that a client cannot notice.
LEMMA Stutters ==
  ASSUME DurableTypeOK, DurableInv, Keep, ~FlushAllDone, SameView, guards' = guards
  PROVE  UNCHANGED DurableStoreOfPager!durableVars
<1>1. kept' = kept
  BY KeptUnchanged DEF SameView
<1>2. Store' = Store
  BY DEF Store, SameView
<1>3. Held' = Held
  BY DEF Held
<1> QED
  BY <1>1, <1>2, <1>3
     DEF DurableStoreOfPager!durableVars, DurableStoreOfPager!storeVars, Store, Held, SameView

\* What the client does to the store, it does to what is in safety.
LEMMA UseChanges ==
  ASSUME Keep, ~FlushAllDone, DurableStoreOfPager!Use
  PROVE  DurableStoreOfPager!Change
<1>1. kept' = [p \in DOMAIN kept \cap live' |-> kept[p] \cup {ContentsOf(p)'}]
  BY DEF Keep
<1>2. \A p \in live' : Store'[p] = ContentsOf(p)'
  BY DEF Store
<1>3. DOMAIN Store' = live'
  BY DEF Store
<1>4. kept' = [p \in DOMAIN kept \cap DOMAIN Store' |-> kept[p] \cup {Store'[p]}]
  BY <1>1, <1>2, <1>3
<1> QED
  BY <1>4 DEF DurableStoreOfPager!Change, Store

LEMMA InSessionContents ==
  ASSUME TypeOK, NEW S, InSession(S)
  PROVE  \A p \in live \ S : ContentsOf(p)' = ContentsOf(p)
<1>1. live \subseteq PageNum
  BY DEF TypeOK, ClientTypeOK
<1> QED
  BY <1>1 DEF InSession, ContentsOf, DataOf

\* A guard that held no page has got page p.
LEMMA HeldTaken ==
  ASSUME TypeOK, NEW g \in GuardId, guards[g] = NoGuard, NEW p, NEW f, NEW d,
         guards' = [guards EXCEPT ![g] = [page |-> p, frame |-> f, dirty |-> d]]
  PROVE  Held' = [Held EXCEPT ![g] = p] /\ Held[g] = INVALID_PAGE
<1>1. guards'[g].page = p /\ \A h \in GuardId \ {g} : guards'[h] = guards[h]
  BY DEF TypeOK, ClientTypeOK
<1>2. Held' = [h \in GuardId |-> IF h = g THEN p ELSE guards[h].page]
  BY <1>1 DEF Held
<1>3. Held' = [Held EXCEPT ![g] = p]
  BY <1>2 DEF Held
<1> QED
  BY <1>3 DEF Held, NoGuard

\* updateFileHeader changes nothing a client stores in page 0.
LEMMA FlushAllContents ==
  ASSUME TypeOK, PoolConsistent, DurableInv, NEW op, FlushAll(op)
  PROVE  \A p \in live : ContentsOf(p)' = ContentsOf(p)
<1>1. 0 \in PageNum /\ live \subseteq PageNum
  BY SMT DEF PageNum, TypeOK, ClientTypeOK
<1>2. /\ InSession({0})
      /\ DataOf(0)' = [DataOf(0) EXCEPT !.count = highestAllocated + 1,
                                        !.free = freespaceHead]
  BY FlushAllStep DEF DurableInv, SessionOK
<1>3. Visible(DataOf(0)') = Visible(DataOf(0))
  BY <1>1, <1>2, DataType DEF PageImage, Visible
<1>4. \A p : ContentsOf(p)' = Visible(DataOf(p)')
  BY DEF ContentsOf, DataOf
<1> QED
  BY <1>2, <1>3, <1>4, ContentsAreVisible, InSessionContents

-----------------------------------------------------------------------------
(* The steps, one by one. *)

\* open().
LEMMA OpenEmptyStarts ==
  ASSUME DurableTypeOK, TypeOK', DurableInv, NEW m \in OpenModes, OpenEmpty(m)
  PROVE  DurableStoreOfPager!Start
<1>1. /\ status # "open" /\ status' = "open" /\ guards' = guards
      /\ live' \in {{}, {0}}
  BY DEF OpenEmpty
<1>2. 0 \in PageNum
  BY SMT DEF PageNum
<1>3. live = {}
  <2>1. ASSUME NEW p \in live PROVE FALSE
    <3>1. p \in PageNum /\ p < 0
      BY <1>2, <2>1 DEF OpenEmpty, DurableInv, SessionOK, LiveReachable, DurableTypeOK, TypeOK,
                        ClientTypeOK
    <3> QED
      BY <3>1, SMT DEF PageNum
  <2> QED
    BY <2>1
<1>4. Held' = Held
  BY <1>1 DEF Held
<1>5. CASE live' = {}
  <2>1. Store' = Store
    BY <1>3, <1>5 DEF Store
  <2> QED
    BY <1>1, <1>4, <2>1 DEF DurableStoreOfPager!Start, Store, Held
<1>6. CASE live' = {0}
  <2>1. ContentsOf(0)' \in Contents
    BY <1>2, ContentsTypeNext
  <2>2. Store' = [q \in {0} |-> ContentsOf(0)']
    BY <1>6 DEF Store
  <2>3. DOMAIN Store = {}
    BY <1>3 DEF Store
  <2>4. Store' = [q \in DOMAIN Store \cup {0} |-> IF q = 0 THEN ContentsOf(0)' ELSE Store[q]]
    BY <2>2, <2>3
  <2> QED
    BY <1>1, <1>4, <2>1, <2>3, <2>4
       DEF DurableStoreOfPager!Start, DurableStoreOfPager!Extend, DurableStoreOfPager!Pages,
           Store, Held
<1> QED
  BY <1>1, <1>5, <1>6

LEMMA OpenExistingStarts ==
  ASSUME DurableTypeOK, TypeOK', DurableInv, NEW m \in OpenModes, OpenExisting(m)
  PROVE  DurableStoreOfPager!Start
<1>1. /\ status # "open" /\ status' = "open" /\ guards' = guards
      /\ live' = live \cup {0}
      /\ file'.image = file.image
  BY DEF OpenExisting, OpenStream, DurableTypeOK, TypeOK, IOTypeOK, FileType
<1>2. 0 \in PageNum /\ 0 \in FrameIndex /\ 0 # NoFrame /\ live \subseteq PageNum
  BY SMT DEF PageNum, FrameIndex, NoFrame, DurableTypeOK, TypeOK, ClientTypeOK
<1>3. \A p \in PageNum : ContentsOf(p)' = ContentsOf(p)
  <2>1. \A p \in PageNum : ~Cached(p)
    BY <1>1 DEF DurableInv, SessionOK
  <2>2. /\ Cached(0)' /\ FrameOf(0)'.data = file.image[0]
        /\ \A p \in PageNum \ {0} : ~Cached(p)'
    BY <1>2 DEF OpenExisting, LoadPageZero, Cached, FrameOf
  <2> QED
    BY <1>1, <2>1, <2>2 DEF ContentsOf
<1>4. Held' = Held
  BY <1>1 DEF Held
<1>5. CASE 0 \in live
  <2>1. Store' = Store
    BY <1>1, <1>2, <1>3, <1>5 DEF Store
  <2> QED
    BY <1>1, <1>4, <2>1 DEF DurableStoreOfPager!Start, Store, Held
<1>6. CASE 0 \notin live
  <2>1. ContentsOf(0)' \in Contents
    BY <1>2, ContentsTypeNext
  <2>2. DOMAIN Store = live /\ \A q \in live : Store[q] = ContentsOf(q)
    BY DEF Store
  <2>3. Store' = [q \in live \cup {0} |-> ContentsOf(q)']
    BY <1>1 DEF Store
  <2>4. Store' = [q \in DOMAIN Store \cup {0} |-> IF q = 0 THEN ContentsOf(0)' ELSE Store[q]]
    BY <1>2, <1>3, <2>2, <2>3
  <2> QED
    BY <1>1, <1>4, <1>6, <2>1, <2>2, <2>4
       DEF DurableStoreOfPager!Start, DurableStoreOfPager!Extend, DurableStoreOfPager!Pages,
           Store, Held
<1> QED
  BY <1>5, <1>6

\* fetchPage.
LEMMA FetchPageAcquires ==
  ASSUME DurableTypeOK, PoolConsistent, DurableInv, Disciplined,
         NEW g \in GuardId, NEW p \in PageNum, FetchPage(g, p)
  PROVE  DurableStoreOfPager!Acquire(g, p)
<1>1. /\ status = "open" /\ status' = "open" /\ live' = live /\ p \in live
      /\ guards[g] = NoGuard
  BY DEF FetchPage, Open, Owned, Disciplined
<1>2. Store' = Store
  <2>1. InSession({}) /\ TypeOK
    BY FetchPageStep DEF DurableInv, DurableTypeOK
  <2>2. \A q \in live : ContentsOf(q)' = ContentsOf(q)
    BY <2>1, InSessionContents
  <2> QED
    BY <1>1, <2>2 DEF Store
<1>3. PICK f \in FrameIndex :
        guards' = [guards EXCEPT ![g] = [page |-> p, frame |-> f, dirty |-> FALSE]]
  BY DEF FetchPage, Hold
<1>4. Held' = [Held EXCEPT ![g] = p] /\ Held[g] = INVALID_PAGE
  BY <1>1, <1>3, HeldTaken DEF DurableTypeOK
<1> QED
  BY <1>1, <1>2, <1>4
     DEF DurableStoreOfPager!Acquire, DurableStoreOfPager!Pages, Store, Held

\* newPage.
LEMMA NewPageFreshCreates ==
  ASSUME DurableTypeOK, PoolConsistent, DurableInv,
         NEW g \in GuardId, NewPageFresh(g)
  PROVE  \E p \in PageNum : DurableStoreOfPager!Create(g, p)
<1>1. /\ status = "open" /\ status' = "open" /\ guards[g] = NoGuard
      /\ live' = live \cup {highestAllocated'}
  BY DEF NewPageFresh, Open
<1>2. TypeOK /\ live \subseteq PageNum /\ highestAllocated \in PageNum
  BY DEF DurableTypeOK, TypeOK, ClientTypeOK, DurableInv, SessionOK
<1>3. PICK p \in PageNum : p = highestAllocated'
  BY <1>2, NewPageFreshStep DEF DurableInv
<1>4. /\ p = highestAllocated + 1
      /\ InSession({p})
      /\ ContentsOf(p)' = [next |-> INVALID_PAGE, body |-> EmptyBody]
  BY <1>2, <1>3, NewPageFreshStep DEF DurableInv
<1>5. p \notin live
  <2>1. p \in live => p <= highestAllocated
    BY <1>1 DEF DurableInv, LiveReachable
  <2> QED
    BY <1>2, <1>4, <2>1, SMT DEF PageNum
<1>6. \A q \in live : ContentsOf(q)' = ContentsOf(q)
  BY <1>2, <1>4, <1>5, InSessionContents
<1>7. DOMAIN Store = live /\ \A q \in live : Store[q] = ContentsOf(q)
  BY DEF Store
<1>8. Store' = [q \in DOMAIN Store \cup {p} |->
                  IF q = p THEN [next |-> INVALID_PAGE, body |-> EmptyBody] ELSE Store[q]]
  <2>1. Store' = [q \in live \cup {p} |-> ContentsOf(q)']
    BY <1>1, <1>3 DEF Store
  <2> QED
    BY <1>4, <1>6, <1>7, <2>1
<1>9. PICK f \in FrameIndex, d \in BOOLEAN :
        guards' = [guards EXCEPT ![g] = [page |-> p, frame |-> f, dirty |-> d]]
  BY <1>3 DEF NewPageFresh, Hold
<1>10. Held' = [Held EXCEPT ![g] = p] /\ Held[g] = INVALID_PAGE
  BY <1>1, <1>2, <1>9, HeldTaken
<1>11. DurableStoreOfPager!Create(g, p)
  BY <1>1, <1>5, <1>7, <1>8, <1>10
     DEF DurableStoreOfPager!Create, DurableStoreOfPager!Extend, DurableStoreOfPager!Pages,
         Store, Held
<1> QED
  BY <1>11

\* A write through a guard, to the page's body or to its header.
LEMMA PageIsWritten ==
  ASSUME DurableTypeOK, TypeOK', PinsMatchGuards, DurableInv,
         status = "open", status' = "open", live' = live,
         NEW g \in GuardId, guards[g] # NoGuard,
         \A h \in GuardId : guards'[h].page = guards[h].page,
         NEW p \in PageNum, p = guards[g].page, InSession({p})
  PROVE  \E c \in Contents : DurableStoreOfPager!Write(g, c)
<1>1. TypeOK
  BY DEF DurableTypeOK
<1>2. ContentsOf(p)' \in Contents
  BY ContentsTypeNext
<1>3. \A q \in live \ {p} : ContentsOf(q)' = ContentsOf(q)
  BY <1>1, InSessionContents
<1>4. DOMAIN Store = live /\ \A q \in live : Store[q] = ContentsOf(q)
  BY DEF Store
<1>5. Store' = [Store EXCEPT ![p] = ContentsOf(p)']
  <2>1. Store' = [q \in live |-> ContentsOf(q)']
    BY DEF Store
  <2> QED
    BY <1>3, <1>4, <2>1
<1>6. Held' = Held /\ Held[g] = p /\ p # INVALID_PAGE
  <2>1. p # INVALID_PAGE
    BY SMT DEF PageNum
  <2> QED
    BY <2>1 DEF Held
<1>7. DurableStoreOfPager!Write(g, ContentsOf(p)')
  BY <1>5, <1>6 DEF DurableStoreOfPager!Write, Store, Held
<1> QED
  BY <1>2, <1>7

LEMMA WriteSpanWrites ==
  ASSUME DurableTypeOK, TypeOK', PoolConsistent, PinsMatchGuards, DurableInv, Disciplined,
         NEW g \in GuardId, NEW v \in Bodies, WriteSpan(g, v)
  PROVE  \E c \in Contents : DurableStoreOfPager!Write(g, c)
<1>1. /\ status = "open" /\ status' = "open" /\ live' = live
      /\ guards[g] # NoGuard /\ guards' = [guards EXCEPT ![g].dirty = TRUE]
  BY DEF WriteSpan, Open
<1>2. TypeOK
  BY DEF DurableTypeOK
<1>3. PICK p : p = guards[g].page
  OBVIOUS
<1>4. p \in PageNum /\ InSession({p})
  BY <1>2, <1>3, WriteSpanStep DEF DurableInv
<1>5. \A h \in GuardId : guards'[h].page = guards[h].page
  BY <1>1, <1>2 DEF TypeOK, ClientTypeOK, Guard
<1> QED
  BY <1>1, <1>3, <1>4, <1>5, PageIsWritten

LEMMA SetHeaderWrites ==
  ASSUME DurableTypeOK, TypeOK', PoolConsistent, PinsMatchGuards, DurableInv, Disciplined,
         NEW g \in GuardId, NEW n \in Links, SetHeader(g, n)
  PROVE  \E c \in Contents : DurableStoreOfPager!Write(g, c)
<1>1. /\ status = "open" /\ status' = "open" /\ live' = live
      /\ guards[g] # NoGuard /\ guards' = guards
  BY DEF SetHeader, Open
<1>2. TypeOK
  BY DEF DurableTypeOK
<1>3. PICK p : p = guards[g].page
  OBVIOUS
<1>4. p \in PageNum /\ InSession({p})
  BY <1>2, <1>3, SetHeaderStep DEF DurableInv
<1> QED
  BY <1>1, <1>3, <1>4, PageIsWritten

\* reset() and the moves.
LEMMA ResetGuardReleases ==
  ASSUME DurableTypeOK, DurableInv, NEW g \in GuardId, ResetGuard(g)
  PROVE  DurableStoreOfPager!Release(g)
<1>1. /\ status = "open" /\ status' = "open" /\ live' = live
      /\ UNCHANGED <<ioVars, pageMap>>
      /\ guards' = [guards EXCEPT ![g] = NoGuard]
      /\ frames' = Unpin(guards[g].page)
  BY DEF ResetGuard, Open
<1>2. TypeOK /\ InSession({})
  BY <1>1, UnpinStep DEF DurableInv, DurableTypeOK
<1>3. Store' = Store
  BY <1>1, <1>2, InSessionContents DEF Store
<1>4. Held' = [Held EXCEPT ![g] = INVALID_PAGE]
  BY <1>1 DEF Held, NoGuard, DurableTypeOK, TypeOK, ClientTypeOK
<1> QED
  BY <1>1, <1>3, <1>4 DEF DurableStoreOfPager!Release, Store, Held

LEMMA MoveGuardMoves ==
  ASSUME DurableTypeOK, DurableInv, NEW g \in GuardId, NEW h \in GuardId, MoveGuard(g, h)
  PROVE  DurableStoreOfPager!Move(g, h)
<1>1. /\ status = "open" /\ status' = "open" /\ live' = live
      /\ UNCHANGED <<ioVars, pageMap>>
      /\ g # h
      /\ guards' = [guards EXCEPT ![h] = guards[g], ![g] = NoGuard]
      /\ frames' = frames \/ frames' = Unpin(guards[h].page)
  BY DEF MoveGuard, Open, MoveTo
<1>2. TypeOK /\ InSession({})
  BY <1>1, UnpinStep DEF DurableInv, DurableTypeOK
<1>3. Store' = Store
  BY <1>1, <1>2, InSessionContents DEF Store
<1>4. Held' = [Held EXCEPT ![h] = Held[g], ![g] = INVALID_PAGE]
  BY <1>1 DEF Held, NoGuard, DurableTypeOK, TypeOK, ClientTypeOK
<1> QED
  BY <1>1, <1>3, <1>4 DEF DurableStoreOfPager!Move, Store, Held

\* The process dies, at whatever point of whatever operation.
LEMMA LoseDies ==
  ASSUME DurableTypeOK, DurableInv, status = "open",
         NEW s \in {"lost", "aborted"}, Lose(s), GoOn
  PROVE  DurableStoreOfPager!DieKeeping
<1>1. /\ status' # "open" /\ file' = file
      /\ \A g \in GuardId : guards'[g] = NoGuard
      /\ \A p \in PageNum : ~Cached(p)'
  BY DEF Lose, EndSession, EmptyPool, Cached
<1>2. /\ live' = DOMAIN kept /\ DOMAIN kept \subseteq live /\ live \subseteq PageNum
      /\ kept' = [p \in DOMAIN kept |-> {Visible(file.image[p])}]
  BY DEF GoOn, DurableInv, KeptOK, DurableTypeOK, TypeOK, ClientTypeOK
<1>3. \A p \in PageNum : ContentsOf(p)' = Visible(file.image[p])
  BY <1>1 DEF ContentsOf
<1>4. /\ DOMAIN Store' = DOMAIN kept /\ DOMAIN Store = live
      /\ \A p \in DOMAIN kept : Store'[p] = Visible(file.image[p])
  BY <1>2, <1>3 DEF Store
<1>5. \A p \in DOMAIN kept : Store'[p] \in kept[p]
  BY <1>4 DEF DurableInv, KeptOK, SyncedSurvive
<1>6. Store' \in [DOMAIN kept -> Contents]
  <2>1. \A p \in DOMAIN kept : Visible(file.image[p]) \in Contents
    BY <1>2, ImageType, VisibleType DEF DurableTypeOK
  <2>2. Store' = [p \in DOMAIN kept |-> ContentsOf(p)']
    BY <1>2 DEF Store
  <2> QED
    BY <1>2, <1>3, <2>1, <2>2
<1>7. Held' = [g \in GuardId |-> INVALID_PAGE]
  BY <1>1 DEF Held, NoGuard
<1>8. DurableStoreOfPager!Die
  BY <1>1, <1>2, <1>4, <1>6, <1>7
     DEF DurableStoreOfPager!Die, DurableStoreOfPager!Pages, DurableStoreOfPager!NothingHeld,
         Store, Held
<1>9. kept' = [p \in DOMAIN Store' |-> {Store'[p]}]
  BY <1>2, <1>4
<1> QED
  BY <1>4, <1>5, <1>8, <1>9
     DEF DurableStoreOfPager!DieKeeping, DurableStoreOfPager!KeepAll, Store

\* When no frame is pinned, the client has no guard.
LEMMA NothingHeldUnpinned ==
  ASSUME TypeOK, PinsMatchGuards, Unpinned
  PROVE  Held = [g \in GuardId |-> INVALID_PAGE]
<1>1. ASSUME NEW g \in GuardId, guards[g] # NoGuard PROVE FALSE
  <2>1. guards[g].frame \in FrameIndex
    BY <1>1 DEF PinsMatchGuards, TypeOK, ClientTypeOK, Guard
  <2>2. Cardinality(Holders(guards[g].frame)) = 0
    BY <2>1 DEF Unpinned, PinsMatchGuards
  <2>3. g \in Holders(guards[g].frame)
    BY <1>1 DEF Holders
  <2> QED
    BY <2>2, <2>3, HoldersFinite, FS_EmptySet
<1> QED
  BY <1>1 DEF Held, NoGuard

\* A session ends with all guards gone and all pages on file.
LEMMA ClosedStops ==
  ASSUME DurableTypeOK, PinsMatchGuards, Unpinned, status = "open",
         EndSession("closed"), UNCHANGED <<file, live>>,
         \A p \in live : ContentsOf(p) = Visible(file.image[p])
  PROVE  DurableStoreOfPager!Stop /\ Store' = Store
<1>1. /\ status' # "open"
      /\ \A g \in GuardId : guards'[g] = NoGuard
      /\ \A p \in PageNum : ~Cached(p)'
  BY DEF EndSession, EmptyPool, Cached
<1>2. TypeOK /\ live \subseteq PageNum
  BY DEF DurableTypeOK, TypeOK, ClientTypeOK
<1>3. Store' = Store
  <2>1. \A p \in live : ContentsOf(p)' = ContentsOf(p)
    BY <1>1, <1>2 DEF ContentsOf
  <2> QED
    BY <2>1 DEF Store
<1>4. Held = [g \in GuardId |-> INVALID_PAGE] /\ Held' = Held
  BY <1>1, <1>2, NothingHeldUnpinned DEF Held, NoGuard
<1> QED
  BY <1>1, <1>3, <1>4
     DEF DurableStoreOfPager!Stop, DurableStoreOfPager!NothingHeld, Store, Held

\* close(), or the destructor, returns: everything is in safety.
LEMMA CloseReturnsStops ==
  ASSUME DurableTypeOK, PinsMatchGuards, DurableInv, Keep, FlushReturns,
         call.op \in {"close", "destroy"}
  PROVE  DurableStoreOfPager!StopSynced
<1>1. /\ status = "open" /\ EndSession("closed") /\ UNCHANGED <<file, live>>
      /\ FlushAllDone /\ TypeOK
  BY DEF FlushReturns, FlushAllDone, DurableTypeOK
<1>2. \A p \in live : ContentsOf(p) = Visible(file.image[p])
  BY <1>1, AllFlushed DEF OnFile
<1>3. Unpinned
  BY DEF DurableInv, FlushLoopOK, FlushingAll
<1>4. DurableStoreOfPager!Stop
  BY <1>1, <1>2, <1>3, ClosedStops
<1>5. kept' = [p \in DOMAIN Store' |-> {Store'[p]}]
  <2>1. kept' = [p \in live' |-> {ContentsOf(p)'}]
    BY <1>1 DEF Keep
  <2>2. DOMAIN Store' = live' /\ \A p \in live' : Store'[p] = ContentsOf(p)'
    BY DEF Store
  <2> QED
    BY <2>1, <2>2
<1> QED
  BY <1>4, <1>5 DEF DurableStoreOfPager!StopSynced, DurableStoreOfPager!KeepAll, Store

LEMMA CloseReadOnlyStops ==
  ASSUME DurableTypeOK, PinsMatchGuards, DurableInv, Keep, CloseReadOnly
  PROVE  DurableStoreOfPager!StopSynced
<1>1. /\ status = "open" /\ EndSession("closed") /\ UNCHANGED <<file, live>>
      /\ mode = ReadOnly /\ Unpinned /\ call = NoCall
  BY DEF CloseReadOnly, Open
<1>2. \A p \in live : ContentsOf(p) = Visible(file.image[p])
  BY <1>1 DEF DurableInv, ReadOnlyOK, OnFile
<1>3. DurableStoreOfPager!Stop /\ Store' = Store
  BY <1>1, <1>2, ClosedStops
<1>4. \A p \in live : ContentsOf(p)' = ContentsOf(p)
  <2>1. \A p \in live : Store[p] = ContentsOf(p)
    BY DEF Store
  <2>2. \A p \in live' : Store'[p] = ContentsOf(p)'
    BY DEF Store
  <2> QED
    BY <1>1, <1>3, <2>1, <2>2
<1>5. kept' = kept
  BY <1>1, <1>4, OpenNotDone, KeptUnchanged
<1> QED
  BY <1>3, <1>5 DEF DurableStoreOfPager!StopSynced

\* flushAll() returns, and everything is in safety.
LEMMA FlushAllSyncs ==
  ASSUME DurableTypeOK, DurableInv, Keep, FlushReturns, call.op = "flushAll"
  PROVE  DurableStoreOfPager!Sync
<1>1. /\ status = "open" /\ status' = "open" /\ FlushAllDone
      /\ UNCHANGED <<ioVars, poolVars, guards, live>>
  BY DEF FlushReturns, FlushAllDone
<1>2. \A p : ContentsOf(p)' = ContentsOf(p)
  BY <1>1 DEF ContentsOf, Cached, FrameOf, ioVars, poolVars
<1>3. Store' = Store /\ Held' = Held
  BY <1>1, <1>2 DEF Store, Held
<1>4. kept' = [p \in DOMAIN Store' |-> {Store'[p]}]
  <2>1. kept' = [p \in live' |-> {ContentsOf(p)'}]
    BY <1>1 DEF Keep
  <2>2. DOMAIN Store' = live' /\ \A p \in live' : Store'[p] = ContentsOf(p)'
    BY DEF Store
  <2> QED
    BY <2>1, <2>2
<1> QED
  BY <1>1, <1>3, <1>4
     DEF DurableStoreOfPager!Sync, DurableStoreOfPager!KeepAll, DurableStoreOfPager!storeVars,
         Store, Held

-----------------------------------------------------------------------------
(* Every step. *)

LEMMA RefinementInit == DurableInit => DurableStoreOfPager!DurableInit
<1> SUFFICES ASSUME DurableInit PROVE DurableStoreOfPager!DurableInit
  OBVIOUS
<1>1. /\ status # "open" /\ live = {} /\ kept = [p \in {} |-> {}]
      /\ guards = [g \in GuardId |-> NoGuard]
  BY DEF DurableInit, Init
<1>2. Store = [q \in {} |-> [next |-> INVALID_PAGE, body |-> EmptyBody]]
  BY <1>1 DEF Store
<1>3. Held = [g \in GuardId |-> INVALID_PAGE]
  BY <1>1 DEF Held, NoGuard
<1> QED
  BY <1>1, <1>2, <1>3
     DEF DurableStoreOfPager!DurableInit, DurableStoreOfPager!Init,
         DurableStoreOfPager!NothingHeld, Store, Held

\* What the rest of this section is about: a step of the store, or none.
StoreStep == DurableStoreOfPager!DurableNext \/ UNCHANGED DurableStoreOfPager!durableVars

LEMMA OpenRefines ==
  ASSUME DurableTypeOK, TypeOK', DurableInv, Keep, OpenPager
  PROVE  StoreStep
<1>1. call = NoCall
  BY DEF OpenPager, OpenEmpty, OpenExisting, OpenRejected, DurableInv, SessionOK
<1>2. PICK m \in OpenModes : OpenEmpty(m) \/ OpenExisting(m) \/ OpenRejected(m)
  BY DEF OpenPager
<1>3. CASE OpenEmpty(m) \/ OpenExisting(m)
  <2>1. DurableStoreOfPager!Start
    BY <1>3, OpenEmptyStarts, OpenExistingStarts
  <2>2. DurableStoreOfPager!Change
    BY <1>1, <2>1, OpenNotDone, UseChanges DEF DurableStoreOfPager!Use
  <2> QED
    BY <2>2 DEF StoreStep, DurableStoreOfPager!DurableNext
<1>4. CASE OpenRejected(m)
  <2>1. /\ status' = status /\ live' = live /\ guards' = guards
        /\ status # "open" /\ file.pageCount > 0 /\ ~file.image[0].magic
    BY <1>4 DEF OpenRejected
  <2>2. live = {}
    BY <2>1 DEF DurableInv, HeaderOK, GoodHeader, DurableTypeOK, TypeOK, IOTypeOK, FileType
  <2> QED
    BY <1>1, <2>1, <2>2, OpenNotDone, Stutters DEF StoreStep, SameView
<1> QED
  BY <1>2, <1>3, <1>4

LEMMA PageActionRefines ==
  ASSUME DurableTypeOK, TypeOK', PoolConsistent, DurableInv, Disciplined, PageAction,
         Dies => GoOn, ~Dies => Keep
  PROVE  StoreStep
<1>0. TypeOK /\ live \subseteq PageNum
  BY DEF DurableTypeOK, TypeOK, ClientTypeOK
<1>1. ASSUME NEW g \in GuardId, NEW p \in PageNum, FetchPage(g, p) PROVE StoreStep
  <2>1. ~Dies /\ call = NoCall
    BY <1>1 DEF FetchPage, Open, Dies
  <2>2. DurableStoreOfPager!Acquire(g, p)
    BY <1>1, FetchPageAcquires
  <2>3. DurableStoreOfPager!Use
    BY <2>2 DEF DurableStoreOfPager!Use
  <2> QED
    BY <2>1, <2>3, OpenNotDone, UseChanges DEF StoreStep, DurableStoreOfPager!DurableNext
<1>2. ASSUME NEW p \in PageNum, FetchPageFails(p) PROVE FALSE
  <2>1. p \in live /\ FetchMisreads(p)
    BY <1>2 DEF FetchPageFails, Owned, Disciplined
  <2> QED
    BY <1>0, <2>1, NoMisread DEF DurableInv, LiveReachable, Reachable
<1>3. ASSUME NEW p \in PageNum, DeletePage(p) PROVE FALSE
  BY <1>3 DEF DeletePage, Disciplined
<1>4. ASSUME NEW p \in PageNum, DeletePageAborts(p) PROVE StoreStep
  <2>1. Lose("aborted") /\ status = "open" /\ status' = "aborted"
    BY <1>4 DEF DeletePageAborts, Open, Lose, EndSession
  <2> QED
    BY <2>1, LoseDies DEF Dies, StoreStep, DurableStoreOfPager!DurableNext
<1>5. ASSUME NEW g \in GuardId, NewPageFresh(g) PROVE StoreStep
  <2>1. ~Dies /\ call = NoCall
    BY <1>5 DEF NewPageFresh, Open, Dies
  <2>2. \E p \in PageNum : DurableStoreOfPager!Create(g, p)
    BY <1>5, NewPageFreshCreates
  <2>3. DurableStoreOfPager!Use
    BY <2>2 DEF DurableStoreOfPager!Use
  <2> QED
    BY <2>1, <2>3, OpenNotDone, UseChanges DEF StoreStep, DurableStoreOfPager!DurableNext
<1>6. ASSUME NEW g \in GuardId, NewPageReused(g) PROVE FALSE
  BY <1>6 DEF NewPageReused, DurableInv, SessionOK
<1>7. CASE NewPageFreshFails
  <2>1. /\ status = "open" /\ status' = "open" /\ call = NoCall
        /\ UNCHANGED <<ioVars, poolVars, guards, live>>
    BY <1>7 DEF NewPageFreshFails, Open
  <2>2. SameView
    BY <2>1 DEF SameView, ContentsOf, Cached, FrameOf, ioVars, poolVars
  <2> QED
    BY <2>1, <2>2, OpenNotDone, Stutters DEF StoreStep, Dies
<1>8. CASE NewPageReusedFails
  BY <1>8 DEF NewPageReusedFails, DurableInv, SessionOK
<1> QED
  BY <1>1, <1>2, <1>3, <1>4, <1>5, <1>6, <1>7, <1>8 DEF PageAction

LEMMA GuardActionRefines ==
  ASSUME DurableTypeOK, TypeOK', PoolConsistent, PinsMatchGuards, DurableInv, Disciplined,
         GuardAction, Keep
  PROVE  StoreStep
<1>1. call = NoCall
  BY DEF GuardAction, WriteSpan, SetHeader, ResetGuard, MoveGuard, Open
<1>2. DurableStoreOfPager!Use
  BY WriteSpanWrites, SetHeaderWrites, ResetGuardReleases, MoveGuardMoves
     DEF GuardAction, DurableStoreOfPager!Use
<1> QED
  BY <1>1, <1>2, OpenNotDone, UseChanges DEF StoreStep, DurableStoreOfPager!DurableNext

LEMMA FlushActionRefines ==
  ASSUME DurableTypeOK, TypeOK', PoolConsistent, PinsMatchGuards, DurableInv, FlushAction,
         Dies => GoOn, ~Dies => Keep
  PROVE  StoreStep
<1>0. TypeOK /\ 0 \in PageNum
  BY SMT DEF DurableTypeOK, PageNum
<1>1. ASSUME NEW s \in {"lost", "aborted"}, Lose(s), status = "open" PROVE StoreStep
  <2>1. Dies
    BY <1>1 DEF Dies, Lose, EndSession
  <2> QED
    BY <1>1, <2>1, LoseDies DEF StoreStep, DurableStoreOfPager!DurableNext
<1>2. ASSUME NEW p \in PageNum, FlushPage(p) PROVE StoreStep
  <2>1. /\ status = "open" /\ status' = "open" /\ call = NoCall
        /\ UNCHANGED <<ioVars, poolVars, guards, live>>
    BY <1>2 DEF FlushPage, Open
  <2>2. SameView
    BY <2>1 DEF SameView, ContentsOf, Cached, FrameOf, ioVars, poolVars
  <2> QED
    BY <2>1, <2>2, OpenNotDone, Stutters DEF StoreStep, Dies
<1>3. ASSUME NEW op \in {"flushAll", "close", "destroy"}, FlushAll(op) PROVE StoreStep
  <2>1. /\ status = "open" /\ status' = "open" /\ call = NoCall
        /\ guards' = guards /\ live' = live
    BY <1>3 DEF FlushAll, Open
  <2>2. SameView
    BY <1>0, <1>3, <2>1, FlushAllContents DEF SameView
  <2> QED
    BY <2>1, <2>2, OpenNotDone, Stutters DEF StoreStep, Dies
<1>4. ASSUME NEW op \in {"flushAll", "close", "destroy"}, FlushAllFails(op) PROVE StoreStep
  <2>1. status = "open" /\ Reachable(0)
    BY <1>4 DEF FlushAllFails, Open, DurableInv, HeaderOK
  <2>2. ~FetchMisreads(0)
    BY <1>0, <2>1, NoMisread
  <2> QED
    BY <1>1, <1>4, <2>1, <2>2 DEF FlushAllFails
<1>5. ASSUME Flushing PROVE status = "open" /\ ~FlushAllDone
  BY <1>5, SMT DEF Flushing, FlushAllDone, DurableTypeOK, TypeOK, ClientTypeOK, Call, PageLink,
                   PageNum
<1>6. CASE FlushOne
  <2>1. /\ status = "open" /\ status' = "open" /\ ~FlushAllDone
        /\ guards' = guards /\ live' = live
    BY <1>5, <1>6 DEF FlushOne
  <2>2. InSession({})
    BY <1>0, <1>6, FlushOneStep DEF DurableInv
  <2>3. SameView
    BY <1>0, <2>1, <2>2, InSessionContents DEF SameView
  <2> QED
    BY <2>1, <2>3, Stutters DEF StoreStep, Dies
<1>7. CASE FlushFails
  <2>1. Flushing
    BY <1>7 DEF FlushFails
  <2>2. CASE call.op = "destroy"
    BY <1>1, <1>5, <1>7, <2>1, <2>2 DEF FlushFails
  <2>3. CASE call.op # "destroy"
    <3>1. status' = status /\ UNCHANGED <<ioVars, poolVars, guards, live>>
      BY <1>7, <2>3 DEF FlushFails
    <3>2. SameView
      BY <3>1 DEF SameView, ContentsOf, Cached, FrameOf, ioVars, poolVars
    <3>3. ~FlushAllDone /\ ~Dies
      BY <1>5, <2>1, <3>1 DEF Dies
    <3> QED
      BY <3>1, <3>2, <3>3, Stutters DEF StoreStep
  <2> QED
    BY <2>2, <2>3
<1>8. CASE FlushAborts
  BY <1>1, <1>5, <1>8 DEF FlushAborts
<1>9. CASE FlushReturns
  <2>0. ~Dies /\ status = "open"
    BY <1>9 DEF FlushReturns, EndSession, Dies
  <2>1. CASE call.op \in {"close", "destroy"}
    BY <1>9, <2>0, <2>1, CloseReturnsStops DEF StoreStep, DurableStoreOfPager!DurableNext
  <2>2. CASE call.op = "flushAll"
    BY <1>9, <2>0, <2>2, FlushAllSyncs DEF StoreStep, DurableStoreOfPager!DurableNext
  <2>3. CASE call.op \notin {"flushAll", "close", "destroy"}
    <3>1. status' = status /\ UNCHANGED <<ioVars, poolVars, guards, live>>
      BY <1>9, <2>3 DEF FlushReturns
    <3>2. SameView
      BY <3>1 DEF SameView, ContentsOf, Cached, FrameOf, ioVars, poolVars
    <3>3. ~FlushAllDone
      BY <2>3 DEF FlushAllDone
    <3> QED
      BY <2>0, <3>1, <3>2, <3>3, Stutters DEF StoreStep
  <2> QED
    BY <2>1, <2>2, <2>3
<1>10. CASE CloseReadOnly
  <2>1. ~Dies
    BY <1>10 DEF CloseReadOnly, EndSession, Dies
  <2> QED
    BY <1>10, <2>1, CloseReadOnlyStops DEF StoreStep, DurableStoreOfPager!DurableNext
<1>11. CASE ClosePinned
  BY <1>1, <1>11 DEF ClosePinned, Open
<1> QED
  BY <1>2, <1>3, <1>4, <1>6, <1>7, <1>8, <1>9, <1>10, <1>11 DEF FlushAction, FlushLoop

LEMMA RefinementStep ==
  ASSUME Disciplined
  PROVE  /\ DurableTypeOK /\ TypeOK' /\ PoolConsistent /\ PinsMatchGuards /\ DurableInv
         /\ [DurableNext]_durableVars
         => [DurableStoreOfPager!DurableNext]_(DurableStoreOfPager!durableVars)
<1> SUFFICES ASSUME DurableTypeOK, TypeOK', PoolConsistent, PinsMatchGuards, DurableInv,
                    [DurableNext]_durableVars
             PROVE  StoreStep
  BY DEF StoreStep
<1>1. CASE DurableNext
  <2>1. Next /\ (Dies => GoOn) /\ (~Dies => Keep)
    BY <1>1 DEF DurableNext
  <2>2. CASE OpenPager
    <3>1. status # "open"
      BY <2>2 DEF OpenPager, OpenEmpty, OpenExisting, OpenRejected
    <3> QED
      BY <2>1, <2>2, <3>1, OpenRefines DEF Dies
  <2>3. CASE PageAction
    BY <2>1, <2>3, PageActionRefines
  <2>4. CASE GuardAction
    <3>1. ~Dies
      BY <2>4 DEF GuardAction, WriteSpan, SetHeader, ResetGuard, MoveGuard, Open, Dies
    <3> QED
      BY <2>1, <2>4, <3>1, GuardActionRefines
  <2>5. CASE FlushAction
    BY <2>1, <2>5, FlushActionRefines
  <2>6. CASE Crash
    <3>1. Lose("lost") /\ Dies /\ status = "open"
      BY <2>6 DEF Crash, Lose, EndSession, Dies
    <3> QED
      BY <2>1, <3>1, LoseDies DEF StoreStep, DurableStoreOfPager!DurableNext
  <2>7. CASE StreamFails
    BY <2>7 DEF StreamFails, Disciplined
  <2> QED
    BY <2>1, <2>2, <2>3, <2>4, <2>5, <2>6, <2>7 DEF Next
<1>2. CASE UNCHANGED durableVars
  <2>1. UNCHANGED <<status, live, guards, kept, file, frames, pageMap>>
    BY <1>2 DEF durableVars, vars, ioVars, poolVars
  <2>2. Store' = Store /\ Held' = Held
    BY <2>1 DEF Store, Held, ContentsOf, Cached, FrameOf
  <2> QED
    BY <2>1, <2>2 DEF StoreStep, DurableStoreOfPager!durableVars, DurableStoreOfPager!storeVars,
                      Store, Held
<1> QED
  BY <1>1, <1>2

\* To a disciplined client the pager is a store of pages that survives crashes:
\* neither the pool nor eviction nor the order of the writes can be noticed.
THEOREM PagerImplementsStore ==
  ASSUME Disciplined PROVE DurableSpec => ImplementsDurableStore
<1>1. DurableTypeOK => TypeOK
  BY DEF DurableTypeOK
<1> QED
  BY <1>1, RefinementInit, RefinementStep, DurableInvariant, PTL
     DEF DurableSpec, ImplementsDurableStore, DurableStoreOfPager!DurableSpec
=============================================================================
