------------------------------- MODULE LRUPager -------------------------------
(***************************************************************************)
(* LRUPager (src/src/pager/lru_pager.cpp) with the PageGuards it hands out *)
(* (page_guard.cpp): a buffer pool of PoolSize frames over the file of     *)
(* StdPageIO, with least-recently-used eviction, pins, a free list of      *)
(* deleted pages, and the flush and close paths.                           *)
(*                                                                         *)
(* The program has one thread: an operation is one step.  The loops of     *)
(* flushPage, flushAll, close and the destructor take one step per page,   *)
(* so that the process can die, or the stream fail, between two writes;    *)
(* `call' is the loop in progress and no other operation runs meanwhile.   *)
(* An operation that returns an error and changes nothing is a stutter.    *)
(***************************************************************************)
EXTENDS StdPageIO, Sequences, SequencesExt

CONSTANTS
  PoolSize,   \* number of frames (poolSize of LRUPager::open)
  GuardId,    \* the variables in which the client keeps its PageGuards
  Links,      \* the page numbers a client stores in PageHeader.next
  Usage       \* what the client and the environment do, of AllUsage

(***************************************************************************)
(* What a run may add to the plain client, which fetches, creates and      *)
(* writes pages it owns, resets and moves guards, and closes.              *)
(***************************************************************************)
AllUsage == {
  "flushPage",     \* flushPage on a page that is in the buffer pool
  "flushUncached", \* flushPage on a page that is not
  "flushAll",      \* flushAll other than from close
  "noFrame",       \* newPage when no frame can be had for the page
  "delete",        \* deletePage on a page that is in the buffer pool
  "deleteUncached",\* deletePage on a page that is not
  "anyPage",       \* fetching or deleting a page the client does not own
  "headerOnly",    \* setHeader on a page that is not marked dirty
  "staleSpan",     \* span() through a guard older than the last flush
  "closePinned",   \* close while a guard is alive
  "writeReadOnly", \* changing pages of a database opened read-only
  "destroy",       \* leaving close to the destructor
  "readOnly",      \* opening read-only
  "foreignFile",   \* the path may name a file that is no database
  "crash",         \* the process may die between two operations
  "crashFlushing", \* the process may die between two writes of a flush loop
  "ioError" }      \* the stream may fail at any moment, in mid-append too

ASSUME PagerAssumption ==
  /\ PoolSize \in Nat \ {0}
  /\ IsFiniteSet(GuardId)
  /\ Links \subseteq PageLink
  /\ Usage \subseteq AllUsage

FrameIndex == 0 .. PoolSize - 1
NoFrame    == PoolSize      \* pageMap_ has no entry

VARIABLES
  status,           \* "open"; otherwise how the last session ended
  frames,           \* frames_ with the bytes of pool_
  lruList,          \* lruList_: frame indices, most recently used first
  pageMap,          \* pageMap_: page number to frame
  nextFreeFrame,    \* nextFreeFrame_
  freespaceHead,    \* freespaceHead_
  appendStart,      \* appendStart_
  highestAllocated, \* highestAllocated_
  guards,           \* the client's PageGuards
  call,             \* the flush loop in progress
  live              \* history: the pages the client owns

poolVars == <<frames, lruList, pageMap, nextFreeFrame>>
metaVars == <<freespaceHead, appendStart, highestAllocated>>
vars == <<ioVars, status, poolVars, metaVars, guards, call, live>>

\* That a pin count is never negative is part of PinsMatchGuards.
Frame == [pageNum : PageLink, pinCount : Int, dirty : BOOLEAN, data : PageImage]
Guard == [page : PageLink, frame : FrameIndex \cup {NoFrame}, dirty : BOOLEAN]
Call  == [op : {"none", "flushPage", "flushAll", "close", "destroy"},
          at : 0 .. MaxPage + 1, last : PageLink]

EmptyFrame == [pageNum |-> INVALID_PAGE, pinCount |-> 0, dirty |-> FALSE,
               data |-> ZeroImage]
NoGuard    == [page |-> INVALID_PAGE, frame |-> NoFrame, dirty |-> FALSE]
NoCall     == [op |-> "none", at |-> 0, last |-> 0]

ListTypeOK ==
  /\ lruList \in Seq(FrameIndex)
  /\ pageMap \in [PageNum -> FrameIndex \cup {NoFrame}]
  /\ nextFreeFrame \in 0 .. PoolSize

MetaTypeOK ==
  /\ freespaceHead \in PageLink
  /\ appendStart \in 0 .. MaxPage + 1
  /\ highestAllocated \in PageLink

ClientTypeOK ==
  /\ status \in {"open", "closed", "lost", "aborted"}
  /\ guards \in [GuardId -> Guard]
  /\ call \in Call
  /\ live \subseteq PageNum

\* Type correctness of the file, the pool, the pager's fields and its client.
TypeOK ==
  /\ IOTypeOK
  /\ frames \in [FrameIndex -> Frame]
  /\ ListTypeOK
  /\ MetaTypeOK
  /\ ClientTypeOK

-----------------------------------------------------------------------------
(* Looking up the pool. *)

Open == status = "open" /\ call = NoCall

Cached(p) == pageMap[p] # NoFrame
FrameOf(p) == frames[pageMap[p]]

\* The list s with its i-th element in front.
MoveToFront(s, i) == Cons(s[i], RemoveAt(s, i))

\* Mutant: eviction takes the end of lruList_ whether it is pinned or not.
VictimMayBePinned(i) == i = Len(lruList)

\* evictLastUsedPage chooses the unpinned frame nearest the end of lruList_.
Victim(i) ==
  /\ frames[lruList[i]].pinCount = 0
  /\ \A j \in i + 1 .. Len(lruList) : frames[lruList[j]].pinCount # 0

\* Mutant: the frame is taken to be clean.
NoWriteBack(f) == UNCHANGED ioVars

\* A dirty frame is written before it is reused or counted as flushed.
WriteBack(f) ==
  IF frames[f].dirty THEN WritePage(frames[f].pageNum, frames[f].data)
                     ELSE UNCHANGED ioVars

\* Mutant: the victim's page stays in pageMap_.
RemapKeepingVictim(p, f) == [pageMap EXCEPT ![p] = f]

\* The frame f of the victim becomes that of page p.
Remap(p, f) == [pageMap EXCEPT ![frames[f].pageNum] = NoFrame, ![p] = f]

\* allocateFrame gives page p the frame f, a fresh one or the victim's.
TakeFrame(p, f) ==
  \/ /\ nextFreeFrame < PoolSize
     /\ f = nextFreeFrame
     /\ nextFreeFrame' = nextFreeFrame + 1
     /\ lruList' = Cons(f, lruList)
     /\ pageMap' = [pageMap EXCEPT ![p] = f]
     /\ UNCHANGED ioVars
  \/ /\ nextFreeFrame = PoolSize
     /\ \E i \in 1 .. Len(lruList) :
          /\ Victim(i)
          /\ f = lruList[i]
          /\ lruList' = MoveToFront(lruList, i)
     /\ WriteBack(f)
     /\ pageMap' = Remap(p, f)
     /\ UNCHANGED nextFreeFrame

\* allocateFrame fails: every frame is pinned, or the victim cannot be written.
NoFrameToTake ==
  /\ nextFreeFrame = PoolSize
  /\ \A i \in 1 .. Len(lruList) :
       Victim(i) => /\ frames[lruList[i]].dirty
                    /\ ~CanWrite(frames[lruList[i]].pageNum)

\* A page in the pool is moved to the front of lruList_.
Touch(p, f) ==
  /\ f = pageMap[p]
  /\ \E i \in 1 .. Len(lruList) :
       /\ lruList[i] = f
       /\ lruList' = MoveToFront(lruList, i)
  /\ UNCHANGED <<ioVars, pageMap, nextFreeFrame>>

\* readPage after the victim has been written.
CanReadNext(p) == good' /\ p < file'.pageCount

\* fetchPage succeeds with page p in frame f, whose contents are Fetched(p, f).
Fetch(p, f) ==
  \/ Cached(p) /\ Touch(p, f)
  \/ ~Cached(p) /\ TakeFrame(p, f) /\ CanReadNext(p)

Fetched(p, f) ==
  IF Cached(p) THEN frames[f]
  ELSE [pageNum |-> p, pinCount |-> 0, dirty |-> FALSE, data |-> file'.image[p]]

\* fetchPage gets a frame but cannot read the page: p stays mapped to f, which
\* still holds the bytes it had.
FetchMisreads(p) ==
  /\ ~Cached(p)
  /\ \E f \in FrameIndex :
       /\ TakeFrame(p, f)
       /\ ~CanReadNext(p)
       /\ frames' = [frames EXCEPT ![f].pageNum = p, ![f].dirty = FALSE]

\* Mutant: the page is not cleared.
InitPageKeepingBody(p, img) == [img EXCEPT !.next = INVALID_PAGE]

\* Mutant: the FileHeader of page 0 is cleared too.
InitPageWhole(p, img) == [ZeroImage EXCEPT !.next = INVALID_PAGE]

\* initPage clears everything but the FileHeader of page 0 and writes default
\* header fields.
InitPage(p, img) ==
  IF p = 0 THEN [img EXCEPT !.next = INVALID_PAGE, !.body = EmptyBody]
           ELSE [ZeroImage EXCEPT !.next = INVALID_PAGE]

-----------------------------------------------------------------------------
(* The session: opening, and how it ends. *)

EmptyPool ==
  /\ frames' = [f \in FrameIndex |-> EmptyFrame]
  /\ lruList' = <<>>
  /\ pageMap' = [p \in PageNum |-> NoFrame]
  /\ nextFreeFrame' = 0

\* The pager is gone; its variables are normalised.
EndSession(s) ==
  /\ status' = s
  /\ EmptyPool
  /\ freespaceHead' = INVALID_PAGE
  /\ appendStart' = 0
  /\ highestAllocated' = 0
  /\ guards' = [g \in GuardId |-> NoGuard]
  /\ call' = NoCall
  /\ good' = TRUE
  /\ mode' = ReadWrite

\* The session dies.  The client goes on with some of its pages, as they are on
\* file; module Durability says with which.
Lose(s) ==
  /\ EndSession(s)
  /\ live' \in SUBSET live
  /\ UNCHANGED file

\* Page 0, the only page of the pool after open.
LoadPageZero(img, isDirty) ==
  /\ frames' = [f \in FrameIndex |->
                  IF f = 0 THEN [pageNum |-> 0, pinCount |-> 0,
                                 dirty |-> isDirty, data |-> img]
                           ELSE EmptyFrame]
  /\ lruList' = <<0>>
  /\ pageMap' = [p \in PageNum |-> IF p = 0 THEN 0 ELSE NoFrame]
  /\ nextFreeFrame' = 1

\* open() on a file without pages: initFile.
OpenEmpty(m) ==
  /\ status # "open"
  /\ file.pageCount = 0
  /\ OpenStream(m)
  /\ status' = "open"
  /\ appendStart' = 1
  /\ highestAllocated' = 0
  /\ freespaceHead' = INVALID_PAGE
  /\ LoadPageZero(InitPage(0, [ZeroImage EXCEPT !.magic = TRUE, !.count = 1,
                                                !.free = INVALID_PAGE]), TRUE)
  /\ live' = IF m = ReadWrite THEN {0} ELSE {}
  /\ UNCHANGED <<guards, call>>

\* open() on a file with pages: validateFileHeader accepts page 0.
OpenExisting(m) ==
  /\ status # "open"
  /\ file.pageCount > 0
  /\ file.image[0].magic
  /\ OpenStream(m)
  /\ status' = "open"
  /\ freespaceHead' = file.image[0].free
  /\ appendStart' = file.image[0].count
  /\ highestAllocated' = IF file.image[0].count = 0 THEN INVALID_PAGE
                                                    ELSE file.image[0].count - 1
  /\ LoadPageZero(file.image[0], FALSE)
  /\ live' = live \cup {0}
  /\ UNCHANGED <<guards, call>>

\* validateFileHeader rejects page 0.  open() returns the error, and destroys a
\* pager whose freespaceHead_ and highestAllocated_ were never initialised: the
\* destructor's close puts them into the header and writes page 0 back.
OpenRejected(m) ==
  /\ status # "open"
  /\ ~file.torn
  /\ file.pageCount > 0
  /\ ~file.image[0].magic
  /\ IF m = ReadOnly THEN UNCHANGED file
     ELSE \E n \in 0 .. MaxPage + 1, q \in PageLink :
            file' = [file EXCEPT !.image[0].count = n, !.image[0].free = q]
  /\ UNCHANGED <<mode, good, status, poolVars, metaVars, guards, call, live>>

Crash ==
  /\ IF call = NoCall THEN "crash" \in Usage ELSE "crashFlushing" \in Usage
  /\ status = "open"
  /\ Lose("lost")

StreamFails ==
  /\ "ioError" \in Usage
  /\ status = "open"
  /\ \/ FailStream
     \/ \E f \in FrameIndex : frames[f].dirty /\ TearAppend(frames[f].pageNum)
  /\ UNCHANGED <<status, poolVars, metaVars, guards, call, live>>

-----------------------------------------------------------------------------
(* Pages: fetchPage, newPage, deletePage. *)

Owned(p)  == p \in live \/ "anyPage" \in Usage
MayModify == mode = ReadWrite \/ "writeReadOnly" \in Usage

\* A PageGuard constructed on the contents fr of frame f pins it.
Hold(g, p, f, fr, isDirty) ==
  /\ frames' = [frames EXCEPT ![f] = [fr EXCEPT !.pinCount = @ + 1]]
  /\ guards' = [guards EXCEPT ![g] = [page |-> p, frame |-> f, dirty |-> isDirty]]

FetchPage(g, p) ==
  /\ Open
  /\ guards[g] = NoGuard
  /\ p <= highestAllocated
  /\ Owned(p)
  /\ \E f \in FrameIndex : Fetch(p, f) /\ Hold(g, p, f, Fetched(p, f), FALSE)
  /\ UNCHANGED <<status, metaVars, call, live>>

FetchPageFails(p) ==
  /\ Open
  /\ p <= highestAllocated
  /\ Owned(p)
  /\ FetchMisreads(p)
  /\ UNCHANGED <<status, metaVars, guards, call, live>>

\* newPage with an empty free list; MaxPage bounds the runs here.
NewPageFresh(g) ==
  /\ Open /\ MayModify
  /\ guards[g] = NoGuard
  /\ freespaceHead = INVALID_PAGE
  /\ highestAllocated < MaxPage
  /\ highestAllocated' = highestAllocated + 1
  /\ \E f \in FrameIndex :
       /\ TakeFrame(highestAllocated', f)
       /\ Hold(g, highestAllocated', f,
               [pageNum |-> highestAllocated', pinCount |-> 0, dirty |-> TRUE,
                data |-> InitPage(highestAllocated', frames[f].data)], TRUE)
  /\ live' = live \cup {highestAllocated'}
  /\ UNCHANGED <<status, freespaceHead, appendStart, call>>

\* highestAllocated_ has been advanced when allocateFrame fails.
NewPageFreshFails ==
  /\ Open /\ MayModify
  /\ "noFrame" \in Usage
  /\ freespaceHead = INVALID_PAGE
  /\ highestAllocated < MaxPage
  /\ NoFrameToTake
  /\ highestAllocated' = highestAllocated + 1
  /\ UNCHANGED <<ioVars, status, poolVars, freespaceHead, appendStart, guards,
                 call, live>>

\* Mutant: the head of the free list is not advanced.
KeepFreespaceHead(img) == freespaceHead

\* The page after the head of the free list.
NextFree(img) == img.next

\* newPage takes the head of the free list; the page's `next' is the new head.
NewPageReused(g) ==
  LET p == freespaceHead IN
  /\ Open /\ MayModify
  /\ guards[g] = NoGuard
  /\ p # INVALID_PAGE /\ p <= highestAllocated
  /\ \E f \in FrameIndex :
       /\ Fetch(p, f)
       /\ freespaceHead' = NextFree(Fetched(p, f).data)
       /\ Hold(g, p, f, [Fetched(p, f) EXCEPT !.dirty = TRUE,
                                              !.data = InitPage(p, @)], TRUE)
  /\ live' = live \cup {p}
  /\ UNCHANGED <<status, appendStart, highestAllocated, call>>

NewPageReusedFails ==
  /\ Open /\ MayModify
  /\ freespaceHead # INVALID_PAGE /\ freespaceHead <= highestAllocated
  /\ FetchMisreads(freespaceHead)
  /\ UNCHANGED <<status, metaVars, guards, call, live>>

\* Mutant: a pinned page may be deleted.
AlwaysDeletable(p) == TRUE

Deletable(p) == FrameOf(p).pinCount = 0

\* deletePage links the page into the free list with setHeader, which does not
\* mark it dirty.  (A pinned page, and page 0, are refused.)
DeletePage(p) ==
  /\ Open /\ MayModify
  /\ "delete" \in Usage
  /\ p # 0 /\ Owned(p)
  /\ Cached(p)
  /\ Deletable(p)
  /\ Touch(p, pageMap[p])
  /\ frames' = [frames EXCEPT ![pageMap[p]].data.next = freespaceHead]
  /\ freespaceHead' = p
  /\ live' = live \ {p}
  /\ UNCHANGED <<status, appendStart, highestAllocated, guards, call>>

\* deletePage looks the pin count up with *pageMap_[pageNum]: for a page that
\* is not in the pool this dereferences a null iterator.
DeletePageAborts(p) ==
  /\ Open /\ MayModify
  /\ "deleteUncached" \in Usage
  /\ p # 0 /\ Owned(p)
  /\ ~Cached(p)
  /\ Lose("aborted")

-----------------------------------------------------------------------------
(* PageGuard. *)

\* span() or subspan(), and a write through it: the page is marked dirty unless
\* this guard has done so before.
WriteSpan(g, v) ==
  LET q == guards[g] IN
  /\ Open /\ MayModify
  /\ q # NoGuard
  /\ (q.dirty /\ ~frames[q.frame].dirty) => "staleSpan" \in Usage
  /\ frames' = [f \in FrameIndex |->
                  [frames[f] EXCEPT
                     !.data.body = IF f = q.frame THEN v ELSE @,
                     !.dirty = @ \/ (~q.dirty /\ f = pageMap[q.page])]]
  /\ guards' = [guards EXCEPT ![g].dirty = TRUE]
  /\ UNCHANGED <<ioVars, status, lruList, pageMap, nextFreeFrame, metaVars,
                 call, live>>

\* setHeader writes the header and does not mark the page dirty.  A client links
\* its pages to each other.
SetHeader(g, n) ==
  LET q == guards[g] IN
  /\ Open /\ MayModify
  /\ q # NoGuard
  /\ ~frames[q.frame].dirty => "headerOnly" \in Usage
  /\ n = INVALID_PAGE \/ Owned(n)
  /\ frames' = [frames EXCEPT ![q.frame].data.next = n]
  /\ UNCHANGED <<ioVars, status, lruList, pageMap, nextFreeFrame, metaVars,
                 guards, call, live>>

Unpin(p) == [frames EXCEPT ![pageMap[p]].pinCount = @ - 1]

\* reset() or the destructor.
ResetGuard(g) ==
  /\ Open
  /\ guards[g] # NoGuard
  /\ frames' = Unpin(guards[g].page)
  /\ guards' = [guards EXCEPT ![g] = NoGuard]
  /\ UNCHANGED <<ioVars, status, lruList, pageMap, nextFreeFrame, metaVars,
                 call, live>>

\* Mutant: the moved-from guard stays valid.
CopyTo(g, h) == [guards EXCEPT ![h] = guards[g]]

MoveTo(g, h) == [guards EXCEPT ![h] = guards[g], ![g] = NoGuard]

\* Move construction, or move assignment to a guard that may hold a page.
MoveGuard(g, h) ==
  /\ Open
  /\ g # h
  /\ guards[g] # NoGuard
  /\ frames' = IF guards[h] = NoGuard THEN frames ELSE Unpin(guards[h].page)
  /\ guards' = MoveTo(g, h)
  /\ UNCHANGED <<ioVars, status, lruList, pageMap, nextFreeFrame, metaVars,
                 call, live>>

-----------------------------------------------------------------------------
(* flushPage, flushAll, close and the destructor. *)

Unpinned == \A f \in FrameIndex : frames[f].pinCount = 0

\* flushPage: up to the page if it is at or above appendStart_, else the page.
FlushPage(p) ==
  /\ Open
  /\ IF Cached(p) THEN "flushPage" \in Usage ELSE "flushUncached" \in Usage
  /\ p \in live
  /\ call' = [op |-> "flushPage", last |-> p,
              at |-> IF p >= appendStart THEN appendStart ELSE p]
  /\ UNCHANGED <<ioVars, status, poolVars, metaVars, guards, live>>

MayStart(op) ==
  CASE op = "flushAll" -> "flushAll" \in Usage
    [] op = "close"    -> Unpinned /\ mode = ReadWrite
    [] op = "destroy"  -> Unpinned /\ mode = ReadWrite /\ "destroy" \in Usage

\* Mutant: the header counts one page too few, or one too many.
HeaderCountShort == highestAllocated
HeaderCountLong  == highestAllocated + 2

\* The number of pages updateFileHeader writes into the file header.
HeaderCount ==
  IF highestAllocated = INVALID_PAGE THEN 0 ELSE highestAllocated + 1

\* updateFileHeader has fetched page 0 into frame f; it is marked dirty.
PutFileHeader(f) ==
  frames' = [frames EXCEPT ![f] =
    [Fetched(0, f) EXCEPT
       !.dirty = TRUE,
       !.data.count = HeaderCount,
       !.data.free = freespaceHead]]

\* flushAll begins with updateFileHeader.
FlushAll(op) ==
  /\ Open
  /\ MayStart(op)
  /\ \E f \in FrameIndex : Fetch(0, f) /\ PutFileHeader(f)
  /\ call' = [op |-> op, at |-> 0, last |-> highestAllocated]
  /\ UNCHANGED <<status, metaVars, guards, live>>

\* updateFileHeader cannot fetch page 0; the destructor ignores the error.
FlushAllFails(op) ==
  /\ Open
  /\ MayStart(op)
  /\ ~Cached(0)
  /\ \/ /\ op # "destroy"
        /\ FetchMisreads(0)
        /\ UNCHANGED <<status, metaVars, guards, call, live>>
     \/ /\ op = "destroy"
        /\ NoFrameToTake \/ ~CanRead(0)
        /\ Lose("lost")

\* flush() of a page in the pool succeeds.
CanFlush(p) ==
  /\ mode = ReadWrite
  /\ FrameOf(p).dirty => CanWrite(p)

\* A loop has a page to flush; pages beyond MaxPage are out of bounds.
Flushing ==
  status = "open" /\ call # NoCall /\ call.at <= call.last /\ call.at <= MaxPage

\* Mutant: the loop stays where it is.
SamePage(c) == c

NextPage(c) == [c EXCEPT !.at = @ + 1]

\* flushPage's loop advances appendStart_ before it flushes, flushAll's after.
AppendStartAfter(p) ==
  IF p = appendStart THEN appendStart + 1 ELSE appendStart

\* One iteration.  flushAll passes over the pages that are not in the pool.
FlushOne ==
  LET p == call.at IN
  /\ Flushing
  /\ IF Cached(p)
     THEN /\ CanFlush(p)
          /\ WriteBack(pageMap[p])
          /\ frames' = [frames EXCEPT ![pageMap[p]].dirty = FALSE]
          /\ appendStart' = AppendStartAfter(p)
     ELSE /\ call.op # "flushPage"
          /\ UNCHANGED <<ioVars, frames, appendStart>>
  /\ call' = NextPage(call)
  /\ UNCHANGED <<status, lruList, pageMap, nextFreeFrame, freespaceHead,
                 highestAllocated, guards, live>>

\* flush() fails and the call returns the error; the destructor drops it.
FlushFails ==
  LET p == call.at IN
  /\ Flushing
  /\ IF Cached(p) THEN ~CanFlush(p)
                  ELSE call.op = "flushPage" /\ mode = ReadOnly
  /\ IF call.op = "destroy" THEN Lose("lost")
     ELSE /\ call' = NoCall
          /\ appendStart' = IF call.op = "flushPage" THEN AppendStartAfter(p)
                                                     ELSE appendStart
          /\ UNCHANGED <<ioVars, status, poolVars, freespaceHead,
                         highestAllocated, guards, live>>

\* flush() of a page that is not in the pool dereferences a null iterator.
FlushAborts ==
  /\ Flushing
  /\ call.op = "flushPage" /\ mode = ReadWrite
  /\ ~Cached(call.at)
  /\ Lose("aborted")

\* The loop is done.
FlushReturns ==
  /\ status = "open" /\ call # NoCall
  /\ call.at > call.last
  /\ IF call.op \in {"close", "destroy"}
     THEN EndSession("closed") /\ UNCHANGED <<file, live>>
     ELSE /\ call' = NoCall
          /\ UNCHANGED <<ioVars, status, poolVars, metaVars, guards, live>>

\* close() of a read-only pager flushes nothing.
CloseReadOnly ==
  /\ Open
  /\ Unpinned /\ mode = ReadOnly
  /\ EndSession("closed")
  /\ UNCHANGED <<file, live>>

\* close() asserts that no page is pinned.
ClosePinned ==
  /\ Open
  /\ "closePinned" \in Usage
  /\ ~Unpinned
  /\ Lose("aborted")

-----------------------------------------------------------------------------
ForeignFile == [exists |-> TRUE, torn |-> FALSE, pageCount |-> 1,
                image |-> [p \in PageNum |-> ZeroImage]]

Init ==
  /\ file = NoFile \/ ("foreignFile" \in Usage /\ file = ForeignFile)
  /\ mode = ReadWrite
  /\ good = TRUE
  /\ status = "closed"
  /\ frames = [f \in FrameIndex |-> EmptyFrame]
  /\ lruList = <<>>
  /\ pageMap = [p \in PageNum |-> NoFrame]
  /\ nextFreeFrame = 0
  /\ freespaceHead = INVALID_PAGE
  /\ appendStart = 0
  /\ highestAllocated = 0
  /\ guards = [g \in GuardId |-> NoGuard]
  /\ call = NoCall
  /\ live = {}

OpenModes == {ReadWrite} \cup (IF "readOnly" \in Usage THEN {ReadOnly} ELSE {})

OpenPager  == \E m \in OpenModes : OpenEmpty(m) \/ OpenExisting(m) \/ OpenRejected(m)
PageAction == \/ \E g \in GuardId, p \in PageNum : FetchPage(g, p)
              \/ \E p \in PageNum : \/ FetchPageFails(p)
                                    \/ DeletePage(p) \/ DeletePageAborts(p)
              \/ \E g \in GuardId : NewPageFresh(g) \/ NewPageReused(g)
              \/ NewPageFreshFails \/ NewPageReusedFails
GuardAction == \/ \E g \in GuardId, v \in Bodies : WriteSpan(g, v)
               \/ \E g \in GuardId, n \in Links : SetHeader(g, n)
               \/ \E g \in GuardId : ResetGuard(g)
               \/ \E g, h \in GuardId : MoveGuard(g, h)
FlushLoop   == FlushOne \/ FlushFails \/ FlushAborts \/ FlushReturns
FlushAction == \/ \E p \in PageNum : FlushPage(p)
               \/ \E op \in {"flushAll", "close", "destroy"} :
                    FlushAll(op) \/ FlushAllFails(op)
               \/ FlushLoop \/ CloseReadOnly \/ ClosePinned

Next == OpenPager \/ PageAction \/ GuardAction \/ FlushAction \/ Crash \/ StreamFails

Spec == Init /\ [][Next]_vars

-----------------------------------------------------------------------------
(* Properties of the pool. *)

\* The four structures of the pool agree: lruList_ holds each used frame once,
\* the pages of pageMap_ and the pageNum fields of the used frames are inverse
\* to each other, and no page beyond highestAllocated_ is in the pool.  They are
\* updated one after the other in allocateFrame and evictLastUsedPage.
PoolConsistent ==
  /\ IsInjective(lruList)
  /\ Range(lruList) = 0 .. nextFreeFrame - 1
  /\ \A p \in PageNum : Cached(p) =>
       /\ pageMap[p] < nextFreeFrame
       /\ FrameOf(p).pageNum = p
       /\ p <= highestAllocated
  /\ \A f \in 0 .. nextFreeFrame - 1 :
       frames[f].pageNum \in PageNum /\ pageMap[frames[f].pageNum] = f

Holders(f) == {g \in GuardId : guards[g] # NoGuard /\ guards[g].frame = f}

\* A frame's pinCount is the number of guards on it, and the bytes a guard
\* points to are those of its page: no frame is reused under a guard, whatever
\* is fetched, moved, reset, deleted or flushed meanwhile.
PinsMatchGuards ==
  /\ \A f \in FrameIndex : frames[f].pinCount = Cardinality(Holders(f))
  /\ \A g \in GuardId : guards[g] # NoGuard =>
       /\ guards[g].page \in PageNum
       /\ guards[g].frame # NoFrame
       /\ pageMap[guards[g].page] = guards[g].frame

\* A page whose frame may be dropped without writing it is on file as it is in
\* the frame: eviction forgets nothing.
CleanMatchesFile ==
  \A p \in PageNum : Cached(p) /\ ~FrameOf(p).dirty =>
    /\ p < file.pageCount
    /\ file.image[p] = FrameOf(p).data

\* A page the client owns can be had: it is in the pool or on file, and within
\* the range that fetchPage accepts.
LiveReachable ==
  \A p \in live :
    /\ Cached(p) \/ p < file.pageCount
    /\ IF status = "open" THEN p <= highestAllocated
                          ELSE p < file.image[0].count

-----------------------------------------------------------------------------
(* The pager as a store of pages (module Durability): the contents of a page *)
(* are those of its frame if it is in the pool, and those of the file if not.*)

Contents    == [next : PageLink, body : Bodies \cup {EmptyBody}]
Visible(i)  == [next |-> i.next, body |-> i.body]
ContentsOf(p) == Visible(IF Cached(p) THEN FrameOf(p).data ELSE file.image[p])

-----------------------------------------------------------------------------
(* The free list. *)

LinkOf(p) == IF Cached(p) THEN FrameOf(p).data.next
             ELSE IF p < file.pageCount THEN file.image[p].next
             ELSE INVALID_PAGE  \* the page cannot be read

\* The pages newPage would hand out one after the other, from freespaceHead_.
FreeList ==
  LET nth[n \in 0 .. MaxPage + 1] ==
        IF n = 0 THEN freespaceHead
        ELSE IF nth[n - 1] \in PageNum THEN LinkOf(nth[n - 1]) ELSE INVALID_PAGE
  IN {nth[n] : n \in 0 .. MaxPage + 1} \ {INVALID_PAGE}

\* newPage never hands out a page the client owns already.
FreeListNotLive == status = "open" => FreeList \cap live = {}

-----------------------------------------------------------------------------
(* Outcomes. *)

\* No operation kills the process.
NoAbort == status # "aborted"

\* On a stream that works, close() succeeds.
CloseSucceeds ==
  [][(call.op = "close" /\ call' = NoCall) => (~good \/ status' = "closed")]_vars

\* A file that a session has closed can be opened again: its size is a number of
\* pages and page 0 still passes validateFileHeader, whatever writes failed
\* half-way before and whatever the client did.
CloseLeavesOpenable ==
  [][status = "open" /\ status' = "closed" =>
       /\ ~file.torn
       /\ file.pageCount > 0 => file.image[0].magic /\ file.image[0].count > 0]_vars

\* Every flush loop ends, if the process goes on.
FlushEnds == call # NoCall ~> call = NoCall

FairSpec == Spec /\ WF_vars(FlushLoop)
=============================================================================
