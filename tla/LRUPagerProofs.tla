--------------------------- MODULE LRUPagerProofs ---------------------------
(***************************************************************************)
(* Theorems about LRUPager, for every size of the pool, every number of    *)
(* pages, guards and contents, and every use of the pager: type            *)
(* correctness, the structures of the pool agree, a page is never evicted  *)
(* under a guard, pins are neither lost nor returned twice, and the file   *)
(* that close leaves can be opened.                                        *)
(***************************************************************************)
EXTENDS LRUPager, SequenceTheorems, FiniteSetTheorems, TLAPS

-----------------------------------------------------------------------------
(* The list operators of the LRU order. *)

\* Cons puts an element in front and keeps the others in order.
LEMMA ConsFacts ==
  ASSUME NEW S, NEW e \in S, NEW s \in Seq(S)
  PROVE  /\ Cons(e, s) \in Seq(S)
         /\ Len(Cons(e, s)) = Len(s) + 1
         /\ Cons(e, s)[1] = e
         /\ \A j \in 2 .. Len(s) + 1 : Cons(e, s)[j] = s[j - 1]
<1>1. <<e>> \in Seq(S) /\ Len(<<e>>) = 1 /\ <<e>>[1] = e
  OBVIOUS
<1>2. Len(s) \in Nat
  BY LenProperties
<1> QED
  BY <1>1, <1>2, ConcatProperties, SMT DEF Cons

\* A new element keeps an injective list injective.
LEMMA ConsRange ==
  ASSUME NEW S, NEW e \in S, NEW s \in Seq(S)
  PROVE  /\ Range(Cons(e, s)) = Range(s) \cup {e}
         /\ IsInjective(s) /\ e \notin Range(s) => IsInjective(Cons(e, s))
<1> DEFINE c == Cons(e, s)
           n == Len(s)
<1>1. n \in Nat /\ DOMAIN s = 1 .. n
  BY LenProperties
<1>2. /\ c \in Seq(S)
      /\ Len(c) = n + 1
      /\ c[1] = e
      /\ \A j \in 2 .. n + 1 : c[j] = s[j - 1]
  BY ConsFacts
<1> HIDE DEF c
<1>3. DOMAIN c = 1 .. n + 1
  BY <1>2, LenProperties
<1> HIDE DEF n
<1>4. Range(s) = {s[k] : k \in 1 .. n} /\ Range(c) = {c[j] : j \in 1 .. n + 1}
  BY <1>1, <1>3 DEF Range
<1>5. ASSUME NEW j \in 1 .. n + 1, j # 1
      PROVE  j - 1 \in 1 .. n /\ c[j] = s[j - 1]
  <2>1. j \in 2 .. n + 1 /\ j - 1 \in 1 .. n
    BY <1>1, <1>5, SMT
  <2> QED
    BY <1>2, <2>1
<1>6. Range(c) = Range(s) \cup {e}
  <2>1. ASSUME NEW j \in 1 .. n + 1 PROVE c[j] \in Range(s) \cup {e}
    BY <1>2, <1>4, <1>5
  <2>2. e \in Range(c)
    <3>1. 1 \in 1 .. n + 1
      BY <1>1, SMT
    <3> QED
      BY <1>2, <1>4, <3>1
  <2>3. ASSUME NEW k \in 1 .. n PROVE s[k] \in Range(c)
    <3>1. k + 1 \in 1 .. n + 1 /\ k + 1 \in 2 .. n + 1 /\ (k + 1) - 1 = k
      BY <1>1, SMT
    <3>2. c[k + 1] = s[k]
      BY <1>2, <3>1
    <3> QED
      BY <1>4, <3>1, <3>2
  <2> QED
    BY <1>4, <2>1, <2>2, <2>3
<1>7. ASSUME IsInjective(s), e \notin Range(s)
      PROVE  IsInjective(c)
  <2> SUFFICES ASSUME NEW j \in 1 .. n + 1, NEW k \in 1 .. n + 1, c[j] = c[k]
               PROVE  j = k
    BY <1>3 DEF IsInjective
  <2>1. CASE j = 1 \/ k = 1
    BY <1>2, <1>4, <1>5, <1>7, <2>1
  <2>2. CASE j # 1 /\ k # 1
    <3>1. j - 1 = k - 1
      BY <1>1, <1>5, <1>7, <2>2 DEF IsInjective
    <3> QED
      BY <1>1, <3>1, SMT
  <2> QED
    BY <2>1, <2>2
<1> QED
  BY <1>6, <1>7 DEF c

\* RemoveAt drops one element and keeps the others in order.
LEMMA RemoveAtFacts ==
  ASSUME NEW S, NEW s \in Seq(S), NEW i \in 1 .. Len(s)
  PROVE  /\ RemoveAt(s, i) \in Seq(S)
         /\ Len(RemoveAt(s, i)) = Len(s) - 1
         /\ \A j \in 1 .. Len(s) - 1 :
              RemoveAt(s, i)[j] = IF j < i THEN s[j] ELSE s[j + 1]
<1> DEFINE a == SubSeq(s, 1, i - 1)
           b == SubSeq(s, i + 1, Len(s))
<1>1. Len(s) \in Nat /\ i \in Int
  BY LenProperties
<1>2. \A j \in 1 .. Len(s) : s[j] \in S
  BY ElementOfSeq
<1>3. /\ a \in Seq(S)
      /\ Len(a) = i - 1
      /\ \A j \in 1 .. i - 1 : a[j] = s[j]
  <2>1. \A j \in 1 .. i - 1 : s[j] \in S
    BY <1>1, <1>2
  <2> QED
    BY <1>1, <2>1, SubSeqProperties, SMT
<1>4. /\ b \in Seq(S)
      /\ Len(b) = Len(s) - i
      /\ \A j \in 1 .. Len(s) - i : b[j] = s[i + j]
  <2>1. \A j \in i + 1 .. Len(s) : s[j] \in S
    BY <1>1, <1>2
  <2> QED
    BY <1>1, <2>1, SubSeqProperties, SMT
<1>5. RemoveAt(s, i) = a \o b
  BY DEF RemoveAt
<1> HIDE DEF a, b
<1>6. /\ a \o b \in Seq(S)
      /\ Len(a \o b) = Len(a) + Len(b)
      /\ \A j \in 1 .. Len(a) + Len(b) :
           (a \o b)[j] = IF j <= Len(a) THEN a[j] ELSE b[j - Len(a)]
  BY <1>3, <1>4, ConcatProperties
<1>7. \A j \in 1 .. Len(s) - 1 : (a \o b)[j] = IF j < i THEN s[j] ELSE s[j + 1]
  <2>1. ASSUME NEW j \in 1 .. Len(s) - 1
        PROVE  (a \o b)[j] = IF j < i THEN s[j] ELSE s[j + 1]
    <3>1. Len(a) + Len(b) = Len(s) - 1 /\ j \in Int /\ i \in 1 .. Len(s)
      BY <1>1, <1>3, <1>4, SMT
    <3>2. CASE j < i
      <4>1. j \in 1 .. i - 1 /\ j <= Len(a)
        BY <3>1, <3>2, <1>1, <1>3, SMT
      <4> QED
        BY <4>1, <3>1, <3>2, <1>3, <1>6
    <3>3. CASE ~(j < i)
      <4>1. /\ ~(j <= Len(a))
            /\ j - Len(a) \in 1 .. Len(s) - i
            /\ i + (j - Len(a)) = j + 1
        BY <3>1, <3>3, <1>1, <1>3, SMT
      <4> QED
        BY <4>1, <3>1, <3>3, <1>4, <1>6
    <3> QED
      BY <3>2, <3>3
  <2> QED
    BY <2>1
<1> QED
  BY <1>1, <1>3, <1>4, <1>5, <1>6, <1>7, SMT

\* Moving an element to the front permutes the list.
LEMMA MoveToFrontFacts ==
  ASSUME NEW S, NEW s \in Seq(S), NEW i \in 1 .. Len(s)
  PROVE  /\ MoveToFront(s, i) \in Seq(S)
         /\ Range(MoveToFront(s, i)) = Range(s)
         /\ IsInjective(s) => IsInjective(MoveToFront(s, i))
<1> DEFINE r == RemoveAt(s, i)
           m == MoveToFront(s, i)
<1>1. Len(s) \in Nat /\ i \in Int /\ s[i] \in S /\ DOMAIN s = 1 .. Len(s)
  BY LenProperties, ElementOfSeq
<1>2. /\ r \in Seq(S)
      /\ Len(r) = Len(s) - 1
      /\ \A j \in 1 .. Len(s) - 1 : r[j] = IF j < i THEN s[j] ELSE s[j + 1]
  BY RemoveAtFacts
<1>3. m = Cons(s[i], r)
  BY DEF MoveToFront
<1> HIDE DEF r, m
<1>4. /\ m \in Seq(S)
      /\ Len(m) = Len(s)
      /\ m[1] = s[i]
      /\ \A j \in 2 .. Len(s) : m[j] = r[j - 1]
  <2>1. /\ Cons(s[i], r) \in Seq(S)
        /\ Len(Cons(s[i], r)) = Len(r) + 1
        /\ Cons(s[i], r)[1] = s[i]
        /\ \A j \in 2 .. Len(r) + 1 : Cons(s[i], r)[j] = r[j - 1]
    BY <1>1, <1>2, ConsFacts
  <2> QED
    BY <1>1, <1>2, <1>3, <2>1, SMT
<1>5. \A j \in 2 .. Len(s) : m[j] = IF j <= i THEN s[j - 1] ELSE s[j]
  BY <1>1, <1>2, <1>4, SMT
<1>6. DOMAIN m = 1 .. Len(s)
  BY <1>4, LenProperties
<1>7. Range(m) = Range(s)
  <2>1. \A j \in 1 .. Len(s) : \E k \in 1 .. Len(s) : m[j] = s[k]
    BY <1>1, <1>4, <1>5, SMT
  <2>2. ASSUME NEW k \in 1 .. Len(s)
        PROVE  \E j \in 1 .. Len(s) : s[k] = m[j]
    <3>1. CASE k = i
      BY <3>1, <1>1, <1>4, SMT
    <3>2. CASE k < i
      <4>1. k + 1 \in 2 .. Len(s) /\ k + 1 <= i /\ m[k + 1] = s[k]
        BY <3>2, <1>1, <1>5, SMT
      <4> QED
        BY <4>1, <1>1, SMT
    <3>3. CASE k > i
      <4>1. k \in 2 .. Len(s) /\ ~(k <= i)
        BY <3>3, <1>1, SMT
      <4>2. m[k] = s[k]
        BY <4>1, <1>5
      <4> QED
        BY <4>2
    <3> QED
      BY <3>1, <3>2, <3>3, <1>1, SMT
  <2> QED
    <3>1. Range(m) = {m[j] : j \in 1 .. Len(s)}
      BY <1>6 DEF Range
    <3>2. Range(s) = {s[k] : k \in 1 .. Len(s)}
      BY <1>1 DEF Range
    <3>3. Range(m) \subseteq Range(s)
      BY <2>1, <3>1, <3>2
    <3>4. Range(s) \subseteq Range(m)
      BY <2>2, <3>1, <3>2
    <3> QED
      BY <3>3, <3>4
<1>8. ASSUME IsInjective(s)
      PROVE  IsInjective(m)
  <2>1. \A j, k \in 1 .. Len(s) : s[j] = s[k] => j = k
    BY <1>8, <1>1 DEF IsInjective
  <2>2. ASSUME NEW j \in 1 .. Len(s), NEW k \in 1 .. Len(s), m[j] = m[k], j < k
        PROVE  FALSE
    <3>1. k \in 2 .. Len(s)
      BY <1>1, <2>2, SMT
    <3>2. CASE j = 1
      BY <1>1, <1>4, <1>5, <2>1, <2>2, <3>1, <3>2, SMT
    <3>3. CASE j # 1
      BY <1>1, <1>5, <2>1, <2>2, <3>1, <3>3, SMT
    <3> QED
      BY <3>2, <3>3
  <2> QED
    BY <2>2, <1>1, <1>6, SMT DEF IsInjective
<1> QED
  BY <1>4, <1>7, <1>8 DEF m

-----------------------------------------------------------------------------
(* Type correctness. *)

USE PagesAssumption, PagerAssumption

LEMMA ZeroImageType == ZeroImage \in PageImage
BY SMT DEF ZeroImage, PageImage, PageLink, PageNum

LEMMA EmptyFrameType == EmptyFrame \in Frame
BY ZeroImageType, SMT DEF EmptyFrame, Frame, PageLink

LEMMA InitPageType ==
  ASSUME NEW p, NEW img \in PageImage
  PROVE  InitPage(p, img) \in PageImage
<1>1. INVALID_PAGE \in PageLink /\ EmptyBody \in Bodies \cup {EmptyBody}
  BY DEF PageLink
<1>2. [img EXCEPT !.next = INVALID_PAGE, !.body = EmptyBody] \in PageImage
  BY <1>1 DEF PageImage
<1>3. [ZeroImage EXCEPT !.next = INVALID_PAGE] \in PageImage
  BY <1>1, ZeroImageType DEF PageImage
<1> QED
  BY <1>2, <1>3 DEF InitPage

\* A page number that can be written lies within the bounds.
LEMMA WritePageType ==
  ASSUME IOTypeOK, NEW p \in PageLink, NEW data \in PageImage, WritePage(p, data)
  PROVE  IOTypeOK'
<1>1. p \in PageNum
  BY SMT DEF IOTypeOK, FileType, WritePage, CanWrite, PageLink, PageNum
<1>2. file' \in FileType
  <2>1. [file.image EXCEPT ![p] = data] \in [PageNum -> PageImage]
    BY DEF IOTypeOK, FileType
  <2>2. (IF p = file.pageCount THEN p + 1 ELSE file.pageCount) \in 0 .. MaxPage + 1
    BY <1>1, SMT DEF IOTypeOK, FileType, PageNum
  <2>3. (file.torn /\ p # file.pageCount) \in BOOLEAN
    OBVIOUS
  <2>4. file' = [file EXCEPT !.image = [file.image EXCEPT ![p] = data],
                             !.torn = file.torn /\ p # file.pageCount,
                             !.pageCount = IF p = file.pageCount THEN p + 1
                                                                 ELSE file.pageCount]
    BY DEF WritePage, IOTypeOK, FileType
  <2> QED
    BY <2>1, <2>2, <2>3, <2>4 DEF IOTypeOK, FileType
<1> QED
  BY <1>2 DEF IOTypeOK, WritePage

LEMMA WriteBackType ==
  ASSUME IOTypeOK, frames \in [FrameIndex -> Frame], NEW f \in FrameIndex, WriteBack(f)
  PROVE  IOTypeOK'
<1>1. frames[f].pageNum \in PageLink /\ frames[f].data \in PageImage
  BY DEF Frame
<1>2. CASE frames[f].dirty
  BY <1>1, <1>2, WritePageType DEF WriteBack
<1>3. CASE ~frames[f].dirty
  BY <1>3 DEF WriteBack, ioVars, IOTypeOK
<1> QED
  BY <1>2, <1>3

LEMMA TakeFrameType ==
  ASSUME TypeOK, NEW p \in PageNum, NEW f \in FrameIndex, TakeFrame(p, f)
  PROVE  IOTypeOK' /\ ListTypeOK'
<1>1. CASE nextFreeFrame < PoolSize
  <2>1. /\ nextFreeFrame' = nextFreeFrame + 1
        /\ lruList' = Cons(f, lruList)
        /\ pageMap' = [pageMap EXCEPT ![p] = f]
        /\ UNCHANGED ioVars
    BY <1>1, SMT DEF TakeFrame
  <2>2. lruList' \in Seq(FrameIndex)
    BY <2>1, ConsFacts DEF TypeOK, ListTypeOK
  <2>3. pageMap' \in [PageNum -> FrameIndex \cup {NoFrame}]
    BY <2>1 DEF TypeOK, ListTypeOK
  <2>4. nextFreeFrame' \in 0 .. PoolSize
    BY <1>1, <2>1, SMT DEF TypeOK, ListTypeOK
  <2> QED
    BY <2>1, <2>2, <2>3, <2>4 DEF TypeOK, ListTypeOK, IOTypeOK, ioVars
<1>2. CASE nextFreeFrame = PoolSize
  <2>1. PICK i \in 1 .. Len(lruList) : lruList' = MoveToFront(lruList, i)
    BY <1>2, SMT DEF TakeFrame
  <2>2. lruList' \in Seq(FrameIndex)
    BY <2>1, MoveToFrontFacts DEF TypeOK, ListTypeOK
  <2>3. WriteBack(f) /\ pageMap' = Remap(p, f) /\ nextFreeFrame' = nextFreeFrame
    BY <1>2, SMT DEF TakeFrame
  <2>4. pageMap' \in [PageNum -> FrameIndex \cup {NoFrame}]
    BY <2>3 DEF TypeOK, ListTypeOK, Remap
  <2>5. IOTypeOK'
    BY <2>3, WriteBackType DEF TypeOK
  <2> QED
    BY <2>2, <2>3, <2>4, <2>5 DEF TypeOK, ListTypeOK
<1> QED
  BY <1>1, <1>2 DEF TakeFrame

LEMMA TouchType ==
  ASSUME TypeOK, NEW p \in PageNum, NEW f, Touch(p, f)
  PROVE  IOTypeOK' /\ ListTypeOK'
<1>1. PICK i \in 1 .. Len(lruList) : lruList' = MoveToFront(lruList, i)
  BY DEF Touch
<1>2. lruList' \in Seq(FrameIndex)
  BY <1>1, MoveToFrontFacts DEF TypeOK, ListTypeOK
<1> QED
  BY <1>2 DEF TypeOK, ListTypeOK, IOTypeOK, ioVars, Touch

LEMMA FetchType ==
  ASSUME TypeOK, NEW p \in PageNum, NEW f \in FrameIndex, Fetch(p, f)
  PROVE  IOTypeOK' /\ ListTypeOK' /\ Fetched(p, f) \in Frame
<1>1. IOTypeOK' /\ ListTypeOK'
  BY TakeFrameType, TouchType DEF Fetch
<1>2. file'.image[p] \in PageImage
  BY <1>1 DEF IOTypeOK, FileType
<1> QED
  BY <1>1, <1>2, SMT DEF Fetched, Frame, TypeOK, PageLink

LEMMA HoldType ==
  ASSUME TypeOK, NEW g \in GuardId, NEW p \in PageNum, NEW f \in FrameIndex,
         NEW fr \in Frame, NEW d \in BOOLEAN, Hold(g, p, f, fr, d)
  PROVE  frames' \in [FrameIndex -> Frame] /\ guards' \in [GuardId -> Guard]
<1>1. [fr EXCEPT !.pinCount = fr.pinCount + 1] \in Frame
  BY SMT DEF Frame
<1>2. [page |-> p, frame |-> f, dirty |-> d] \in Guard
  BY DEF Guard, PageLink
<1> QED
  BY <1>1, <1>2 DEF Hold, TypeOK, ClientTypeOK

LEMMA FetchMisreadsType ==
  ASSUME TypeOK, NEW p \in PageNum, FetchMisreads(p)
  PROVE  IOTypeOK' /\ ListTypeOK' /\ frames' \in [FrameIndex -> Frame]
<1>1. PICK f \in FrameIndex :
        TakeFrame(p, f) /\ frames' = [frames EXCEPT ![f].pageNum = p, ![f].dirty = FALSE]
  BY DEF FetchMisreads
<1>2. IOTypeOK' /\ ListTypeOK'
  BY <1>1, TakeFrameType
<1>3. [frames[f] EXCEPT !.pageNum = p, !.dirty = FALSE] \in Frame
  BY DEF TypeOK, Frame, PageLink
<1>4. frames' = [frames EXCEPT ![f] = [frames[f] EXCEPT !.pageNum = p, !.dirty = FALSE]]
  BY <1>1 DEF TypeOK, Frame
<1> QED
  BY <1>2, <1>3, <1>4 DEF TypeOK

LEMMA EndSessionType ==
  ASSUME TypeOK, NEW s \in {"closed", "lost", "aborted"}, EndSession(s),
         file' = file, live' \subseteq PageNum
  PROVE  TypeOK'
<1>1. frames' \in [FrameIndex -> Frame]
  BY EmptyFrameType DEF EndSession, EmptyPool
<1>2. ListTypeOK'
  <2>1. lruList' \in Seq(FrameIndex)
    BY EmptySeq DEF EndSession, EmptyPool
  <2> QED
    BY <2>1, SMT DEF EndSession, EmptyPool, ListTypeOK
<1>3. NoGuard \in Guard /\ NoCall \in Call
  BY SMT DEF NoGuard, Guard, NoCall, Call, PageLink, PageNum
<1>4. ClientTypeOK'
  BY <1>3 DEF EndSession, ClientTypeOK
<1>5. MetaTypeOK'
  BY SMT DEF EndSession, MetaTypeOK, PageLink, PageNum
<1>6. IOTypeOK'
  BY DEF EndSession, TypeOK, IOTypeOK
<1> QED
  BY <1>1, <1>2, <1>4, <1>5, <1>6 DEF TypeOK

LEMMA LoseType ==
  ASSUME TypeOK, NEW s \in {"closed", "lost", "aborted"}, Lose(s)
  PROVE  TypeOK'
<1>1. file' = file /\ live' \subseteq PageNum
  BY DEF Lose, TypeOK, ClientTypeOK
<1> QED
  BY <1>1, EndSessionType DEF Lose

LEMMA LoadPageZeroType ==
  ASSUME NEW img \in PageImage, NEW d \in BOOLEAN, LoadPageZero(img, d)
  PROVE  frames' \in [FrameIndex -> Frame] /\ ListTypeOK'
<1>1. 0 \in FrameIndex /\ 0 \in PageNum /\ 1 \in 0 .. PoolSize
  BY SMT DEF FrameIndex, PageNum
<1>2. [pageNum |-> 0, pinCount |-> 0, dirty |-> d, data |-> img] \in Frame
  BY <1>1 DEF Frame, PageLink
<1>3. <<0>> \in Seq(FrameIndex)
  BY <1>1
<1> QED
  BY <1>1, <1>2, <1>3, EmptyFrameType DEF LoadPageZero, ListTypeOK

LEMMA TypeInit == Init => TypeOK
<1> SUFFICES ASSUME Init PROVE TypeOK
  OBVIOUS
<1>1. 0 \in PageNum /\ 0 \in PageLink /\ INVALID_PAGE \in PageLink
  BY SMT DEF PageNum, PageLink
<1>2. IOTypeOK
  <2>1. NoFile \in FileType /\ ForeignFile \in FileType
    BY ZeroImageType, SMT DEF NoFile, ForeignFile, FileType
  <2> QED
    BY <2>1 DEF Init, IOTypeOK
<1>3. frames \in [FrameIndex -> Frame]
  BY EmptyFrameType DEF Init
<1>4. ListTypeOK
  <2>1. lruList \in Seq(FrameIndex)
    BY EmptySeq DEF Init
  <2> QED
    BY <2>1, SMT DEF Init, ListTypeOK
<1>5. MetaTypeOK
  BY <1>1, SMT DEF Init, MetaTypeOK
<1>6. ClientTypeOK
  <2>1. NoGuard \in Guard /\ NoCall \in Call
    BY <1>1, SMT DEF NoGuard, Guard, NoCall, Call
  <2> QED
    BY <2>1 DEF Init, ClientTypeOK
<1> QED
  BY <1>2, <1>3, <1>4, <1>5, <1>6 DEF TypeOK

LEMMA OpenType ==
  ASSUME TypeOK, NEW m \in OpenModes, OpenEmpty(m) \/ OpenExisting(m) \/ OpenRejected(m)
  PROVE  TypeOK'
<1>1. m \in {ReadWrite, ReadOnly}
  BY DEF OpenModes
<1>2. 0 \in PageNum /\ INVALID_PAGE \in PageLink
  BY SMT DEF PageNum, PageLink
<1>3. ASSUME OpenStream(m) PROVE IOTypeOK'
  BY <1>1, <1>3 DEF OpenStream, TypeOK, IOTypeOK, FileType
<1>4. file.image[0] \in PageImage
  BY <1>2 DEF TypeOK, IOTypeOK, FileType
<1>5. CASE OpenEmpty(m)
  <2> DEFINE header == [ZeroImage EXCEPT !.magic = TRUE, !.count = 1, !.free = INVALID_PAGE]
  <2>1. header \in PageImage
    <3>1. 1 \in 0 .. MaxPage + 1
      BY SMT
    <3> QED
      BY <1>2, <3>1, ZeroImageType DEF PageImage
  <2>2. InitPage(0, header) \in PageImage
    BY <2>1, InitPageType
  <2>3. LoadPageZero(InitPage(0, header), TRUE)
    BY <1>5 DEF OpenEmpty
  <2>4. frames' \in [FrameIndex -> Frame] /\ ListTypeOK'
    BY <2>2, <2>3, LoadPageZeroType
  <2>5. MetaTypeOK'
    BY <1>2, <1>5, SMT DEF OpenEmpty, MetaTypeOK, PageLink
  <2>6. ClientTypeOK'
    BY <1>2, <1>5 DEF OpenEmpty, ClientTypeOK, TypeOK
  <2> QED
    BY <1>3, <1>5, <2>4, <2>5, <2>6 DEF OpenEmpty, TypeOK
<1>6. CASE OpenExisting(m)
  <2>1. LoadPageZero(file.image[0], FALSE)
    BY <1>6 DEF OpenExisting
  <2>2. frames' \in [FrameIndex -> Frame] /\ ListTypeOK'
    BY <1>4, <2>1, LoadPageZeroType
  <2>3. file.image[0].count \in 0 .. MaxPage + 1 /\ file.image[0].free \in PageLink
    BY <1>4 DEF PageImage
  <2>4. MetaTypeOK'
    BY <1>2, <1>6, <2>3, SMT DEF OpenExisting, MetaTypeOK, PageLink, PageNum
  <2>5. ClientTypeOK'
    BY <1>2, <1>6 DEF OpenExisting, ClientTypeOK, TypeOK
  <2> QED
    BY <1>3, <1>6, <2>2, <2>4, <2>5 DEF OpenExisting, TypeOK
<1>7. CASE OpenRejected(m)
  <2>1. file' \in FileType
    <3>1. CASE UNCHANGED file
      BY <3>1 DEF TypeOK, IOTypeOK
    <3>2. CASE \E n \in 0 .. MaxPage + 1, q \in PageLink :
                 file' = [file EXCEPT !.image[0].count = n, !.image[0].free = q]
      <4>1. PICK n \in 0 .. MaxPage + 1, q \in PageLink :
              file' = [file EXCEPT !.image[0].count = n, !.image[0].free = q]
        BY <3>2
      <4>2. [file.image[0] EXCEPT !.count = n, !.free = q] \in PageImage
        BY <1>4 DEF PageImage
      <4>3. file' = [file EXCEPT !.image = [file.image EXCEPT ![0] =
                       [file.image[0] EXCEPT !.count = n, !.free = q]]]
        BY <1>2, <4>1 DEF TypeOK, IOTypeOK, FileType
      <4> QED
        BY <1>2, <4>2, <4>3 DEF TypeOK, IOTypeOK, FileType
    <3> QED
      BY <1>7, <3>1, <3>2 DEF OpenRejected
  <2> QED
    BY <1>7, <2>1 DEF OpenRejected, TypeOK, IOTypeOK, ListTypeOK, MetaTypeOK,
                      ClientTypeOK, poolVars, metaVars
<1> QED
  BY <1>5, <1>6, <1>7

LEMMA PageActionType ==
  ASSUME TypeOK, PageAction
  PROVE  TypeOK'
<1>1. ASSUME NEW g \in GuardId, NEW p \in PageNum, FetchPage(g, p) PROVE TypeOK'
  <2>1. PICK f \in FrameIndex : Fetch(p, f) /\ Hold(g, p, f, Fetched(p, f), FALSE)
    BY <1>1 DEF FetchPage
  <2>2. IOTypeOK' /\ ListTypeOK' /\ Fetched(p, f) \in Frame
    BY <2>1, FetchType
  <2>3. frames' \in [FrameIndex -> Frame] /\ guards' \in [GuardId -> Guard]
    BY <2>1, <2>2, HoldType
  <2> QED
    BY <1>1, <2>2, <2>3 DEF FetchPage, TypeOK, MetaTypeOK, ClientTypeOK, metaVars
<1>2. ASSUME NEW p \in PageNum, FetchPageFails(p) PROVE TypeOK'
  BY <1>2, FetchMisreadsType
     DEF FetchPageFails, TypeOK, MetaTypeOK, ClientTypeOK, metaVars
<1>3. ASSUME NEW p \in PageNum, DeletePage(p) PROVE TypeOK'
  <2>1. IOTypeOK' /\ ListTypeOK'
    BY <1>3, TouchType DEF DeletePage
  <2>2. frames' \in [FrameIndex -> Frame]
    <3> DEFINE f == pageMap[p]
    <3>1. f \in FrameIndex
      BY <1>3 DEF DeletePage, Cached, TypeOK, ListTypeOK
    <3>2. [frames[f].data EXCEPT !.next = freespaceHead] \in PageImage
      BY <3>1 DEF TypeOK, MetaTypeOK, Frame, PageImage
    <3>3. [frames[f] EXCEPT !.data = [frames[f].data EXCEPT !.next = freespaceHead]] \in Frame
      BY <3>1, <3>2 DEF TypeOK, Frame
    <3>4. frames' = [frames EXCEPT ![f] =
            [frames[f] EXCEPT !.data = [frames[f].data EXCEPT !.next = freespaceHead]]]
      BY <1>3 DEF DeletePage
    <3> QED
      BY <3>3, <3>4 DEF TypeOK
  <2> QED
    BY <1>3, <2>1, <2>2 DEF DeletePage, TypeOK, MetaTypeOK, ClientTypeOK, PageLink
<1>4. ASSUME NEW p \in PageNum, DeletePageAborts(p) PROVE TypeOK'
  BY <1>4, LoseType DEF DeletePageAborts
<1>5. ASSUME NEW g \in GuardId, NewPageFresh(g) PROVE TypeOK'
  <2> DEFINE p == highestAllocated + 1
             fr(f) == [pageNum |-> p, pinCount |-> 0, dirty |-> TRUE,
                       data |-> InitPage(p, frames[f].data)]
  <2>1. PICK f \in FrameIndex : TakeFrame(p, f) /\ Hold(g, p, f, fr(f), TRUE)
    BY <1>5 DEF NewPageFresh
  <2>2. p \in PageNum
    BY <1>5, SMT DEF NewPageFresh, TypeOK, MetaTypeOK, PageLink, PageNum
  <2>3. IOTypeOK' /\ ListTypeOK'
    BY <2>1, <2>2, TakeFrameType
  <2>4. fr(f) \in Frame
    <3>1. frames[f].data \in PageImage
      BY DEF TypeOK, Frame
    <3> QED
      BY <2>2, <3>1, InitPageType DEF Frame, PageLink
  <2>5. frames' \in [FrameIndex -> Frame] /\ guards' \in [GuardId -> Guard]
    BY <2>1, <2>2, <2>4, HoldType
  <2>6. MetaTypeOK' /\ live' \subseteq PageNum
    BY <1>5, <2>2 DEF NewPageFresh, TypeOK, MetaTypeOK, ClientTypeOK, PageLink
  <2> QED
    BY <1>5, <2>3, <2>5, <2>6 DEF NewPageFresh, TypeOK, ClientTypeOK
<1>6. ASSUME NEW g \in GuardId, NewPageReused(g) PROVE TypeOK'
  <2> DEFINE p == freespaceHead
             fr(f) == [Fetched(p, f) EXCEPT !.dirty = TRUE,
                                            !.data = InitPage(p, Fetched(p, f).data)]
  <2>1. PICK f \in FrameIndex : /\ Fetch(p, f)
                                /\ freespaceHead' = NextFree(Fetched(p, f).data)
                                /\ Hold(g, p, f, fr(f), TRUE)
    BY <1>6 DEF NewPageReused
  <2>2. p \in PageNum
    BY <1>6 DEF NewPageReused, TypeOK, MetaTypeOK, PageLink
  <2>3. IOTypeOK' /\ ListTypeOK' /\ Fetched(p, f) \in Frame
    BY <2>1, <2>2, FetchType
  <2>4. fr(f) \in Frame
    <3>1. Fetched(p, f).data \in PageImage
      BY <2>3 DEF Frame
    <3> QED
      BY <2>3, <3>1, InitPageType DEF Frame
  <2>5. frames' \in [FrameIndex -> Frame] /\ guards' \in [GuardId -> Guard]
    BY <2>1, <2>2, <2>4, HoldType
  <2>6. MetaTypeOK' /\ live' \subseteq PageNum
    BY <1>6, <2>1, <2>2, <2>3
       DEF NewPageReused, TypeOK, MetaTypeOK, ClientTypeOK, NextFree, Frame, PageImage
  <2> QED
    BY <1>6, <2>3, <2>5, <2>6 DEF NewPageReused, TypeOK, ClientTypeOK
<1>7. CASE NewPageFreshFails
  <2>1. highestAllocated' \in PageLink
    BY <1>7, SMT DEF NewPageFreshFails, TypeOK, MetaTypeOK, PageLink, PageNum
  <2> QED
    BY <1>7, <2>1 DEF NewPageFreshFails, TypeOK, IOTypeOK, ListTypeOK, MetaTypeOK,
                      ClientTypeOK, ioVars, poolVars
<1>8. CASE NewPageReusedFails
  <2>1. freespaceHead \in PageNum
    BY <1>8 DEF NewPageReusedFails, TypeOK, MetaTypeOK, PageLink
  <2> QED
    BY <1>8, <2>1, FetchMisreadsType
       DEF NewPageReusedFails, TypeOK, MetaTypeOK, ClientTypeOK, metaVars
<1> QED
  BY <1>1, <1>2, <1>3, <1>4, <1>5, <1>6, <1>7, <1>8 DEF PageAction

LEMMA UnpinType ==
  ASSUME TypeOK, NEW p
  PROVE  Unpin(p) \in [FrameIndex -> Frame]
<1>1. CASE pageMap[p] \in FrameIndex
  <2> DEFINE f == pageMap[p]
  <2>1. [frames[f] EXCEPT !.pinCount = frames[f].pinCount - 1] \in Frame
    BY <1>1, SMT DEF TypeOK, Frame
  <2> QED
    BY <1>1, <2>1 DEF Unpin, TypeOK
<1>2. CASE pageMap[p] \notin FrameIndex
  BY <1>2 DEF Unpin, TypeOK
<1> QED
  BY <1>1, <1>2

LEMMA GuardActionType ==
  ASSUME TypeOK, GuardAction
  PROVE  TypeOK'
<1>1. ASSUME NEW g \in GuardId, NEW v \in Bodies, WriteSpan(g, v) PROVE TypeOK'
  <2> DEFINE q == guards[g]
             fr(f) == [frames[f] EXCEPT
                         !.data.body = IF f = q.frame THEN v ELSE frames[f].data.body,
                         !.dirty = frames[f].dirty \/ (~q.dirty /\ f = pageMap[q.page])]
  <2>1. frames' = [f \in FrameIndex |-> fr(f)]
    BY <1>1 DEF WriteSpan
  <2>2. ASSUME NEW f \in FrameIndex PROVE fr(f) \in Frame
    <3> DEFINE b == IF f = q.frame THEN v ELSE frames[f].data.body
               d == frames[f].dirty \/ (~q.dirty /\ f = pageMap[q.page])
    <3>1. frames[f] \in Frame /\ frames[f].data \in PageImage
      BY DEF TypeOK, Frame
    <3>2. b \in Bodies \cup {EmptyBody} /\ d \in BOOLEAN
      BY <3>1 DEF PageImage, Frame
    <3>3. [frames[f].data EXCEPT !.body = b] \in PageImage
      BY <3>1, <3>2 DEF PageImage
    <3>4. fr(f) = [frames[f] EXCEPT !.data = [frames[f].data EXCEPT !.body = b],
                                    !.dirty = d]
      BY <3>1 DEF Frame
    <3> HIDE DEF b, d, fr
    <3> QED
      BY <3>1, <3>2, <3>3, <3>4 DEF Frame
  <2> HIDE DEF fr
  <2>3. frames' \in [FrameIndex -> Frame]
    BY <2>1, <2>2
  <2>4. guards' \in [GuardId -> Guard]
    BY <1>1 DEF WriteSpan, TypeOK, ClientTypeOK, Guard
  <2> QED
    BY <1>1, <2>3, <2>4 DEF WriteSpan, TypeOK, IOTypeOK, ListTypeOK, MetaTypeOK,
                            ClientTypeOK, ioVars, metaVars
<1>2. ASSUME NEW g \in GuardId, NEW n \in Links, SetHeader(g, n) PROVE TypeOK'
  <2> DEFINE f == guards[g].frame
  <2>1. frames' = [frames EXCEPT ![f].data.next = n]
    BY <1>2 DEF SetHeader
  <2>2. frames' \in [FrameIndex -> Frame]
    <3>1. CASE f \in FrameIndex
      <4>1. frames[f] \in Frame /\ frames[f].data \in PageImage /\ n \in PageLink
        BY <3>1 DEF TypeOK, Frame
      <4>2. [frames[f].data EXCEPT !.next = n] \in PageImage
        BY <4>1 DEF PageImage
      <4>3. [frames[f] EXCEPT !.data = [frames[f].data EXCEPT !.next = n]] \in Frame
        BY <4>1, <4>2 DEF Frame
      <4> QED
        BY <2>1, <3>1, <4>3 DEF TypeOK
    <3>2. CASE f \notin FrameIndex
      BY <2>1, <3>2 DEF TypeOK
    <3> QED
      BY <3>1, <3>2
  <2> QED
    BY <1>2, <2>2 DEF SetHeader, TypeOK, IOTypeOK, ListTypeOK, MetaTypeOK,
                      ClientTypeOK, ioVars, metaVars
<1>3. NoGuard \in Guard
  BY DEF NoGuard, Guard, PageLink
<1>4. ASSUME NEW g \in GuardId, ResetGuard(g) PROVE TypeOK'
  <2>1. frames' \in [FrameIndex -> Frame]
    BY <1>4, UnpinType DEF ResetGuard
  <2>2. guards' \in [GuardId -> Guard]
    BY <1>3, <1>4 DEF ResetGuard, TypeOK, ClientTypeOK
  <2> QED
    BY <1>4, <2>1, <2>2 DEF ResetGuard, TypeOK, IOTypeOK, ListTypeOK, MetaTypeOK,
                            ClientTypeOK, ioVars, metaVars
<1>5. ASSUME NEW g \in GuardId, NEW h \in GuardId, MoveGuard(g, h) PROVE TypeOK'
  <2>1. frames' \in [FrameIndex -> Frame]
    BY <1>5, UnpinType DEF MoveGuard, TypeOK
  <2>2. guards' \in [GuardId -> Guard]
    BY <1>3, <1>5 DEF MoveGuard, MoveTo, TypeOK, ClientTypeOK
  <2> QED
    BY <1>5, <2>1, <2>2 DEF MoveGuard, TypeOK, IOTypeOK, ListTypeOK, MetaTypeOK,
                            ClientTypeOK, ioVars, metaVars
<1> QED
  BY <1>1, <1>2, <1>4, <1>5 DEF GuardAction

LEMMA FlushActionType ==
  ASSUME TypeOK, FlushAction
  PROVE  TypeOK'
<1>1. NoCall \in Call
  BY SMT DEF NoCall, Call, PageLink, PageNum
<1>2. ASSUME NEW p \in PageNum, FlushPage(p) PROVE TypeOK'
  <2>1. (IF p >= appendStart THEN appendStart ELSE p) \in 0 .. MaxPage + 1
    BY SMT DEF PageNum, TypeOK, MetaTypeOK
  <2>2. call' \in Call
    BY <1>2, <2>1 DEF FlushPage, Call, PageLink
  <2> QED
    BY <1>2, <2>2 DEF FlushPage, TypeOK, IOTypeOK, ListTypeOK, MetaTypeOK,
                      ClientTypeOK, ioVars, poolVars, metaVars
<1>3. ASSUME NEW op \in {"flushAll", "close", "destroy"}, FlushAll(op) PROVE TypeOK'
  <2>1. PICK f \in FrameIndex : Fetch(0, f) /\ PutFileHeader(f)
    BY <1>3 DEF FlushAll
  <2>2. 0 \in PageNum
    BY SMT DEF PageNum
  <2>3. IOTypeOK' /\ ListTypeOK' /\ Fetched(0, f) \in Frame
    BY <2>1, <2>2, FetchType
  <2>4. frames' \in [FrameIndex -> Frame]
    <3> DEFINE fr == Fetched(0, f)
    <3>1. HeaderCount \in 0 .. MaxPage + 1
      BY SMT DEF HeaderCount, TypeOK, MetaTypeOK, PageLink, PageNum
    <3>2. [fr.data EXCEPT !.count = HeaderCount, !.free = freespaceHead] \in PageImage
      BY <2>3, <3>1 DEF Frame, PageImage, TypeOK, MetaTypeOK
    <3>3. [fr EXCEPT !.dirty = TRUE,
                     !.data = [fr.data EXCEPT !.count = HeaderCount,
                                              !.free = freespaceHead]] \in Frame
      BY <2>3, <3>2 DEF Frame
    <3>4. frames' = [frames EXCEPT ![f] =
            [fr EXCEPT !.dirty = TRUE,
                       !.data = [fr.data EXCEPT !.count = HeaderCount,
                                                !.free = freespaceHead]]]
      BY <2>1, <2>3 DEF PutFileHeader, Frame
    <3> QED
      BY <3>3, <3>4 DEF TypeOK
  <2>5. call' \in Call
    BY <1>3, SMT DEF FlushAll, Call, TypeOK, MetaTypeOK
  <2> QED
    BY <1>3, <2>3, <2>4, <2>5 DEF FlushAll, TypeOK, MetaTypeOK, ClientTypeOK, metaVars
<1>4. ASSUME NEW op \in {"flushAll", "close", "destroy"}, FlushAllFails(op) PROVE TypeOK'
  <2>1. 0 \in PageNum
    BY SMT DEF PageNum
  <2>2. CASE op # "destroy"
    <3>1. FetchMisreads(0) /\ UNCHANGED <<status, metaVars, guards, call, live>>
      BY <1>4, <2>2 DEF FlushAllFails
    <3> QED
      BY <2>1, <3>1, FetchMisreadsType DEF TypeOK, MetaTypeOK, ClientTypeOK, metaVars
  <2>3. CASE op = "destroy"
    BY <1>4, <2>3, LoseType DEF FlushAllFails
  <2> QED
    BY <2>2, <2>3
<1>5. CASE FlushOne
  <2> DEFINE p == call.at
             f == pageMap[p]
  <2>1. p \in PageNum /\ NextPage(call) \in Call
    BY <1>5, SMT DEF FlushOne, Flushing, TypeOK, ClientTypeOK, Call, PageNum, NextPage
  <2>2. call' \in Call
    BY <1>5, <2>1 DEF FlushOne
  <2>3. CASE Cached(p)
    <3>1. f \in FrameIndex
      BY <2>1, <2>3 DEF Cached, TypeOK, ListTypeOK
    <3>2. /\ WriteBack(f)
          /\ frames' = [frames EXCEPT ![f].dirty = FALSE]
          /\ appendStart' = AppendStartAfter(p)
      BY <1>5, <2>3 DEF FlushOne
    <3>3. IOTypeOK'
      BY <3>1, <3>2, WriteBackType DEF TypeOK
    <3>4. frames' \in [FrameIndex -> Frame]
      <4>1. [frames[f] EXCEPT !.dirty = FALSE] \in Frame
        BY <3>1 DEF TypeOK, Frame
      <4> QED
        BY <3>1, <3>2, <4>1 DEF TypeOK
    <3>5. appendStart' \in 0 .. MaxPage + 1
      BY <2>1, <3>2, SMT DEF AppendStartAfter, TypeOK, MetaTypeOK, PageNum
    <3> QED
      BY <1>5, <2>2, <3>3, <3>4, <3>5
         DEF FlushOne, TypeOK, ListTypeOK, MetaTypeOK, ClientTypeOK
  <2>4. CASE ~Cached(p)
    <3>1. UNCHANGED <<ioVars, frames, appendStart>>
      BY <1>5, <2>4 DEF FlushOne
    <3> QED
      BY <1>5, <2>2, <3>1
         DEF FlushOne, TypeOK, IOTypeOK, ListTypeOK, MetaTypeOK, ClientTypeOK, ioVars
  <2> QED
    BY <2>3, <2>4
<1>6. CASE FlushFails
  <2>1. CASE call.op = "destroy"
    BY <1>6, <2>1, LoseType DEF FlushFails
  <2>2. CASE call.op # "destroy"
    <3>1. AppendStartAfter(call.at) \in 0 .. MaxPage + 1
      BY <1>6, SMT DEF FlushFails, Flushing, AppendStartAfter, TypeOK, MetaTypeOK,
                       ClientTypeOK, Call
    <3>2. appendStart' \in 0 .. MaxPage + 1
      BY <1>6, <2>2, <3>1 DEF FlushFails, TypeOK, MetaTypeOK
    <3> QED
      BY <1>1, <1>6, <2>2, <3>2
         DEF FlushFails, TypeOK, IOTypeOK, ListTypeOK, MetaTypeOK, ClientTypeOK,
             ioVars, poolVars
  <2> QED
    BY <2>1, <2>2
<1>7. CASE FlushAborts
  BY <1>7, LoseType DEF FlushAborts
<1>8. CASE FlushReturns
  <2>1. CASE call.op \in {"close", "destroy"}
    BY <1>8, <2>1, EndSessionType DEF FlushReturns, TypeOK, ClientTypeOK
  <2>2. CASE call.op \notin {"close", "destroy"}
    BY <1>1, <1>8, <2>2
       DEF FlushReturns, TypeOK, IOTypeOK, ListTypeOK, MetaTypeOK, ClientTypeOK,
           ioVars, poolVars, metaVars
  <2> QED
    BY <2>1, <2>2
<1>9. CASE CloseReadOnly
  BY <1>9, EndSessionType DEF CloseReadOnly, TypeOK, ClientTypeOK
<1>10. CASE ClosePinned
  BY <1>10, LoseType DEF ClosePinned
<1> QED
  BY <1>2, <1>3, <1>4, <1>5, <1>6, <1>7, <1>8, <1>9, <1>10 DEF FlushAction, FlushLoop

LEMMA TypeStep == TypeOK /\ [Next]_vars => TypeOK'
<1> SUFFICES ASSUME TypeOK, [Next]_vars PROVE TypeOK'
  OBVIOUS
<1>1. CASE OpenPager
  BY <1>1, OpenType DEF OpenPager
<1>2. CASE PageAction
  BY <1>2, PageActionType
<1>3. CASE GuardAction
  BY <1>3, GuardActionType
<1>4. CASE FlushAction
  BY <1>4, FlushActionType
<1>5. CASE Crash
  BY <1>5, LoseType DEF Crash
<1>6. CASE StreamFails
  <2>1. IOTypeOK'
    BY <1>6 DEF StreamFails, FailStream, TearAppend, TypeOK, IOTypeOK, FileType
  <2> QED
    BY <1>6, <2>1 DEF StreamFails, TypeOK, ListTypeOK, MetaTypeOK, ClientTypeOK,
                      poolVars, metaVars
<1>7. CASE UNCHANGED vars
  BY <1>7 DEF vars, TypeOK, IOTypeOK, ListTypeOK, MetaTypeOK, ClientTypeOK, ioVars,
              poolVars, metaVars
<1> QED
  BY <1>1, <1>2, <1>3, <1>4, <1>5, <1>6, <1>7 DEF Next

\* Every variable keeps its type: in particular page numbers, links, list indices
\* and the fields of the file header stay within their bounds.
THEOREM TypeCorrect == Spec => []TypeOK
BY TypeInit, TypeStep, PTL DEF Spec

-----------------------------------------------------------------------------
(* The structures of the pool agree. *)

\* The used frames are the elements of lruList_.
LEMMA UsedFrames ==
  ASSUME TypeOK, PoolConsistent, NEW i \in 1 .. Len(lruList)
  PROVE  lruList[i] \in 0 .. nextFreeFrame - 1
<1>1. DOMAIN lruList = 1 .. Len(lruList)
  BY LenProperties DEF TypeOK, ListTypeOK
<1>2. lruList[i] \in Range(lruList)
  BY <1>1 DEF Range
<1> QED
  BY <1>2 DEF PoolConsistent

\* Steps that leave the lists and the frames' page numbers alone.
LEMMA PoolUnchanged ==
  ASSUME TypeOK, PoolConsistent, TypeOK',
         UNCHANGED <<lruList, pageMap, nextFreeFrame>>,
         \A f \in FrameIndex : frames'[f].pageNum = frames[f].pageNum,
         highestAllocated <= highestAllocated'
  PROVE  PoolConsistent'
<1>1. ASSUME NEW r \in PageNum, Cached(r)'
      PROVE  (pageMap[r] < nextFreeFrame /\ FrameOf(r).pageNum = r /\ r <= highestAllocated)'
  <2>1. pageMap[r] \in FrameIndex /\ Cached(r)
    BY <1>1 DEF Cached, TypeOK, ListTypeOK
  <2>2. pageMap[r] < nextFreeFrame /\ FrameOf(r).pageNum = r /\ r <= highestAllocated
    BY <2>1 DEF PoolConsistent
  <2>3. r <= highestAllocated'
    BY <2>2, SMT DEF TypeOK, MetaTypeOK, PageLink, PageNum
  <2> QED
    BY <2>1, <2>2, <2>3 DEF FrameOf
<1>2. ASSUME NEW f \in 0 .. nextFreeFrame' - 1
      PROVE  frames'[f].pageNum \in PageNum /\ pageMap'[frames'[f].pageNum] = f
  <2>1. f \in FrameIndex /\ f \in 0 .. nextFreeFrame - 1
    BY SMT DEF FrameIndex, TypeOK, ListTypeOK
  <2> QED
    BY <2>1 DEF PoolConsistent
<1> QED
  BY <1>1, <1>2 DEF PoolConsistent

\* A page that was not in the pool has got frame f.
LEMMA TakeFramePool ==
  ASSUME TypeOK, PoolConsistent, TypeOK',
         NEW p \in PageNum, NEW f \in FrameIndex, ~Cached(p), TakeFrame(p, f),
         frames'[f].pageNum = p,
         \A k \in FrameIndex \ {f} : frames'[k].pageNum = frames[k].pageNum,
         p <= highestAllocated', highestAllocated <= highestAllocated'
  PROVE  PoolConsistent'
<1>0. /\ nextFreeFrame \in 0 .. PoolSize
      /\ lruList \in Seq(FrameIndex)
      /\ Len(lruList) \in Nat
      /\ DOMAIN lruList = 1 .. Len(lruList)
  BY LenProperties DEF TypeOK, ListTypeOK
<1>1. CASE nextFreeFrame < PoolSize
  <2>1. /\ f = nextFreeFrame
        /\ nextFreeFrame' = nextFreeFrame + 1
        /\ lruList' = Cons(f, lruList)
        /\ pageMap' = [pageMap EXCEPT ![p] = f]
    BY <1>1, SMT DEF TakeFrame
  <2>2. Range(lruList) = 0 .. f - 1 /\ IsInjective(lruList) /\ f \notin Range(lruList)
    BY <2>1, SMT DEF PoolConsistent, FrameIndex
  <2>3. Range(Cons(f, lruList)) = Range(lruList) \cup {f} /\ IsInjective(Cons(f, lruList))
    BY <1>0, <2>2, ConsRange
  <2>4. 0 .. nextFreeFrame' - 1 = (0 .. f - 1) \cup {f}
    BY <1>0, <2>1, SMT
  <2>5. IsInjective(lruList)'
    BY <2>1, <2>3
  <2>6. Range(lruList') = 0 .. nextFreeFrame' - 1
    BY <2>1, <2>2, <2>3, <2>4
  <2>7. ASSUME NEW r \in PageNum, Cached(r)'
        PROVE  (pageMap[r] < nextFreeFrame /\ FrameOf(r).pageNum = r /\ r <= highestAllocated)'
    <3>1. CASE r = p
      <4>1. pageMap'[r] = f
        BY <2>1, <3>1 DEF TypeOK, ListTypeOK
      <4> QED
        BY <1>0, <2>1, <3>1, <4>1, SMT DEF FrameOf
    <3>2. CASE r # p
      <4>1. pageMap'[r] = pageMap[r] /\ Cached(r)
        BY <2>1, <2>7, <3>2 DEF TypeOK, ListTypeOK, Cached
      <4>2. pageMap[r] < nextFreeFrame /\ FrameOf(r).pageNum = r /\ r <= highestAllocated
        BY <4>1 DEF PoolConsistent
      <4>3. pageMap[r] \in FrameIndex
        BY <4>1 DEF Cached, TypeOK, ListTypeOK
      <4>4. pageMap[r] # f
        BY <2>1, <4>2, <4>3, SMT DEF FrameIndex
      <4>5. r <= highestAllocated' /\ pageMap[r] < nextFreeFrame'
        BY <1>0, <2>1, <4>2, <4>3, SMT DEF TypeOK, MetaTypeOK, PageLink, PageNum, FrameIndex
      <4> QED
        BY <4>1, <4>2, <4>3, <4>4, <4>5 DEF FrameOf
    <3> QED
      BY <3>1, <3>2
  <2>8. ASSUME NEW k \in 0 .. nextFreeFrame' - 1
        PROVE  frames'[k].pageNum \in PageNum /\ pageMap'[frames'[k].pageNum] = k
    <3>1. CASE k = f
      BY <2>1, <3>1 DEF TypeOK, ListTypeOK
    <3>2. CASE k # f
      <4>1. k \in 0 .. nextFreeFrame - 1 /\ k \in FrameIndex \ {f}
        BY <1>0, <1>1, <2>1, <3>2, SMT DEF FrameIndex
      <4>2. frames[k].pageNum \in PageNum /\ pageMap[frames[k].pageNum] = k
        BY <4>1 DEF PoolConsistent
      <4>3. frames[k].pageNum # p
        BY <4>1, <4>2, SMT DEF Cached, NoFrame, FrameIndex
      <4> QED
        BY <2>1, <4>1, <4>2, <4>3 DEF TypeOK, ListTypeOK
    <3> QED
      BY <3>1, <3>2
  <2> QED
    BY <2>5, <2>6, <2>7, <2>8 DEF PoolConsistent
<1>2. CASE nextFreeFrame = PoolSize
  <2> DEFINE q == frames[f].pageNum
  <2>1. PICK i \in 1 .. Len(lruList) :
          f = lruList[i] /\ lruList' = MoveToFront(lruList, i)
    BY <1>2, SMT DEF TakeFrame
  <2>2. pageMap' = Remap(p, f) /\ nextFreeFrame' = nextFreeFrame
    BY <1>2, SMT DEF TakeFrame
  <2>3. IsInjective(lruList)' /\ Range(lruList') = 0 .. nextFreeFrame' - 1
    BY <1>0, <2>1, <2>2, MoveToFrontFacts DEF PoolConsistent
  <2>4. f \in 0 .. nextFreeFrame - 1
    BY <2>1, UsedFrames
  <2>5. q \in PageNum /\ pageMap[q] = f
    BY <2>4 DEF PoolConsistent
  <2>6. q # p
    BY <2>5, SMT DEF Cached, NoFrame, FrameIndex
  <2>7. /\ pageMap'[p] = f
        /\ pageMap'[q] = NoFrame
        /\ \A r \in PageNum \ {p, q} : pageMap'[r] = pageMap[r]
    BY <2>2, <2>5, <2>6 DEF Remap, TypeOK, ListTypeOK
  <2>8. ASSUME NEW r \in PageNum, Cached(r)'
        PROVE  (pageMap[r] < nextFreeFrame /\ FrameOf(r).pageNum = r /\ r <= highestAllocated)'
    <3>1. CASE r = p
      BY <1>0, <2>2, <2>4, <2>7, <3>1, SMT DEF FrameOf
    <3>2. CASE r = q
      BY <2>7, <2>8, <3>2 DEF Cached
    <3>3. CASE r \notin {p, q}
      <4>1. pageMap'[r] = pageMap[r] /\ Cached(r)
        BY <2>7, <2>8, <3>3 DEF Cached
      <4>2. pageMap[r] < nextFreeFrame /\ FrameOf(r).pageNum = r /\ r <= highestAllocated
        BY <4>1 DEF PoolConsistent
      <4>3. pageMap[r] \in FrameIndex
        BY <4>1 DEF Cached, TypeOK, ListTypeOK
      <4>4. pageMap[r] # f
        BY <3>3, <4>2 DEF FrameOf
      <4>5. r <= highestAllocated'
        BY <4>2, SMT DEF TypeOK, MetaTypeOK, PageLink, PageNum
      <4> QED
        BY <2>2, <4>1, <4>2, <4>3, <4>4, <4>5 DEF FrameOf
    <3> QED
      BY <3>1, <3>2, <3>3
  <2>9. ASSUME NEW k \in 0 .. nextFreeFrame' - 1
        PROVE  frames'[k].pageNum \in PageNum /\ pageMap'[frames'[k].pageNum] = k
    <3>1. CASE k = f
      BY <2>7, <3>1
    <3>2. CASE k # f
      <4>1. k \in 0 .. nextFreeFrame - 1 /\ k \in FrameIndex \ {f}
        BY <1>0, <1>2, <2>2, <3>2, SMT DEF FrameIndex
      <4>2. frames[k].pageNum \in PageNum /\ pageMap[frames[k].pageNum] = k
        BY <4>1 DEF PoolConsistent
      <4>3. frames[k].pageNum # p /\ frames[k].pageNum # q
        BY <2>5, <3>2, <4>1, <4>2, SMT DEF Cached, NoFrame, FrameIndex
      <4> QED
        BY <2>7, <4>1, <4>2, <4>3
    <3> QED
      BY <3>1, <3>2
  <2> QED
    BY <2>3, <2>8, <2>9 DEF PoolConsistent
<1> QED
  BY <1>1, <1>2 DEF TakeFrame

\* A page of the pool has been moved to the front.
LEMMA TouchPool ==
  ASSUME TypeOK, PoolConsistent, TypeOK', NEW p, NEW f, Touch(p, f),
         \A k \in FrameIndex : frames'[k].pageNum = frames[k].pageNum,
         highestAllocated' = highestAllocated
  PROVE  PoolConsistent'
<1>1. PICK i \in 1 .. Len(lruList) : lruList' = MoveToFront(lruList, i)
  BY DEF Touch
<1>2. lruList \in Seq(FrameIndex) /\ UNCHANGED <<pageMap, nextFreeFrame>>
  BY DEF TypeOK, ListTypeOK, Touch
<1>3. IsInjective(lruList)' /\ Range(lruList') = 0 .. nextFreeFrame' - 1
  BY <1>1, <1>2, MoveToFrontFacts DEF PoolConsistent
<1>4. ASSUME NEW r \in PageNum, Cached(r)'
      PROVE  (pageMap[r] < nextFreeFrame /\ FrameOf(r).pageNum = r /\ r <= highestAllocated)'
  <2>1. pageMap[r] \in FrameIndex /\ Cached(r)
    BY <1>2, <1>4 DEF Cached, TypeOK, ListTypeOK
  <2> QED
    BY <1>2, <2>1 DEF PoolConsistent, FrameOf
<1>5. ASSUME NEW k \in 0 .. nextFreeFrame' - 1
      PROVE  frames'[k].pageNum \in PageNum /\ pageMap'[frames'[k].pageNum] = k
  <2>1. k \in FrameIndex /\ k \in 0 .. nextFreeFrame - 1
    BY <1>2, SMT DEF FrameIndex, TypeOK, ListTypeOK
  <2> QED
    BY <1>2, <2>1 DEF PoolConsistent
<1> QED
  BY <1>3, <1>4, <1>5 DEF PoolConsistent

LEMMA CachedFrame ==
  ASSUME TypeOK, PoolConsistent, NEW p \in PageNum, Cached(p)
  PROVE  pageMap[p] \in FrameIndex /\ frames[pageMap[p]].pageNum = p
BY DEF Cached, FrameOf, PoolConsistent, TypeOK, ListTypeOK

LEMMA FetchPool ==
  ASSUME TypeOK, PoolConsistent, TypeOK',
         NEW p \in PageNum, NEW f \in FrameIndex, Fetch(p, f),
         frames'[f].pageNum = Fetched(p, f).pageNum,
         \A k \in FrameIndex \ {f} : frames'[k].pageNum = frames[k].pageNum,
         p <= highestAllocated, highestAllocated' = highestAllocated
  PROVE  PoolConsistent'
<1>1. highestAllocated <= highestAllocated'
  BY SMT DEF TypeOK, MetaTypeOK, PageLink, PageNum
<1>2. CASE Cached(p) /\ Touch(p, f)
  <2>1. frames'[f].pageNum = frames[f].pageNum
    BY <1>2 DEF Fetched
  <2> QED
    BY <1>2, <2>1, TouchPool
<1>3. CASE ~Cached(p) /\ TakeFrame(p, f)
  <2>1. frames'[f].pageNum = p
    BY <1>3 DEF Fetched
  <2> QED
    BY <1>1, <1>3, <2>1, TakeFramePool
<1> QED
  BY <1>2, <1>3 DEF Fetch

LEMMA FetchMisreadsPool ==
  ASSUME TypeOK, PoolConsistent, TypeOK', NEW p \in PageNum, FetchMisreads(p),
         p <= highestAllocated, highestAllocated' = highestAllocated
  PROVE  PoolConsistent'
<1>1. PICK f \in FrameIndex :
        TakeFrame(p, f) /\ frames' = [frames EXCEPT ![f].pageNum = p, ![f].dirty = FALSE]
  BY DEF FetchMisreads
<1>2. frames'[f].pageNum = p
  BY <1>1 DEF TypeOK, Frame
<1>3. \A k \in FrameIndex \ {f} : frames'[k].pageNum = frames[k].pageNum
  BY <1>1 DEF TypeOK
<1>4. ~Cached(p) /\ highestAllocated <= highestAllocated'
  BY SMT DEF FetchMisreads, TypeOK, MetaTypeOK, PageLink, PageNum
<1> QED
  BY <1>1, <1>2, <1>3, <1>4, TakeFramePool

LEMMA EmptyPoolPool ==
  ASSUME EmptyPool PROVE PoolConsistent'
<1>1. IsInjective(lruList)' /\ Range(lruList') = {}
  BY SMT DEF EmptyPool, IsInjective, Range
<1>2. 0 .. nextFreeFrame' - 1 = {}
  BY SMT DEF EmptyPool
<1> QED
  BY <1>1, <1>2 DEF EmptyPool, PoolConsistent, Cached

LEMMA LosePool ==
  ASSUME NEW s, Lose(s) PROVE PoolConsistent'
BY EmptyPoolPool DEF Lose, EndSession

LEMMA LoadPageZeroPool ==
  ASSUME NEW img, NEW d, LoadPageZero(img, d), 0 <= highestAllocated'
  PROVE  PoolConsistent'
<1>1. 0 \in FrameIndex /\ 0 \in PageNum /\ 0 # NoFrame
  BY SMT DEF FrameIndex, PageNum, NoFrame
<1>2. IsInjective(lruList)' /\ Range(lruList') = {0}
  BY SMT DEF LoadPageZero, IsInjective, Range
<1>3. 0 .. nextFreeFrame' - 1 = {0}
  BY SMT DEF LoadPageZero
<1>4. frames'[0].pageNum = 0 /\ pageMap'[0] = 0
  BY <1>1 DEF LoadPageZero
<1>5. \A r \in PageNum : Cached(r)' => r = 0
  BY DEF LoadPageZero, Cached
<1>6. 0 < nextFreeFrame'
  BY SMT DEF LoadPageZero
<1> QED
  BY <1>1, <1>2, <1>3, <1>4, <1>5, <1>6 DEF PoolConsistent, FrameOf

\* Steps that change neither the lists nor the frames.
LEMMA SamePool ==
  ASSUME TypeOK, PoolConsistent, TypeOK',
         UNCHANGED poolVars, highestAllocated' = highestAllocated
  PROVE  PoolConsistent'
<1>1. highestAllocated <= highestAllocated'
  BY SMT DEF TypeOK, MetaTypeOK, PageLink, PageNum
<1> QED
  BY <1>1, PoolUnchanged DEF poolVars

\* Guards change the contents, dirty bits and pins of frames only.
LEMMA GuardActionPool ==
  ASSUME TypeOK, PoolConsistent, TypeOK', GuardAction
  PROVE  PoolConsistent'
<1>1. \A p : \A k \in FrameIndex : Unpin(p)[k].pageNum = frames[k].pageNum
  BY DEF Unpin, TypeOK, Frame
<1> DEFINE Same == /\ \A k \in FrameIndex : frames'[k].pageNum = frames[k].pageNum
                   /\ UNCHANGED <<lruList, pageMap, nextFreeFrame, highestAllocated>>
<1>2. Same
  <2>1. ASSUME NEW g \in GuardId, NEW v \in Bodies, WriteSpan(g, v) PROVE Same
    BY <2>1 DEF WriteSpan, TypeOK, Frame, metaVars
  <2>2. ASSUME NEW g \in GuardId, NEW n \in Links, SetHeader(g, n) PROVE Same
    BY <2>2 DEF SetHeader, TypeOK, Frame, metaVars
  <2>3. ASSUME NEW g \in GuardId, ResetGuard(g) PROVE Same
    BY <1>1, <2>3 DEF ResetGuard, metaVars
  <2>4. ASSUME NEW g \in GuardId, NEW h \in GuardId, MoveGuard(g, h) PROVE Same
    BY <1>1, <2>4 DEF MoveGuard, metaVars
  <2> QED
    BY <2>1, <2>2, <2>3, <2>4 DEF GuardAction
<1>3. highestAllocated <= highestAllocated'
  BY <1>2, SMT DEF TypeOK, MetaTypeOK, PageLink, PageNum
<1> QED
  BY <1>2, <1>3, PoolUnchanged

LEMMA PageActionPool ==
  ASSUME TypeOK, PoolConsistent, TypeOK', PageAction
  PROVE  PoolConsistent'
<1>1. ASSUME NEW g \in GuardId, NEW p \in PageNum, FetchPage(g, p) PROVE PoolConsistent'
  <2>1. PICK f \in FrameIndex : Fetch(p, f) /\ Hold(g, p, f, Fetched(p, f), FALSE)
    BY <1>1 DEF FetchPage
  <2>2. frames'[f].pageNum = Fetched(p, f).pageNum
    BY <2>1, FetchType DEF Hold, TypeOK, Frame
  <2>3. \A k \in FrameIndex \ {f} : frames'[k].pageNum = frames[k].pageNum
    BY <2>1 DEF Hold, TypeOK
  <2> QED
    BY <1>1, <2>1, <2>2, <2>3, FetchPool DEF FetchPage, metaVars
<1>2. ASSUME NEW p \in PageNum, FetchPageFails(p) PROVE PoolConsistent'
  BY <1>2, FetchMisreadsPool DEF FetchPageFails, metaVars
<1>3. ASSUME NEW p \in PageNum, DeletePage(p) PROVE PoolConsistent'
  <2>1. \A k \in FrameIndex : frames'[k].pageNum = frames[k].pageNum
    BY <1>3 DEF DeletePage, TypeOK, Frame
  <2> QED
    BY <1>3, <2>1, TouchPool DEF DeletePage
<1>4. ASSUME NEW p \in PageNum, DeletePageAborts(p) PROVE PoolConsistent'
  BY <1>4, LosePool DEF DeletePageAborts
<1>5. ASSUME NEW g \in GuardId, NewPageFresh(g) PROVE PoolConsistent'
  <2> DEFINE p == highestAllocated + 1
             fr(f) == [pageNum |-> p, pinCount |-> 0, dirty |-> TRUE,
                       data |-> InitPage(p, frames[f].data)]
  <2>1. PICK f \in FrameIndex : TakeFrame(p, f) /\ Hold(g, p, f, fr(f), TRUE)
    BY <1>5 DEF NewPageFresh
  <2>2. p \in PageNum /\ p = highestAllocated' /\ highestAllocated <= p /\ p <= p
        /\ ~(p <= highestAllocated)
    BY <1>5, SMT DEF NewPageFresh, TypeOK, MetaTypeOK, PageLink, PageNum
  <2>3. ~Cached(p)
    BY <2>2 DEF PoolConsistent
  <2>4. frames'[f].pageNum = p
    BY <2>1 DEF Hold, TypeOK
  <2>5. \A k \in FrameIndex \ {f} : frames'[k].pageNum = frames[k].pageNum
    BY <2>1 DEF Hold, TypeOK
  <2> HIDE DEF p, fr
  <2> QED
    BY <2>1, <2>2, <2>3, <2>4, <2>5, TakeFramePool
<1>6. ASSUME NEW g \in GuardId, NewPageReused(g) PROVE PoolConsistent'
  <2> DEFINE p == freespaceHead
             fr(f) == [Fetched(p, f) EXCEPT !.dirty = TRUE,
                                            !.data = InitPage(p, Fetched(p, f).data)]
  <2>1. PICK f \in FrameIndex : Fetch(p, f) /\ Hold(g, p, f, fr(f), TRUE)
    BY <1>6 DEF NewPageReused
  <2>2. p \in PageNum /\ p <= highestAllocated
    BY <1>6 DEF NewPageReused, TypeOK, MetaTypeOK, PageLink
  <2>3. frames'[f].pageNum = Fetched(p, f).pageNum
    BY <2>1, <2>2, FetchType DEF Hold, TypeOK, Frame
  <2>4. \A k \in FrameIndex \ {f} : frames'[k].pageNum = frames[k].pageNum
    BY <2>1 DEF Hold, TypeOK
  <2> QED
    BY <1>6, <2>1, <2>2, <2>3, <2>4, FetchPool DEF NewPageReused
<1>7. CASE NewPageFreshFails
  <2>1. highestAllocated <= highestAllocated'
    BY <1>7, SMT DEF NewPageFreshFails, TypeOK, MetaTypeOK, PageLink, PageNum
  <2> QED
    BY <1>7, <2>1, PoolUnchanged DEF NewPageFreshFails, poolVars
<1>8. CASE NewPageReusedFails
  <2>1. freespaceHead \in PageNum
    BY <1>8 DEF NewPageReusedFails, TypeOK, MetaTypeOK, PageLink
  <2> QED
    BY <1>8, <2>1, FetchMisreadsPool DEF NewPageReusedFails, metaVars
<1> QED
  BY <1>1, <1>2, <1>3, <1>4, <1>5, <1>6, <1>7, <1>8 DEF PageAction

LEMMA FlushActionPool ==
  ASSUME TypeOK, PoolConsistent, TypeOK', FlushAction
  PROVE  PoolConsistent'
<1>1. 0 \in PageNum /\ 0 <= highestAllocated /\ highestAllocated <= highestAllocated
  BY SMT DEF TypeOK, MetaTypeOK, PageLink, PageNum
<1>2. ASSUME NEW p \in PageNum, FlushPage(p) PROVE PoolConsistent'
  BY <1>2, SamePool DEF FlushPage, metaVars
<1>3. ASSUME NEW op \in {"flushAll", "close", "destroy"}, FlushAll(op)
      PROVE  PoolConsistent'
  <2>1. PICK f \in FrameIndex : Fetch(0, f) /\ PutFileHeader(f)
    BY <1>3 DEF FlushAll
  <2>2. frames'[f].pageNum = Fetched(0, f).pageNum
    BY <1>1, <2>1, FetchType DEF PutFileHeader, TypeOK, Frame
  <2>3. \A k \in FrameIndex \ {f} : frames'[k].pageNum = frames[k].pageNum
    BY <2>1 DEF PutFileHeader, TypeOK
  <2> QED
    BY <1>1, <1>3, <2>1, <2>2, <2>3, FetchPool DEF FlushAll, metaVars
<1>4. ASSUME NEW op \in {"flushAll", "close", "destroy"}, FlushAllFails(op)
      PROVE  PoolConsistent'
  BY <1>1, <1>4, FetchMisreadsPool, LosePool DEF FlushAllFails, metaVars
<1>5. CASE FlushOne
  <2>1. \A k \in FrameIndex : frames'[k].pageNum = frames[k].pageNum
    BY <1>5 DEF FlushOne, TypeOK, Frame
  <2> QED
    BY <1>1, <1>5, <2>1, PoolUnchanged DEF FlushOne
<1>6. CASE FlushFails
  BY <1>6, LosePool, SamePool DEF FlushFails
<1>7. CASE FlushAborts
  BY <1>7, LosePool DEF FlushAborts
<1>8. CASE FlushReturns
  BY <1>8, EmptyPoolPool, SamePool DEF FlushReturns, EndSession, metaVars
<1>9. CASE CloseReadOnly
  BY <1>9, EmptyPoolPool DEF CloseReadOnly, EndSession
<1>10. CASE ClosePinned
  BY <1>10, LosePool DEF ClosePinned
<1> QED
  BY <1>2, <1>3, <1>4, <1>5, <1>6, <1>7, <1>8, <1>9, <1>10 DEF FlushAction, FlushLoop

LEMMA PoolInit == Init => PoolConsistent
<1> SUFFICES ASSUME Init PROVE PoolConsistent
  OBVIOUS
<1>1. IsInjective(lruList) /\ Range(lruList) = {}
  BY SMT DEF Init, IsInjective, Range
<1>2. 0 .. nextFreeFrame - 1 = {}
  BY SMT DEF Init
<1> QED
  BY <1>1, <1>2 DEF Init, PoolConsistent, Cached

LEMMA PoolStep == TypeOK /\ TypeOK' /\ PoolConsistent /\ [Next]_vars => PoolConsistent'
<1> SUFFICES ASSUME TypeOK, TypeOK', PoolConsistent, [Next]_vars PROVE PoolConsistent'
  OBVIOUS
<1>1. ASSUME NEW m \in OpenModes, OpenEmpty(m) \/ OpenExisting(m) \/ OpenRejected(m)
      PROVE  PoolConsistent'
  <2>1. 0 <= highestAllocated'
    BY SMT DEF TypeOK, MetaTypeOK, PageLink, PageNum
  <2>2. CASE OpenEmpty(m)
    BY <2>1, <2>2, LoadPageZeroPool DEF OpenEmpty
  <2>3. CASE OpenExisting(m)
    BY <2>1, <2>3, LoadPageZeroPool DEF OpenExisting
  <2>4. CASE OpenRejected(m)
    BY <2>4, SamePool DEF OpenRejected, metaVars
  <2> QED
    BY <1>1, <2>2, <2>3, <2>4
<1>2. CASE PageAction
  BY <1>2, PageActionPool
<1>3. CASE GuardAction
  BY <1>3, GuardActionPool
<1>4. CASE FlushAction
  BY <1>4, FlushActionPool
<1>5. CASE Crash
  BY <1>5, LosePool DEF Crash
<1>6. CASE StreamFails
  BY <1>6, SamePool DEF StreamFails, metaVars
<1>7. CASE UNCHANGED vars
  BY <1>7, SamePool DEF vars, metaVars
<1> QED
  BY <1>1, <1>2, <1>3, <1>4, <1>5, <1>6, <1>7 DEF Next, OpenPager

\* Whatever the client does and whenever the stream fails, lruList_ holds every
\* used frame once and pageMap_ and the frames' page numbers are inverse.
THEOREM PoolIsConsistent == Spec => []PoolConsistent
BY TypeInit, TypeStep, PoolInit, PoolStep, PTL DEF Spec

-----------------------------------------------------------------------------
(* Holders of a frame. *)

LEMMA HoldersFinite ==
  ASSUME NEW f
  PROVE  IsFiniteSet(Holders(f)) /\ Cardinality(Holders(f)) \in Nat
<1>1. Holders(f) \in SUBSET GuardId
  BY DEF Holders
<1> QED
  BY <1>1, FS_Subset, FS_CardinalityType

\* What PinsMatchGuards says of a guard that holds a page.
LEMMA HeldGuard ==
  ASSUME PinsMatchGuards, TypeOK, NEW g \in GuardId, guards[g] # NoGuard
  PROVE  /\ guards[g].page \in PageNum
         /\ guards[g].frame \in FrameIndex
         /\ pageMap[guards[g].page] = guards[g].frame
         /\ Cached(guards[g].page)
BY DEF PinsMatchGuards, TypeOK, ClientTypeOK, Guard, Cached

\* A frame that allocateFrame hands out is held by no guard.
LEMMA TakenFrameUnheld ==
  ASSUME TypeOK, PoolConsistent, PinsMatchGuards,
         NEW p \in PageNum, NEW f \in FrameIndex, ~Cached(p), TakeFrame(p, f)
  PROVE  /\ Holders(f) = {}
         /\ frames[f].pinCount = 0
         /\ pageMap'[p] = f
         /\ \A g \in GuardId : guards[g] # NoGuard =>
              pageMap'[guards[g].page] = guards[g].frame
<1>1. Cardinality(Holders(f)) = 0 => Holders(f) = {}
  BY HoldersFinite, FS_EmptySet
<1>2. \A g \in GuardId : guards[g] # NoGuard => guards[g].page # p
  BY HeldGuard
<1>3. CASE nextFreeFrame < PoolSize
  <2>1. f = nextFreeFrame /\ pageMap' = [pageMap EXCEPT ![p] = f]
    BY <1>3, SMT DEF TakeFrame
  <2>2. ASSUME NEW g \in Holders(f) PROVE FALSE
    <3>1. g \in GuardId /\ guards[g] # NoGuard /\ guards[g].frame = f
      BY DEF Holders
    <3>2. guards[g].page \in PageNum /\ pageMap[guards[g].page] = f
      BY <3>1, HeldGuard
    <3>3. pageMap[guards[g].page] < nextFreeFrame
      BY <3>1, <3>2, HeldGuard DEF PoolConsistent
    <3> QED
      BY <2>1, <3>2, <3>3, SMT DEF FrameIndex
  <2>3. Holders(f) = {}
    BY <2>2
  <2>4. frames[f].pinCount = 0
    BY <2>3, FS_EmptySet DEF PinsMatchGuards
  <2>5. pageMap'[p] = f
    BY <2>1 DEF TypeOK, ListTypeOK
  <2>6. ASSUME NEW g \in GuardId, guards[g] # NoGuard
        PROVE  pageMap'[guards[g].page] = guards[g].frame
    BY <1>2, <2>1, <2>6, HeldGuard DEF TypeOK, ListTypeOK
  <2> QED
    BY <2>3, <2>4, <2>5, <2>6
<1>4. CASE nextFreeFrame = PoolSize
  <2>1. PICK i \in 1 .. Len(lruList) : Victim(i) /\ f = lruList[i]
    BY <1>4, SMT DEF TakeFrame
  <2>2. pageMap' = Remap(p, f)
    BY <1>4, SMT DEF TakeFrame
  <2>3. frames[f].pinCount = 0
    BY <2>1 DEF Victim
  <2>4. Holders(f) = {}
    BY <1>1, <2>3 DEF PinsMatchGuards
  <2>5. pageMap'[p] = f
    BY <2>2 DEF Remap, TypeOK, ListTypeOK
  <2>6. f \in 0 .. nextFreeFrame - 1
    BY <2>1, UsedFrames
  <2>7. frames[f].pageNum \in PageNum /\ pageMap[frames[f].pageNum] = f
    BY <2>6 DEF PoolConsistent
  <2>8. ASSUME NEW g \in GuardId, guards[g] # NoGuard
        PROVE  pageMap'[guards[g].page] = guards[g].frame
    <3>1. guards[g].frame # f
      BY <2>4, <2>8 DEF Holders
    <3>2. guards[g].page # frames[f].pageNum
      BY <2>7, <2>8, <3>1, HeldGuard
    <3> QED
      BY <1>2, <2>2, <2>8, <3>2, HeldGuard DEF Remap, TypeOK, ListTypeOK
  <2> QED
    BY <2>3, <2>4, <2>5, <2>8
<1> QED
  BY <1>3, <1>4 DEF TakeFrame

-----------------------------------------------------------------------------
(* Steps that leave the guards alone. *)

LEMMA GuardsUnchangedPins ==
  ASSUME TypeOK, TypeOK', PinsMatchGuards, UNCHANGED guards,
         \A f \in FrameIndex : frames'[f].pinCount = frames[f].pinCount,
         \A g \in GuardId : guards[g] # NoGuard =>
           pageMap'[guards[g].page] = guards[g].frame
  PROVE  PinsMatchGuards'
<1>1. \A f \in FrameIndex : Holders(f)' = Holders(f)
  BY DEF Holders
<1>2. \A f \in FrameIndex : frames'[f].pinCount = Cardinality(Holders(f)')
  BY <1>1 DEF PinsMatchGuards
<1> QED
  BY <1>2 DEF PinsMatchGuards

LEMMA NoGuardsPins ==
  ASSUME guards' = [g \in GuardId |-> NoGuard],
         \A f \in FrameIndex : frames'[f].pinCount = 0
  PROVE  PinsMatchGuards'
<1>1. \A f \in FrameIndex : Holders(f)' = {}
  BY DEF Holders
<1> QED
  BY <1>1, FS_EmptySet DEF PinsMatchGuards

LEMMA EndSessionPins ==
  ASSUME NEW s, EndSession(s) PROVE PinsMatchGuards'
BY NoGuardsPins DEF EndSession, EmptyPool, EmptyFrame

LEMMA FetchMisreadsPins ==
  ASSUME TypeOK, TypeOK', PoolConsistent, PinsMatchGuards, UNCHANGED guards,
         NEW p \in PageNum, FetchMisreads(p)
  PROVE  PinsMatchGuards'
<1>1. PICK f \in FrameIndex :
        TakeFrame(p, f) /\ frames' = [frames EXCEPT ![f].pageNum = p, ![f].dirty = FALSE]
  BY DEF FetchMisreads
<1>2. \A k \in FrameIndex : frames'[k].pinCount = frames[k].pinCount
  BY <1>1 DEF TypeOK, Frame
<1> QED
  BY <1>1, <1>2, TakenFrameUnheld, GuardsUnchangedPins DEF FetchMisreads

-----------------------------------------------------------------------------
(* A new guard on a page. *)

\* What fetching leaves of the pins: the frame is the page's, has its pins, and
\* no guard loses its page.
LEMMA FetchPins ==
  ASSUME TypeOK, PoolConsistent, PinsMatchGuards,
         NEW p \in PageNum, NEW f \in FrameIndex, Fetch(p, f)
  PROVE  /\ Fetched(p, f).pinCount = frames[f].pinCount
         /\ pageMap'[p] = f
         /\ \A g \in GuardId : guards[g] # NoGuard =>
              pageMap'[guards[g].page] = guards[g].frame
<1>1. CASE Cached(p) /\ Touch(p, f)
  BY <1>1, HeldGuard DEF Fetched, Touch
<1>2. CASE ~Cached(p) /\ TakeFrame(p, f)
  BY <1>2, TakenFrameUnheld DEF Fetched
<1> QED
  BY <1>1, <1>2 DEF Fetch

LEMMA HoldPins ==
  ASSUME TypeOK, TypeOK', PinsMatchGuards,
         NEW g \in GuardId, guards[g] = NoGuard,
         NEW p \in PageNum, NEW f \in FrameIndex, NEW fr \in Frame, NEW d \in BOOLEAN,
         Hold(g, p, f, fr, d), fr.pinCount = frames[f].pinCount,
         pageMap'[p] = f,
         \A h \in GuardId : guards[h] # NoGuard =>
           pageMap'[guards[h].page] = guards[h].frame
  PROVE  PinsMatchGuards'
<1> DEFINE q == [page |-> p, frame |-> f, dirty |-> d]
<1>1. q # NoGuard
  <2>1. p # INVALID_PAGE
    BY SMT DEF PageNum
  <2> QED
    BY <2>1 DEF NoGuard
<1>2. guards'[g] = q /\ \A h \in GuardId \ {g} : guards'[h] = guards[h]
  BY DEF Hold, TypeOK, ClientTypeOK
<1>3. Holders(f)' = Holders(f) \cup {g} /\ g \notin Holders(f)
  BY <1>1, <1>2 DEF Holders
<1>4. \A k \in FrameIndex \ {f} : Holders(k)' = Holders(k)
  BY <1>1, <1>2 DEF Holders
<1>5. frames'[f].pinCount = frames[f].pinCount + 1
  BY DEF Hold, TypeOK, Frame
<1>6. \A k \in FrameIndex \ {f} : frames'[k].pinCount = frames[k].pinCount
  BY DEF Hold, TypeOK
<1>7. \A k \in FrameIndex : frames'[k].pinCount = Cardinality(Holders(k)')
  <2>1. frames'[f].pinCount = Cardinality(Holders(f)')
    <3>1. Cardinality(Holders(f) \cup {g}) = Cardinality(Holders(f)) + 1
      BY <1>3, HoldersFinite, FS_AddElement
    <3> QED
      BY <1>3, <1>5, <3>1 DEF PinsMatchGuards
  <2> QED
    BY <2>1, <1>4, <1>6 DEF PinsMatchGuards
<1>8. ASSUME NEW h \in GuardId, guards'[h] # NoGuard
      PROVE  /\ guards'[h].page \in PageNum
             /\ guards'[h].frame # NoFrame
             /\ pageMap'[guards'[h].page] = guards'[h].frame
  <2>1. CASE h = g
    <3>1. f # NoFrame
      BY SMT DEF FrameIndex, NoFrame
    <3> QED
      BY <1>2, <2>1, <3>1
  <2>2. CASE h # g
    BY <1>2, <1>8, <2>2, HeldGuard DEF PinsMatchGuards
  <2> QED
    BY <2>1, <2>2
<1> QED
  BY <1>7, <1>8 DEF PinsMatchGuards

-----------------------------------------------------------------------------
(* Reset and move. *)

LEMMA UnpinFacts ==
  ASSUME TypeOK, PinsMatchGuards, NEW g \in GuardId, guards[g] # NoGuard
  PROVE  LET f == guards[g].frame IN
         /\ Unpin(guards[g].page)[f].pinCount = frames[f].pinCount - 1
         /\ \A k \in FrameIndex \ {f} :
              Unpin(guards[g].page)[k].pinCount = frames[k].pinCount
BY HeldGuard DEF Unpin, TypeOK, Frame

\* One guard fewer on frame f and one pin fewer.
LEMMA FewerHolders ==
  ASSUME PinsMatchGuards, NEW f \in FrameIndex, NEW g \in Holders(f)
  PROVE  frames[f].pinCount - 1 = Cardinality(Holders(f) \ {g})
<1>1. Cardinality(Holders(f) \ {g}) = Cardinality(Holders(f)) - 1
  BY HoldersFinite, FS_RemoveElement
<1>2. frames[f].pinCount = Cardinality(Holders(f))
  BY DEF PinsMatchGuards
<1> QED
  BY <1>1, <1>2

LEMMA ResetGuardPins ==
  ASSUME TypeOK, TypeOK', PinsMatchGuards, NEW g \in GuardId, ResetGuard(g)
  PROVE  PinsMatchGuards'
<1>0. guards[g] # NoGuard /\ guards[g].frame \in FrameIndex
  BY HeldGuard DEF ResetGuard
<1>1. PICK f \in FrameIndex : f = guards[g].frame
  BY <1>0
<1>2. guards' = [guards EXCEPT ![g] = NoGuard] /\ frames' = Unpin(guards[g].page)
      /\ pageMap' = pageMap
  BY DEF ResetGuard
<1>3. guards'[g] = NoGuard /\ \A h \in GuardId \ {g} : guards'[h] = guards[h]
  BY <1>2 DEF TypeOK, ClientTypeOK
<1>4. g \in Holders(f)
  BY <1>0, <1>1 DEF Holders
<1>5. Holders(f)' = Holders(f) \ {g}
  BY <1>3 DEF Holders
<1>6. \A k \in FrameIndex \ {f} : Holders(k)' = Holders(k)
  BY <1>1, <1>3 DEF Holders
<1>7. \A k \in FrameIndex : frames'[k].pinCount = Cardinality(Holders(k)')
  <2>1. frames'[f].pinCount = Cardinality(Holders(f)')
    BY <1>0, <1>1, <1>2, <1>4, <1>5, UnpinFacts, FewerHolders
  <2>2. ASSUME NEW k \in FrameIndex \ {f}
        PROVE  frames'[k].pinCount = Cardinality(Holders(k)')
    <3>1. frames'[k].pinCount = frames[k].pinCount
      BY <1>0, <1>1, <1>2, UnpinFacts
    <3> QED
      BY <1>6, <3>1 DEF PinsMatchGuards
  <2> QED
    BY <2>1, <2>2
<1>8. \A h \in GuardId : guards'[h] # NoGuard => guards'[h] = guards[h]
  BY <1>3
<1> QED
  BY <1>2, <1>7, <1>8 DEF PinsMatchGuards

LEMMA MoveGuardPins ==
  ASSUME TypeOK, TypeOK', PinsMatchGuards,
         NEW g \in GuardId, NEW h \in GuardId, MoveGuard(g, h)
  PROVE  PinsMatchGuards'
<1>0. PICK f \in FrameIndex : f = guards[g].frame
  BY HeldGuard DEF MoveGuard
<1>1. g # h /\ guards[g] # NoGuard /\ g \in Holders(f)
  BY <1>0, HeldGuard DEF MoveGuard, Holders
<1>2. pageMap' = pageMap
  BY DEF MoveGuard
<1>3. /\ guards'[g] = NoGuard
      /\ guards'[h] = guards[g]
      /\ \A o \in GuardId \ {g, h} : guards'[o] = guards[o]
  BY <1>1 DEF MoveGuard, MoveTo, TypeOK, ClientTypeOK
<1>4. Holders(f)' = (Holders(f) \ {g}) \cup {h}
  BY <1>0, <1>1, <1>3 DEF Holders
<1>5. \A l \in FrameIndex \ {f} : Holders(l)' = Holders(l) \ {h}
  BY <1>0, <1>1, <1>3 DEF Holders
<1>6. \A l \in FrameIndex : frames'[l].pinCount = Cardinality(Holders(l)')
  <2>1. CASE guards[h] = NoGuard
    <3>1. frames' = frames
      BY <2>1 DEF MoveGuard
    <3>2. \A l \in FrameIndex : h \notin Holders(l)
      BY <2>1 DEF Holders
    <3>3. Cardinality(Holders(f)') = Cardinality(Holders(f))
      <4>1. /\ IsFiniteSet(Holders(f) \ {g})
            /\ Cardinality(Holders(f) \ {g}) = Cardinality(Holders(f)) - 1
        BY <1>1, HoldersFinite, FS_RemoveElement
      <4>2. Cardinality((Holders(f) \ {g}) \cup {h}) = Cardinality(Holders(f) \ {g}) + 1
        BY <1>1, <3>2, <4>1, FS_AddElement
      <4> QED
        BY <1>4, <4>1, <4>2, HoldersFinite, SMT
    <3>4. \A l \in FrameIndex \ {f} : Holders(l)' = Holders(l)
      BY <1>5, <3>2
    <3> QED
      BY <3>1, <3>3, <3>4 DEF PinsMatchGuards
  <2>2. CASE guards[h] # NoGuard
    <3>0. PICK k \in FrameIndex : k = guards[h].frame
      BY <2>2, HeldGuard
    <3>1. h \in Holders(k)
      BY <2>2, <3>0 DEF Holders
    <3>2. frames' = Unpin(guards[h].page)
      BY <2>2 DEF MoveGuard
    <3>3. /\ frames'[k].pinCount = frames[k].pinCount - 1
          /\ \A l \in FrameIndex \ {k} : frames'[l].pinCount = frames[l].pinCount
      BY <2>2, <3>0, <3>2, UnpinFacts
    <3>4. frames'[k].pinCount = Cardinality(Holders(k) \ {h})
      BY <3>1, <3>3, FewerHolders
    <3>5. CASE f = k
      <4>1. h \in Holders(f) /\ Holders(f)' = Holders(f) \ {g}
        BY <1>1, <1>4, <3>1, <3>5
      <4>2. frames'[f].pinCount = Cardinality(Holders(f)')
        BY <1>1, <3>3, <3>5, <4>1, FewerHolders
      <4>3. ASSUME NEW l \in FrameIndex \ {f}
            PROVE  frames'[l].pinCount = Cardinality(Holders(l)')
        <5>1. h \notin Holders(l)
          BY <3>0, <3>5 DEF Holders
        <5>2. Holders(l)' = Holders(l)
          BY <1>5, <5>1
        <5> QED
          BY <3>3, <3>5, <5>2 DEF PinsMatchGuards
      <4> QED
        BY <4>2, <4>3
    <3>6. CASE f # k
      <4>1. h \notin Holders(f)
        BY <3>0, <3>6 DEF Holders
      <4>2. frames'[f].pinCount = Cardinality(Holders(f)')
        <5>1. /\ IsFiniteSet(Holders(f) \ {g})
              /\ Cardinality(Holders(f) \ {g}) = Cardinality(Holders(f)) - 1
          BY <1>1, HoldersFinite, FS_RemoveElement
        <5>2. Cardinality((Holders(f) \ {g}) \cup {h}) = Cardinality(Holders(f) \ {g}) + 1
          BY <4>1, <5>1, FS_AddElement
        <5>3. Cardinality(Holders(f)') = Cardinality(Holders(f))
          BY <1>4, <5>1, <5>2, HoldersFinite, SMT
        <5>4. frames'[f].pinCount = frames[f].pinCount
          BY <1>1, <3>3, <3>6
        <5> QED
          BY <1>1, <5>3, <5>4 DEF PinsMatchGuards
      <4>3. frames'[k].pinCount = Cardinality(Holders(k)')
        BY <1>5, <3>1, <3>4, <3>6
      <4>4. ASSUME NEW l \in FrameIndex \ {f, k}
            PROVE  frames'[l].pinCount = Cardinality(Holders(l)')
        <5>1. h \notin Holders(l)
          BY <3>0 DEF Holders
        <5>2. Holders(l)' = Holders(l)
          BY <1>5, <5>1
        <5> QED
          BY <3>3, <5>2 DEF PinsMatchGuards
      <4> QED
        BY <4>2, <4>3, <4>4
    <3> QED
      BY <3>5, <3>6
  <2> QED
    BY <2>1, <2>2
<1>7. ASSUME NEW o \in GuardId, guards'[o] # NoGuard
      PROVE  \E q \in GuardId : guards[q] # NoGuard /\ guards'[o] = guards[q]
  BY <1>1, <1>3, <1>7
<1>8. \A o \in GuardId : guards'[o] # NoGuard =>
        /\ guards'[o].page \in PageNum
        /\ guards'[o].frame # NoFrame
        /\ pageMap[guards'[o].page] = guards'[o].frame
  BY <1>7 DEF PinsMatchGuards
<1> QED
  BY <1>2, <1>6, <1>8 DEF PinsMatchGuards

-----------------------------------------------------------------------------
(* The steps. *)

LEMMA PageActionPins ==
  ASSUME TypeOK, TypeOK', PoolConsistent, PinsMatchGuards, PageAction
  PROVE  PinsMatchGuards'
<1>1. ASSUME NEW g \in GuardId, NEW p \in PageNum, FetchPage(g, p)
      PROVE  PinsMatchGuards'
  <2>1. PICK f \in FrameIndex : Fetch(p, f) /\ Hold(g, p, f, Fetched(p, f), FALSE)
    BY <1>1 DEF FetchPage
  <2>2. Fetched(p, f) \in Frame /\ guards[g] = NoGuard
    BY <1>1, <2>1, FetchType DEF FetchPage
  <2> QED
    BY <2>1, <2>2, FetchPins, HoldPins
<1>2. ASSUME NEW p \in PageNum, FetchPageFails(p) PROVE PinsMatchGuards'
  BY <1>2, FetchMisreadsPins DEF FetchPageFails
<1>3. ASSUME NEW p \in PageNum, DeletePage(p) PROVE PinsMatchGuards'
  <2>1. \A k \in FrameIndex : frames'[k].pinCount = frames[k].pinCount
    BY <1>3 DEF DeletePage, TypeOK, Frame
  <2>2. UNCHANGED <<guards, pageMap>>
    BY <1>3 DEF DeletePage, Touch
  <2> QED
    BY <2>1, <2>2, HeldGuard, GuardsUnchangedPins
<1>4. ASSUME NEW p \in PageNum, DeletePageAborts(p) PROVE PinsMatchGuards'
  BY <1>4, EndSessionPins DEF DeletePageAborts, Lose
<1>5. ASSUME NEW g \in GuardId, NewPageFresh(g) PROVE PinsMatchGuards'
  <2> DEFINE p == highestAllocated + 1
             fr(f) == [pageNum |-> p, pinCount |-> 0, dirty |-> TRUE,
                       data |-> InitPage(p, frames[f].data)]
  <2>1. PICK f \in FrameIndex : TakeFrame(p, f) /\ Hold(g, p, f, fr(f), TRUE)
    BY <1>5 DEF NewPageFresh
  <2>2. p \in PageNum /\ ~(p <= highestAllocated) /\ guards[g] = NoGuard
    BY <1>5, SMT DEF NewPageFresh, TypeOK, MetaTypeOK, PageLink, PageNum
  <2>3. ~Cached(p)
    BY <2>2 DEF PoolConsistent
  <2>4. frames[f].data \in PageImage
    BY DEF TypeOK, Frame
  <2>5. fr(f) \in Frame /\ fr(f).pinCount = 0
    BY <2>2, <2>4, InitPageType DEF Frame, PageLink
  <2> HIDE DEF p, fr
  <2> QED
    BY <2>1, <2>2, <2>3, <2>5, TakenFrameUnheld, HoldPins
<1>6. ASSUME NEW g \in GuardId, NewPageReused(g) PROVE PinsMatchGuards'
  <2> DEFINE p == freespaceHead
             fr(f) == [Fetched(p, f) EXCEPT !.dirty = TRUE,
                                            !.data = InitPage(p, Fetched(p, f).data)]
  <2>1. PICK f \in FrameIndex : Fetch(p, f) /\ Hold(g, p, f, fr(f), TRUE)
    BY <1>6 DEF NewPageReused
  <2>2. p \in PageNum /\ guards[g] = NoGuard
    BY <1>6 DEF NewPageReused, TypeOK, MetaTypeOK, PageLink
  <2>3. Fetched(p, f) \in Frame /\ Fetched(p, f).data \in PageImage
    BY <2>1, <2>2, FetchType DEF Frame
  <2>4. fr(f) \in Frame /\ fr(f).pinCount = Fetched(p, f).pinCount
    BY <2>3, InitPageType DEF Frame
  <2> HIDE DEF p, fr
  <2> QED
    BY <2>1, <2>2, <2>4, FetchPins, HoldPins
<1>7. CASE NewPageFreshFails
  BY <1>7, HeldGuard, GuardsUnchangedPins DEF NewPageFreshFails, poolVars
<1>8. CASE NewPageReusedFails
  <2>1. freespaceHead \in PageNum
    BY <1>8 DEF NewPageReusedFails, TypeOK, MetaTypeOK, PageLink
  <2> QED
    BY <1>8, <2>1, FetchMisreadsPins DEF NewPageReusedFails
<1> QED
  BY <1>1, <1>2, <1>3, <1>4, <1>5, <1>6, <1>7, <1>8 DEF PageAction

LEMMA GuardActionPins ==
  ASSUME TypeOK, TypeOK', PinsMatchGuards, GuardAction
  PROVE  PinsMatchGuards'
<1>1. ASSUME NEW g \in GuardId, NEW v \in Bodies, WriteSpan(g, v)
      PROVE  PinsMatchGuards'
  <2>1. \A k \in FrameIndex : frames'[k].pinCount = frames[k].pinCount
    BY <1>1 DEF WriteSpan, TypeOK, Frame
  <2>2. /\ guards[g] # NoGuard
        /\ guards' = [guards EXCEPT ![g].dirty = TRUE]
        /\ pageMap' = pageMap
    BY <1>1 DEF WriteSpan
  <2>3. \A h \in GuardId : /\ guards'[h].page = guards[h].page
                           /\ guards'[h].frame = guards[h].frame
    BY <2>2 DEF TypeOK, ClientTypeOK, Guard
  <2>4. guards'[g] # NoGuard
    <3>1. guards'[g].page \in PageNum
      BY <2>2, <2>3, HeldGuard
    <3>2. INVALID_PAGE \notin PageNum
      BY SMT DEF PageNum
    <3> QED
      BY <3>1, <3>2 DEF NoGuard
  <2>5. \A h \in GuardId : guards'[h] # NoGuard <=> guards[h] # NoGuard
    BY <2>2, <2>4 DEF TypeOK, ClientTypeOK
  <2>6. \A f \in FrameIndex : Holders(f)' = Holders(f)
    BY <2>3, <2>5 DEF Holders
  <2> QED
    BY <2>1, <2>2, <2>3, <2>5, <2>6 DEF PinsMatchGuards
<1>2. ASSUME NEW g \in GuardId, NEW n \in Links, SetHeader(g, n)
      PROVE  PinsMatchGuards'
  <2>1. \A k \in FrameIndex : frames'[k].pinCount = frames[k].pinCount
    BY <1>2 DEF SetHeader, TypeOK, Frame
  <2> QED
    BY <1>2, <2>1, HeldGuard, GuardsUnchangedPins DEF SetHeader
<1> QED
  BY <1>1, <1>2, ResetGuardPins, MoveGuardPins DEF GuardAction

LEMMA FlushActionPins ==
  ASSUME TypeOK, TypeOK', PoolConsistent, PinsMatchGuards, FlushAction
  PROVE  PinsMatchGuards'
<1>1. 0 \in PageNum
  BY SMT DEF PageNum
<1>2. ASSUME NEW p \in PageNum, FlushPage(p) PROVE PinsMatchGuards'
  BY <1>2, HeldGuard, GuardsUnchangedPins DEF FlushPage, poolVars
<1>3. ASSUME NEW op \in {"flushAll", "close", "destroy"}, FlushAll(op)
      PROVE  PinsMatchGuards'
  <2>1. PICK f \in FrameIndex : Fetch(0, f) /\ PutFileHeader(f)
    BY <1>3 DEF FlushAll
  <2>2. Fetched(0, f) \in Frame
    BY <1>1, <2>1, FetchType
  <2>3. \A k \in FrameIndex : frames'[k].pinCount = frames[k].pinCount
    BY <1>1, <2>1, <2>2, FetchPins DEF PutFileHeader, TypeOK, Frame
  <2> QED
    BY <1>1, <1>3, <2>1, <2>3, FetchPins, GuardsUnchangedPins DEF FlushAll
<1>4. ASSUME NEW op \in {"flushAll", "close", "destroy"}, FlushAllFails(op)
      PROVE  PinsMatchGuards'
  BY <1>1, <1>4, FetchMisreadsPins, EndSessionPins DEF FlushAllFails, Lose
<1>5. CASE FlushOne
  <2>1. \A k \in FrameIndex : frames'[k].pinCount = frames[k].pinCount
    BY <1>5 DEF FlushOne, TypeOK, Frame
  <2> QED
    BY <1>5, <2>1, HeldGuard, GuardsUnchangedPins DEF FlushOne
<1>6. CASE FlushFails
  BY <1>6, EndSessionPins, HeldGuard, GuardsUnchangedPins DEF FlushFails, Lose, poolVars
<1>7. CASE FlushAborts
  BY <1>7, EndSessionPins DEF FlushAborts, Lose
<1>8. CASE FlushReturns
  BY <1>8, EndSessionPins, HeldGuard, GuardsUnchangedPins DEF FlushReturns, poolVars
<1>9. CASE CloseReadOnly
  BY <1>9, EndSessionPins DEF CloseReadOnly
<1>10. CASE ClosePinned
  BY <1>10, EndSessionPins DEF ClosePinned, Lose
<1> QED
  BY <1>2, <1>3, <1>4, <1>5, <1>6, <1>7, <1>8, <1>9, <1>10 DEF FlushAction, FlushLoop

LEMMA PinsInit == Init => PinsMatchGuards
<1> SUFFICES ASSUME Init PROVE PinsMatchGuards
  OBVIOUS
<1>1. \A f \in FrameIndex : Holders(f) = {}
  BY DEF Init, Holders
<1>2. \A f \in FrameIndex : frames[f].pinCount = 0
  BY DEF Init, EmptyFrame
<1> QED
  BY <1>1, <1>2, FS_EmptySet DEF Init, PinsMatchGuards

\* No guard is alive when a session opens.
NoGuardWhenClosed ==
  status # "open" => guards = [g \in GuardId |-> NoGuard]

LEMMA ClosedInit == Init => NoGuardWhenClosed
BY DEF Init, NoGuardWhenClosed

LEMMA ClosedStep == NoGuardWhenClosed /\ [Next]_vars => NoGuardWhenClosed'
<1> SUFFICES ASSUME NoGuardWhenClosed, [Next]_vars PROVE NoGuardWhenClosed'
  OBVIOUS
<1>1. CASE OpenPager
  BY <1>1 DEF OpenPager, OpenEmpty, OpenExisting, OpenRejected, NoGuardWhenClosed
<1>2. CASE PageAction
  BY <1>2 DEF PageAction, FetchPage, FetchPageFails, DeletePage, DeletePageAborts,
              NewPageFresh, NewPageFreshFails, NewPageReused, NewPageReusedFails,
              Open, Lose, EndSession, NoGuardWhenClosed
<1>3. CASE GuardAction
  BY <1>3 DEF GuardAction, WriteSpan, SetHeader, ResetGuard, MoveGuard, Open,
              NoGuardWhenClosed
<1>4. CASE FlushAction
  BY <1>4 DEF FlushAction, FlushPage, FlushAll, FlushAllFails, FlushLoop, FlushOne,
              FlushFails, FlushAborts, FlushReturns, CloseReadOnly, ClosePinned,
              Flushing, Open, Lose, EndSession, NoGuardWhenClosed
<1>5. CASE Crash \/ StreamFails \/ UNCHANGED vars
  BY <1>5 DEF Crash, StreamFails, vars, Lose, EndSession, NoGuardWhenClosed
<1> QED
  BY <1>1, <1>2, <1>3, <1>4, <1>5 DEF Next

LEMMA PinsStep ==
  TypeOK /\ TypeOK' /\ PoolConsistent /\ NoGuardWhenClosed /\ PinsMatchGuards
    /\ [Next]_vars => PinsMatchGuards'
<1> SUFFICES ASSUME TypeOK, TypeOK', PoolConsistent, NoGuardWhenClosed,
                    PinsMatchGuards, [Next]_vars
             PROVE  PinsMatchGuards'
  OBVIOUS
<1>1. ASSUME NEW m \in OpenModes, OpenEmpty(m) \/ OpenExisting(m)
      PROVE  PinsMatchGuards'
  <2>1. \A f \in FrameIndex : frames'[f].pinCount = 0
    BY <1>1 DEF OpenEmpty, OpenExisting, LoadPageZero, EmptyFrame
  <2>2. guards' = [g \in GuardId |-> NoGuard]
    BY <1>1 DEF OpenEmpty, OpenExisting, NoGuardWhenClosed
  <2> QED
    BY <2>1, <2>2, NoGuardsPins
<1>2. ASSUME NEW m \in OpenModes, OpenRejected(m) PROVE PinsMatchGuards'
  BY <1>2, HeldGuard, GuardsUnchangedPins DEF OpenRejected, poolVars
<1>3. CASE PageAction
  BY <1>3, PageActionPins
<1>4. CASE GuardAction
  BY <1>4, GuardActionPins
<1>5. CASE FlushAction
  BY <1>5, FlushActionPins
<1>6. CASE Crash
  BY <1>6, EndSessionPins DEF Crash, Lose
<1>7. CASE StreamFails
  BY <1>7, HeldGuard, GuardsUnchangedPins DEF StreamFails, poolVars
<1>8. CASE UNCHANGED vars
  BY <1>8, HeldGuard, GuardsUnchangedPins DEF vars, poolVars
<1> QED
  BY <1>1, <1>2, <1>3, <1>4, <1>5, <1>6, <1>7, <1>8 DEF Next, OpenPager

\* Whatever the client does, the pin count of a frame is the number of guards on
\* it, and every guard's frame is the one that holds its page.
THEOREM PinsAreGuards == Spec => []PinsMatchGuards
BY TypeInit, TypeStep, PoolInit, PoolStep, ClosedInit, ClosedStep, PinsInit, PinsStep,
   PTL DEF Spec

-----------------------------------------------------------------------------
(* What close leaves on file, for every use of the pager: stream errors,   *)
(* torn appends, foreign files and misuse of guards included, the file of  *)
(* a session that ends with close or with the destructor can be opened.    *)

(* The inductive invariant. *)

\* What validateFileHeader accepts, with at least page 0 to be found.
ValidHeader(img) == img.magic /\ img.count > 0

\* A file with a valid header counts at least page 0; the file of a session has
\* a valid header as soon as it has a page.
HeaderOnFile ==
  file.pageCount > 0 /\ (status = "open" \/ file.image[0].magic) =>
    ValidHeader(file.image[0])

DirtyPage(p) == Cached(p) /\ FrameOf(p).dirty

\* While the stream works page 0 can be had, and is a valid header.  (After an
\* error fetchPage may leave other bytes in its frame.)
HeaderInPool ==
  status = "open" =>
    /\ highestAllocated \in PageNum
    /\ good => /\ file.pageCount > 0 \/ DirtyPage(0)
               /\ Cached(0) => ValidHeader(FrameOf(0).data)

\* An append that was torn leaves the stream failed and its page in the pool,
\* not written: nothing can be written any more.
TornIsDirty ==
  status = "open" /\ file.torn =>
    mode = ReadWrite /\ ~good /\ \E p \in PageNum : DirtyPage(p)

UnusedClean == \A f \in FrameIndex : frames[f].dirty => f < nextFreeFrame

\* flushAll has cleaned the pages it has passed.
LoopCleans ==
  /\ call.op \in {"flushAll", "close", "destroy"} =>
       /\ call.last = highestAllocated
       /\ \A p \in PageNum : DirtyPage(p) => call.at <= p
  /\ call.op \in {"close", "destroy"} => mode = ReadWrite
  /\ status # "open" => call = NoCall

CloseInv == HeaderOnFile /\ HeaderInPool /\ TornIsDirty /\ UnusedClean /\ LoopCleans

-----------------------------------------------------------------------------
(* What a step within a session does to the file and to the pool. *)

FileSafe ==
  /\ UNCHANGED <<mode, good>>
  /\ file'.torn => file.torn
  /\ file'.pageCount > 0 => ValidHeader(file'.image[0])

\* Frames of pages other than p are kept or dropped; a dirty one is not dropped
\* when the stream has failed.
OtherPages(p) ==
  \A q \in PageNum \ {p} :
    /\ Cached(q)' => Cached(q) /\ FrameOf(q)' = FrameOf(q)
    /\ DirtyPage(q) => good \/ DirtyPage(q)'

\* Page p is in frame f.
InFrame(p, f) ==
  /\ pageMap'[p] = f
  /\ f < nextFreeFrame'
  /\ \A k \in FrameIndex \ {f} : frames'[k].dirty => k < nextFreeFrame'

LEMMA InFrameIsCached ==
  ASSUME NEW p, NEW f \in FrameIndex, InFrame(p, f)
  PROVE  Cached(p)' /\ FrameOf(p)' = frames'[f]
<1>1. f # NoFrame
  BY SMT DEF FrameIndex, NoFrame
<1> QED
  BY <1>1 DEF InFrame, Cached, FrameOf

\* Writing a frame back keeps the file's header valid.
LEMMA WriteBackSafe ==
  ASSUME TypeOK, PoolConsistent, CloseInv, status = "open",
         NEW f \in 0 .. nextFreeFrame - 1, WriteBack(f)
  PROVE  /\ FileSafe
         /\ f \in FrameIndex
         /\ frames[f].pageNum \in PageNum
         /\ pageMap[frames[f].pageNum] = f
         /\ Cached(frames[f].pageNum) /\ FrameOf(frames[f].pageNum) = frames[f]
         /\ frames[f].dirty => good
         /\ file.pageCount > 0 => file'.pageCount > 0
         /\ good /\ frames[f].pageNum = 0 => file'.pageCount > 0
<1> DEFINE r == frames[f].pageNum
<1>0. file.pageCount \in Int /\ 0 \in PageNum
  BY SMT DEF TypeOK, IOTypeOK, FileType, PageNum
<1>1. f \in FrameIndex /\ f # NoFrame
  BY SMT DEF FrameIndex, NoFrame, TypeOK, ListTypeOK
<1>2. r \in PageNum /\ pageMap[r] = f
  BY DEF PoolConsistent
<1>3. Cached(r) /\ FrameOf(r) = frames[f]
  BY <1>1, <1>2 DEF Cached, FrameOf
<1>4. CASE frames[f].dirty
  <2>1. WritePage(r, frames[f].data)
    BY <1>4 DEF WriteBack
  <2>2. good /\ UNCHANGED <<mode, good>> /\ r <= file.pageCount
    BY <2>1 DEF WritePage, CanWrite
  <2>3. /\ file'.image = [file.image EXCEPT ![r] = frames[f].data]
        /\ file'.pageCount = IF r = file.pageCount THEN r + 1 ELSE file.pageCount
        /\ file'.torn => file.torn
    BY <2>1 DEF WritePage, TypeOK, IOTypeOK, FileType
  <2>4. (r = 0 => file'.pageCount > 0) /\ (file.pageCount > 0 => file'.pageCount > 0)
    BY <1>0, <1>2, <2>2, <2>3, SMT DEF PageNum, TypeOK, IOTypeOK, FileType
  <2>5. file'.pageCount > 0 => ValidHeader(file'.image[0])
    <3>1. CASE r = 0
      <4>1. file'.image[0] = frames[f].data
        BY <1>0, <2>3, <3>1 DEF TypeOK, IOTypeOK, FileType
      <4> QED
        BY <1>3, <2>2, <3>1, <4>1 DEF CloseInv, HeaderInPool
    <3>2. CASE r # 0
      <4>1. file'.image[0] = file.image[0]
        BY <1>0, <2>3, <3>2 DEF TypeOK, IOTypeOK, FileType
      <4>2. file'.pageCount > 0 => file.pageCount > 0
        BY <1>0, <1>2, <2>2, <2>3, <3>2, SMT DEF PageNum
      <4> QED
        BY <4>1, <4>2 DEF CloseInv, HeaderOnFile
    <3> QED
      BY <3>1, <3>2
  <2> QED
    BY <1>1, <1>2, <1>3, <2>2, <2>3, <2>4, <2>5 DEF FileSafe
<1>5. CASE ~frames[f].dirty
  <2>1. UNCHANGED ioVars
    BY <1>5 DEF WriteBack
  <2>2. good /\ r = 0 => file.pageCount > 0
    BY <1>3, <1>5 DEF CloseInv, HeaderInPool, DirtyPage
  <2> QED
    BY <1>1, <1>2, <1>3, <1>5, <2>1, <2>2 DEF ioVars, FileSafe, CloseInv, HeaderOnFile
<1> QED
  BY <1>4, <1>5

LEMMA TakeFrameSafe ==
  ASSUME TypeOK, PoolConsistent, CloseInv, status = "open",
         NEW p \in PageNum, NEW f \in FrameIndex, ~Cached(p), TakeFrame(p, f),
         \A k \in FrameIndex \ {f} : frames'[k] = frames[k]
  PROVE  /\ FileSafe
         /\ InFrame(p, f)
         /\ OtherPages(p)
         /\ good => file'.pageCount > 0 \/ (p # 0 /\ DirtyPage(0)')
<1>0. 0 \in PageNum
  BY SMT DEF PageNum
<1>1. good => file.pageCount > 0 \/ (p # 0 /\ DirtyPage(0))
  BY DEF CloseInv, HeaderInPool, DirtyPage
<1>2. CASE nextFreeFrame < PoolSize
  <2>1. /\ f = nextFreeFrame /\ nextFreeFrame' = nextFreeFrame + 1
        /\ pageMap' = [pageMap EXCEPT ![p] = f] /\ UNCHANGED ioVars
    BY <1>2, SMT DEF TakeFrame
  <2>2. InFrame(p, f)
    <3>1. f < nextFreeFrame' /\ \A k \in FrameIndex : k < nextFreeFrame => k < nextFreeFrame'
      BY <2>1, SMT DEF FrameIndex, TypeOK, ListTypeOK
    <3> QED
      BY <2>1, <3>1 DEF InFrame, CloseInv, UnusedClean, TypeOK, ListTypeOK
  <2>3. ASSUME NEW q \in PageNum \ {p}
        PROVE  (Cached(q)' <=> Cached(q)) /\ (Cached(q) => FrameOf(q)' = FrameOf(q))
    <3>1. pageMap'[q] = pageMap[q]
      BY <2>1 DEF TypeOK, ListTypeOK
    <3>2. Cached(q) => pageMap[q] \in FrameIndex \ {f}
      BY <2>1, SMT DEF Cached, PoolConsistent, TypeOK, ListTypeOK, FrameIndex
    <3> QED
      BY <3>1, <3>2 DEF Cached, FrameOf
  <2> QED
    BY <1>0, <1>1, <2>1, <2>2, <2>3
       DEF ioVars, FileSafe, OtherPages, DirtyPage, CloseInv, HeaderOnFile
<1>3. CASE nextFreeFrame = PoolSize
  <2>0. PICK r : r = frames[f].pageNum
    OBVIOUS
  <2>1. PICK i \in 1 .. Len(lruList) : f = lruList[i]
    BY <1>3, SMT DEF TakeFrame
  <2>2. WriteBack(f) /\ pageMap' = Remap(p, f) /\ nextFreeFrame' = nextFreeFrame
    BY <1>3, SMT DEF TakeFrame
  <2>3. f \in 0 .. nextFreeFrame - 1
    BY <2>1, UsedFrames
  <2>4. /\ FileSafe
        /\ r \in PageNum /\ pageMap[r] = f
        /\ Cached(r) /\ FrameOf(r) = frames[f]
        /\ frames[f].dirty => good
        /\ file.pageCount > 0 => file'.pageCount > 0
        /\ good /\ r = 0 => file'.pageCount > 0
    BY <2>0, <2>2, <2>3, WriteBackSafe
  <2>5. p # r
    BY <2>4
  <2>6. /\ pageMap'[p] = f
        /\ pageMap'[r] = NoFrame
        /\ \A q \in PageNum \ {p, r} : pageMap'[q] = pageMap[q]
    BY <2>0, <2>2, <2>4, <2>5 DEF Remap, TypeOK, ListTypeOK
  <2>7. InFrame(p, f)
    <3>1. f < nextFreeFrame
      BY <2>3, SMT DEF TypeOK, ListTypeOK
    <3> QED
      BY <2>2, <2>6, <3>1 DEF InFrame, CloseInv, UnusedClean
  <2>8. ASSUME NEW q \in PageNum \ {p, r}
        PROVE  (Cached(q)' <=> Cached(q)) /\ (Cached(q) => FrameOf(q)' = FrameOf(q))
    <3>1. Cached(q) => pageMap[q] \in FrameIndex \ {f}
      BY <2>0, <2>8, CachedFrame
    <3> QED
      BY <2>6, <3>1 DEF Cached, FrameOf
  <2>9. ~Cached(r)' /\ (DirtyPage(r) => good)
    BY <2>4, <2>6 DEF Cached, DirtyPage
  <2>10. OtherPages(p)
    BY <2>8, <2>9 DEF OtherPages, DirtyPage
  <2>11. good => file'.pageCount > 0 \/ (p # 0 /\ DirtyPage(0)')
    BY <1>0, <1>1, <2>4, <2>8 DEF DirtyPage
  <2> QED
    BY <2>4, <2>7, <2>10, <2>11
<1> QED
  BY <1>2, <1>3 DEF TakeFrame

LEMMA FetchSafe ==
  ASSUME TypeOK, PoolConsistent, CloseInv, status = "open",
         NEW p \in PageNum, NEW f \in FrameIndex, Fetch(p, f),
         \A k \in FrameIndex \ {f} : frames'[k] = frames[k]
  PROVE  /\ FileSafe
         /\ InFrame(p, f)
         /\ OtherPages(p)
         /\ DirtyPage(p) => Fetched(p, f).dirty
         /\ good /\ p = 0 => /\ ValidHeader(Fetched(p, f).data)
                             /\ file'.pageCount > 0 \/ Fetched(p, f).dirty
         /\ good /\ p # 0 => file'.pageCount > 0 \/ DirtyPage(0)'
<1>0. 0 \in PageNum
  BY SMT DEF PageNum
<1>1. CASE Cached(p) /\ Touch(p, f)
  <2>1. f = pageMap[p] /\ UNCHANGED <<ioVars, pageMap, nextFreeFrame>>
    BY <1>1 DEF Touch
  <2>2. Fetched(p, f) = FrameOf(p)
    BY <1>1, <2>1 DEF Fetched, FrameOf
  <2>3. \A q \in PageNum \ {p} :
          (Cached(q)' <=> Cached(q)) /\ (Cached(q) => FrameOf(q)' = FrameOf(q))
    <3>1. \A q \in PageNum \ {p} : Cached(q) => pageMap[q] \in FrameIndex \ {f}
      BY <1>1, <2>1, CachedFrame
    <3> QED
      BY <2>1, <3>1 DEF Cached, FrameOf
  <2>4. InFrame(p, f)
    <3>1. f < nextFreeFrame
      BY <1>1, <2>1 DEF PoolConsistent
    <3> QED
      BY <2>1, <3>1 DEF InFrame, CloseInv, UnusedClean
  <2>5. good => file.pageCount > 0 \/ DirtyPage(0)
    BY DEF CloseInv, HeaderInPool
  <2>6. good /\ p = 0 => ValidHeader(FrameOf(0).data)
    BY <1>1 DEF CloseInv, HeaderInPool
  <2>7. FileSafe /\ file' = file
    BY <2>1 DEF FileSafe, ioVars, CloseInv, HeaderOnFile
  <2>8. OtherPages(p)
    BY <2>3 DEF OtherPages, DirtyPage
  <2> QED
    BY <1>0, <2>2, <2>3, <2>4, <2>5, <2>6, <2>7, <2>8 DEF DirtyPage
<1>2. CASE ~Cached(p) /\ TakeFrame(p, f) /\ CanReadNext(p)
  <2>1. /\ FileSafe
        /\ InFrame(p, f)
        /\ OtherPages(p)
        /\ good => file'.pageCount > 0 \/ (p # 0 /\ DirtyPage(0)')
    BY <1>2, TakeFrameSafe
  <2>2. Fetched(p, f).data = file'.image[p]
    BY <1>2 DEF Fetched
  <2> QED
    BY <1>2, <2>1, <2>2 DEF FileSafe, DirtyPage
<1> QED
  BY <1>1, <1>2 DEF Fetch

-----------------------------------------------------------------------------
(* The invariant is inductive. *)

\* A step that fills or changes the frame f of page p.
LEMMA PageFrameInv ==
  ASSUME CloseInv, status = "open", status' = "open", highestAllocated' \in PageNum,
         NEW p \in PageNum, NEW f \in FrameIndex, FileSafe, InFrame(p, f), OtherPages(p),
         DirtyPage(p) => good \/ frames'[f].dirty,
         good /\ p = 0 => /\ ValidHeader(frames'[f].data)
                          /\ file'.pageCount > 0 \/ frames'[f].dirty,
         good /\ p # 0 => file'.pageCount > 0 \/ DirtyPage(0)',
         LoopCleans'
  PROVE  CloseInv'
<1>0. 0 \in PageNum
  BY SMT DEF PageNum
<1>1. Cached(p)' /\ FrameOf(p)' = frames'[f]
  BY InFrameIsCached
<1>2. HeaderOnFile'
  BY DEF HeaderOnFile, FileSafe
<1>3. HeaderInPool'
  <2>1. good /\ p # 0 /\ Cached(0)' => ValidHeader(FrameOf(0)'.data)
    BY <1>0 DEF OtherPages, CloseInv, HeaderInPool
  <2> QED
    BY <1>1, <2>1 DEF HeaderInPool, FileSafe, DirtyPage
<1>4. TornIsDirty'
  <2>1. ASSUME file'.torn PROVE mode' = ReadWrite /\ ~good' /\ \E q \in PageNum : DirtyPage(q)'
    <3>1. mode = ReadWrite /\ ~good
      BY <2>1 DEF CloseInv, TornIsDirty, FileSafe
    <3>2. PICK q \in PageNum : DirtyPage(q)
      BY <2>1 DEF CloseInv, TornIsDirty, FileSafe
    <3>3. DirtyPage(q)'
      BY <1>1, <3>1, <3>2 DEF OtherPages, DirtyPage
    <3> QED
      BY <3>1, <3>3 DEF FileSafe
  <2> QED
    BY <2>1 DEF TornIsDirty
<1>5. UnusedClean'
  BY DEF UnusedClean, InFrame
<1> QED
  BY <1>2, <1>3, <1>4, <1>5 DEF CloseInv

\* A step that leaves file and pageMap alone and cleans no frame.
LEMMA InPlaceInv ==
  ASSUME TypeOK, PoolConsistent, CloseInv, status = "open", status' = "open",
         UNCHANGED <<ioVars, pageMap, nextFreeFrame>>, highestAllocated' \in PageNum,
         \A k \in FrameIndex :
           /\ frames[k].dirty => frames'[k].dirty
           /\ frames'[k].dirty => frames[k].dirty \/ k < nextFreeFrame
           /\ ValidHeader(frames[k].data) => ValidHeader(frames'[k].data),
         LoopCleans'
  PROVE  CloseInv'
<1>0. 0 \in PageNum
  BY SMT DEF PageNum
<1>1. \A q \in PageNum : Cached(q) => pageMap[q] \in FrameIndex
  BY CachedFrame
<1>2. \A q \in PageNum : /\ Cached(q)' <=> Cached(q)
                         /\ DirtyPage(q) => DirtyPage(q)'
                         /\ Cached(q) /\ ValidHeader(FrameOf(q).data) =>
                              ValidHeader(FrameOf(q)'.data)
  BY <1>1 DEF Cached, DirtyPage, FrameOf
<1>3. HeaderOnFile' /\ TornIsDirty'
  BY <1>2 DEF CloseInv, HeaderOnFile, TornIsDirty, ioVars
<1>4. HeaderInPool'
  BY <1>0, <1>2 DEF CloseInv, HeaderInPool, ioVars
<1>5. UnusedClean'
  BY DEF CloseInv, UnusedClean
<1> QED
  BY <1>3, <1>4, <1>5 DEF CloseInv

\* A step that leaves the pool alone.
LEMMA PoolSameInv ==
  ASSUME TypeOK, PoolConsistent, CloseInv, status = "open", status' = "open",
         UNCHANGED <<ioVars, frames, pageMap, nextFreeFrame>>, highestAllocated' \in PageNum,
         LoopCleans'
  PROVE  CloseInv'
BY InPlaceInv

\* The session ends.
LEMMA EndSessionCloseInv ==
  ASSUME CloseInv, status = "open", NEW s \in {"closed", "lost", "aborted"}, EndSession(s),
         file' = file
  PROVE  CloseInv'
<1>1. /\ status' # "open" /\ call' = NoCall
      /\ \A f \in FrameIndex : ~frames'[f].dirty
  BY DEF EndSession, EmptyPool, EmptyFrame
<1> QED
  BY <1>1 DEF CloseInv, HeaderOnFile, HeaderInPool, TornIsDirty, UnusedClean, LoopCleans, NoCall

LEMMA LoseInv ==
  ASSUME CloseInv, status = "open", NEW s \in {"lost", "aborted"}, Lose(s)
  PROVE  CloseInv'
BY EndSessionCloseInv DEF Lose

LEMMA LoopCleansIdle ==
  ASSUME call' = NoCall, status' = "open" PROVE LoopCleans'
BY DEF LoopCleans, NoCall

\* fetchPage that cannot read page p, and leaves it in a frame.
LEMMA FetchMisreadsInv ==
  ASSUME TypeOK, PoolConsistent, CloseInv, status = "open", status' = "open",
         highestAllocated' = highestAllocated, call' = NoCall,
         NEW p \in PageNum, FetchMisreads(p)
  PROVE  CloseInv'
<1>1. PICK f \in FrameIndex :
        /\ TakeFrame(p, f)
        /\ ~CanReadNext(p)
        /\ frames' = [frames EXCEPT ![f].pageNum = p, ![f].dirty = FALSE]
  BY DEF FetchMisreads
<1>2. \A k \in FrameIndex \ {f} : frames'[k] = frames[k]
  BY <1>1 DEF TypeOK
<1>3. ~Cached(p) /\ highestAllocated \in PageNum
  BY DEF FetchMisreads, CloseInv, HeaderInPool
<1>4. /\ FileSafe
      /\ InFrame(p, f)
      /\ OtherPages(p)
      /\ good => file'.pageCount > 0 \/ (p # 0 /\ DirtyPage(0)')
  BY <1>1, <1>2, <1>3, TakeFrameSafe
<1>5. good => p # 0
  <2>1. 0 < file'.pageCount <=> file'.pageCount > 0
    BY SMT
  <2> QED
    BY <1>1, <1>4, <2>1 DEF CanReadNext, FileSafe
<1> QED
  BY <1>3, <1>4, <1>5, LoopCleansIdle, PageFrameInv DEF DirtyPage

\* fetchPage, newPage: page p is held in frame f.
LEMMA HeldInv ==
  ASSUME TypeOK, CloseInv, status = "open", status' = "open", call' = NoCall,
         highestAllocated' \in PageNum,
         NEW g \in GuardId, NEW p \in PageNum, NEW f \in FrameIndex, NEW fr \in Frame,
         NEW d, Hold(g, p, f, fr, d), FileSafe, InFrame(p, f), OtherPages(p),
         DirtyPage(p) => fr.dirty,
         good /\ p = 0 => ValidHeader(fr.data) /\ (file'.pageCount > 0 \/ fr.dirty),
         good /\ p # 0 => file'.pageCount > 0 \/ DirtyPage(0)'
  PROVE  CloseInv'
<1>1. frames'[f].data = fr.data /\ frames'[f].dirty = fr.dirty
  BY DEF Hold, TypeOK, Frame
<1> QED
  BY <1>1, LoopCleansIdle, PageFrameInv

\* All frames but f are as they were.
LEMMA HoldOthers ==
  ASSUME TypeOK, NEW g, NEW p, NEW f \in FrameIndex, NEW fr, NEW d, Hold(g, p, f, fr, d)
  PROVE  \A k \in FrameIndex \ {f} : frames'[k] = frames[k]
BY DEF Hold, TypeOK

LEMMA FetchPageInv ==
  ASSUME TypeOK, PoolConsistent, CloseInv,
         NEW g \in GuardId, NEW p \in PageNum, FetchPage(g, p)
  PROVE  CloseInv'
<1>1. /\ status = "open" /\ status' = "open" /\ call' = NoCall
      /\ highestAllocated' \in PageNum
  BY DEF FetchPage, Open, metaVars, CloseInv, HeaderInPool
<1>2. PICK f \in FrameIndex : Fetch(p, f) /\ Hold(g, p, f, Fetched(p, f), FALSE)
  BY DEF FetchPage
<1>3. Fetched(p, f) \in Frame
  BY <1>2, FetchType
<1>4. /\ FileSafe
      /\ InFrame(p, f)
      /\ OtherPages(p)
      /\ DirtyPage(p) => Fetched(p, f).dirty
      /\ good /\ p = 0 => /\ ValidHeader(Fetched(p, f).data)
                          /\ file'.pageCount > 0 \/ Fetched(p, f).dirty
      /\ good /\ p # 0 => file'.pageCount > 0 \/ DirtyPage(0)'
  BY <1>1, <1>2, HoldOthers, FetchSafe
<1> QED
  BY <1>1, <1>2, <1>3, <1>4, HeldInv

LEMMA NewPageFreshCloseInv ==
  ASSUME TypeOK, PoolConsistent, CloseInv, NEW g \in GuardId, NewPageFresh(g)
  PROVE  CloseInv'
<1>1. /\ status = "open" /\ status' = "open" /\ call' = NoCall
  BY DEF NewPageFresh, Open
<1>2. PICK p \in PageNum : p = highestAllocated' /\ p # 0 /\ ~(p <= highestAllocated)
  <2>1. highestAllocated \in PageNum
    BY <1>1 DEF CloseInv, HeaderInPool
  <2>2. highestAllocated' \in PageNum /\ highestAllocated' # 0
        /\ ~(highestAllocated' <= highestAllocated)
    BY <2>1, SMT DEF NewPageFresh, PageNum
  <2> QED
    BY <2>2
<1>3. ~Cached(p)
  BY <1>2 DEF PoolConsistent
<1>4. PICK f \in FrameIndex :
         \E fr : /\ TakeFrame(p, f) /\ Hold(g, p, f, fr, TRUE)
                 /\ fr = [pageNum |-> p, pinCount |-> 0, dirty |-> TRUE,
                          data |-> InitPage(p, frames[f].data)]
  BY <1>2 DEF NewPageFresh
<1>5. PICK fr :
        /\ TakeFrame(p, f) /\ Hold(g, p, f, fr, TRUE)
        /\ fr = [pageNum |-> p, pinCount |-> 0, dirty |-> TRUE,
                 data |-> InitPage(p, frames[f].data)]
  BY <1>4
<1>6. fr \in Frame
  BY <1>2, <1>5, InitPageType, SMT DEF TypeOK, Frame, PageLink
<1>7. /\ FileSafe
      /\ InFrame(p, f)
      /\ OtherPages(p)
      /\ good => file'.pageCount > 0 \/ (p # 0 /\ DirtyPage(0)')
  <2>1. TakeFrame(p, f) /\ \A k \in FrameIndex \ {f} : frames'[k] = frames[k]
    BY <1>5, HoldOthers
  <2> QED
    BY <1>1, <1>3, <2>1, TakeFrameSafe
<1> QED
  BY <1>1, <1>2, <1>5, <1>6, <1>7, HeldInv

LEMMA NewPageReusedInv ==
  ASSUME TypeOK, PoolConsistent, CloseInv, NEW g \in GuardId, NewPageReused(g)
  PROVE  CloseInv'
<1>1. /\ status = "open" /\ status' = "open" /\ call' = NoCall
      /\ highestAllocated' \in PageNum
  BY DEF NewPageReused, Open, CloseInv, HeaderInPool
<1>2. PICK p \in PageNum : p = freespaceHead
  BY <1>1 DEF NewPageReused, TypeOK, MetaTypeOK, PageLink
<1>3. PICK f \in FrameIndex :
        \E fr : /\ Fetch(p, f) /\ Hold(g, p, f, fr, TRUE)
                /\ fr = [Fetched(p, f) EXCEPT !.dirty = TRUE,
                                              !.data = InitPage(p, Fetched(p, f).data)]
  BY <1>2 DEF NewPageReused
<1>4. PICK fr :
        /\ Fetch(p, f) /\ Hold(g, p, f, fr, TRUE)
        /\ fr = [Fetched(p, f) EXCEPT !.dirty = TRUE,
                                      !.data = InitPage(p, Fetched(p, f).data)]
  BY <1>3
<1>5. Fetched(p, f) \in Frame
  BY <1>4, FetchType
<1>6. fr \in Frame /\ fr.dirty /\ fr.data = InitPage(p, Fetched(p, f).data)
  BY <1>4, <1>5, InitPageType DEF Frame
<1>7. /\ FileSafe
      /\ InFrame(p, f)
      /\ OtherPages(p)
      /\ good /\ p = 0 => ValidHeader(Fetched(p, f).data)
      /\ good /\ p # 0 => file'.pageCount > 0 \/ DirtyPage(0)'
  BY <1>1, <1>4, HoldOthers, FetchSafe
<1>8. good /\ p = 0 => ValidHeader(fr.data)
  BY <1>5, <1>6, <1>7 DEF ValidHeader, InitPage, Frame, PageImage
<1> QED
  BY <1>1, <1>4, <1>6, <1>7, <1>8, HeldInv

\* deletePage and a guard's setHeader change the link of a page.
LEMMA LinkInv ==
  ASSUME TypeOK, PoolConsistent, CloseInv, status = "open", status' = "open", call' = NoCall,
         UNCHANGED <<ioVars, pageMap, nextFreeFrame, highestAllocated>>,
         NEW f, NEW n, frames' = [frames EXCEPT ![f].data.next = n]
  PROVE  CloseInv'
<1>1. \A k \in FrameIndex : frames[k] \in Frame /\ frames[k].data \in PageImage
  BY DEF TypeOK, Frame
<1>2. ASSUME NEW k \in FrameIndex
      PROVE  /\ frames'[k].dirty = frames[k].dirty
             /\ ValidHeader(frames[k].data) => ValidHeader(frames'[k].data)
  <2>1. frames' = [frames EXCEPT ![f] = [frames[f] EXCEPT
                                           !.data = [frames[f].data EXCEPT !.next = n]]]
    OBVIOUS
  <2>2. CASE k # f
    BY <2>1, <2>2 DEF TypeOK
  <2>3. CASE k = f
    <3>1. frames'[k] = [frames[k] EXCEPT !.data = [frames[k].data EXCEPT !.next = n]]
      BY <2>1, <2>3 DEF TypeOK
    <3>2. /\ frames'[k].dirty = frames[k].dirty
          /\ frames'[k].data = [frames[k].data EXCEPT !.next = n]
      BY <1>1, <3>1 DEF Frame
    <3> QED
      BY <1>1, <3>2 DEF PageImage, ValidHeader
  <2> QED
    BY <2>2, <2>3
<1>3. highestAllocated' \in PageNum
  BY DEF CloseInv, HeaderInPool
<1> QED
  BY <1>2, <1>3, LoopCleansIdle, InPlaceInv

LEMMA PageActionCloseInv ==
  ASSUME TypeOK, PoolConsistent, CloseInv, PageAction
  PROVE  CloseInv'
<1>1. ASSUME NEW p \in PageNum, FetchPageFails(p) PROVE CloseInv'
  BY <1>1, FetchMisreadsInv DEF FetchPageFails, Open, metaVars
<1>2. ASSUME NEW p \in PageNum, DeletePage(p) PROVE CloseInv'
  BY <1>2, LinkInv DEF DeletePage, Open, Touch
<1>3. ASSUME NEW p \in PageNum, DeletePageAborts(p) PROVE CloseInv'
  BY <1>3, LoseInv DEF DeletePageAborts, Open
<1>4. CASE NewPageFreshFails
  <2>1. highestAllocated' \in PageNum
    BY <1>4, SMT DEF NewPageFreshFails, Open, CloseInv, HeaderInPool, PageNum
  <2> QED
    BY <1>4, <2>1, LoopCleansIdle, PoolSameInv DEF NewPageFreshFails, Open, poolVars
<1>5. CASE NewPageReusedFails
  <2>1. freespaceHead \in PageNum
    BY <1>5 DEF NewPageReusedFails, TypeOK, MetaTypeOK, PageLink
  <2> QED
    BY <1>5, <2>1, FetchMisreadsInv DEF NewPageReusedFails, Open, metaVars
<1> QED
  BY <1>1, <1>2, <1>3, <1>4, <1>5, FetchPageInv, NewPageFreshCloseInv, NewPageReusedInv
     DEF PageAction

LEMMA GuardActionCloseInv ==
  ASSUME TypeOK, PoolConsistent, PinsMatchGuards, CloseInv, GuardAction
  PROVE  CloseInv'
<1>0. \A k \in FrameIndex : frames[k] \in Frame /\ frames[k].data \in PageImage
  BY DEF TypeOK, Frame
<1>1. status = "open" /\ status' = "open" /\ call' = NoCall /\ highestAllocated' \in PageNum
      /\ UNCHANGED <<ioVars, pageMap, nextFreeFrame, highestAllocated>>
  BY DEF GuardAction, WriteSpan, SetHeader, ResetGuard, MoveGuard, Open, metaVars, CloseInv,
         HeaderInPool
<1>2. ASSUME NEW g \in GuardId, NEW v \in Bodies, WriteSpan(g, v) PROVE CloseInv'
  <2>1. PICK r \in PageNum : r = guards[g].page /\ Cached(r)
    BY <1>2, HeldGuard DEF WriteSpan
  <2>2. pageMap[r] < nextFreeFrame
    BY <2>1 DEF PoolConsistent
  <2>3. frames' = [k \in FrameIndex |->
                     [frames[k] EXCEPT
                        !.data.body = IF k = guards[g].frame THEN v ELSE @,
                        !.dirty = @ \/ (~guards[g].dirty /\ k = pageMap[r])]]
    BY <1>2, <2>1 DEF WriteSpan
  <2>4. \A k \in FrameIndex :
          /\ frames[k].dirty => frames'[k].dirty
          /\ frames'[k].dirty => frames[k].dirty \/ k < nextFreeFrame
          /\ ValidHeader(frames[k].data) => ValidHeader(frames'[k].data)
    BY <1>0, <2>2, <2>3 DEF Frame, PageImage, ValidHeader
  <2> QED
    BY <1>1, <2>4, LoopCleansIdle, InPlaceInv
<1>3. ASSUME NEW g \in GuardId, NEW n \in Links, SetHeader(g, n) PROVE CloseInv'
  BY <1>1, <1>3, LinkInv DEF SetHeader
<1>4. ASSUME NEW r, frames' = frames \/ frames' = Unpin(r) PROVE CloseInv'
  <2>1. \A k \in FrameIndex :
          /\ frames'[k].dirty = frames[k].dirty
          /\ frames'[k].data = frames[k].data
    BY <1>0, <1>4 DEF Unpin, TypeOK, Frame
  <2> QED
    BY <1>1, <2>1, LoopCleansIdle, InPlaceInv
<1>5. ASSUME NEW g \in GuardId, ResetGuard(g) PROVE CloseInv'
  BY <1>4, <1>5 DEF ResetGuard
<1>6. ASSUME NEW g \in GuardId, NEW h \in GuardId, MoveGuard(g, h) PROVE CloseInv'
  BY <1>4, <1>6 DEF MoveGuard
<1> QED
  BY <1>2, <1>3, <1>5, <1>6 DEF GuardAction

LEMMA FlushAllCloseInv ==
  ASSUME TypeOK, PoolConsistent, CloseInv,
         NEW op \in {"flushAll", "close", "destroy"}, FlushAll(op)
  PROVE  CloseInv'
<1>0. 0 \in PageNum /\ \A q \in PageNum : 0 <= q
  BY SMT DEF PageNum
<1>1. /\ status = "open" /\ status' = "open"
      /\ highestAllocated' = highestAllocated /\ highestAllocated \in PageNum
      /\ call' = [op |-> op, at |-> 0, last |-> highestAllocated]
      /\ op # "flushAll" => mode = ReadWrite
  BY DEF FlushAll, MayStart, Open, metaVars, CloseInv, HeaderInPool
<1>2. PICK f \in FrameIndex : Fetch(0, f) /\ PutFileHeader(f)
  BY DEF FlushAll
<1>3. Fetched(0, f) \in Frame /\ Fetched(0, f).data \in PageImage
  BY <1>0, <1>2, FetchType DEF Frame
<1>4. HeaderCount > 0
  BY <1>1, SMT DEF HeaderCount, PageNum
<1>5. /\ frames'[f].data = [Fetched(0, f).data EXCEPT !.count = HeaderCount,
                                                       !.free = freespaceHead]
      /\ frames'[f].dirty
      /\ \A k \in FrameIndex \ {f} : frames'[k] = frames[k]
  BY <1>2, <1>3 DEF PutFileHeader, TypeOK, Frame
<1>6. /\ FileSafe
      /\ InFrame(0, f)
      /\ OtherPages(0)
      /\ good => ValidHeader(Fetched(0, f).data)
  BY <1>0, <1>1, <1>2, <1>5, FetchSafe
<1>7. good => ValidHeader(frames'[f].data)
  BY <1>3, <1>4, <1>5, <1>6 DEF ValidHeader, PageImage
<1>8. LoopCleans'
  BY <1>0, <1>1, <1>6 DEF LoopCleans, FileSafe
<1> QED
  BY <1>0, <1>1, <1>5, <1>6, <1>7, <1>8, PageFrameInv

LEMMA FlushOneCloseInv ==
  ASSUME TypeOK, PoolConsistent, CloseInv, FlushOne
  PROVE  CloseInv'
<1>0. 0 \in PageNum /\ highestAllocated \in PageNum
  BY SMT DEF PageNum, FlushOne, Flushing, CloseInv, HeaderInPool
<1>1. /\ status = "open" /\ status' = "open"
      /\ highestAllocated' = highestAllocated
      /\ UNCHANGED <<pageMap, nextFreeFrame>>
      /\ call' = [call EXCEPT !.at = @ + 1]
  BY DEF FlushOne, Flushing, NextPage
<1>2. call'.op = call.op /\ call'.at = call.at + 1 /\ call'.last = call.last /\ call' # NoCall
      /\ call.at \in Int
  BY <1>1, SMT DEF TypeOK, ClientTypeOK, Call, FlushOne, Flushing, NoCall
<1>3. PICK p \in PageNum : p = call.at
  BY SMT DEF FlushOne, Flushing, TypeOK, ClientTypeOK, Call, PageNum
<1>4. ASSUME mode' = mode,
             \A q \in PageNum : DirtyPage(q)' => DirtyPage(q) /\ q # p
      PROVE  LoopCleans'
  <2>1. \A q \in PageNum : q # p /\ p <= q => p + 1 <= q
    BY SMT DEF PageNum
  <2> QED
    BY <1>1, <1>2, <1>3, <1>4, <2>1 DEF CloseInv, LoopCleans
<1>5. CASE ~Cached(p)
  <2>1. UNCHANGED <<ioVars, frames>>
    BY <1>3, <1>5 DEF FlushOne
  <2>2. \A q \in PageNum : DirtyPage(q)' => DirtyPage(q) /\ q # p
    BY <1>1, <1>5, <2>1 DEF DirtyPage, Cached, FrameOf
  <2>3. LoopCleans'
    BY <1>4, <2>1, <2>2 DEF ioVars
  <2> QED
    BY <1>0, <1>1, <2>1, <2>3, PoolSameInv
<1>6. CASE Cached(p)
  <2>0. PICK f \in FrameIndex : f = pageMap[p] /\ frames[f].pageNum = p
    BY <1>6, CachedFrame
  <2>1. WriteBack(f) /\ frames' = [frames EXCEPT ![f].dirty = FALSE]
    BY <1>3, <1>6, <2>0 DEF FlushOne
  <2>2. f < nextFreeFrame /\ f \in 0 .. nextFreeFrame - 1
    <3>1. f < nextFreeFrame
      BY <1>6, <2>0 DEF PoolConsistent
    <3> QED
      BY <3>1, SMT DEF FrameIndex, TypeOK, ListTypeOK
  <2>3. /\ FileSafe
        /\ frames[f].dirty => good
        /\ FrameOf(p) = frames[f]
        /\ file.pageCount > 0 => file'.pageCount > 0
        /\ good /\ p = 0 => file'.pageCount > 0
    BY <1>1, <2>0, <2>1, <2>2, WriteBackSafe
  <2>4. /\ frames'[f].data = frames[f].data /\ ~frames'[f].dirty
        /\ \A k \in FrameIndex \ {f} : frames'[k] = frames[k]
    BY <2>1 DEF TypeOK, Frame
  <2>5. InFrame(p, f)
    BY <1>1, <2>0, <2>2, <2>4 DEF InFrame, CloseInv, UnusedClean
  <2>6. \A q \in PageNum \ {p} :
          (Cached(q)' <=> Cached(q)) /\ (Cached(q) => FrameOf(q)' = FrameOf(q))
    <3>1. \A q \in PageNum \ {p} : Cached(q) => pageMap[q] \in FrameIndex \ {f}
      BY <2>0, CachedFrame
    <3> QED
      BY <1>1, <2>4, <3>1 DEF Cached, FrameOf
  <2>7. OtherPages(p)
    BY <2>6 DEF OtherPages, DirtyPage
  <2>8. LoopCleans'
    <3>1. ~DirtyPage(p)'
      BY <2>4, <2>5, InFrameIsCached DEF DirtyPage
    <3>2. \A q \in PageNum : DirtyPage(q)' => DirtyPage(q) /\ q # p
      BY <2>6, <3>1 DEF DirtyPage
    <3> QED
      BY <1>4, <2>3, <3>2 DEF FileSafe
  <2>9. good /\ p = 0 => ValidHeader(frames'[f].data)
    BY <1>1, <1>6, <2>3, <2>4 DEF CloseInv, HeaderInPool
  <2>10. good /\ p # 0 => file'.pageCount > 0 \/ DirtyPage(0)'
    BY <1>0, <1>1, <2>3, <2>6 DEF CloseInv, HeaderInPool, DirtyPage
  <2> QED
    BY <1>0, <1>1, <2>3, <2>4, <2>5, <2>7, <2>8, <2>9, <2>10, PageFrameInv DEF DirtyPage
<1> QED
  BY <1>5, <1>6

LEMMA FlushActionCloseInv ==
  ASSUME TypeOK, PoolConsistent, CloseInv, FlushAction
  PROVE  CloseInv'
<1>0. status = "open" /\ highestAllocated \in PageNum /\ 0 \in PageNum
  BY SMT DEF PageNum, FlushAction, FlushPage, FlushAll, FlushAllFails, FlushLoop, FlushOne,
         FlushFails, FlushAborts, FlushReturns, CloseReadOnly, ClosePinned, Flushing, Open,
         CloseInv, HeaderInPool
<1>1. ASSUME NEW p \in PageNum, FlushPage(p) PROVE CloseInv'
  <2>1. /\ status' = "open" /\ call'.op = "flushPage"
        /\ UNCHANGED <<ioVars, frames, pageMap, nextFreeFrame, highestAllocated>>
    BY <1>0, <1>1 DEF FlushPage, poolVars, metaVars
  <2>2. LoopCleans'
    BY <2>1 DEF LoopCleans
  <2> QED
    BY <1>0, <2>1, <2>2, PoolSameInv
<1>2. ASSUME NEW op \in {"flushAll", "close", "destroy"}, FlushAllFails(op) PROVE CloseInv'
  <2>1. CASE Lose("lost")
    BY <1>0, <2>1, LoseInv
  <2>2. CASE FetchMisreads(0) /\ UNCHANGED <<status, metaVars, guards, call, live>>
    BY <1>0, <1>2, <2>2, FetchMisreadsInv DEF FlushAllFails, Open, metaVars
  <2> QED
    BY <1>2, <2>1, <2>2 DEF FlushAllFails
<1>3. CASE FlushFails
  <2>1. CASE Lose("lost")
    BY <1>0, <2>1, LoseInv
  <2>2. CASE call' = NoCall /\ UNCHANGED <<ioVars, status, poolVars, freespaceHead,
                                           highestAllocated, guards, live>>
    BY <1>0, <2>2, LoopCleansIdle, PoolSameInv DEF poolVars
  <2> QED
    BY <1>3, <2>1, <2>2 DEF FlushFails
<1>4. CASE FlushAborts \/ ClosePinned
  BY <1>0, <1>4, LoseInv DEF FlushAborts, ClosePinned
<1>5. CASE FlushReturns
  <2>1. CASE EndSession("closed") /\ UNCHANGED <<file, live>>
    BY <1>0, <2>1, EndSessionCloseInv
  <2>2. CASE call' = NoCall /\ UNCHANGED <<ioVars, status, poolVars, metaVars, guards, live>>
    BY <1>0, <2>2, LoopCleansIdle, PoolSameInv DEF poolVars, metaVars
  <2> QED
    BY <1>5, <2>1, <2>2 DEF FlushReturns
<1>6. CASE CloseReadOnly
  BY <1>0, <1>6, EndSessionCloseInv DEF CloseReadOnly
<1> QED
  BY <1>1, <1>2, <1>3, <1>4, <1>5, <1>6, FlushAllCloseInv, FlushOneCloseInv DEF FlushAction, FlushLoop

LEMMA OpenInv ==
  ASSUME TypeOK, CloseInv, NEW m \in OpenModes,
         OpenEmpty(m) \/ OpenExisting(m) \/ OpenRejected(m)
  PROVE  CloseInv'
<1>0. 0 \in PageNum /\ 0 \in FrameIndex /\ 0 # NoFrame
  BY SMT DEF PageNum, FrameIndex, NoFrame
<1>1. status # "open" /\ call = NoCall
  BY DEF OpenEmpty, OpenExisting, OpenRejected, CloseInv, LoopCleans
<1>2. ASSUME OpenStream(m)
      PROVE  /\ file'.pageCount = file.pageCount /\ file'.image = file.image
             /\ ~file'.torn /\ good'
  BY <1>2 DEF OpenStream, TypeOK, IOTypeOK, FileType
<1>3. ASSUME NEW img, NEW d, LoadPageZero(img, d)
      PROVE  /\ Cached(0)' /\ FrameOf(0)'.data = img /\ FrameOf(0)'.dirty = d
             /\ UnusedClean'
  <2>1. pageMap'[0] = 0 /\ nextFreeFrame' = 1 /\ frames'[0].data = img /\ frames'[0].dirty = d
        /\ \A f \in FrameIndex : frames'[f].dirty => f = 0
    BY <1>0, <1>3 DEF LoadPageZero, EmptyFrame
  <2> QED
    BY <1>0, <2>1, SMT DEF Cached, FrameOf, UnusedClean
<1>4. CASE OpenEmpty(m)
  <2>1. PICK img : /\ img = InitPage(0, [ZeroImage EXCEPT !.magic = TRUE, !.count = 1,
                                                          !.free = INVALID_PAGE])
                   /\ LoadPageZero(img, TRUE)
    BY <1>4 DEF OpenEmpty
  <2>2. ValidHeader(img)
    BY <2>1, SMT DEF InitPage, ZeroImage, ValidHeader
  <2>3. /\ file'.pageCount = 0 /\ ~file'.torn /\ good' /\ status' = "open" /\ call' = NoCall
        /\ highestAllocated' = 0
    BY <1>1, <1>2, <1>4 DEF OpenEmpty
  <2>4. HeaderInPool'
    BY <1>0, <1>3, <2>1, <2>2, <2>3 DEF HeaderInPool, DirtyPage
  <2>5. HeaderOnFile' /\ TornIsDirty' /\ LoopCleans'
    BY <2>3, LoopCleansIdle, SMT DEF HeaderOnFile, TornIsDirty
  <2> QED
    BY <1>3, <2>1, <2>4, <2>5 DEF CloseInv
<1>5. CASE OpenExisting(m)
  <2>1. ValidHeader(file.image[0]) /\ file.pageCount > 0
    BY <1>5 DEF OpenExisting, CloseInv, HeaderOnFile
  <2>2. highestAllocated' \in PageNum
    <3>1. file.image[0].count \in 0 .. MaxPage + 1
      BY <1>0 DEF TypeOK, IOTypeOK, FileType, PageImage
    <3> QED
      BY <1>5, <2>1, <3>1, SMT DEF OpenExisting, ValidHeader, PageNum
  <2>3. /\ file'.pageCount > 0 /\ file'.image = file.image /\ ~file'.torn /\ good'
        /\ status' = "open" /\ call' = NoCall /\ LoadPageZero(file.image[0], FALSE)
    BY <1>1, <1>2, <1>5, <2>1 DEF OpenExisting
  <2>4. HeaderInPool'
    BY <1>3, <2>1, <2>2, <2>3 DEF HeaderInPool
  <2>5. HeaderOnFile' /\ TornIsDirty' /\ LoopCleans'
    BY <2>1, <2>3, LoopCleansIdle DEF HeaderOnFile, TornIsDirty
  <2> QED
    BY <1>3, <2>3, <2>4, <2>5 DEF CloseInv
<1>6. CASE OpenRejected(m)
  <2>1. UNCHANGED <<status, poolVars, call>> /\ ~file.image[0].magic
    BY <1>6 DEF OpenRejected
  <2>2. ~file'.image[0].magic
    <3>1. CASE file' = file
      BY <2>1, <3>1
    <3>2. CASE \E n \in 0 .. MaxPage + 1, q \in PageLink :
                 file' = [file EXCEPT !.image[0].count = n, !.image[0].free = q]
      BY <1>0, <2>1, <3>2 DEF TypeOK, IOTypeOK, FileType, PageImage
    <3> QED
      BY <1>6, <3>1, <3>2 DEF OpenRejected
  <2> QED
    BY <1>1, <2>1, <2>2 DEF CloseInv, HeaderOnFile, HeaderInPool, TornIsDirty, UnusedClean,
                            LoopCleans, NoCall, poolVars
<1> QED
  BY <1>4, <1>5, <1>6

LEMMA StreamFailsInv ==
  ASSUME TypeOK, PoolConsistent, CloseInv, StreamFails
  PROVE  CloseInv'
<1>1. /\ status = "open" /\ status' = "open"
      /\ UNCHANGED <<mode, frames, pageMap, nextFreeFrame, highestAllocated, call>>
  BY DEF StreamFails, FailStream, TearAppend, poolVars, metaVars
<1>2. \A q : (Cached(q)' <=> Cached(q)) /\ FrameOf(q)' = FrameOf(q) /\
             (DirtyPage(q)' <=> DirtyPage(q))
  BY <1>1 DEF Cached, FrameOf, DirtyPage
<1>3. ~good' /\ file'.pageCount = file.pageCount /\ file'.image = file.image
  BY DEF StreamFails, FailStream, TearAppend, TypeOK, IOTypeOK, FileType
<1>4. TornIsDirty'
  <2>1. CASE FailStream
    BY <1>1, <1>2, <2>1 DEF FailStream, CloseInv, TornIsDirty
  <2>2. CASE \E f \in FrameIndex : frames[f].dirty /\ TearAppend(frames[f].pageNum)
    <3>1. PICK f \in FrameIndex : frames[f].dirty /\ TearAppend(frames[f].pageNum)
      BY <2>2
    <3>2. f \in 0 .. nextFreeFrame - 1 /\ f # NoFrame
      BY <3>1, SMT DEF CloseInv, UnusedClean, FrameIndex, NoFrame, TypeOK, ListTypeOK
    <3>3. PICK q \in PageNum : q = frames[f].pageNum /\ pageMap[q] = f
      BY <3>2 DEF PoolConsistent
    <3>4. DirtyPage(q)
      BY <3>1, <3>2, <3>3 DEF DirtyPage, Cached, FrameOf
    <3>5. mode = ReadWrite
      BY <3>1 DEF TearAppend, CanWrite
    <3> QED
      BY <1>1, <1>2, <1>3, <3>4, <3>5 DEF TornIsDirty
  <2> QED
    BY <2>1, <2>2 DEF StreamFails
<1> QED
  BY <1>1, <1>2, <1>3, <1>4
     DEF CloseInv, HeaderOnFile, HeaderInPool, UnusedClean, LoopCleans

LEMMA CloseInvInit == Init => CloseInv
<1> SUFFICES ASSUME Init PROVE CloseInv
  OBVIOUS
<1>1. /\ status = "closed" /\ call = NoCall
      /\ \A f \in FrameIndex : ~frames[f].dirty
  BY DEF Init, EmptyFrame
<1>2. HeaderOnFile
  <2>1. 0 \in PageNum
    BY SMT DEF PageNum
  <2> QED
    BY <1>1, <2>1, SMT DEF Init, NoFile, ForeignFile, ZeroImage, HeaderOnFile
<1> QED
  BY <1>1, <1>2 DEF CloseInv, HeaderInPool, TornIsDirty, UnusedClean, LoopCleans, NoCall

LEMMA CloseInvStep ==
  TypeOK /\ PoolConsistent /\ PinsMatchGuards /\ CloseInv /\ [Next]_vars => CloseInv'
<1> SUFFICES ASSUME TypeOK, PoolConsistent, PinsMatchGuards, CloseInv, [Next]_vars
             PROVE  CloseInv'
  OBVIOUS
<1>1. CASE OpenPager
  BY <1>1, OpenInv DEF OpenPager
<1>2. CASE Crash
  BY <1>2, LoseInv DEF Crash
<1>3. CASE UNCHANGED vars
  <2>1. \A q : (Cached(q)' <=> Cached(q)) /\ FrameOf(q)' = FrameOf(q) /\
               (DirtyPage(q)' <=> DirtyPage(q))
    BY <1>3 DEF vars, poolVars, Cached, FrameOf, DirtyPage
  <2> QED
    BY <1>3, <2>1 DEF vars, ioVars, poolVars, metaVars, CloseInv, HeaderOnFile, HeaderInPool,
                      TornIsDirty, UnusedClean, LoopCleans
<1> QED
  BY <1>1, <1>2, <1>3, PageActionCloseInv, GuardActionCloseInv, FlushActionCloseInv, StreamFailsInv DEF Next

\* What a step that closes the session finds.
LEMMA ClosingStep ==
  ASSUME TypeOK, PoolConsistent, CloseInv, [Next]_vars, status = "open", status' = "closed"
  PROVE  /\ ~file.torn
         /\ file.pageCount > 0 => file.image[0].magic /\ file.image[0].count > 0
<1>1. file.pageCount > 0 => file.image[0].magic /\ file.image[0].count > 0
  BY DEF CloseInv, HeaderOnFile, ValidHeader
<1>2. CloseReadOnly \/ (FlushReturns /\ call.op \in {"close", "destroy"})
  <2>1. \A s : Lose(s) => status' = s
    BY DEF Lose, EndSession
  <2>2. ~OpenPager
    BY DEF OpenPager, OpenEmpty, OpenExisting, OpenRejected
  <2>3. ~PageAction
    BY <2>1 DEF PageAction, FetchPage, FetchPageFails, DeletePage, DeletePageAborts,
            NewPageFresh, NewPageFreshFails, NewPageReused, NewPageReusedFails
  <2>4. ~GuardAction
    BY DEF GuardAction, WriteSpan, SetHeader, ResetGuard, MoveGuard
  <2>5. FlushAction =>
          CloseReadOnly \/ (FlushReturns /\ call.op \in {"close", "destroy"})
    BY <2>1 DEF FlushAction, FlushPage, FlushAll, FlushAllFails, FlushLoop, FlushOne,
            FlushFails, FlushAborts, FlushReturns, ClosePinned
  <2>6. ~Crash /\ ~StreamFails /\ status' # status
    BY <2>1 DEF Crash, StreamFails
  <2> QED
    BY <2>2, <2>3, <2>4, <2>5, <2>6 DEF Next, vars
<1>3. ASSUME file.torn PROVE FALSE
  <2>1. PICK p \in PageNum : mode = ReadWrite /\ DirtyPage(p)
    BY <1>3 DEF CloseInv, TornIsDirty
  <2>2. FlushReturns /\ call.op \in {"close", "destroy"}
    BY <1>2, <2>1 DEF CloseReadOnly, ReadOnly, ReadWrite
  <2>3. call.at <= p /\ p <= highestAllocated /\ call.at > highestAllocated
    BY <2>1, <2>2 DEF CloseInv, LoopCleans, DirtyPage, PoolConsistent, FlushReturns
  <2> QED
    BY <2>3, SMT DEF PageNum, TypeOK, ClientTypeOK, MetaTypeOK, Call, PageLink
<1> QED
  BY <1>1, <1>3

\* The file of a session that ends with close or with the destructor can be
\* opened again: whatever the client did, and whatever part of the session's
\* writes failed, close does not return success over a torn file.
THEOREM ClosedFileCanBeOpened == Spec => CloseLeavesOpenable
<1>1. TypeOK /\ PoolConsistent /\ CloseInv /\ [Next]_vars =>
        [status = "open" /\ status' = "closed" =>
           /\ ~file.torn
           /\ file.pageCount > 0 => file.image[0].magic /\ file.image[0].count > 0]_vars
  BY ClosingStep
<1> QED
  BY <1>1, TypeInit, TypeStep, PoolInit, PoolStep, ClosedInit, ClosedStep, PinsInit, PinsStep,
     CloseInvInit, CloseInvStep, PTL DEF Spec, CloseLeavesOpenable
=============================================================================
