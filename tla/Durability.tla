----------------------------- MODULE Durability -----------------------------
(***************************************************************************)
(* What LRUPager leaves on file when its process dies, at any moment, also *)
(* between two writes of a flushAll: the pager over several sessions, some *)
(* of which crash, with a history of what the client has put in safety.    *)
(*                                                                         *)
(* Pages reach the file in three ways: flushAll and close write page 0,    *)
(* with the new page count, before the pages it counts; flushPage writes a *)
(* page and not the count; eviction writes any page at any time.  A write  *)
(* is taken to be on file when writePage returns.  Assumption: the stream, *)
(* which the code never flushes, holds back nothing as large as a page but *)
(* hands it to the operating system, and that survives the process.        *)
(***************************************************************************)
EXTENDS LRUPager

VARIABLE kept  \* history: the pages the client owned when flushAll or close was
               \* last done and has not deleted since, with what each contained
               \* then and has contained since

durableVars == <<vars, kept>>

DurableInit == Init /\ kept = [p \in {} |-> {}]

DurableTypeOK ==
  /\ TypeOK
  /\ \E S \in SUBSET live : kept \in [S -> SUBSET Contents]

\* flushAll or close returns without an error.
FlushAllDone ==
  /\ call.op \in {"flushAll", "close", "destroy"}
  /\ call.at > call.last

\* What the client counts on after a step.
Keep ==
  kept' = IF FlushAllDone THEN [p \in live' |-> {ContentsOf(p)'}]
          ELSE [p \in DOMAIN kept \cap live' |-> kept[p] \cup {ContentsOf(p)'}]

Dies == status = "open" /\ status' \in {"lost", "aborted"}

\* After a crash the client goes on with the pages it counted on.
GoOn ==
  /\ live' = DOMAIN kept
  /\ kept' = [p \in DOMAIN kept |-> {Visible(file.image[p])}]

DurableNext == Next /\ IF Dies THEN GoOn ELSE Keep

DurableSpec == DurableInit /\ [][DurableNext]_durableVars

-----------------------------------------------------------------------------
\* Whenever the process dies, every page that was there when flushAll or close
\* was last done can be fetched by the next session, and contains what it did
\* then or something the client has written since: neither a flushAll that is
\* cut short after page 0, nor evictions, nor deletions and reuse of other
\* pages take it away.
SyncedSurvive ==
  \A p \in DOMAIN kept :
    /\ p < file.pageCount
    /\ p < file.image[0].count
    /\ Visible(file.image[p]) \in kept[p]

LinkOnFile(p) == IF p < file.pageCount THEN file.image[p].next ELSE INVALID_PAGE

\* The free list that the header on file starts.
FreeOnFile ==
  LET nth[n \in 0 .. MaxPage + 1] ==
        IF n = 0 THEN file.image[0].free
        ELSE IF nth[n - 1] \in PageNum THEN LinkOnFile(nth[n - 1]) ELSE INVALID_PAGE
  IN {nth[n] : n \in 0 .. MaxPage + 1} \ {INVALID_PAGE}

\* After a crash between two operations, newPage hands out no page in safety: the
\* free list on file, which is as old as the last flushAll while its pages are
\* not, leads to none.
SyncedNotFree ==
  file.pageCount > 0 /\ call = NoCall => FreeOnFile \cap DOMAIN kept = {}

DurableStoreOfPager == INSTANCE DurableStore WITH
  Handle  <- GuardId,
  NoPage  <- INVALID_PAGE,
  Blank   <- [next |-> INVALID_PAGE, body |-> EmptyBody],
  running <- (status = "open"),
  store   <- [p \in live |-> ContentsOf(p)],
  held    <- [g \in GuardId |-> guards[g].page]

\* The pager implements a store that survives crashes.
ImplementsDurableStore == DurableStoreOfPager!DurableSpec
=============================================================================
