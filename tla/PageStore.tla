------------------------------ MODULE PageStore ------------------------------
(***************************************************************************)
(* What a client of the pager is promised, with no pool, no file format    *)
(* and no free list: it owns pages, holds handles on some of them, and a   *)
(* page contains what was last written to it through a handle, until the   *)
(* page is deleted.  A session that is closed gives everything back when   *)
(* the next one starts; one that dies may forget or corrupt anything.      *)
(* DurableStore adds what may be counted on when a session dies, and is    *)
(* what LRUPager is shown to implement.                                    *)
(***************************************************************************)
EXTENDS Integers

CONSTANTS
  PageNum,   \* page numbers, 0 among them
  Handle,    \* the client's handles
  NoPage,    \* what a handle that holds no page has, not a page number
  Contents,  \* what a page may contain
  Blank      \* the contents of a new page

VARIABLES
  running,  \* a session is open
  store,    \* the contents of each page the client owns
  held      \* the page each handle gives access to

storeVars == <<running, store, held>>

StoreTypeOK ==
  /\ running \in BOOLEAN
  /\ \E S \in SUBSET PageNum : store \in [S -> Contents]
  /\ held \in [Handle -> PageNum \cup {NoPage}]

Pages == DOMAIN store

Extend(p, c)  == [q \in Pages \cup {p} |-> IF q = p THEN c ELSE store[q]]
NothingHeld   == [h \in Handle |-> NoPage]

Init ==
  /\ running = FALSE
  /\ store = [q \in {} |-> Blank]
  /\ held = NothingHeld

\* A session owns page 0 from the start; a session that only reads may not.
Start ==
  /\ ~running
  /\ running' = TRUE
  /\ \/ UNCHANGED store
     \/ 0 \notin Pages /\ \E c \in Contents : store' = Extend(0, c)
  /\ UNCHANGED held

Stop ==
  /\ running
  /\ held = NothingHeld
  /\ running' = FALSE
  /\ UNCHANGED <<store, held>>

Die ==
  /\ running
  /\ running' = FALSE
  /\ \E S \in SUBSET Pages : store' \in [S -> Contents]
  /\ held' = NothingHeld

Acquire(h, p) ==
  /\ running
  /\ held[h] = NoPage
  /\ p \in Pages
  /\ held' = [held EXCEPT ![h] = p]
  /\ UNCHANGED <<running, store>>

Create(h, p) ==
  /\ running
  /\ held[h] = NoPage
  /\ p \notin Pages
  /\ held' = [held EXCEPT ![h] = p]
  /\ store' = Extend(p, Blank)
  /\ UNCHANGED running

Write(h, c) ==
  /\ running
  /\ held[h] # NoPage
  /\ store' = [store EXCEPT ![held[h]] = c]
  /\ UNCHANGED <<running, held>>

Release(h) ==
  /\ running
  /\ held' = [held EXCEPT ![h] = NoPage]
  /\ UNCHANGED <<running, store>>

\* What h held is released.
Move(g, h) ==
  /\ running
  /\ g # h
  /\ held' = [held EXCEPT ![h] = held[g], ![g] = NoPage]
  /\ UNCHANGED <<running, store>>

Delete(p) ==
  /\ running
  /\ p \in Pages
  /\ \A h \in Handle : held[h] # p
  /\ store' = [q \in Pages \ {p} |-> store[q]]
  /\ UNCHANGED <<running, held>>

Use ==
  \/ Start
  \/ \E h \in Handle, p \in PageNum : Acquire(h, p) \/ Create(h, p)
  \/ \E h \in Handle, c \in Contents : Write(h, c)
  \/ \E g, h \in Handle : Move(g, h)
  \/ \E h \in Handle : Release(h)
  \/ \E p \in PageNum : Delete(p)

Next == Use \/ Stop \/ Die

Spec == Init /\ [][Next]_storeVars
=============================================================================
