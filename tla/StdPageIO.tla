------------------------------ MODULE StdPageIO ------------------------------
(***************************************************************************)
(* The database file and StdPageIO, the object that reads and writes it in *)
(* whole pages (src/src/storage).  What outlives the process is the file;  *)
(* `mode' and `good' belong to the stream the process has open on it.      *)
(*                                                                         *)
(* A page image is a record.  `count' and `free' are the pageCount and     *)
(* freespaceHead fields of the FileHeader and `magic' says that the header *)
(* passes LRUPager::validateFileHeader; they mean something on page 0.     *)
(* `next' is the link of the PageHeader and `body' everything else a       *)
(* client stores in the page.                                              *)
(***************************************************************************)
EXTENDS Integers, FiniteSets

CONSTANTS
  MaxPage,        \* bound: the largest page number a run allocates
  INVALID_PAGE,   \* the page number that names no page
  Bodies,         \* the contents clients write
  EmptyBody       \* the contents of a page that has just been cleared

ASSUME PagesAssumption ==
  /\ MaxPage \in Nat
  /\ INVALID_PAGE \in Nat
  /\ INVALID_PAGE > MaxPage + 1

ReadWrite == "ReadWrite"
ReadOnly  == "ReadOnly"

PageNum  == 0 .. MaxPage
PageLink == PageNum \cup {INVALID_PAGE}

PageImage == [magic : BOOLEAN,
              count : 0 .. MaxPage + 1,
              free  : PageLink,
              next  : PageLink,
              body  : Bodies \cup {EmptyBody}]

\* A page whose bytes are all zero (its `next' is page number 0).
ZeroImage == [magic |-> FALSE, count |-> 0, free |-> 0, next |-> 0,
              body |-> EmptyBody]

VARIABLES
  file,   \* the file: exists, its pages and how many there are; torn: its size
          \* is no multiple of PAGE_SIZE
  mode,   \* mode_: how the stream was opened
  good    \* the stream has not failed (an iostream's failbit is sticky)

ioVars == <<file, mode, good>>

FileType == [exists : BOOLEAN,
             torn : BOOLEAN,
             pageCount : 0 .. MaxPage + 1,
             image : [PageNum -> PageImage]]

IOTypeOK ==
  /\ file \in FileType
  /\ mode \in {ReadWrite, ReadOnly}
  /\ good \in BOOLEAN

NoFile == [exists |-> FALSE, torn |-> FALSE, pageCount |-> 0,
           image |-> [p \in PageNum |-> ZeroImage]]

-----------------------------------------------------------------------------
\* open() succeeds: a missing file is created, but only for writing, and a torn
\* one is refused.
OpenStream(m) ==
  /\ ~file.torn
  /\ m = ReadOnly => file.exists
  /\ file' = [file EXCEPT !.exists = TRUE]
  /\ mode' = m
  /\ good' = TRUE

\* The checks of readPage and writePage.  Writing at pageCount_ appends.
CanRead(p)  == good /\ p < file.pageCount
CanWrite(p) == good /\ mode = ReadWrite /\ p <= file.pageCount

\* writePage when its checks pass.  A page appended anew mends a torn file.
WritePage(p, data) ==
  /\ CanWrite(p)
  /\ file' = [file EXCEPT !.image[p] = data,
                          !.torn = @ /\ p # file.pageCount,
                          !.pageCount = IF p = @ THEN p + 1 ELSE @]
  /\ UNCHANGED <<mode, good>>

\* An operating-system error leaves the stream failed until it is reopened.
FailStream ==
  /\ good
  /\ good' = FALSE
  /\ UNCHANGED <<file, mode>>

\* writePage fails, or the process dies in it, when part of page p has been
\* appended: pageCount_ is not advanced.
TearAppend(p) ==
  /\ CanWrite(p)
  /\ p = file.pageCount
  /\ file' = [file EXCEPT !.torn = TRUE]
  /\ good' = FALSE
  /\ UNCHANGED mode
=============================================================================
