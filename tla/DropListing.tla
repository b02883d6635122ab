------------------------------ MODULE DropListing ------------------------------
(***************************************************************************)
(* Reading a directory of a dropped folder: the kernel asks with an offset,  *)
(* the guest fills its buffer from the pages of the host, and the host       *)
(* lists from a position.  Items of a kind that is not shared have a         *)
(* position of their own on the host.                                       *)
(* (do_readdir of np_drop_fs.c, listDirectory of DropFileServer.swift)      *)
(***************************************************************************)
EXTENDS Integers, Sequences, SequencesExt, FiniteSetsExt

CONSTANTS
  Length,   \* items in the directory
  Page,     \* listPage
  Buffer    \* sizes of the kernel's buffer, in entries

VARIABLES
  items,   \* the directory: whether each item is shared
  offset,  \* where the kernel asks next
  asked,   \* the request in progress: where it is and what room it has left
  page,    \* the page the guest is reading
  listed   \* what the kernel got, in order

vars == <<items, offset, asked, page, listed>>

NoRequest == [index |-> 0, room |-> 0, got |-> <<>>, more |-> FALSE]

Init ==
  /\ items \in [1 .. Length -> BOOLEAN]
  /\ offset = 0 /\ asked = NoRequest /\ page = <<>> /\ listed = <<>>

\* The kernel reads on from the offset of its last entry.
ReadDir(room) ==
  /\ asked = NoRequest /\ asked' = [index |-> offset, room |-> room, got |-> <<>>, more |-> TRUE]
  /\ page' = <<>> /\ UNCHANGED <<items, offset, listed>>

\* listDirectory: entries from a position on, as many as fit a page.
Shared(start) == SelectSeq([i \in 1 .. Length |-> i], LAMBDA i : i > start /\ items[i])

PageFrom(start) == SubSeq(Shared(start), 1, Min({Page, Len(Shared(start))}))

\* NP_DROP_LIST; an empty page is the last.
List ==
  /\ asked.more /\ page = <<>> /\ asked.room > 0
  /\ page' = PageFrom(asked.index) /\ asked' = [asked EXCEPT !.more = page' # <<>>]
  /\ UNCHANGED <<items, offset, listed>>

\* add_dirent: the next entry of the page, while it fits.
Add ==
  /\ page # <<>> /\ asked.room > 0 /\ page' = Tail(page)
  /\ asked' = [asked EXCEPT !.index = @ + 1, !.room = @ - 1, !.got = Append(@, Head(page))]
  /\ UNCHANGED <<items, offset, listed>>

Resume == asked.index

\* The answer of READDIR.
Answer ==
  /\ (asked.room = 0 \/ ~asked.more)
  /\ asked # NoRequest /\ listed' = listed \o asked.got /\ offset' = Resume
  /\ asked' = NoRequest /\ page' = <<>> /\ UNCHANGED items

\* The directory is at its end when READDIR brings nothing.
Next == (\E room \in Buffer : offset < Length + 1 /\ Len(listed) <= Length /\ ReadDir(room)) \/ List \/ Add \/ Answer
Spec == Init /\ [][Next]_vars

---------------------------------------------------------------------------
TypeOK == /\ Len(page) <= Page /\ Range(listed) \subseteq 1 .. Length /\ offset \in Nat

\* However the pages and buffers fall, an item is listed only after all that are
\* shared before it, and a directory without hidden items is listed in order and
\* once.  ("offsets stay stable" does not hold behind a hidden item, which has a
\* position on the host and none in the guest: there items are listed again.)
NoneSkipped == LET all == listed \o asked.got IN
  \A k \in DOMAIN all : \A i \in 1 .. all[k] : items[i] => \E j \in 1 .. k : all[j] = i
ListedOnce == LET all == listed \o asked.got IN
  \A j, k \in DOMAIN all : j < k /\ all[k] <= all[j] => \E i \in 1 .. all[j] : ~items[i]

\* When READDIR finds nothing more, everything was listed.
EndMeansAll == asked # NoRequest /\ ~asked.more /\ asked.got = <<>> => Range(listed) = Range(Shared(0))

\* A listing is complete, and names things twice only behind a hidden item.
ListingAgrees == NoneSkipped /\ ListedOnce /\ EndMeansAll
=============================================================================
