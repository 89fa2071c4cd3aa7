------------------------------- MODULE PageAlloc -------------------------------
(***************************************************************************)
(* What the rest of the kernel relies on the physical memory manager for,  *)
(* without its bitmap, its loops or the multiboot structures: while it is  *)
(* set up pages become free and reserved; from then on each call           *)
(* takes the lowest free page away for good.  Nothing in the kernel gives  *)
(* a page back.                                                            *)
(***************************************************************************)
EXTENDS Pages

VARIABLES
  free,         \* pages that may still be handed out
  handed,       \* pages that have been
  ready         \* pmm_init has returned

pageVars == <<free, handed, ready>>

PageTypeOK == free \subseteq Page /\ handed \subseteq Page /\ ready \in BOOLEAN

PageInit == free = {} /\ handed = {} /\ ready = FALSE

\* pmm_init frees or reserves a page, or the two of the multiboot structures.
Setup  == ~ready /\ free' \subseteq Page /\ UNCHANGED <<handed, ready>>
Finish == ~ready /\ ready' = TRUE /\ UNCHANGED <<free, handed>>

HandOut(page) ==
  /\ ready
  /\ free # {}
  /\ pmm_alloc(free, page)
  /\ free' = free \ {page}
  /\ handed' = handed \cup {page}
  /\ UNCHANGED ready

PageNext ==
  \/ Setup
  \/ Finish
  \/ \E page \in Page : HandOut(page)

PageSpec == PageInit /\ [][PageNext]_pageVars

\* A page that was handed out is in use for ever: it is not free, so no
\* later call can return it to somebody else.
HandedOnce == handed \cap free = {}
================================================================================
