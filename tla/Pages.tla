--------------------------------- MODULE Pages ---------------------------------
(***************************************************************************)
(* Physical memory as the rest of the kernel sees it: 4 KiB pages that     *)
(* pmm_alloc hands out one at a time.  A page is named by its number, so   *)
(* the address of page p is p * 4096 and page 0 *is* the C value NULL.     *)
(***************************************************************************)
EXTENDS Integers

CONSTANT NPages     \* number of pages of physical memory

ASSUME NPagesAssumption == NPages \in Nat \ {0}

Page == 0 .. NPages - 1

NULL == 0           \* mm.h: ((void*) 0)

\* Mutant: the bits are numbered from 1.
pmm_alloc_BitFromOne(free, page) ==
  IF free = {} THEN page = NULL
               ELSE page - 1 \in free /\ \A q \in free : page - 1 <= q

(***************************************************************************)
(* The page one call of pmm_alloc returns when `free' are the pages whose  *)
(* bit is set.  The scan runs over the words and the bits in ascending     *)
(* order, so it finds the lowest free page; when nothing is free it        *)
(* returns NULL.  Either way free \ {page} is what stays free.             *)
(***************************************************************************)
pmm_alloc(free, page) ==
  IF free = {} THEN page = NULL
               ELSE page \in free /\ \A q \in free : page <= q
================================================================================
