---------------------------------- MODULE Pmm ----------------------------------
(***************************************************************************)
(* mm_phys.c: the bitmap of free pages, pmm_init's loops over the BIOS     *)
(* memory map, the kernel and the multiboot modules, one step for each     *)
(* iteration, and the pmm_alloc calls that follow.                         *)
(*                                                                         *)
(* A word of the bitmap is the set of its 1 bits.  Addresses are uintptr_t *)
(* and wrap at Span; the memory map's base and length are 64 bits wide.    *)
(* pmm_alloc is called with interrupts off or before there is a task, so a *)
(* call is one step.                                                       *)
(***************************************************************************)
EXTENDS Pages, Sequences

CONSTANTS
  PageBytes,    \* 4096
  WordBits,     \* bits of a bitmap word: 32
  Layouts       \* the memory layouts the boot loader may report

ASSUME PmmAssumption ==
  /\ PageBytes \in Nat \ {0}
  /\ WordBits \in Nat \ {0}
  /\ NPages % WordBits = 0

Span        == NPages * PageBytes
BITMAP_SIZE == NPages \div WordBits
Address     == 0 .. Span - 1
Bit         == 0 .. WordBits - 1

\* kernel.ld puts the kernel's start and end at multiples of 4096.
ASSUME LayoutsAssumption ==
  \A l \in Layouts :
    /\ l.mmap \in Seq([base : Nat, length : Nat, type : Nat])
    /\ l.kernel_start \in Address /\ l.kernel_start % PageBytes = 0
    /\ l.kernel_end \in Address /\ l.kernel_end % PageBytes = 0
    /\ l.kernel_start <= l.kernel_end
    /\ l.mb_info \in Address /\ l.modules \in Address
    /\ l.mods \in Seq([mod_start : Address, mod_end : Address])

VARIABLES
  layout,       \* [mmap, kernel_start, kernel_end, mb_info, modules, mods]
  bitmap,
  pc,           \* the loop of pmm_init that is running
  k,            \* mmap, then i: the entry the outer loop is at
  addr,
  end_addr,
  handed        \* history: the pages pmm_alloc has returned

initVars == <<pc, k, addr, end_addr>>
pmmVars == <<layout, bitmap, initVars, handed>>

PC == {"mmap", "region", "kernel", "mods", "module", "ready"}

PmmTypeOK ==
  /\ layout \in Layouts
  /\ bitmap \in [0 .. BITMAP_SIZE - 1 -> SUBSET Bit]
  /\ pc \in PC
  /\ k \in Nat \ {0}
  /\ addr \in Address
  /\ end_addr \in Address
  /\ handed \subseteq Page

PmmInit ==
  /\ layout \in Layouts
  /\ bitmap = [w \in 0 .. BITMAP_SIZE - 1 |-> {}]
  /\ pc = "mmap"
  /\ k = 1
  /\ addr = 0
  /\ end_addr = 0
  /\ handed = {}

--------------------------------------------------------------------------------
(* The bitmap.                                                             *)

PageOf(a) == a \div PageBytes

\* Mutant: bits counted from 1.
Freed_BitFromOne(page) ==
  [bitmap EXCEPT ![page \div WordBits] = @ \cup {(page % WordBits) + 1}]

\* pmm_free
Freed(page) ==
  [bitmap EXCEPT ![page \div WordBits] = @ \cup {page % WordBits}]

\* pmm_mark_used
MarkedUsed(map, page) ==
  [map EXCEPT ![page \div WordBits] = @ \ {page % WordBits}]

\* The set the bitmap stands for.
FreePages == {p \in Page : p % WordBits \in bitmap[p \div WordBits]}

--------------------------------------------------------------------------------
(* pmm_init: free what the BIOS reports, then take back what is in use.    *)

Goto(loop) == pc' = loop /\ UNCHANGED <<layout, handed>>

NextRegion ==
  /\ pc = "mmap"
  /\ k <= Len(layout.mmap)
  /\ LET region == layout.mmap[k] IN
       IF region.type = 1
         THEN /\ addr' = region.base % Span
              /\ end_addr' = (addr' + region.length) % Span
              /\ Goto("region")
              /\ UNCHANGED k
         ELSE Goto("mmap") /\ k' = k + 1 /\ UNCHANGED <<addr, end_addr>>
  /\ UNCHANGED bitmap

\* Mutant: <= for <.
FreeRegionPage_Inclusive ==
  /\ pc = "region"
  /\ addr <= end_addr
  /\ bitmap' = Freed(PageOf(addr))
  /\ addr' = (addr + PageBytes) % Span
  /\ Goto("region")
  /\ UNCHANGED <<k, end_addr>>

FreeRegionPage ==
  /\ pc = "region"
  /\ addr < end_addr
  /\ bitmap' = Freed(PageOf(addr))
  /\ addr' = (addr + PageBytes) % Span
  /\ Goto("region")
  /\ UNCHANGED <<k, end_addr>>

RegionDone ==
  /\ pc = "region"
  /\ addr >= end_addr
  /\ k' = k + 1
  /\ Goto("mmap")
  /\ UNCHANGED <<bitmap, addr, end_addr>>

\* Mutant: the kernel's first page is skipped.
MmapDone_SkipsFirst ==
  /\ pc = "mmap"
  /\ k > Len(layout.mmap)
  /\ addr' = layout.kernel_start + PageBytes
  /\ Goto("kernel")
  /\ UNCHANGED <<bitmap, k, end_addr>>

MmapDone ==
  /\ pc = "mmap"
  /\ k > Len(layout.mmap)
  /\ addr' = layout.kernel_start
  /\ Goto("kernel")
  /\ UNCHANGED <<bitmap, k, end_addr>>

ReserveKernelPage ==
  /\ pc = "kernel"
  /\ addr < layout.kernel_end
  /\ bitmap' = MarkedUsed(bitmap, PageOf(addr))
  /\ addr' = (addr + PageBytes) % Span
  /\ Goto("kernel")
  /\ UNCHANGED <<k, end_addr>>

\* The multiboot structure and the list of modules, a page each.
ReserveInfo ==
  /\ pc = "kernel"
  /\ addr >= layout.kernel_end
  /\ bitmap' = MarkedUsed(MarkedUsed(bitmap, PageOf(layout.mb_info)),
                          PageOf(layout.modules))
  /\ k' = 1
  /\ Goto("mods")
  /\ UNCHANGED <<addr, end_addr>>

NextModule ==
  /\ pc = "mods"
  /\ k <= Len(layout.mods)
  /\ addr' = layout.mods[k].mod_start
  /\ Goto("module")
  /\ UNCHANGED <<bitmap, k, end_addr>>

ReserveModulePage ==
  /\ pc = "module"
  /\ addr < layout.mods[k].mod_end
  /\ bitmap' = MarkedUsed(bitmap, PageOf(addr))
  /\ addr' = (addr + PageBytes) % Span
  /\ Goto("module")
  /\ UNCHANGED <<k, end_addr>>

\* Mutant: i is not incremented.
ModuleDone_SameModule ==
  /\ pc = "module"
  /\ addr >= layout.mods[k].mod_end
  /\ Goto("mods")
  /\ UNCHANGED <<bitmap, k, addr, end_addr>>

ModuleDone ==
  /\ pc = "module"
  /\ addr >= layout.mods[k].mod_end
  /\ k' = k + 1
  /\ Goto("mods")
  /\ UNCHANGED <<bitmap, addr, end_addr>>

InitDone ==
  /\ pc = "mods"
  /\ k > Len(layout.mods)
  /\ Goto("ready")
  /\ UNCHANGED <<bitmap, k, addr, end_addr>>

InitStep ==
  \/ NextRegion \/ FreeRegionPage \/ RegionDone \/ MmapDone
  \/ ReserveKernelPage \/ ReserveInfo
  \/ NextModule \/ ReserveModulePage \/ ModuleDone
  \/ InitDone

--------------------------------------------------------------------------------
(* pmm_alloc: the first word with a bit set, and its first bit.            *)

\* Mutant: the bits of a word are scanned downwards.
FirstSet_Downwards(word, b) == b \in bitmap[word] /\ \A c \in bitmap[word] : b >= c

FirstSet(word, b) == b \in bitmap[word] /\ \A c \in bitmap[word] : b <= c

\* Mutant: the bit is not cleared.
Alloc_NotCleared ==
  /\ pc = "ready"
  /\ \E word \in DOMAIN bitmap, b \in Bit :
       /\ \A v \in 0 .. word - 1 : bitmap[v] = {}
       /\ FirstSet(word, b)
       /\ handed' = handed \cup {word * WordBits + b}
  /\ UNCHANGED <<layout, bitmap, initVars>>

Alloc ==
  /\ pc = "ready"
  /\ \E word \in DOMAIN bitmap, b \in Bit :
       /\ \A v \in 0 .. word - 1 : bitmap[v] = {}
       /\ FirstSet(word, b)
       /\ bitmap' = [bitmap EXCEPT ![word] = @ \ {b}]
       /\ handed' = handed \cup {word * WordBits + b}
  /\ UNCHANGED <<layout, initVars>>

\* Nothing is free: pmm_alloc returns NULL.
AllocFails ==
  /\ pc = "ready"
  /\ \A word \in DOMAIN bitmap : bitmap[word] = {}
  /\ UNCHANGED pmmVars

PmmNext == InitStep \/ Alloc \/ AllocFails

PmmSpec == PmmInit /\ [][PmmNext]_pmmVars

\* The processor goes on executing pmm_init.
PmmFairSpec == PmmSpec /\ WF_pmmVars(InitStep)

--------------------------------------------------------------------------------
(* Properties                                                              *)

\* The pages with at least one byte in [from, to).
Touched(from, to) ==
  {p \in Page : p * PageBytes < to /\ from < (p + 1) * PageBytes /\ from < to}

KernelPages == Touched(layout.kernel_start, layout.kernel_end)

ModulePages ==
  UNION {Touched(layout.mods[n].mod_start, layout.mods[n].mod_end) :
           n \in DOMAIN layout.mods}

InfoPages == {PageOf(layout.mb_info), PageOf(layout.modules)}

\* The pages the memory map reports free in full.
ReportedFree ==
  {p \in Page : \E n \in DOMAIN layout.mmap :
     /\ layout.mmap[n].type = 1
     /\ layout.mmap[n].base <= p * PageBytes
     /\ (p + 1) * PageBytes <= layout.mmap[n].base + layout.mmap[n].length}

\* Once its loop has run, no page of the kernel is free or handed out again,
\* wherever regions and modules begin and end.
KernelStaysReserved ==
  pc \in {"mods", "module", "ready"} =>
    KernelPages \cap (FreePages \cup handed) = {}

\* What is free consists of whole pages below Span; modules start with a page.
WholePages ==
  /\ \A n \in DOMAIN layout.mmap :
       layout.mmap[n].type = 1 =>
         /\ layout.mmap[n].base % PageBytes = 0
         /\ layout.mmap[n].length % PageBytes = 0
         /\ layout.mmap[n].base + layout.mmap[n].length < Span
  /\ \A n \in DOMAIN layout.mods : layout.mods[n].mod_start % PageBytes = 0

\* For regions and modules of whole pages pmm_init is exact: everything that
\* is reported free and not in use can be handed out, and nothing else.
Exact ==
  pc = "ready" /\ WholePages =>
    FreePages \cup handed =
      ReportedFree \ (KernelPages \cup InfoPages \cup ModulePages)

\* A free region, as truncated to 32 bits, or a module ends within the last page.
EndsInLastPage ==
  \/ \E n \in DOMAIN layout.mmap :
       /\ layout.mmap[n].type = 1
       /\ (layout.mmap[n].base + layout.mmap[n].length) % Span > Span - PageBytes
  \/ \E n \in DOMAIN layout.mods : layout.mods[n].mod_end > Span - PageBytes

\* pmm_init returns: but for those none of its loops misses its end.
InitEnds == ~EndsInLastPage => <>(pc = "ready")

\* The bitmap implements the set of pages the other components see.
Abstract == INSTANCE PageAlloc WITH
  free <- FreePages, handed <- handed, ready <- pc = "ready"

ImplementsPageAlloc == Abstract!PageSpec
================================================================================
