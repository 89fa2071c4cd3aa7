--------------------------------- MODULE MCPmm ---------------------------------
(***************************************************************************)
(* Memory layouts for Pmm on a machine of 16 pages of 4 bytes: low memory, *)
(* a hole for the BIOS, extended memory that starts with the kernel.       *)
(***************************************************************************)
EXTENDS Pmm

Region(base, length, type) == [base |-> base, length |-> length, type |-> type]
Module(start, end) == [mod_start |-> start, mod_end |-> end]

Layout(mmaps, kernel_ends, infos, lists, modss) ==
  [mmap : mmaps, kernel_start : {16}, kernel_end : kernel_ends,
   mb_info : infos, modules : lists, mods : modss]

PcMap == << Region(0, 8, 1), Region(8, 8, 2), Region(16, 40, 1), Region(56, 8, 2) >>

\* The hole at the top reaches a little into the last page of RAM, and low
\* memory ends within a page, as the 639 kB of a PC do not but may.
RaggedMap == << Region(0, 7, 1), Region(16, 37, 1), Region(53, 11, 2) >>

\* RAM right up to the end of the address space, and RAM above it.
FullMap == << Region(0, 8, 1), Region(16, 48, 1) >>
HighMap == << Region(0, 8, 1), Region(20, 8, 1), Region(64, 40, 1) >>

\* Ends in the last page: the loop over this region never does.
TopMap == << Region(0, 8, 1), Region(16, 45, 1) >>

\* Modules as a boot loader that aligns them to pages loads them.
AlignedMods ==
  {<< >>} \cup {<< Module(24, e), Module(28, f) >> : e \in 25 .. 28, f \in 29 .. 36}

\* Modules that follow each other at any address.
PackedMods ==
  {<< Module(s, e), Module(e, f) >> : s \in 24 .. 27, e \in 27 .. 31, f \in 32 .. 34}

\* A module in the last page, whose loop never ends either.
TopMods == {<< Module(24, 28), Module(56, 62) >>}

AlignedLayouts == Layout({PcMap}, {20, 24}, {5, 40}, {6, 52}, AlignedMods)

AnyLayouts ==
  Layout({PcMap, RaggedMap, FullMap, HighMap, TopMap}, {20, 24}, {5}, {50}, PackedMods)
  \cup Layout({PcMap}, {20}, {5}, {50}, TopMods)

AllLayouts == AlignedLayouts \cup AnyLayouts
================================================================================
