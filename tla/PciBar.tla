--------------------------------- MODULE PciBar --------------------------------
(***************************************************************************)
(* pci_config_bar_analyze (pci.c): the size and kind of each base address  *)
(* register of a PCI function, found by writing ones and reading back.     *)
(*                                                                         *)
(* A 32-bit value is the set of its 1 bits.  A register has fixed low bits,*)
(* which tell its kind, and address bits that can be written; which it has *)
(* is chosen when the loop gets to it.                                     *)
(***************************************************************************)
EXTENDS Integers, FiniteSets, FiniteSetsExt

CONSTANTS
  Headers,      \* the header types a function may have
  Registers,    \* [bits, writable]: what a register may be
  Uppers        \* the writable bits the upper half of a 64-bit BAR may have

ASSUME PciAssumption ==
  /\ Headers \subseteq 0 .. 127
  /\ \A r \in Registers :
       \/ 0 \in r.bits /\ r.bits \subseteq 0 .. 1 /\ r.writable \subseteq 2 .. 31
       \/ r.bits \subseteq 1 .. 3 /\ r.writable \subseteq 4 .. 31
  /\ Uppers \subseteq SUBSET (0 .. 31)

VARIABLES
  headerType,
  bar,
  status,       \* how the analysis goes on, or has ended
  reg,          \* history: the register it last looked at, and the next
  upper,        \* one as the upper half of a 64-bit register
  report,       \* what it last printed
  written       \* history: the registers that have been overwritten

pciVars == <<headerType, bar, status, reg, upper, report, written>>

Kind == {"none", "unused", "mem32", "mem20", "mem64", "io16", "io32"}

PciTypeOK ==
  /\ headerType \in Headers
  /\ bar \in 0 .. 6
  /\ status \in {"loop", "end", "unsupported", "error", "internal", "searching"}
  /\ reg \in [bits : SUBSET (0 .. 3), writable : SUBSET (2 .. 31)]
  /\ upper \subseteq 0 .. 31
  /\ report \in [kind : Kind, bit : 0 .. 63]
  /\ written \subseteq 0 .. 6

PciInit ==
  /\ headerType \in Headers
  /\ bar = 0
  /\ status = "loop"
  /\ reg = [bits |-> {}, writable |-> {}]
  /\ upper = {}
  /\ report = [kind |-> "none", bit |-> 0]
  /\ written = {}

--------------------------------------------------------------------------------

get_number_of_lowest_set_bit(value)  == Min(value)
get_number_of_highest_set_bit(value) == Max(value)

max_bars == 6 - headerType * 4

\* Mutant: the low bits, which tell the kind, are not masked out.
ReadBack_Unmasked(r, n) == r.writable \cup r.bits

\* The bits from n up that read as ones after ones have been written.
ReadBack(r, n) == (r.writable \cup r.bits) \cap n .. 31

Prefetchable(r) == 3 \in r.bits

\* An iteration that looks at a register of this type, and at the next one.
Looks(type, r, u) ==
  /\ status = "loop"
  /\ headerType < 2
  /\ bar < max_bars
  /\ r.bits \cap {0, 1, 2} \in type
  /\ reg' = r
  /\ upper' = u
  /\ UNCHANGED headerType

\* The result is printed, and the loop goes on behind the registers used.
Report(kind, bit, used) ==
  /\ report' = [kind |-> kind, bit |-> bit]
  /\ bar' = bar + used
  /\ UNCHANGED status

\* An error in the register ends the analysis.
Reject == status' = "error" /\ UNCHANGED <<bar, report>>

Write(used) == written' = written \cup bar .. bar + used - 1

Unsupported ==
  /\ status = "loop"
  /\ headerType >= 2
  /\ status' = "unsupported"
  /\ UNCHANGED <<headerType, bar, reg, upper, report, written>>

Mem32(r, u) ==
  LET barValue == ReadBack(r, 4) IN
  /\ Looks({{}}, r, u)
  /\ Write(1)
  /\ \/ barValue = {} /\ ~Prefetchable(r) /\ Report("unused", 0, 1)
     \/ barValue = {} /\ Prefetchable(r) /\ Reject
     \/ /\ barValue # {}
        /\ IF get_number_of_highest_set_bit(barValue) = 31
             THEN Report("mem32", get_number_of_lowest_set_bit(barValue), 1)
             ELSE Reject

\* Below 1 MB: not for a bridge.
Mem20(r, u) ==
  LET barValue == ReadBack(r, 4) IN
  /\ Looks({{1}}, r, u)
  /\ \/ headerType = 1 /\ Reject /\ UNCHANGED written
     \/ /\ headerType # 1
        /\ Write(1)
        /\ IF barValue # {} /\ get_number_of_highest_set_bit(barValue) = 19
             THEN Report("mem20", get_number_of_lowest_set_bit(barValue), 1)
             ELSE Reject

\* Mutants: off by one at the last position, in either direction.
Possible64_Last(r)  == bar < max_bars /\ Prefetchable(r)
Possible64_Early(r) == bar < max_bars - 2 /\ Prefetchable(r)

Possible64(r) == bar < max_bars - 1 /\ Prefetchable(r)

\* What the two halves read.  With no bit in either, the search for one,
\* while (!(value & mask)), has no end.
Sized64(low, high) ==
  \/ /\ low # {}
     /\ IF high = 0 .. 31 /\ get_number_of_highest_set_bit(low) = 31
          THEN Report("mem64", get_number_of_lowest_set_bit(low), 2)
          ELSE Reject
  \/ /\ low = {} /\ high # {}
     /\ IF get_number_of_highest_set_bit(high) = 31
          THEN Report("mem64", get_number_of_lowest_set_bit(high) + 32, 2)
          ELSE Reject
  \/ /\ low = {} /\ high = {}
     /\ status' = "searching"
     /\ UNCHANGED <<bar, report>>

Mem64(r, u) ==
  /\ Looks({{2}}, r, u)
  /\ \/ ~Possible64(r) /\ Reject /\ UNCHANGED written
     \/ Possible64(r) /\ Write(2) /\ Sized64(ReadBack(r, 4), u)

MemInvalid(r, u) == Looks({{1, 2}}, r, u) /\ Reject /\ UNCHANGED written

Io(r, u) ==
  LET barValue == ReadBack(r, 2) IN
  /\ Looks({{0}, {0, 1}}, r, u)
  /\ Write(1)
  /\ IF barValue # {} /\ get_number_of_highest_set_bit(barValue) \in {15, 31}
       THEN Report(IF get_number_of_highest_set_bit(barValue) = 31 THEN "io32" ELSE "io16",
                   get_number_of_lowest_set_bit(barValue), 1)
       ELSE Reject

LoopEnd ==
  /\ status = "loop"
  /\ headerType < 2
  /\ bar >= max_bars
  /\ status' = IF bar = max_bars THEN "end" ELSE "internal"
  /\ UNCHANGED <<headerType, bar, reg, upper, report, written>>

Ended == status \in {"end", "unsupported", "error", "internal"} /\ UNCHANGED pciVars
Searching == status = "searching" /\ UNCHANGED pciVars

PciNext ==
  \/ Unsupported \/ LoopEnd \/ Ended \/ Searching
  \/ \E r \in Registers, u \in Uppers :
       Mem32(r, u) \/ Mem20(r, u) \/ Mem64(r, u) \/ MemInvalid(r, u) \/ Io(r, u)

PciSpec == PciInit /\ [][PciNext]_pciVars

--------------------------------------------------------------------------------
(* Properties                                                              *)

\* A register as the PCI bus has them: its address bits reach from some bit
\* to the top of the space it is for.
Space(r) ==
  CASE 0 \in r.bits                 -> {15, 31}
    [] r.bits \cap {0, 1, 2} = {1}  -> {19}
    [] OTHER                        -> {31}

Regular(r) == \E top \in Space(r), n \in 0 .. 31 : n <= top /\ r.writable = n .. top

Regular64(r, u) ==
  \/ Regular(r) /\ u = 0 .. 31
  \/ r.writable = {} /\ \E n \in 0 .. 31 : u = n .. 31

Is64(r) == r.bits \cap {0, 1, 2} = {2}

\* How many address bits there are, and how many of them can be set.
AddressBits(r) ==
  IF Is64(r) THEN 64
  ELSE IF r.bits \cap {0, 1, 2} = {1} THEN 20
  ELSE IF 0 \in r.bits /\ r.writable \subseteq 0 .. 15 THEN 16 ELSE 32

SetBits(r, u) == Cardinality(r.writable) + (IF Is64(r) THEN Cardinality(u) ELSE 0)

\* The size printed for a regular register is that of the region it decodes:
\* the address bits that cannot be set count the bytes.
SizeIsRight ==
  (status = "loop" /\ report.kind \notin {"none", "unused"}
     /\ IF Is64(reg) THEN Regular64(reg, upper) ELSE Regular(reg))
  => report.bit = AddressBits(reg) - SetBits(reg, upper)

\* Only a register that is irregular, or not allowed where it is, is an error:
\* a 20-bit one of a bridge, a 64-bit one that is not prefetchable or that
\* starts at the last position.
RejectsOnlyInvalid ==
  status = "error" =>
    \/ ~Regular(reg) /\ ~Is64(reg)
    \/ Is64(reg) /\ (~Regular64(reg, upper) \/ ~Prefetchable(reg) \/ bar = max_bars - 1)
    \/ headerType = 1 /\ reg.bits \cap {0, 1, 2} = {1}
    \/ {1, 2} \subseteq reg.bits

\* pci.c:260: the loop, which skips upper halves, ends at max_bars and nowhere
\* else, and no register but the function's base addresses is overwritten.
StaysInBars == status # "internal" /\ written \subseteq 0 .. max_bars - 1
================================================================================
