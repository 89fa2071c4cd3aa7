------------------------------ MODULE DeviceProofs -----------------------------
(***************************************************************************)
(* Proofs about the chips around the processor.                            *)
(*                                                                         *)
(* PciBar, PciRegister: for any registers a device may have, its analysis  *)
(* stays within the function's base addresses, ends at max_bars exactly,   *)
(* prints the size of every regular register and rejects only those the    *)
(* bus does not allow; an access to a device register goes where the BIOS  *)
(* put the region, and leaves the base address register as it was.         *)
(*                                                                         *)
(* Clock: for any times of day, any number of seconds and any frequencies  *)
(* what is read from the CMOS clock was shown by it, and the timer's       *)
(* reload value is right.                                                  *)
(***************************************************************************)
EXTENDS PciRegister, Clock, FiniteSetTheorems, TLAPS

--------------------------------------------------------------------------------
(* The analysis.                                                           *)


\* The loop is never past max_bars, and what has been overwritten is before it.
LoopInv ==
  /\ headerType \in 0 .. 127
  /\ bar \in Nat
  /\ headerType < 2 => bar <= max_bars
  /\ written \subseteq 0 .. max_bars - 1
  /\ status # "internal"

LEMMA InitInv == PciInit => LoopInv
BY PciAssumption DEF PciInit, LoopInv, max_bars

\* One register or two are used, if there are as many left.
LEMMA IterationInv ==
  ASSUME LoopInv, NEW type, NEW r, NEW u, Looks(type, r, u),
         NEW used \in {1, 2}, bar + used <= max_bars,
         Write(used) \/ UNCHANGED written,
         Reject \/ (\E kind, bit : Report(kind, bit, used))
                \/ (status' = "searching" /\ UNCHANGED <<bar, report>>)
  PROVE  LoopInv'
<1>1. headerType \in {0, 1} /\ headerType' = headerType /\ max_bars \in Nat /\ max_bars' = max_bars
  BY DEF Looks, LoopInv, max_bars
<1>2. bar' \in Nat /\ bar' <= max_bars /\ status' # "internal"
  BY <1>1 DEF LoopInv, Reject, Report, Looks
<1>3. written' \subseteq 0 .. max_bars - 1
  <2>1. CASE UNCHANGED written
    BY <1>1, <2>1 DEF LoopInv
  <2>2. CASE Write(used)
    <3>1. bar .. bar + used - 1 \subseteq 0 .. max_bars - 1
      BY <1>1 DEF LoopInv
    <3>2. written' = written \cup bar .. bar + used - 1
      BY <2>2 DEF Write
    <3>3. written \subseteq 0 .. max_bars - 1
      BY DEF LoopInv
    <3> QED
      BY <1>1, <3>1, <3>2, <3>3
  <2> QED
    BY <2>1, <2>2
<1> QED
  BY <1>1, <1>2, <1>3 DEF LoopInv

\* What Looks says of the loop's place.
LEMMA LooksPlace ==
  ASSUME LoopInv, NEW type, NEW r, NEW u, Looks(type, r, u)
  PROVE  bar + 1 <= max_bars /\ bar \in Nat /\ max_bars \in Int
  BY DEF Looks, LoopInv, max_bars

LEMMA StepInv == LoopInv /\ [PciNext]_pciVars => LoopInv'
<1> SUFFICES ASSUME LoopInv, [PciNext]_pciVars PROVE LoopInv'
  OBVIOUS
<1>1. CASE Unsupported
  BY <1>1 DEF Unsupported, LoopInv, max_bars
<1>2. CASE LoopEnd
  <2>1. bar = max_bars
    BY <1>2 DEF LoopEnd, LoopInv, max_bars
  <2> QED
    BY <1>2, <2>1 DEF LoopEnd, LoopInv, max_bars
<1>3. ASSUME NEW r \in Registers, NEW u \in Uppers, Mem32(r, u) PROVE LoopInv'
  <2>1. Looks({{}}, r, u) /\ Write(1) /\ (Reject \/ \E kind, bit : Report(kind, bit, 1))
    BY <1>3 DEF Mem32
  <2> QED
    BY <2>1, LooksPlace, IterationInv
<1>4. ASSUME NEW r \in Registers, NEW u \in Uppers, Mem20(r, u) PROVE LoopInv'
  <2>1. /\ Looks({{1}}, r, u)
        /\ Write(1) \/ UNCHANGED written
        /\ Reject \/ \E kind, bit : Report(kind, bit, 1)
    BY <1>4 DEF Mem20
  <2> QED
    BY <2>1, LooksPlace, IterationInv
<1>5. ASSUME NEW r \in Registers, NEW u \in Uppers, Mem64(r, u) PROVE LoopInv'
  <2>1. Looks({{2}}, r, u)
    BY <1>5 DEF Mem64
  <2>2. CASE Possible64(r) /\ Write(2) /\ Sized64(ReadBack(r, 4), u)
    <3>1. bar + 2 <= max_bars
      BY <2>1, <2>2, LooksPlace DEF Possible64
    <3>2. \/ Reject \/ (\E kind, bit : Report(kind, bit, 2))
          \/ (status' = "searching" /\ UNCHANGED <<bar, report>>)
      BY <2>2 DEF Sized64
    <3> QED
      BY <2>1, <2>2, <3>1, <3>2, IterationInv
  <2>3. CASE Reject /\ UNCHANGED written
    BY <2>1, <2>3, LooksPlace, IterationInv
  <2> QED
    BY <1>5, <2>2, <2>3 DEF Mem64
<1>6. ASSUME NEW r \in Registers, NEW u \in Uppers, MemInvalid(r, u) PROVE LoopInv'
  BY <1>6, LooksPlace, IterationInv DEF MemInvalid
<1>7. ASSUME NEW r \in Registers, NEW u \in Uppers, Io(r, u) PROVE LoopInv'
  <2>1. /\ Looks({{0}, {0, 1}}, r, u)
        /\ Write(1)
        /\ Reject \/ \E kind, bit : Report(kind, bit, 1)
    BY <1>7 DEF Io
  <2> QED
    BY <2>1, LooksPlace, IterationInv
<1>8. CASE UNCHANGED pciVars
  BY <1>8 DEF pciVars, LoopInv, max_bars
<1> QED
  BY <1>1, <1>2, <1>3, <1>4, <1>5, <1>6, <1>7, <1>8 DEF PciNext, Ended, Searching

\* pci.c:136 and 260: no register but the base addresses is overwritten, and
\* the message "interner Fehler in Schleife!" is never printed.
THEOREM StaysInBarsCorrect == PciSpec => []StaysInBars
<1>1. LoopInv => StaysInBars
  BY DEF LoopInv, StaysInBars
<1> QED
  BY <1>1, InitInv, StepInv, PTL DEF PciSpec

--------------------------------------------------------------------------------
(* What the analysis reports.                                              *)

\* The least, the greatest and the number of the bits from n to top.
LEMMA Interval ==
  ASSUME NEW n \in Nat, NEW top \in Nat, n <= top
  PROVE  /\ Min(n .. top) = n /\ Max(n .. top) = top
         /\ Cardinality(n .. top) = top - n + 1
<1> DEFINE S == n .. top
<1>1. n \in S /\ top \in S /\ \A y \in S : n <= y /\ y <= top
  OBVIOUS
<1> HIDE DEF S
<1>2. Min(S) \in S /\ \A y \in S : Min(S) <= y
  BY <1>1, Zenon DEF Min
<1>3. Max(S) \in S /\ \A y \in S : Max(S) >= y
  <2>1. \E x \in S : \A y \in S : x >= y
    BY <1>1 DEF S
  <2> QED
    BY <2>1, Zenon DEF Max
<1>4. Min(S) = n /\ Max(S) = top
  BY <1>1, <1>2, <1>3 DEF S
<1>5. Cardinality(S) = top - n + 1
  BY FS_Interval DEF S
<1> QED
  BY <1>4, <1>5 DEF S

\* The lowest and the highest bit of a regular register, and their number.
LEMMA RegularBits ==
  ASSUME NEW r, Regular(r)
  PROVE  \E top \in Space(r), n \in 0 .. 31 :
           /\ n <= top /\ r.writable = n .. top /\ r.writable # {}
           /\ Min(r.writable) = n /\ Max(r.writable) = top
           /\ Cardinality(r.writable) = top - n + 1
<1>1. PICK top \in Space(r), n \in 0 .. 31 : n <= top /\ r.writable = n .. top
  BY DEF Regular
<1>2. top \in Nat /\ n \in Nat
  <2>1. Space(r) \subseteq Nat
    <3>1. CASE 0 \in r.bits
      BY <3>1 DEF Space
    <3>2. CASE 0 \notin r.bits /\ r.bits \cap {0, 1, 2} = {1}
      BY <3>2 DEF Space
    <3>3. CASE 0 \notin r.bits /\ r.bits \cap {0, 1, 2} # {1}
      BY <3>3 DEF Space
    <3> QED
      BY <3>1, <3>2, <3>3
  <2>2. top \in Nat
    BY <1>1, <2>1, Zenon
  <2>3. n \in Nat
    OBVIOUS
  <2> QED
    BY <2>2, <2>3
<1>3. n \in r.writable
  BY <1>1, <1>2
<1>4. Min(n .. top) = n /\ Max(n .. top) = top /\ Cardinality(n .. top) = top - n + 1
  BY <1>1, <1>2, Interval
<1>5. /\ Min(r.writable) = n /\ Max(r.writable) = top
      /\ Cardinality(r.writable) = top - n + 1
  BY <1>1, <1>4, Zenon
<1> QED
  BY <1>1, <1>3, <1>5

\* With the bits for its kind masked out, a register reads as its address bits.
LEMMA ReadBits ==
  ASSUME NEW r \in Registers
  PROVE  /\ 0 \notin r.bits => ReadBack(r, 4) = r.writable
         /\ 0 \in r.bits => ReadBack(r, 2) = r.writable
BY PciAssumption DEF ReadBack

\* The properties, of a step's register: it is printed right, or rejected
\* because it is irregular or misplaced.
LEMMA ReportRight ==
  ASSUME LoopInv, NEW r \in Registers, NEW u \in Uppers,
         Mem32(r, u) \/ Mem20(r, u) \/ Mem64(r, u) \/ MemInvalid(r, u) \/ Io(r, u)
  PROVE  SizeIsRight' /\ RejectsOnlyInvalid'
<1>0. /\ reg' = r /\ upper' = u /\ headerType' = headerType /\ max_bars' = max_bars
      /\ status = "loop" /\ bar < max_bars /\ bar \in Nat /\ max_bars \in Nat
  BY DEF LoopInv, Mem32, Mem20, Mem64, MemInvalid, Io, Looks, max_bars
<1>s. SUFFICES /\ status' = "loop" /\ report'.kind \notin {"none", "unused"} =>
                    ((IF Is64(r) THEN Regular64(r, u) ELSE Regular(r)) =>
                       report'.bit = AddressBits(r) - SetBits(r, u))
               /\ status' = "error" =>
                    \/ ~Regular(r) /\ ~Is64(r)
                    \/ Is64(r) /\ (~Regular64(r, u) \/ ~Prefetchable(r) \/ bar' = max_bars - 1)
                    \/ headerType = 1 /\ r.bits \cap {0, 1, 2} = {1}
                    \/ {1, 2} \subseteq r.bits
  BY <1>0 DEF SizeIsRight, RejectsOnlyInvalid
<1>1. CASE Mem32(r, u)
  <2>1. r.bits \cap {0, 1, 2} = {} /\ 0 \notin r.bits /\ ~Is64(r) /\ Space(r) = {31}
    BY <1>1 DEF Mem32, Looks, Is64, Space
  <2>2. ReadBack(r, 4) = r.writable
    BY <2>1, ReadBits
  <2>3. CASE Regular(r)
    <3>1. PICK n \in 0 .. 31 : /\ r.writable # {} /\ Min(r.writable) = n /\ Max(r.writable) = 31
                               /\ Cardinality(r.writable) = 31 - n + 1
      BY <2>1, <2>3, RegularBits
    <3>2. status' = status /\ report'.bit = n
      BY <1>1, <2>2, <3>1 DEF Mem32, Report, get_number_of_lowest_set_bit, get_number_of_highest_set_bit
    <3>3. AddressBits(r) - SetBits(r, u) = n
      BY <2>1, <3>1 DEF AddressBits, SetBits
    <3> QED
      BY <1>0, <3>2, <3>3
  <2>4. CASE ~Regular(r)
    BY <2>1, <2>4
  <2> QED
    BY <2>3, <2>4
<1>2. CASE Mem20(r, u)
  <2>1. r.bits \cap {0, 1, 2} = {1} /\ 0 \notin r.bits /\ ~Is64(r) /\ Space(r) = {19}
    BY <1>2 DEF Mem20, Looks, Is64, Space
  <2>2. ReadBack(r, 4) = r.writable
    BY <2>1, ReadBits
  <2>3. CASE Regular(r) /\ headerType # 1
    <3>1. PICK n \in 0 .. 31 : /\ r.writable # {} /\ Min(r.writable) = n /\ Max(r.writable) = 19
                               /\ Cardinality(r.writable) = 19 - n + 1
      BY <2>1, <2>3, RegularBits
    <3>2. status' = status /\ report'.bit = n
      BY <1>2, <2>2, <2>3, <3>1
      DEF Mem20, Report, get_number_of_lowest_set_bit, get_number_of_highest_set_bit
    <3>3. AddressBits(r) - SetBits(r, u) = n
      BY <2>1, <3>1 DEF AddressBits, SetBits
    <3> QED
      BY <1>0, <3>2, <3>3
  <2>4. CASE headerType = 1
    BY <1>0, <1>2, <2>1, <2>4 DEF Mem20, Reject
  <2>5. CASE ~Regular(r)
    BY <2>1, <2>5
  <2> QED
    BY <2>3, <2>4, <2>5
<1>3. CASE Mem64(r, u)
  <2>1. r.bits \cap {0, 1, 2} = {2} /\ 0 \notin r.bits /\ Is64(r) /\ Space(r) = {31}
    BY <1>3 DEF Mem64, Looks, Is64, Space
  <2>2. ReadBack(r, 4) = r.writable
    BY <2>1, ReadBits
  <2>3. CASE ~Possible64(r)
    <3>1. status' = "error" /\ bar' = bar
      BY <1>3, <2>3 DEF Mem64, Reject
    <3>2. ~Prefetchable(r) \/ bar = max_bars - 1
      BY <1>0, <2>3 DEF Possible64
    <3> QED
      BY <2>1, <3>1, <3>2
  <2>4. CASE ~Regular64(r, u)
    BY <2>1, <2>4
  <2>5. CASE Possible64(r) /\ Regular(r) /\ u = 0 .. 31
    <3>1. PICK n \in 0 .. 31 : /\ r.writable # {} /\ Min(r.writable) = n /\ Max(r.writable) = 31
                               /\ Cardinality(r.writable) = 31 - n + 1
      BY <2>1, <2>5, RegularBits
    <3>2. status' = status /\ report'.bit = n
      BY <1>3, <2>2, <2>5, <3>1
      DEF Mem64, Sized64, Report, get_number_of_lowest_set_bit, get_number_of_highest_set_bit
    <3>3. Cardinality(u) = 32
      <4>1. 0 \in 0 .. 31 /\ 0 \in Nat /\ 31 \in Nat /\ 0 <= 31
        OBVIOUS
      <4>2. Cardinality(0 .. 31) = 31 - 0 + 1
        BY <4>1, Interval, Zenon
      <4> QED
        BY <2>5, <4>2
    <3>4. AddressBits(r) - SetBits(r, u) = n
      BY <2>1, <3>1, <3>3 DEF AddressBits, SetBits
    <3> QED
      BY <1>0, <3>2, <3>4
  <2>6. CASE Possible64(r) /\ r.writable = {} /\ \E n \in 0 .. 31 : u = n .. 31
    <3>1. PICK n \in 0 .. 31 : u = n .. 31
      BY <2>6
    <3>2. Min(u) = n /\ Max(u) = 31 /\ Cardinality(u) = 31 - n + 1 /\ u # {}
      <4>0. PICK top \in Nat : top = 31
        OBVIOUS
      <4>1. Min(n .. top) = n /\ Max(n .. top) = top /\ Cardinality(n .. top) = top - n + 1
        BY <3>1, <4>0, Interval
      <4>2. Min(u) = n /\ Max(u) = 31 /\ Cardinality(u) = 31 - n + 1
        BY <3>1, <4>0, <4>1, Zenon
      <4>3. 31 \in u
        BY <3>1
      <4> QED
        BY <4>2, <4>3
    <3>3. status' = status /\ report'.bit = n + 32
      BY <1>3, <2>2, <2>6, <3>2
      DEF Mem64, Sized64, Report, get_number_of_lowest_set_bit, get_number_of_highest_set_bit
    <3>4. Cardinality(r.writable) = 0
      BY <2>6, FS_EmptySet
    <3>5. AddressBits(r) - SetBits(r, u) = n + 32
      BY <2>1, <3>2, <3>4 DEF AddressBits, SetBits
    <3> QED
      BY <1>0, <3>3, <3>5
  <2> QED
    BY <2>3, <2>4, <2>5, <2>6 DEF Regular64
<1>4. CASE MemInvalid(r, u)
  BY <1>4 DEF MemInvalid, Reject, Looks
<1>5. CASE Io(r, u)
  <2>1. 0 \in r.bits /\ ~Is64(r) /\ Space(r) = {15, 31} /\ r.bits \cap {0, 1, 2} # {1}
    BY <1>5 DEF Io, Looks, Is64, Space
  <2>2. ReadBack(r, 2) = r.writable
    BY <2>1, ReadBits
  <2>3. CASE Regular(r)
    <3>1. PICK top \in {15, 31}, n \in 0 .. 31 :
            /\ n <= top /\ r.writable = n .. top
            /\ r.writable # {} /\ Min(r.writable) = n /\ Max(r.writable) = top
            /\ Cardinality(r.writable) = top - n + 1
      <4>1. \E top \in Space(r), n \in 0 .. 31 :
              /\ n <= top /\ r.writable = n .. top
              /\ r.writable # {} /\ Min(r.writable) = n /\ Max(r.writable) = top
              /\ Cardinality(r.writable) = top - n + 1
        BY <2>3, RegularBits, Zenon
      <4> QED
        BY <2>1, <4>1, Zenon
    <3>2. status' = status /\ report'.bit = n
      <4>1. \E kind : Report(kind, Min(r.writable), 1)
        BY <1>5, <2>2, <3>1 DEF Io, get_number_of_lowest_set_bit, get_number_of_highest_set_bit
      <4> QED
        BY <3>1, <4>1 DEF Report
    <3>3. AddressBits(r) = top + 1
      <4>1. r.writable \subseteq 0 .. 15 <=> top = 15
        <5>1. n \in Nat /\ top \in Nat /\ n <= top /\ r.writable = n .. top
          BY <3>1
        <5>2. top \in r.writable
          BY <5>1
        <5>3. CASE top = 15
          BY <5>1, <5>3
        <5>4. CASE top = 31
          BY <5>2, <5>4
        <5> QED
          BY <5>3, <5>4
      <4>2. AddressBits(r) = IF r.writable \subseteq 0 .. 15 THEN 16 ELSE 32
        BY <2>1, Zenon DEF AddressBits
      <4> QED
        BY <4>1, <4>2
    <3>4. AddressBits(r) - SetBits(r, u) = n
      <4>1. SetBits(r, u) = Cardinality(r.writable) + 0
        BY <2>1, Zenon DEF SetBits
      <4>2. n \in Int /\ top \in Int
        OBVIOUS
      <4>3. Cardinality(r.writable) = top - n + 1
        BY <3>1, Zenon
      <4>4. SetBits(r, u) = top - n + 1
        BY <4>1, <4>2, <4>3
      <4> QED
        BY <3>3, <4>2, <4>4
    <3> QED
      BY <1>0, <3>2, <3>4
  <2>4. CASE ~Regular(r)
    BY <2>1, <2>4
  <2> QED
    BY <2>3, <2>4
<1> QED
  BY <1>1, <1>2, <1>3, <1>4, <1>5

\* A report is right for any loop that stays in the base addresses.
ReportInv == LoopInv /\ SizeIsRight /\ RejectsOnlyInvalid

LEMMA ReportInit == PciInit => ReportInv
BY InitInv DEF PciInit, ReportInv, SizeIsRight, RejectsOnlyInvalid

LEMMA ReportStep == ReportInv /\ [PciNext]_pciVars => ReportInv'
<1> SUFFICES ASSUME ReportInv, [PciNext]_pciVars PROVE ReportInv'
  OBVIOUS
<1>0. LoopInv'
  BY StepInv DEF ReportInv
<1>1. CASE \E r \in Registers, u \in Uppers :
             Mem32(r, u) \/ Mem20(r, u) \/ Mem64(r, u) \/ MemInvalid(r, u) \/ Io(r, u)
  BY <1>0, <1>1, ReportRight DEF ReportInv
<1>2. CASE Unsupported \/ LoopEnd
  BY <1>0, <1>2 DEF ReportInv, Unsupported, LoopEnd, SizeIsRight, RejectsOnlyInvalid
<1>3. CASE UNCHANGED pciVars
  <2>1. SizeIsRight' /\ RejectsOnlyInvalid'
    BY <1>3 DEF ReportInv, SizeIsRight, RejectsOnlyInvalid, pciVars, max_bars
  <2> QED
    BY <1>0, <2>1 DEF ReportInv
<1> QED
  BY <1>1, <1>2, <1>3 DEF PciNext, Ended, Searching

\* The size printed for a register is that of the region it decodes.
THEOREM SizeIsRightCorrect == PciSpec => []SizeIsRight
<1>1. ReportInv => SizeIsRight
  BY DEF ReportInv
<1> QED
  BY <1>1, ReportInit, ReportStep, PTL DEF PciSpec

\* A register that the bus allows where it is, is not an error.
THEOREM RejectsOnlyInvalidCorrect == PciSpec => []RejectsOnlyInvalid
<1>1. ReportInv => RejectsOnlyInvalid
  BY DEF ReportInv
<1> QED
  BY <1>1, ReportInit, ReportStep, PTL DEF PciSpec

--------------------------------------------------------------------------------
(* The accesses.                                                           *)

(***************************************************************************)
(* The kind bits and the address bits of the register do not overlap, so   *)
(* what is written back as the backup is the address that was in it.       *)
(***************************************************************************)
DeviceInv ==
  /\ \/ 0 \in device.bits /\ device.bits \subseteq 0 .. 1 /\ device.writable \subseteq 2 .. 31
     \/ device.bits \subseteq 1 .. 3 /\ device.writable \subseteq 4 .. 31
  /\ held \subseteq device.writable
  /\ assigned \subseteq device.writable

\* Where the register holds the assigned address, and where only the backup.
AddressInv ==
  /\ step \in {"none", "driver"} => target = Nowhere
  /\ ~touched =>
       /\ step \in {"open", "ones", "transfer"} => held = assigned
       /\ step \in {"ones", "size", "restore", "transfer", "finish"} =>
            backup \cap device.writable = assigned

IInv == DeviceInv /\ AddressInv /\ AccessHits

\* At the start the register is empty and nothing has been accessed.
LEMMA InitHolds == PciRegisterInit => IInv
  BY DEF PciRegisterInit, IInv, DeviceInv, AddressInv, AccessHits, Nowhere

\* A register that a driver opens is one the bus allows.
LEMMA OpenKeeps == ASSUME IInv, Open PROVE IInv'
<1> USE DEF Open
<1>1. PICK r \in Registers, b \in Bases :
        /\ device' = r
        /\ assigned' = b \cap r.writable
        /\ held' = IF touched' THEN r.writable ELSE b \cap r.writable
  OBVIOUS
<1>2. target' = Nowhere /\ step' = "open"
  BY DEF IInv, AddressInv
<1>3. DeviceInv'
  BY <1>1, PciAssumption DEF DeviceInv
<1>4. AddressInv'
  BY <1>1, <1>2 DEF AddressInv
<1> QED BY <1>2, <1>3, <1>4 DEF IInv, AccessHits

\* Writing the backup puts the assigned address back.
LEMMA BackupRestores ==
  ASSUME IInv, ~touched, step \in {"restore", "finish"}, pci_config_writed(backup)
  PROVE  held' = assigned
  BY DEF IInv, AddressInv, pci_config_writed

\* With the kind bits masked out, what a register reads is its address bits.
LEMMA MaskedIsHeld ==
  ASSUME DeviceInv, ~OtherMemory
  PROVE  pci_config_readd \cap Mask = held
<1>1. CASE 0 \in device.bits
  BY <1>1, SMT DEF DeviceInv, pci_config_readd, Value, Mask, Memory
<1>2. CASE 0 \notin device.bits
  BY <1>2, SMT DEF DeviceInv, pci_config_readd, Value, Mask, Memory, OtherMemory
<1> QED BY <1>1, <1>2

\* The step that reads or writes the device goes to the assigned address.
LEMMA TransferHits == ASSUME IInv, Transfer PROVE AccessHits'
<1> SUFFICES ASSUME ~touched', ~OtherMemory'
             PROVE  target' = [space |-> IF 0 \in device'.bits THEN "io" ELSE "memory",
                               address |-> assigned']
  BY DEF AccessHits
<1>1. ~touched /\ ~OtherMemory /\ device' = device /\ assigned' = assigned
  BY DEF Transfer, Goto, OtherMemory, Memory
<1>2. held = assigned
  BY <1>1 DEF IInv, AddressInv, Transfer, Goto
<1>3. pci_config_readd \cap Mask = held
  BY <1>1, MaskedIsHeld DEF IInv
<1>4. Memory <=> 0 \notin device.bits
  BY <1>1 DEF OtherMemory, Memory
<1> QED BY <1>1, <1>2, <1>3, <1>4 DEF Transfer

\* Each step of an access, and each that is none, keeps the invariant.
LEMMA NextKeeps == ASSUME IInv, [PciRegisterNext]_registerVars PROVE IInv'
<1> USE DEF IInv
<1>1. CASE UNCHANGED accessVars
  BY <1>1 DEF accessVars, DeviceInv, AddressInv, AccessHits, OtherMemory, Memory, Nowhere
<1>2. CASE Driver
  BY <1>2 DEF Driver, DeviceInv, AddressInv, AccessHits, Nowhere
<1>3. CASE Open
  BY <1>3, OpenKeeps
<1>4. ASSUME NEW direction, Begin(direction) PROVE IInv'
  <2>1. DeviceInv'
    BY <1>4 DEF Begin, Goto, DeviceInv
  <2>2. AddressInv'
    <3>1. Value \cap device.writable = held
      BY DEF Value, DeviceInv
    <3> QED BY <1>4, <3>1 DEF Begin, Goto, AddressInv, pci_config_readd
  <2> QED BY <1>4, <2>1, <2>2 DEF Begin, AccessHits
<1>5. CASE WriteOnes
  BY <1>5 DEF WriteOnes, Goto, pci_config_writed, DeviceInv, AddressInv, AccessHits,
              OtherMemory, Memory, Nowhere
<1>6. CASE CheckSize \/ SearchZero
  BY <1>6 DEF CheckSize, SearchZero, Goto, DeviceInv, AddressInv, AccessHits,
              OtherMemory, Memory, Nowhere
<1>7. CASE Restore \/ Finish
  <2>1. ~touched => held' = assigned
    BY <1>7, BackupRestores DEF Restore, Finish, Goto
  <2>2. DeviceInv'
    BY <1>7 DEF Restore, Finish, Goto, pci_config_writed, DeviceInv
  <2>3. AddressInv'
    BY <1>7, <2>1 DEF Restore, Finish, Goto, AddressInv
  <2> QED BY <1>7, <2>2, <2>3 DEF Restore, Finish, Goto, AccessHits, OtherMemory, Memory, Nowhere
<1>8. CASE Transfer
  <2>1. DeviceInv'
    BY <1>8 DEF Transfer, Goto, DeviceInv
  <2>2. AddressInv'
    BY <1>8 DEF Transfer, Goto, AddressInv
  <2> QED BY <1>8, <2>1, <2>2, TransferHits
<1>9. CASE Hangs
  BY <1>9, <1>1 DEF Hangs, registerVars
<1> QED
  BY <1>1, <1>2, <1>3, <1>4, <1>5, <1>6, <1>7, <1>8, <1>9
  DEF PciRegisterNext, BeginRead, BeginWrite, registerVars

\* The invariant holds in every state of the specification.
THEOREM Invariance == PciRegisterSpec => []IInv
  BY InitHolds, NextKeeps, PTL DEF PciRegisterSpec

\* Between two accesses a register the analysis has left alone holds the
\* address it was assigned.
THEOREM BarRestoredCorrect == PciRegisterSpec => []BarRestored
<1>1. IInv => BarRestored
  BY DEF IInv, AddressInv, BarRestored
<1> QED BY <1>1, Invariance, PTL

\* An access goes to the assigned address, in the space the device is in.
THEOREM AccessHitsCorrect == PciRegisterSpec => []AccessHits
<1>1. IInv => AccessHits
  BY DEF IInv
<1> QED BY <1>1, Invariance, PTL

--------------------------------------------------------------------------------
(* The CMOS clock and the timer.                                           *)

\* Each field is read once, one after the other.
OneByOne ==
  /\ \A i \in DOMAIN reading :
       /\ reading[i].entered <= reading[i].left
       /\ reading[i].left <= elapsed
       /\ \A j \in DOMAIN reading : i < j =>
            /\ reading[i].field # reading[j].field
            /\ reading[i].left <= reading[j].entered
  /\ pc # "user" =>
       /\ entered <= elapsed
       /\ \A i \in DOMAIN reading :
            reading[i].field # field /\ reading[i].left <= entered

\* No update begins between the wait and the byte, so the byte is what the
\* clock showed at some second since the call.
RawInv ==
  /\ phase # "idle" => elapsed < MaxSeconds
  /\ pc = "read" => phase # "updating"
  /\ pc = "convert" =>
       \E e \in entered .. elapsed : raw = Encoded(Shown(field, start + e))

ReloadInv == reload \in {0, Reload(frequency)}

ClockInv == ClockTypeOK /\ OneByOne /\ RawInv /\ ReadWasShown /\ ReloadInv

--------------------------------------------------------------------------------
(* Arithmetic.                                                             *)

LEMMA Literals == PIT_HZ \in Nat /\ DAY \in Nat /\ WORD \in Nat \ {0}
BY DEF PIT_HZ, DAY, WORD

LEMMA ShownRange ==
  ASSUME NEW f \in Field, NEW t \in Nat
  PROVE  Shown(f, t) \in 0 .. 59
BY DEF Field, Shown, DAY

LEMMA EncodedRange ==
  ASSUME NEW n \in 0 .. 59
  PROVE  Encoded(n) \in 0 .. 255
BY DEF Encoded

\* convert undoes the chip's number format.
LEMMA ConvertedEncoded ==
  ASSUME NEW n \in 0 .. 59
  PROVE  Converted(Encoded(n)) = n
BY DEF Converted, Encoded

LEMMA ConvertedRange ==
  ASSUME NEW n \in 0 .. 255
  PROVE  Converted(n) \in 0 .. 255
BY DEF Converted

LEMMA LowByte ==
  ASSUME NEW n \in Nat
  PROVE  n % 256 \in 0 .. 255 /\ n \div 256 \in Nat
OBVIOUS

LEMMA ReloadRange ==
  ASSUME NEW f \in Nat \ {0}
  PROVE  Reload(f) \in Word16
<1> DEFINE c == PIT_HZ \div f
<1>1. c \in Nat
  BY DEF PIT_HZ
<1> HIDE DEF c
<1> DEFINE low == c % 256
           high == (c \div 256) % 256
<1>2. low \in 0 .. 255 /\ high \in 0 .. 255
  BY <1>1, LowByte
<1>3. Reload(f) = low + 256 * high
  BY DEF Reload, c
<1> HIDE DEF low, high
<1>4. /\ low \in Nat /\ low <= 255
      /\ high \in Nat /\ high <= 255
  BY <1>2
<1>5. low + 256 * high \in Nat /\ low + 256 * high < 65536
  BY <1>4
<1>6. low + 256 * high < WORD
  BY <1>5 DEF WORD
<1> QED
  BY <1>3, <1>5, <1>6, Literals DEF Word16

\* From 19 Hz on the counter fits 16 bits.
LEMMA ReloadFits ==
  ASSUME NEW f \in Nat, f >= 19
  PROVE  Reload(f) = PIT_HZ \div f
<1> DEFINE c == PIT_HZ \div f
<1>1. c \in Nat /\ c * f <= 1193182
  BY SMT DEF PIT_HZ
<1>2. c * 19 <= c * f
  BY <1>1, SMT
<1>3. c * f \in Nat
  BY <1>1
<1> HIDE DEF c
<1>4. c < 65536
  BY <1>1, <1>2, <1>3
<1>5. (c % 256) + 256 * ((c \div 256) % 256) = c
  BY <1>1, <1>4
<1> QED
  BY <1>5 DEF Reload, c

--------------------------------------------------------------------------------

\* What the type invariant says of the numbers.
LEMMA Numbers ==
  ASSUME ClockTypeOK
  PROVE  /\ start \in Nat
         /\ elapsed \in 0 .. MaxSeconds /\ elapsed \in Nat
         /\ entered \in 0 .. MaxSeconds /\ entered \in Nat
         /\ MaxSeconds \in Nat /\ TickLimit \in Nat
         /\ tick \in 0 .. TickLimit /\ tick \in Nat
         /\ frequency \in Nat \ {0}
<1>1. /\ start \in Starts /\ frequency \in Frequencies
      /\ elapsed \in 0 .. MaxSeconds /\ entered \in 0 .. MaxSeconds
      /\ tick \in 0 .. TickLimit
  BY DEF ClockTypeOK
<1>2. /\ Starts \subseteq Nat
      /\ MaxSeconds \in Nat /\ TickLimit \in Nat
  BY ClockAssumption, Literals
<1>3. Frequencies \subseteq 1 .. PIT_HZ
  BY ClockAssumption
<1>4. frequency \in Nat \ {0}
  BY <1>1, <1>3, Literals
<1> QED
  BY <1>1, <1>2, <1>4

LEMMA ClockInitInv == ClockInit => ClockInv
<1> SUFFICES ASSUME ClockInit PROVE ClockInv
  OBVIOUS
<1>1. reading = << >> /\ DOMAIN reading = {} /\ Len(reading) = 0 /\ reading \in Seq(Reading)
  BY DEF ClockInit
<1>2. 0 \in 0 .. MaxSeconds /\ 0 \in 0 .. TickLimit
  BY ClockAssumption
<1>w. 0 \in Word16
  BY Literals DEF Word16
<1>3. ClockTypeOK
  BY <1>1, <1>2, <1>w DEF ClockInit, ClockTypeOK, Field
<1>4. OneByOne /\ ReadWasShown
  BY <1>1 DEF ClockInit, OneByOne, ReadWasShown
<1> QED
  BY <1>3, <1>4 DEF ClockInit, RawInv, ReloadInv, ClockInv

\* The readings there are stay as they are, and so does the reload value.
LEMMA KeepInv ==
  ASSUME ClockInv, ClockTypeOK', UNCHANGED <<start, bcd, reading, frequency, reload>>
  PROVE  ReadWasShown' /\ ReloadInv'
BY DEF ClockInv, ReadWasShown, ReloadInv, Reload

LEMMA ClockStepInv == ClockInv /\ [ClockNext]_clockVars => ClockInv'
<1> SUFFICES ASSUME ClockInv, [ClockNext]_clockVars PROVE ClockInv'
  OBVIOUS
<1> USE DEF chipVars, readVars, timerVars
<1>0. ClockTypeOK
  BY DEF ClockInv
<1>t. /\ start \in Nat
      /\ elapsed \in 0 .. MaxSeconds /\ elapsed \in Nat
      /\ entered \in 0 .. MaxSeconds /\ entered \in Nat
      /\ MaxSeconds \in Nat /\ TickLimit \in Nat
      /\ tick \in 0 .. TickLimit /\ tick \in Nat
      /\ frequency \in Nat \ {0}
  BY <1>0, Numbers
<1>r. \A i \in DOMAIN reading : reading[i] \in Reading
  BY <1>0 DEF ClockTypeOK
<1>1. CASE Announce
  <2>1. ClockTypeOK'
    BY <1>0, <1>1 DEF Announce, ClockTypeOK
  <2>2. RawInv'
    BY <1>1 DEF Announce, ClockInv, RawInv, Encoded
  <2>3. OneByOne'
    BY <1>1, <2>1 DEF Announce, ClockInv, OneByOne
  <2> QED
    BY <1>1, <2>1, <2>2, <2>3, KeepInv DEF Announce, ClockInv
<1>2. CASE StartUpdate
  <2>1. ClockTypeOK'
    BY <1>0, <1>2 DEF StartUpdate, ClockTypeOK
  <2>2. RawInv'
    BY <1>2 DEF StartUpdate, ClockInv, RawInv, Encoded
  <2>3. OneByOne'
    BY <1>2, <2>1 DEF StartUpdate, ClockInv, OneByOne
  <2> QED
    BY <1>2, <2>1, <2>2, <2>3, KeepInv DEF StartUpdate, ClockInv
<1>3. CASE EndUpdate
  <2>0. elapsed' \in 0 .. MaxSeconds
    BY <1>3, <1>t DEF EndUpdate, ClockInv, RawInv
  <2>1. ClockTypeOK'
    BY <1>0, <1>3, <2>0 DEF EndUpdate, ClockTypeOK
  <2>2. RawInv'
    <3>1. pc # "read"
      BY <1>3 DEF EndUpdate, ClockInv, RawInv
    <3>2. entered .. elapsed \subseteq entered' .. elapsed'
      BY <1>3, <1>t DEF EndUpdate
    <3> QED
      BY <1>3, <3>1, <3>2 DEF EndUpdate, ClockInv, RawInv, Encoded
  <2>3. OneByOne'
    BY <1>3, <1>t, <1>r, <2>1 DEF EndUpdate, ClockInv, OneByOne, Reading
  <2> QED
    BY <1>3, <2>1, <2>2, <2>3, KeepInv DEF EndUpdate, ClockInv
<1>4. CASE Enter
  <2>1. ClockTypeOK'
    BY <1>0, <1>4 DEF Enter, ClockTypeOK
  <2>2. RawInv'
    BY <1>4 DEF Enter, ClockInv, RawInv
  <2>3. OneByOne'
    BY <1>4, <1>t DEF Enter, ClockInv, OneByOne
  <2> QED
    BY <1>4, <2>1, <2>2, <2>3, KeepInv DEF Enter, ClockInv
<1>5. CASE Poll
  <2>1. ClockTypeOK'
    BY <1>0, <1>5 DEF Poll, ClockTypeOK
  <2>2. RawInv'
    BY <1>5 DEF Poll, ClockInv, RawInv
  <2>3. OneByOne'
    BY <1>5 DEF Poll, ClockInv, OneByOne
  <2> QED
    BY <1>5, <2>1, <2>2, <2>3, KeepInv DEF Poll, ClockInv
<1>6. CASE Read
  <2>0. raw' = Encoded(Shown(field, start + elapsed))
    BY <1>6 DEF Read, ClockInv, RawInv
  <2>1. ClockTypeOK'
    <3>0. field \in Field /\ start + elapsed \in Nat
      BY <1>0, <1>t DEF ClockTypeOK
    <3>1. Shown(field, start + elapsed) \in 0 .. 59
      BY <3>0, ShownRange
    <3>2. raw' \in 0 .. 255
      BY <2>0, <3>1, EncodedRange
    <3> QED
      BY <1>0, <1>6, <3>2 DEF Read, ClockTypeOK
  <2>2. RawInv'
    <3>1. elapsed \in entered .. elapsed
      BY <1>6, <1>t DEF Read, ClockInv, OneByOne
    <3>2. raw' = Encoded(Shown(field, start + elapsed))'
      BY <1>6, <2>0 DEF Read, Encoded
    <3> QED
      BY <1>6, <3>1, <3>2 DEF Read, ClockInv, RawInv
  <2>3. OneByOne'
    BY <1>6 DEF Read, ClockInv, OneByOne
  <2> QED
    BY <1>6, <2>1, <2>2, <2>3, KeepInv DEF Read, ClockInv
<1>7. CASE Convert
  <2> DEFINE new == [field |-> field, value |-> Converted(raw), entered |-> entered, left |-> elapsed]
             n == Len(reading)
  <2>1. /\ reading' = Append(reading, new) /\ pc = "convert" /\ pc' = "user"
        /\ UNCHANGED <<field, raw, entered, start, bcd, elapsed, phase, frequency, reload, tick>>
    BY <1>7 DEF Convert
  <2>2. new \in Reading
    <3>1. raw \in 0 .. 255 /\ field \in Field
      BY <1>0 DEF ClockTypeOK
    <3>2. Converted(raw) \in 0 .. 255
      BY <3>1, ConvertedRange
    <3> QED
      BY <1>t, <3>1, <3>2 DEF Reading
  <2>3. new.field = field /\ new.value = Converted(raw) /\ new.entered = entered /\ new.left = elapsed
    OBVIOUS
  <2> HIDE DEF new
  <2>4. /\ n \in Nat /\ n <= 3
        /\ DOMAIN reading = 1 .. n
        /\ reading' \in Seq(Reading)
        /\ DOMAIN reading' = 1 .. n + 1
        /\ Len(reading') = n + 1
        /\ reading'[n + 1] = new
        /\ \A i \in 1 .. n : reading'[i] = reading[i]
    BY <1>0, <2>1, <2>2 DEF ClockTypeOK
  <2> HIDE DEF n
  <2>5. n < 3
    <3> SUFFICES ASSUME n = 3 PROVE FALSE
      BY <2>4
    <3>1. /\ reading[1].field # reading[2].field /\ reading[1].field # reading[3].field
          /\ reading[2].field # reading[3].field
          /\ reading[1].field # field /\ reading[2].field # field /\ reading[3].field # field
      BY <2>1, <2>4 DEF ClockInv, OneByOne
    <3>2. \A i \in 1 .. 3 : reading[i].field \in Field
      BY <1>r, <2>4 DEF Reading
    <3> QED
      BY <1>0, <3>1, <3>2 DEF ClockTypeOK, Field
  <2>6. ClockTypeOK'
    BY <1>0, <2>1, <2>4, <2>5 DEF ClockTypeOK
  <2>7. OneByOne'
    <3>1. \A i \in 1 .. n : /\ reading[i].entered <= reading[i].left
                            /\ reading[i].left <= elapsed
                            /\ reading[i].field # field
                            /\ reading[i].left <= entered
      BY <2>1, <2>4 DEF ClockInv, OneByOne
    <3>2. \A i, j \in 1 .. n : i < j =>
            reading[i].field # reading[j].field /\ reading[i].left <= reading[j].entered
      BY <2>4 DEF ClockInv, OneByOne
    <3>3. entered <= elapsed
      BY <2>1 DEF ClockInv, OneByOne
    <3>4. ASSUME NEW i \in DOMAIN reading'
          PROVE  reading'[i].entered <= reading'[i].left /\ reading'[i].left <= elapsed'
      <4>1. CASE i = n + 1
        BY <2>1, <2>3, <2>4, <3>3, <4>1, <1>t
      <4>2. CASE i \in 1 .. n
        BY <2>1, <2>4, <3>1, <4>2
      <4> QED
        BY <2>4, <4>1, <4>2
    <3>5. ASSUME NEW i \in DOMAIN reading', NEW j \in DOMAIN reading', i < j
          PROVE  reading'[i].field # reading'[j].field /\ reading'[i].left <= reading'[j].entered
      <4>1. i \in 1 .. n /\ reading'[i] = reading[i]
        BY <2>4, <3>5
      <4>2. CASE j = n + 1
        BY <2>3, <2>4, <3>1, <4>1, <4>2
      <4>3. CASE j \in 1 .. n
        BY <2>4, <3>2, <3>5, <4>1, <4>3
      <4> QED
        BY <2>4, <4>2, <4>3
    <3> QED
      BY <2>1, <3>4, <3>5 DEF OneByOne
  <2>8. RawInv' /\ ReloadInv'
    BY <2>1 DEF RawInv, ClockInv, ReloadInv, Reload
  <2>9. ReadWasShown'
    <3>1. PICK e \in entered .. elapsed : raw = Encoded(Shown(field, start + e))
      BY <2>1 DEF ClockInv, RawInv
    <3>2. Shown(field, start + e) \in 0 .. 59
      <4>1. field \in Field /\ start + e \in Nat
        BY <1>0, <1>t DEF ClockTypeOK
      <4> QED
        BY <4>1, ShownRange
    <3>3. new.value = Shown(field, start + e)
      BY <2>3, <3>1, <3>2, ConvertedEncoded
    <3>4. ASSUME NEW i \in 1 .. n + 1
          PROVE  \E d \in reading'[i].entered .. reading'[i].left :
                   reading'[i].value = Shown(reading'[i].field, start + d)
      <4>1. CASE i = n + 1
        BY <2>3, <2>4, <3>1, <3>3, <4>1
      <4>2. CASE i \in 1 .. n
        BY <2>4, <4>2 DEF ClockInv, ReadWasShown
      <4> QED
        BY <2>4, <4>1, <4>2
    <3> QED
      BY <2>1, <2>4, <3>4 DEF ReadWasShown
  <2> QED
    BY <2>6, <2>7, <2>8, <2>9 DEF ClockInv
<1>8. CASE init_pit
  <2>1. Reload(frequency) \in Word16
    BY <1>t, ReloadRange
  <2>2. ClockTypeOK'
    BY <1>0, <1>8, <2>1 DEF init_pit, ClockTypeOK
  <2>3. OneByOne' /\ RawInv' /\ ReadWasShown'
    BY <1>8 DEF init_pit, ClockInv, OneByOne, RawInv, ReadWasShown
  <2>4. ReloadInv'
    BY <1>8 DEF init_pit, ReloadInv, Reload
  <2> QED
    BY <2>2, <2>3, <2>4 DEF ClockInv
<1>9. CASE pit_irq_handler \/ reset_tick
  <2>1. tick' \in 0 .. TickLimit
    BY <1>9, <1>t DEF pit_irq_handler, reset_tick
  <2>2. ClockTypeOK'
    BY <1>0, <1>9, <2>1 DEF pit_irq_handler, reset_tick, ClockTypeOK
  <2>3. OneByOne' /\ RawInv'
    BY <1>9 DEF pit_irq_handler, reset_tick, ClockInv, OneByOne, RawInv
  <2> QED
    BY <1>9, <2>2, <2>3, KeepInv DEF pit_irq_handler, reset_tick, ClockInv
<1>10. CASE UNCHANGED clockVars
  <2>1. ClockTypeOK' /\ OneByOne' /\ RawInv'
    BY <1>10 DEF clockVars, ClockInv, ClockTypeOK, OneByOne, RawInv, Encoded
  <2> QED
    BY <1>10, <2>1, KeepInv DEF clockVars, ClockInv
<1> QED
  BY <1>1, <1>2, <1>3, <1>4, <1>5, <1>6, <1>7, <1>8, <1>9, <1>10 DEF ClockNext, ReadStep

\* Types, the order of the readings, the byte and the reload value together.
THEOREM ClockInvariance == ClockSpec => []ClockInv
BY ClockInitInv, ClockStepInv, PTL DEF ClockSpec

\* The type invariant, for any times of day and frequencies.
THEOREM TypeCorrect == ClockSpec => []ClockTypeOK
<1>1. ClockInv => ClockTypeOK
  BY DEF ClockInv
<1> QED
  BY <1>1, ClockInvariance, PTL

\* What read_h, read_m and read_s return was on the clock between call and
\* return, however long the clock goes on and whatever its number format.
THEOREM ReadWasShownCorrect == ClockSpec => []ReadWasShown
<1>1. ClockInv => ReadWasShown
  BY DEF ClockInv
<1> QED
  BY <1>1, ClockInvariance, PTL

\* The reload value is the quotient for every frequency from 19 Hz on.
THEOREM ReloadRightCorrect == ClockSpec => []ReloadRight
<1>1. ClockInv => ReloadRight
  BY Numbers, ReloadFits DEF ClockInv, ReloadInv, ReloadRight
<1> QED
  BY <1>1, ClockInvariance, PTL

--------------------------------------------------------------------------------
(* The time of day.                                                        *)

LEMMA Minutes ==
  ASSUME NEW r \in Nat, r < 3600
  PROVE  /\ r \div 60 \in Nat /\ r \div 60 < 60
         /\ r % 60 \in Nat /\ r % 60 < 60
         /\ r = 60 * (r \div 60) + (r % 60)
OBVIOUS

\* Of two times the later has the larger hour, or the same and the larger minute.
LEMMA Compare ==
  ASSUME NEW h \in Nat, NEW m \in Nat, NEW s \in Nat, m < 60, s < 60,
         NEW k \in Nat, NEW n \in Nat, NEW u \in Nat, n < 60, u < 60,
         3600 * h + 60 * m + s <= 3600 * k + 60 * n + u
  PROVE  h <= k /\ (h = k => m <= n)
<1>1. h <= k
  <2> SUFFICES ASSUME h >= k + 1 PROVE FALSE
    OBVIOUS
  <2>1. 3600 * h >= 3600 * k + 3600
    OBVIOUS
  <2>2. 60 * n + u < 3600
    OBVIOUS
  <2> QED
    BY <2>1, <2>2
<1>2. ASSUME h = k, m >= n + 1 PROVE FALSE
  <2>1. 60 * m >= 60 * n + 60
    BY <1>2
  <2> QED
    BY <1>2, <2>1
<1> QED
  BY <1>1, <1>2

\* The three fields of one moment make up its time of day.
LEMMA Fields ==
  ASSUME NEW t \in Nat, t < DAY
  PROVE  /\ Shown("h", t) \in Nat
         /\ Shown("m", t) \in Nat /\ Shown("m", t) < 60
         /\ Shown("s", t) \in Nat /\ Shown("s", t) < 60
         /\ t = 3600 * Shown("h", t) + 60 * Shown("m", t) + Shown("s", t)
<1>1. t % DAY = t
  BY DEF DAY
<1> DEFINE h == t \div 3600
           r == t % 3600
<1>2. h \in Nat /\ r \in Nat /\ r < 3600 /\ t = 3600 * h + r
  OBVIOUS
<1>3. t % 60 = r % 60
  <2>1. t = 60 * (60 * h) + r
    BY <1>2
  <2> HIDE DEF h, r
  <2> QED
    BY <1>2, <2>1
<1>4. Shown("h", t) = h /\ Shown("m", t) = r \div 60 /\ Shown("s", t) = r % 60
  BY <1>1, <1>3 DEF Shown
<1> HIDE DEF h, r
<1>5. /\ r \div 60 \in Nat /\ r \div 60 < 60
      /\ r % 60 \in Nat /\ r % 60 < 60
      /\ r = 60 * (r \div 60) + (r % 60)
  BY <1>2, Minutes
<1> DEFINE q == r \div 60
           u == r % 60
<1>6. /\ q \in Nat /\ q < 60 /\ u \in Nat /\ u < 60 /\ r = 60 * q + u
      /\ Shown("h", t) = h /\ Shown("m", t) = q /\ Shown("s", t) = u
  BY <1>4, <1>5
<1> HIDE DEF q, u
<1> QED
  BY <1>2, <1>6

\* Fields of three moments, put together: never beyond the moment at which the
\* seconds are read, in either order.
LEMMA Mixed ==
  ASSUME NEW t1 \in Nat, NEW t2 \in Nat, NEW t3 \in Nat, t1 <= t2, t2 <= t3, t3 < DAY
  PROVE  /\ 3600 * Shown("h", t1) + 60 * Shown("m", t2) + Shown("s", t3) <= t3
         /\ 3600 * Shown("h", t3) + 60 * Shown("m", t2) + Shown("s", t1) >= t1
<1>1. t1 < DAY /\ t2 < DAY
  BY DEF DAY
<1> DEFINE h1 == Shown("h", t1)  m1 == Shown("m", t1)  s1 == Shown("s", t1)
           h2 == Shown("h", t2)  m2 == Shown("m", t2)  s2 == Shown("s", t2)
           h3 == Shown("h", t3)  m3 == Shown("m", t3)  s3 == Shown("s", t3)
<1>2. h1 \in Nat /\ m1 \in Nat /\ s1 \in Nat /\ m1 < 60 /\ s1 < 60 /\ t1 = 3600 * h1 + 60 * m1 + s1
  BY <1>1, Fields
<1>3. h2 \in Nat /\ m2 \in Nat /\ s2 \in Nat /\ m2 < 60 /\ s2 < 60 /\ t2 = 3600 * h2 + 60 * m2 + s2
  BY <1>1, Fields
<1>4. h3 \in Nat /\ m3 \in Nat /\ s3 \in Nat /\ m3 < 60 /\ s3 < 60 /\ t3 = 3600 * h3 + 60 * m3 + s3
  BY Fields
<1> HIDE DEF h1, m1, s1, h2, m2, s2, h3, m3, s3
<1>5. h1 <= h2 /\ (h1 = h2 => m1 <= m2)
  BY <1>2, <1>3, Compare
<1>6. h2 <= h3 /\ (h2 = h3 => m2 <= m3)
  BY <1>3, <1>4, Compare
<1>7. 3600 * h1 + 60 * m2 + s3 <= t3
  BY <1>2, <1>3, <1>4, <1>5, <1>6
<1>8. 3600 * h3 + 60 * m2 + s1 >= t1
  BY <1>2, <1>3, <1>4, <1>5, <1>6
<1> QED
  BY <1>7, <1>8 DEF h1, m1, s1, h2, m2, s2, h3, m3, s3

\* A time of day put together from three calls errs in one direction, for any
\* moments at which they are made.
THEOREM TimeOfDayCorrect == ClockSpec => []TimeOfDay
<1>1. ASSUME ClockInv, SameDay, DOMAIN reading = 1 .. 3
      PROVE  /\ start \in Nat
             /\ \E e1, e2, e3 \in Nat :
                  /\ reading[1].entered <= e1 /\ e1 <= e2 /\ e2 <= e3 /\ e3 <= reading[3].left
                  /\ reading[1].value = Shown(reading[1].field, start + e1)
                  /\ reading[2].value = Shown(reading[2].field, start + e2)
                  /\ reading[3].value = Shown(reading[3].field, start + e3)
                  /\ start + e3 < DAY
  <2>1. start \in Nat /\ elapsed \in Nat /\ start + elapsed < DAY /\ DAY \in Nat
    BY <1>1, Numbers, Literals DEF ClockInv, SameDay
  <2>2. \A i \in 1 .. 3 : reading[i].entered \in Nat /\ reading[i].left \in Nat
    <3>0. reading \in Seq(Reading)
      BY <1>1 DEF ClockInv, ClockTypeOK
    <3>1. \A i \in DOMAIN reading : reading[i] \in Reading
      BY <3>0
    <3> QED
      BY <1>1, <3>1, ClockAssumption DEF Reading
  <2>3. \A i \in 1 .. 3 : \E e \in reading[i].entered .. reading[i].left :
          reading[i].value = Shown(reading[i].field, start + e)
    BY <1>1 DEF ClockInv, ReadWasShown
  <2>4. PICK e1 \in reading[1].entered .. reading[1].left :
          reading[1].value = Shown(reading[1].field, start + e1)
    BY <2>3
  <2>5. PICK e2 \in reading[2].entered .. reading[2].left :
          reading[2].value = Shown(reading[2].field, start + e2)
    BY <2>3
  <2>6. PICK e3 \in reading[3].entered .. reading[3].left :
          reading[3].value = Shown(reading[3].field, start + e3)
    BY <2>3
  <2>7. /\ reading[1].left <= reading[2].entered
        /\ reading[2].left <= reading[3].entered
        /\ reading[3].left <= elapsed
    BY <1>1 DEF ClockInv, OneByOne
  <2>8. e1 \in Nat /\ e2 \in Nat /\ e3 \in Nat
    BY <2>2
  <2>9. reading[1].entered <= e1 /\ e1 <= e2 /\ e2 <= e3 /\ e3 <= reading[3].left
    BY <2>2, <2>7, <2>8
  <2>10. start + e3 < DAY
    BY <2>1, <2>2, <2>7, <2>8, <2>9
  <2> QED
    BY <2>1, <2>4, <2>5, <2>6, <2>8, <2>9, <2>10
<1>2. ClockInv => TimeOfDay
  <2> SUFFICES ASSUME ClockInv, SameDay PROVE
         /\ Order = <<"h", "m", "s">> => Composed <= start + reading[3].left
         /\ Order = <<"s", "m", "h">> => Composed >= start + reading[1].entered
    BY DEF TimeOfDay
  <2> DEFINE at(f) == CHOOSE i \in 1 .. 3 : reading[i].field = f
  <2>0. Composed = 3600 * reading[at("h")].value + 60 * reading[at("m")].value + reading[at("s")].value
    BY DEF Composed
  <2>t. DOMAIN reading = 1 .. 3 => \A i \in 1 .. 3 : reading[i].entered \in Nat /\ reading[i].left \in Nat
    <3>1. \A i \in DOMAIN reading : reading[i] \in Reading
      BY DEF ClockInv, ClockTypeOK
    <3> QED
      BY <3>1, ClockAssumption DEF Reading
  <2>1. ASSUME Order = <<"h", "m", "s">> PROVE Composed <= start + reading[3].left
    <3>1. /\ DOMAIN reading = 1 .. 3
          /\ reading[1].field = "h" /\ reading[2].field = "m" /\ reading[3].field = "s"
      BY <2>1 DEF Order
    <3>2. at("h") = 1 /\ at("m") = 2 /\ at("s") = 3
      BY <3>1
    <3> HIDE DEF at
    <3>3. PICK e1, e2, e3 \in Nat :
            /\ reading[1].entered <= e1 /\ e1 <= e2 /\ e2 <= e3 /\ e3 <= reading[3].left
            /\ reading[1].value = Shown("h", start + e1)
            /\ reading[2].value = Shown("m", start + e2)
            /\ reading[3].value = Shown("s", start + e3)
            /\ start + e3 < DAY
      BY <1>1, <3>1
    <3>4. start \in Nat
      BY <1>1, <3>1
    <3>5. Composed <= start + e3
      <4>1. start + e1 \in Nat /\ start + e2 \in Nat /\ start + e3 \in Nat
            /\ start + e1 <= start + e2 /\ start + e2 <= start + e3
        BY <3>3, <3>4
      <4>2. 3600 * Shown("h", start + e1) + 60 * Shown("m", start + e2) + Shown("s", start + e3) <= start + e3
        BY <3>3, <4>1, Mixed
      <4> QED
        BY <2>0, <3>2, <3>3, <4>2
    <3> QED
      <4>1. /\ Shown("h", start + e1) \in Nat /\ Shown("m", start + e2) \in Nat
            /\ Shown("s", start + e3) \in Nat
        BY <3>4, ShownRange DEF Field
      <4>2. Composed \in Nat
        BY <2>0, <3>2, <3>3, <4>1
      <4> QED
        BY <2>t, <3>1, <3>3, <3>4, <3>5, <4>2
  <2>2. ASSUME Order = <<"s", "m", "h">> PROVE Composed >= start + reading[1].entered
    <3>1. /\ DOMAIN reading = 1 .. 3
          /\ reading[1].field = "s" /\ reading[2].field = "m" /\ reading[3].field = "h"
      BY <2>2 DEF Order
    <3>2. at("h") = 3 /\ at("m") = 2 /\ at("s") = 1
      BY <3>1
    <3> HIDE DEF at
    <3>3. PICK e1, e2, e3 \in Nat :
            /\ reading[1].entered <= e1 /\ e1 <= e2 /\ e2 <= e3 /\ e3 <= reading[3].left
            /\ reading[1].value = Shown("s", start + e1)
            /\ reading[2].value = Shown("m", start + e2)
            /\ reading[3].value = Shown("h", start + e3)
            /\ start + e3 < DAY
      BY <1>1, <3>1
    <3>4. start \in Nat
      BY <1>1, <3>1
    <3>5. Composed >= start + e1
      <4>1. start + e1 \in Nat /\ start + e2 \in Nat /\ start + e3 \in Nat
            /\ start + e1 <= start + e2 /\ start + e2 <= start + e3
        BY <3>3, <3>4
      <4>2. 3600 * Shown("h", start + e3) + 60 * Shown("m", start + e2) + Shown("s", start + e1) >= start + e1
        BY <3>3, <4>1, Mixed
      <4> QED
        BY <2>0, <3>2, <3>3, <4>2
    <3> QED
      <4>1. /\ Shown("h", start + e3) \in Nat /\ Shown("m", start + e2) \in Nat
            /\ Shown("s", start + e1) \in Nat
        BY <3>4, ShownRange DEF Field
      <4>2. Composed \in Nat
        BY <2>0, <3>2, <3>3, <4>1
      <4> QED
        BY <2>t, <3>1, <3>3, <3>4, <3>5, <4>2
  <2> QED
    BY <2>1, <2>2
<1> QED
  BY <1>2, ClockInvariance, PTL
================================================================================
