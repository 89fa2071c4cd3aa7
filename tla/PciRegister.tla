------------------------------ MODULE PciRegister ------------------------------
(***************************************************************************)
(* pci_read_register, pci_write_register and their 16- and 32-bit copies   *)
(* (pci.c): a driver's access to a device register through a base address  *)
(* register of a function.  Each access finds out the size of the region   *)
(* again, by overwriting the register with ones, and puts it back.         *)
(*                                                                         *)
(* The function's registers may have been through the analysis of PciBar   *)
(* before, which does not put back what it overwrites.  What is            *)
(* transferred, and the offset within the region, are left out.            *)
(***************************************************************************)
EXTENDS PciBar

CONSTANT Bases      \* the addresses the BIOS may have assigned, as sets of bits

ASSUME BasesAssumption == Bases \subseteq SUBSET (0 .. 31)

VARIABLES
  step,         \* where the access is
  device,       \* the register as the hardware has it: [bits, writable]
  held,         \* the address bits that are set in it
  assigned,     \* history: those that were before any access
  touched,      \* history: the analysis has overwritten it
  backup,       \* pci_backup
  dir,          \* which of the functions: one that reads or one that writes
  target        \* history: where the access has gone

accessVars == <<step, device, held, assigned, touched, backup, dir, target>>
registerVars == <<pciVars, accessVars>>

Steps == {"none", "driver", "open", "ones", "size", "restore", "transfer", "finish", "searching"}

Nowhere == [space |-> "none", address |-> {}]

PciRegisterTypeOK ==
  /\ PciTypeOK
  /\ step \in Steps
  /\ device \in [bits : SUBSET (0 .. 3), writable : SUBSET (2 .. 31)]
  /\ held \subseteq device.writable
  /\ assigned \subseteq device.writable
  /\ touched \in BOOLEAN
  /\ backup \subseteq 0 .. 31
  /\ dir \in {"read", "write"}
  /\ target \in [space : {"none", "memory", "io"}, address : SUBSET (0 .. 31)]

PciRegisterInit ==
  /\ PciInit
  /\ step = "none"
  /\ device = [bits |-> {}, writable |-> {}]
  /\ held = {}
  /\ assigned = {}
  /\ touched = FALSE
  /\ backup = {}
  /\ dir = "read"
  /\ target = Nowhere

--------------------------------------------------------------------------------
(* The register in configuration space.                                    *)

Value == held \cup device.bits

pci_config_readd == Value

\* Only the address bits that the device has can be changed.
pci_config_writed(value) == held' = value \cap device.writable

--------------------------------------------------------------------------------
(* A driver turns to the function, before any analysis or after it, and    *)
(* then to one of its base address registers.                              *)

AnalysisOver == status \in {"end", "unsupported", "error", "internal"}

NoAnalysis == status = "loop" /\ written = {} /\ bar = 0

Driver ==
  /\ step = "none"
  /\ headerType < 2
  /\ AnalysisOver \/ NoAnalysis
  /\ step' = "driver"
  /\ status' = "end"
  /\ bar' = 0
  /\ reg' = [bits |-> {}, writable |-> {}]
  /\ upper' = {}
  /\ report' = [kind |-> "none", bit |-> 0]
  /\ UNCHANGED <<headerType, written, device, held, assigned, touched, backup, dir, target>>

Open ==
  /\ step = "driver"
  /\ step' = "open"
  /\ \E r \in Registers, b \in Bases, n \in 0 .. max_bars - 1 :
       /\ device' = r
       /\ assigned' = b \cap r.writable
       /\ touched' = (n \in written)
       /\ held' = IF n \in written THEN r.writable ELSE b \cap r.writable
  /\ UNCHANGED <<pciVars, backup, dir, target>>

--------------------------------------------------------------------------------
(* One access.  All six functions take the same steps.                     *)

Goto(from, to) == step = from /\ step' = to /\ UNCHANGED <<device, assigned, touched>>

\* The register's value is read, and read again as the backup.
Begin(direction) ==
  /\ Goto("open", "ones")
  /\ backup' = pci_config_readd
  /\ dir' = direction
  /\ target' = Nowhere
  /\ UNCHANGED held

BeginRead  == Begin("read")
BeginWrite == Begin("write")

\* Whatever is not 32-bit memory is taken for ports.
Memory == device.bits \cap {0, 1, 2} = {}

Mask == IF Memory THEN 4 .. 31 ELSE 2 .. 31

WriteOnes ==
  /\ Goto("ones", "size")
  /\ pci_config_writed(Mask)
  /\ UNCHANGED <<backup, dir, target>>

Size == pci_config_readd \cap Mask

Valid ==
  /\ Size # {}
  /\ get_number_of_highest_set_bit(Size) \in (IF Memory THEN {31} ELSE {15, 31})

CheckSize ==
  /\ Size # {} \/ ~Memory
  /\ Goto("size", IF Valid THEN "restore" ELSE "finish")
  /\ UNCHANGED <<held, backup, dir, target>>

\* For memory the lowest bit is searched before the value is compared with 0.
SearchZero ==
  /\ Size = {} /\ Memory
  /\ Goto("size", "searching")
  /\ UNCHANGED <<held, backup, dir, target>>

\* Mutant: the access is made while the register is still all ones.
Restore_Not ==
  /\ Goto("restore", "transfer")
  /\ UNCHANGED <<held, backup, dir, target>>

Restore ==
  /\ Goto("restore", "transfer")
  /\ pci_config_writed(backup)
  /\ UNCHANGED <<backup, dir, target>>

Transfer ==
  /\ Goto("transfer", "finish")
  /\ target' = [space |-> IF Memory THEN "memory" ELSE "io",
                address |-> pci_config_readd \cap Mask]
  /\ UNCHANGED <<held, backup, dir>>

\* Mutant: a register whose size is not valid is left overwritten.
Finish_NotRestored ==
  /\ Goto("finish", "open")
  /\ UNCHANGED <<held, backup, dir, target>>

Finish ==
  /\ Goto("finish", "open")
  /\ pci_config_writed(backup)
  /\ UNCHANGED <<backup, dir, target>>

Hangs == step = "searching" /\ UNCHANGED registerVars

PciRegisterNext ==
  \/ step = "none" /\ PciNext /\ UNCHANGED accessVars
  \/ Driver
  \/ Open
  \/ /\ BeginRead \/ BeginWrite \/ WriteOnes \/ CheckSize \/ SearchZero
        \/ Restore \/ Transfer \/ Finish
     /\ UNCHANGED pciVars
  \/ Hangs

PciRegisterSpec == PciRegisterInit /\ [][PciRegisterNext]_registerVars

--------------------------------------------------------------------------------
(* Properties                                                              *)

\* Between two accesses the register holds the address the BIOS assigned,
\* whether or not the size made sense: later accesses, and the device, see no
\* trace of an earlier one.  Not so if the analysis has overwritten it.
BarRestored == step = "open" /\ ~touched => held = assigned

\* 20- and 64-bit memory, which the functions take for ports.
OtherMemory == 0 \notin device.bits /\ ~Memory

\* An access goes to the address the BIOS assigned, in the space the device
\* is in; never to where the ones written for the size would lead.
AccessHits ==
  target # Nowhere /\ ~touched /\ ~OtherMemory =>
    target = [space |-> IF 0 \in device.bits THEN "io" ELSE "memory",
              address |-> assigned]

\* pci.c:101: the searches for a bit are never given 0.
SearchHasBit == status # "searching" /\ step # "searching"
================================================================================
