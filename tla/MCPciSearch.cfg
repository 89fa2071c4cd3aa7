SPECIFICATION PciRegisterSpec
CONSTANTS
  Headers = {0}
  Registers <- PlainRegisters
  Uppers <- FullUpper
  Bases <- SomeBases
INVARIANTS
  SearchHasBit
