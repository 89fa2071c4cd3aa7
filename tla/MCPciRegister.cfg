SPECIFICATION PciRegisterSpec
CONSTANTS
  Headers = {0, 1, 2}
  Registers <- AllRegisters
  Uppers <- AllUppers
  Bases <- SomeBases
INVARIANTS
  SizeIsRight
  RejectsOnlyInvalid
  StaysInBars
  BarRestored
  AccessHits
