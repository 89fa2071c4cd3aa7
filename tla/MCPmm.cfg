SPECIFICATION PmmFairSpec
CONSTANTS
  NPages = 16
  PageBytes = 4
  WordBits = 4
  Layouts <- AllLayouts
INVARIANTS
  PmmTypeOK
  Exact
  KernelStaysReserved
PROPERTIES
  InitEnds
  ImplementsPageAlloc
