SPECIFICATION Spec
CONSTANTS
  NPages = 14
  FreePages = {0, 2, 3, 4, 5, 6, 7, 9, 10, 11, 12, 13}
  Modules <- MCSingle
  InitName = "init"
  Names = {"init", "app"}
  IndexSpan = 256
  MaxPid = 4
  PostExit = {"OTHER"}
INVARIANTS
  ContextKept
