SPECIFICATION FairSpec
CONSTANTS
  NPages = 24
  FreePages = {0, 2, 3, 4, 5, 6, 7, 9, 10, 11, 12, 14, 15, 16, 17, 20, 21, 22}
  Modules <- MCModules
  InitName = "init"
  Names = {"init", "app"}
  IndexSpan = 5
  MaxPid = 6
  PostExit = {"OTHER", "LOADF", "GETCHAR"}
INVARIANTS
  RunList
  CallerIsCurrent
  ThiefIsNewer
  ProcCount
  OwnMemory
PROPERTIES
  RoundRobin
  HandlersReturn
  ImplementsTurns
