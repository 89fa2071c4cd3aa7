SPECIFICATION LoaderSpec
CONSTANTS
  NPages = 26
  PageCells = 2
  FreePages = {0, 1, 2, 3, 4, 5, 6, 7, 8, 9, 10, 11, 12, 13, 14, 22, 23, 24, 25}
  ModuleLists <- MCLists
  InitName <- MCInit
  Requests <- MCRequests
  BufSize = 4
  MaxTasks = 5
INVARIANTS
  LoaderTypeOK
  LoadsNamed
  CodeKept
PROPERTIES
  StartsWhole
