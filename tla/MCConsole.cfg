SPECIFICATION ConsoleSpec
CONSTANTS
  Columns = 4
  Bottom = 1
  MemRows = 6
  Label <- MCLabel
  Chars = {"a"}
  Numbers <- MCNumbers
  UlongSpan = 1000
  Positions = {3, 6}
  MaxPrinted = 6
INVARIANTS
  ConsoleTypeOK
  ShowsTail
PROPERTIES
  InfoDrawn
