SPECIFICATION ClockFairSpec
CONSTANTS
  Starts = {35998, 36898, 86398}
  MaxSeconds = 3
  Frequencies = {5, 19}
  TickLimit = 1
INVARIANTS
  ClockTypeOK
  ReadWasShown
  TimeOfDay
  ReloadRight
PROPERTIES
  ReadEnds
