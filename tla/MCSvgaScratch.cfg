SPECIFICATION KernelStackSpec
CONSTANTS
  NTasks = 3
  StackWords = 54
  HandlerWords = 9
  TailPoints = {5, 14, 23}
  Handed <- FromPageZero
INVARIANTS
  UserStackKept
