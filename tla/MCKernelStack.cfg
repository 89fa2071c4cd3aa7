SPECIFICATION KernelStackSpec
CONSTANTS
  NTasks = 2
  StackWords = 54
  HandlerWords = 9
  TailPoints = {5, 14, 23}
  Handed <- FromPageZero
INVARIANTS
  StacksIntact
  StackBounded
PROPERTIES
  SvgaReturns
