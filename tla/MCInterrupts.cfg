SPECIFICATION InterruptsFairSpec
CONSTANTS
  Lines = {0, 1, 14}
INVARIANTS
  InService
PROPERTIES
  EndsOwn
  IrqServed
