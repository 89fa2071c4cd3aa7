SPECIFICATION KeyboardFairSpec
CONSTANTS
  MaxPress = 3
  Mute = {2}
INVARIANTS
  KeyboardTypeOK
  NoLostInterrupt
PROPERTIES
  KeysInOrder
  GetcharReturns
