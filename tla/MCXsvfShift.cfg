\* The data of a shift: what goes out, what comes in, how it is compared, and that it ends.
CONSTANTS
  ByteBits = 2
  MaxLen = 2
  ShortHalf = 8
  Lengths <- MCLengths
  Tdi <- MCTdi
  Tdo <- MCTdo
SPECIFICATION Spec
INVARIANTS
  ChainHoldsTdi
  CapturedIsOldRegister
PROPERTIES
  ImplementsExchange
  ShiftEnds
