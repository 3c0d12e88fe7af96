\* A wait of more than 100 seconds.
CONSTANTS
  RunTimes <- MCLongTimes
  ShiftSizes <- MCTwoBits
  MaxBits = 2
  Repeats <- MCRepeats
  RepeatModulus = 3
  Increments <- MCOnce
  StateBytes <- MCStable
  LongWait = 100000000
  ShortWait = 30000001
SPECIFICATION Spec
INVARIANT
  WaitsLongEnough
