\* Every command but the longest parameters, from every state of the TAP.
CONSTANTS
  RunTimes <- MCRunTimes
  ShiftSizes <- MCShiftSizes
  MaxBits = 2
  Repeats <- MCRepeats
  RepeatModulus = 3
  Increments <- MCIncrements
  StateBytes <- MCStates
  LongWait = 100000000
  ShortWait = 30000001
SPECIFICATION Spec
INVARIANTS
  TypeOK
  TrackedStateIsReal
  BitsAreShiftedInShiftState
  RunTestIsWaitedInIdle
  ShiftEndsInEndState
  XWaitWaitsInReachableState
PROPERTIES
  ExhaustedRetriesAreReported
  EveryCommandEnds
