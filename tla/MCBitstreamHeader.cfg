\* Files of every layout, and any bytes behind the buffer.
CONSTANTS
  BufferSize = 512
  PatternLength = 14
  Files <- MCFiles
SPECIFICATION Spec
INVARIANTS
  HeaderIsOmitted
  VerifyAgrees
  RefusedBeforeErase
