\* Any file: the real pass plays it, in order; good ones keep both passes in step, and end.
CONSTANTS
  ByteBits = 5
  MaxLen = 4
  ShortHalf = 256
  Scripts <- MCFiles
  Answers <- MCAnswers
  IndexModulus = 4
  MaxCommands = 40
SPECIFICATION Spec
INVARIANTS
  GoodFramingIsKept
  GoodTotalIsRight
  ComparesThisPass
  NeverStuck
PROPERTIES
  ImplementsScript
  GoodRunEnds
