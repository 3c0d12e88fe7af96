\* XSDRINC behind expected data that are not 0: the dummy pass loses its place in the file.
CONSTANTS
  ByteBits = 5
  MaxLen = 4
  ShortHalf = 32768
  Scripts <- MCCounting
  Answers <- MCAnswers
  IndexModulus = 4
  MaxCommands = 40
SPECIFICATION Spec
INVARIANT
  TotalIsRight
