\* Any invocation after any other.
CONSTANTS
  Size = 2
  Bits <- MCBits
  Files <- MCFiles
  Failures <- MCFailures
  Reaches <- MCReaches
  Options <- MCOptions
  Word = 16384
  BarLimit = 256
SPECIFICATION Spec
INVARIANTS
  TypeOK
  SuccessMeansImage
  RebootsIntoImage
PROPERTY
  ChangesOnlyWhenAsked
