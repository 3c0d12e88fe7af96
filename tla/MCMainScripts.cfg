\* The call of the board scripts.
CONSTANTS
  Size = 2
  Bits <- MCBits
  Files <- MCFiles
  Failures <- MCFailures
  Reaches <- MCReaches
  Options <- MCScripts
  Word = 16384
  BarLimit = 256
SPECIFICATION Spec
INVARIANTS
  CommandLineIsAccepted
