\* Every operation, on every kind of chip, with every kind of file.
CONSTANTS
  Bits <- MCBits
  FlashSize = 8
  PageSize = 2
  AreaReadSize = 4
  Ids <- MCIds
  NoId <- MCNoId
  Contents <- MCContents
  ConfigBits <- MCConfig
  QuadBit <- MCQuadBit
  KnownProms <- MCKnownProms
  Span24 = 8
  Span32 = 8
  MaxPolls = 1
  Files <- MCFiles
  DumpSizes <- MCDumpSizes
  DumpCapacity = 9
SPECIFICATION Spec
INVARIANTS
  TypeOK
  WriteCommandsAreCarriedOut
  EraseMeansBlank
  ProgramMeansOverlay
  PageProgramStaysInPage
  VerifyIsRight
  DumpIsRight
  ProgramSetsQuadMode
  UnknownChipUntouched
  IdleChipIsRecognised
  OutOfRangeOnlyAfterQuadMode
