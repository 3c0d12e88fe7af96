\* A chip larger than the three address bytes used for it can reach.
CONSTANTS
  Bits <- MCBits
  FlashSize = 8
  PageSize = 2
  AreaReadSize = 4
  Ids <- MCPlain
  NoId <- MCNoId
  Contents <- MCContents
  ConfigBits <- MCQuadOnly
  QuadBit <- MCQuadBit
  KnownProms <- MCKnownProms
  Span24 = 4
  Span32 = 4
  MaxPolls = 1
  Files <- MCOneFile
  DumpSizes <- MCDumpAll
  DumpCapacity = 12
SPECIFICATION Spec
INVARIANTS
  DumpShowsWholeChip
