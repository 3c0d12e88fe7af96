\* The operations implement the service, and end.
CONSTANTS
  Bits <- MCBits
  FlashSize = 4
  PageSize = 2
  AreaReadSize = 4
  Ids <- MCTwo
  NoId <- MCNoId
  Contents <- MCContents
  ConfigBits <- MCQuadOnly
  QuadBit <- MCQuadBit
  KnownProms <- MCKnownProms
  Span24 = 4
  Span32 = 4
  MaxPolls = 1
  Files <- MCOutOfStep
  DumpSizes <- MCDumpSizes
  DumpCapacity = 9
SPECIFICATION Spec
PROPERTIES
  ImplementsService
  EveryCallReturns
