\* Two callers that stay below their reservation, so that the third call may have to
\* wait; writes of 15 bytes in three pieces, in blocks of 2; lines of up to 7
\* characters.
SPECIFICATION PartSpec
CONSTANTS
  p1 = p1
  p2 = p2
  p3 = p3
  Procs <- Two
  NHome = 4
  LOGSIZE = 4
  MAXOPBLOCKS = 2
  OpBlocks = 1
  nlog = 4
  MaxOps = 4
  MaxCrashes = 0
  FullBoots = 0
  BSIZE = 2
  NDIRECT = 2
  NINDIRECT = 7
  FSBLOCKS = 20
  OPBLOCKS = 10
  UINT = 64
  Writers = {"p", "q"}
  Sizes = {15}
  ReadSize = 3
  CopyFail = 1
  MkfsSizes = {0, 7}
  MaxFileCalls = 2
  MAXARGS = 4
  Alphabets <- Lines
INVARIANTS LogFits ContentIntact BlocksOwned TxFits ShRuns NshParses
PROPERTY Admitted
CHECK_DEADLOCK FALSE
