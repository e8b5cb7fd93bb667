\* Two processes, two names below the root and below each other, one crash; a line
\* buffer of 3 shared by two readers.
SPECIFICATION PartSpec
CONSTANTS
  Procs = {p1, p2}
  p1 = p1
  p2 = p2
  Names = {"a", "b"}
  GivenFile = "b"
  NINODES = 6
  NBLOCKS = 6
  NINODE = 8
  Calls <- SmallCalls
  MaxCalls = 4
  MaxCrashes = 1
  INPUT_BUF = 3
  CWRAP = 6
  Readers = {p1, p2}
  ReadSizes = {2}
  NoReader = NoReader
SYMMETRY Symmetry
INVARIANTS
  CrashConsistent RefsCounted LastPutUnlocked NoPanic NoDeadlock NoSleepBesideLine
PROPERTIES FreedUnlessReborn IsLineBuffer
CHECK_DEADLOCK FALSE
