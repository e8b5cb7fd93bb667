\* A second system call after a recovery, with buffers that run short.
SPECIFICATION Spec
CONSTANTS
  p1 = p1
  p2 = p2
  p3 = p3
  Procs <- Two
  NHome = 2
  LOGSIZE = 4
  MAXOPBLOCKS = 2
  OpBlocks = 1
  nlog = 4
  MaxOps = 3
  MaxCrashes = 1
  FullBoots = 2
INVARIANT PinnedWhileLogged
