\* Crashes anywhere, recoveries included, with buffers recycled until the first; two
\* CPUs and two processes that yield, sleep and are interrupted anywhere; a file table,
\* descriptor tables and a page pool that fill up.
SPECIFICATION PartSpec
CONSTANTS
  p1 = p1
  p2 = p2
  p3 = p3
  Procs <- Two
  NHome = 3
  LOGSIZE = 6
  MAXOPBLOCKS = 3
  OpBlocks = 2
  nlog = 6
  MaxOps = 3
  MaxCrashes = 2
  FullBoots = 1
  NCPU = 2
  NPROC = 2
  TWRAP = 2
  SleepFor = {1}
  FileProcs = {"init", "child"}
  initproc = "init"
  NFILE = 4
  NOFILE = 2
  NPAGE = 1
  Faults = TRUE
  MaxInodeRefs = 2
SYMMETRY SymTwo
INVARIANTS IntrsMatchLocks IdleMeansNoWork TableSound
PROPERTY CrashAtomic
