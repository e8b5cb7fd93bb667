\* Two processes with either end, counters that wrap after two rounds, calls of
\* no byte and of more than the ring holds.
SPECIFICATION FairSpec
CONSTANTS
  Procs = {p1, p2}
  Bytes = {a, b}
  NoProc = NoProc
  p1 = p1
  p2 = p2
  p3 = p3
  a = a
  b = b
  PIPESIZE = 2
  WRAP = 4
  Sizes = {0, 3}
  Faults = TRUE
  Victims = {p1}
INVARIANTS
  NoLostWakeup
  PageInUse
PROPERTIES
  EofMeansNoWriter
  IsByteStream
  PeerGoneReturns
\* Really may stop: a process that is the only one left waits for ever.
CHECK_DEADLOCK FALSE
