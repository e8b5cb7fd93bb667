\* Three processes and one pin in three buffers; four blocks compete for them.
SPECIFICATION Spec
CONSTANTS
  p1 = p1
  p2 = p2
  p3 = p3
  k1 = k1
  k2 = k2
  k3 = k3
  k4 = k4
  NoProc = NoProc
  NoBlock = NoBlock
  Procs = {p1, p2, p3}
  Blocks = {k1, k2, k3, k4}
  NBUF = 3
  Values = {0, 1}
  MaxPins = 1
SYMMETRY Symmetry
INVARIANTS
  CacheSound
  Coherent
  SleeperHasHolder
