\* Two process slots in 20 pages of memory; three buffers on eight descriptors; heaps
\* with even and uneven ends.
SPECIFICATION PartSpec
CONSTANTS
  Slots = {1, 2}
  NPHYS = 20
  PGSIZE = 2
  L0 = 2
  UPAGES = 5
  UINT32 = 64
  Deltas <- SmallDeltas
  Programs <- SmallPrograms
  MaxHeld = 8
  MaxVmCalls = 4
  NUM = 8
  VWRAP = 16
  Bufs = {b1, b2, b3}
  NoBuf = NoBuf
  Heaps <- SmallHeaps
  MaxLive = 3
INVARIANTS MappedToSize PanicsOnlyWhenOut CopyExact DescOwned HeapPartitioned
PROPERTIES PagesConserved RwReturns
CHECK_DEADLOCK FALSE
