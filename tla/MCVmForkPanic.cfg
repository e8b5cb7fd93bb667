\* A process that calls fork(), with any number of pages left.
SPECIFICATION VmSpec
CONSTANTS
  Slots = {1, 2}
  NPHYS = 20
  PGSIZE = 2
  L0 = 2
  UPAGES = 5
  UINT32 = 64
  Deltas = {}
  Programs <- GoodPrograms
  MaxHeld = 14
  MaxVmCalls = 2
PROPERTY ForkFailsGracefully
CHECK_DEADLOCK FALSE
