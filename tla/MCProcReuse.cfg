\* Three user processes, one slot used a second time.
SPECIFICATION Spec
CONSTANTS
  NPROC = 4
  MaxPid = 5
  KillPids = {}
  Failures = FALSE
INVARIANT NoDeadlock
CHECK_DEADLOCK FALSE
