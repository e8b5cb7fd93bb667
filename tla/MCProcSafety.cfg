\* Two user slots, reused: every way three processes can fork, exit, wait and be killed.
SPECIFICATION FairSpec
CONSTANTS
  NPROC = 3
  MaxPid = 4
  KillPids = {2}
  Failures = TRUE
INVARIANTS
  CheckedParentStable
  NoMissedExit
  StackQuiescent
  NoDeadlock
PROPERTIES
  TreeSpec
  KilledEventuallyExits
\* Really may stop: a process that waits for a child may wait for ever.
CHECK_DEADLOCK FALSE
