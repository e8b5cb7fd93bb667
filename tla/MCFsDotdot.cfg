\* One process removes the directories around its current directory and goes up.
SPECIFICATION Spec
CONSTANTS
  Procs = {p1}
  p1 = p1
  p2 = p2
  Names = {"a", "b"}
  GivenFile = "b"
  NINODES = 6
  NBLOCKS = 6
  NINODE = 8
  Calls <- DotdotCalls
  MaxCalls = 6
  MaxCrashes = 0
INVARIANT NoTypePanic
CHECK_DEADLOCK FALSE
