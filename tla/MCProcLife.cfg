CONSTANTS
  NPROC = 4
  MaxPid = 4
  KillArgs = {2}
SPECIFICATION FairSpec
INVARIANTS Family StackFree NoLostExit
PROPERTY OrphansReaped
CHECK_DEADLOCK FALSE
