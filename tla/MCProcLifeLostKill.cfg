CONSTANTS
  NPROC = 3
  MaxPid = 5
  KillArgs = {2}
SPECIFICATION Spec
INVARIANT NoKilledSleeper
CHECK_DEADLOCK FALSE
