CONSTANTS
  NCPU = 2
  NPROC = 2
  SleepArgs = {0, 1}
  Machines <- Sound
SPECIFICATION FairSpec
INVARIANTS OneStack SpinDeadlockFree NoSleepPast
PROPERTIES StateUnderLock ComesBack
