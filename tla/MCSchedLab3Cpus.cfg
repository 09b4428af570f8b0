CONSTANTS
  NCPU = 2
  NPROC = 2
  SleepArgs = {1}
  Machines <- Lab3Cpus
SPECIFICATION Spec
INVARIANT SpinDeadlockFree
