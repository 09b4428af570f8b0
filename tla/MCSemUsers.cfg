CONSTANTS
  Procs = {p1, p2, p3, p4}
  NoProc = NoProc
  NSEMS = 1
  Values = {1}
  MaxRes = 3
  K = 2
SPECIFICATION USpec
INVARIANT NoLostWakeup
PROPERTY ImplementsCountingSemaphore
CHECK_DEADLOCK FALSE
