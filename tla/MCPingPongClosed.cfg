CONSTANTS
  Procs <- MCProcs
  NoProc = NoProc
  NSEMS = 2
  Values = {0}
  MaxRes = 4
  Insts = {1}
  Rounds = 2
  Background = {}
  ForkMayFail = FALSE
SPECIFICATION PPSpec
INVARIANT ClosedCannotBeUsed
CHECK_DEADLOCK FALSE
