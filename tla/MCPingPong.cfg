CONSTANTS
  Procs <- MCProcs
  NoProc = NoProc
  NSEMS = 4
  Values = {0}
  MaxRes = 4
  Insts = {1, 2}
  Rounds = 3
  Background = {}
  ForkMayFail = TRUE
SPECIFICATION PPSpec
INVARIANT Alternates
PROPERTY EndsWithAllPrinted
CHECK_DEADLOCK FALSE
