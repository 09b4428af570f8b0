CONSTANTS
  Procs <- MCProcs
  NoProc = NoProc
  NSEMS = 4
  Values = {0}
  MaxRes = 4
  Insts = {1, 2}
  Rounds = 1
  Background = {1}
  ForkMayFail = FALSE
SPECIFICATION PPSpec
PROPERTY EndsWithAllPrinted
CHECK_DEADLOCK FALSE
