CONSTANTS
  NPROC = 7
  NFILE = 5
  Pages = {g1, g2}
  PIPESIZE = 2
  W = 4
  Byte = {0, 1, 2, 3, 4}
  MaxFaults = 1
  None = None
  MAXARGS = 3
  Newline = 0
  Text <- MCText
  Scripts <- MCScripts
SPECIFICATION Spec
CHECK_DEADLOCK FALSE
INVARIANTS PipesRight OutputRight ParserRight
PROPERTIES ShellEnds
