CONSTANTS
  Procs = {p1, p2, p3}
  Blocks = {b1, b2}
  Vals = {v1, v2}
  MAXOPBLOCKS = 4
  LOGSIZE = 8
  OpBlocks = 2
SPECIFICATION FairSpec
INVARIANT NothingLost
PROPERTIES ImplementsAtomicDisk SomebodyBegins
