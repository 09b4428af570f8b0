CONSTANTS
  Procs = {p1, p2}
  NINODES = 4
  NBLOCKS = 5
  NDIRECT = 1
  NINDIRECT = 1
  PerBlock = 3
  MaxCalls = 4
  None = None
  Calls <- MCCalls
  Trees <- MCTrees
SYMMETRY Symmetry
SPECIFICATION Spec
INVARIANTS TableRight BlocksOwned NamesCounted FreedWhenGone
