CONSTANTS
  Procs = {p1, p2, p3}
  Bufs = {u1, u2}
  Blocks = {b1, b2, b3}
  Vals = {v1, v2}
  None = None
  Sizes = {5, 7}
  MaxPinned = 1
SYMMETRY Symmetry
SPECIFICATION Spec
INVARIANTS OneBuffer NobodyForgotten DescriptorsOwned
PROPERTIES ImplementsBlockStore
