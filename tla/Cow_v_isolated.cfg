SPECIFICATION MCSpec
CONSTANTS
  NPROCS = 2
  Pages = {a, b, c, d}
  NoPage = NoPage
  NIMG = 1
  UMAX = 1
  LOWWATER = 1
  Vals = {0, 1}
  DirectWrites = TRUE
  DirectSlots = 2
SYMMETRY Symmetry
INVARIANT Isolated
CHECK_DEADLOCK FALSE
