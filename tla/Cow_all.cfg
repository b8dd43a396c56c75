SPECIFICATION MCSpec
CONSTANTS
  NPROCS = 3
  Pages = {a, b, c, d}
  NoPage = NoPage
  NIMG = 1
  UMAX = 3
  LOWWATER = 0
  Vals = {0, 1}
  DirectWrites = TRUE
  DirectSlots = 2
SYMMETRY Symmetry
INVARIANTS TypeOK RefExact  WritableIsPrivate TablesAgree  
CHECK_DEADLOCK FALSE
