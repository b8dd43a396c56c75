SPECIFICATION Spec
CONSTANTS
  NPROCS = 4
  MaxPid = 4
  ExitVals = {0}
  EarlyExit = TRUE
  BadSyscall = FALSE
INVARIANT WaiterHasLivingChild
CHECK_DEADLOCK FALSE
