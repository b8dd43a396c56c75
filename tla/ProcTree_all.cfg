SPECIFICATION MCSpec
CONSTANTS
  NPROCS = 5
  MaxPid = 6
  WildPid = 5
  WildSlots = 4
  ExitVals = {0}
  EarlyExit = TRUE
  BadSyscall = TRUE
INVARIANTS TypeOK  IdleSchedulable OrderlyLists OrderlyWaits 
PROPERTY NoStarvation
CHECK_DEADLOCK FALSE
