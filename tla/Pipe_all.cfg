SPECIFICATION MCSpec
CONSTANTS
  NPROCS = 3
  PIPES = {1}
  NFD = 5
  BUFLEN = 3
  MaxXfer = 4
  MaxBytes = 7
  Closing = "any"
  ThePipe = 1
  WildSlots = 2
INVARIANTS TypeOK NobodyWaitsInVain StreamIntact CarefulEof CarefulRefs CarefulSleep
PROPERTY PipeIsChannel
CHECK_DEADLOCK FALSE
