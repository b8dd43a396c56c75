SPECIFICATION Spec
CONSTANTS
  NPROCS = 2
  PIPES = {1}
  NFD = 5
  BUFLEN = 3
  MaxXfer = 2
  MaxBytes = 3
  Closing = "any"
INVARIANT EofIsFinal
CHECK_DEADLOCK FALSE
