SPECIFICATION StartupSpec
CONSTANTS
  PER = 4
  IMG = 1
  NTABLES = 1
  NPROCS = 1
  PROC = 3
  FX = 1
  IDT = 1
  MaxFrames = 21
  MaxRef = 2
  NBUS = 2
  NDEVFN = 2
  Ctls <- MCCtls
  NPORTS = 2
  NBLK = 4
  NDISK = 2
  NPART = 5
  GPTBLKS = 1
  NPAGES = 21
  Depth = 3
  Machines <- MCMachines
  Maps <- MCMaps
  Boots <- MCBoots
  Requests <- MCRequests
  MaxUser = 2
INVARIANTS
  StartupTypeOK
  FreeListExact
  FreeIsUsable
  DriverPagesApart
  BlockIsRight
  RootFound
PROPERTIES
  WaitsEnd
CHECK_DEADLOCK FALSE
