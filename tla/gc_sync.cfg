\* Synchronous sweep in every pause, two objects.
CONSTANTS
  MaxAddr = 3
  Regs = {x, y}
  Roots = {s}
  Nothing = Nothing
  ClearTags = TRUE
  Concurrent = FALSE
  CollectorThread = TRUE
  NoFixup = FALSE
  MoveLimit = 1
  Batch = 1
  FtInitialCap = 4
  ChaseMax = 4
  GrowMayFail = FALSE
  MaxFaults = 0
  SweepMayFail = FALSE
  MaxNew = 2
SPECIFICATION Spec
INVARIANTS
  NoStaleAccess
PROPERTIES
  ImplementsJavaHeap
