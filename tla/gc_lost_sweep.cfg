\* A synchronous sweep whose failure is ignored.
CONSTANTS
  MaxAddr = 2
  Regs = {x}
  Roots = {s}
  Nothing = Nothing
  ClearTags = TRUE
  Concurrent = FALSE
  CollectorThread = TRUE
  NoFixup = FALSE
  MoveLimit = 1
  Batch = 1
  FtInitialCap = 4
  ChaseMax = 4
  GrowMayFail = FALSE
  MaxFaults = 0
  SweepMayFail = TRUE
  MaxNew = 1
SPECIFICATION Spec
INVARIANTS
  NoStaleAccess
