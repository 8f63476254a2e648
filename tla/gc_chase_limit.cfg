\* A chain longer than the chase limit.
CONSTANTS
  MaxAddr = 4
  Regs = {x}
  Roots = {s}
  Nothing = Nothing
  ClearTags = TRUE
  Concurrent = TRUE
  CollectorThread = TRUE
  NoFixup = FALSE
  MoveLimit = 1
  Batch = 1
  FtInitialCap = 4
  ChaseMax = 2
  GrowMayFail = FALSE
  MaxFaults = 0
  SweepMayFail = FALSE
  MaxNew = 1
SPECIFICATION Spec
INVARIANTS
  ChaseGivesUpOnlyOnCorruption
