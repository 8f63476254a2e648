\* A chase limit shorter than a chain, and roots that are not fixed up.
CONSTANTS
  MaxAddr = 4
  Regs = {x, y}
  Roots = {s}
  Nothing = Nothing
  ClearTags = TRUE
  Concurrent = TRUE
  CollectorThread = TRUE
  NoFixup = TRUE
  MoveLimit = 1
  Batch = 1
  FtInitialCap = 4
  ChaseMax = 1
  GrowMayFail = FALSE
  MaxFaults = 0
  SweepMayFail = TRUE
  MaxNew = 1
SPECIFICATION Spec
INVARIANTS
  NoStaleAccess
  QuarantineClear
