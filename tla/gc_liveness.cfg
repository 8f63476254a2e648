\* Failing closes are retried until the epoch clears.
CONSTANTS
  MaxAddr = 2
  Regs = {x}
  Roots = {s}
  Nothing = Nothing
  ClearTags = TRUE
  Concurrent = TRUE
  CollectorThread = TRUE
  NoFixup = FALSE
  MoveLimit = 1
  Batch = 1
  FtInitialCap = 4
  ChaseMax = 4
  GrowMayFail = FALSE
  MaxFaults = 2
  SweepMayFail = TRUE
  MaxNew = 1
SPECIFICATION LiveSpec
PROPERTIES
  CloseCompletes
