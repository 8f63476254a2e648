\* Sound mode: epochs opened in the pause, closed by the collector thread.
CONSTANTS
  MaxAddr = 3
  Regs = {x, y}
  Roots = {s}
  Nothing = Nothing
  ClearTags = TRUE
  Concurrent = TRUE
  CollectorThread = TRUE
  NoFixup = FALSE
  MoveLimit = 1
  Batch = 1
  FtInitialCap = 4
  ChaseMax = 4
  GrowMayFail = FALSE
  MaxFaults = 1
  SweepMayFail = TRUE
  MaxNew = 1
SPECIFICATION Spec
INVARIANTS
  TypeOK
  NoStaleAccess
  QuarantineClear
  RevokedIsForwarded
  TaggedMeansIdentity
PROPERTIES
  ForwardingIsPermanent
  NoMoveUnderOpenEpoch
  ImplementsJavaHeap
