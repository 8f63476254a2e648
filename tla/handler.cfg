\* Two threads faulting on objects that move or are evacuated by the mutators.
CONSTANTS
  AddrSpace = 24
  StackLo = 8
  StackHi = 12
  CrashWords = {0, 8, 9, 10, 22, 23}
  Threads = {1, 2}
  MaxReg = 2
  NTried = 2
  Objects = {10, 20}
  CopyOf <- MCCopyOf
  StartRegs <- MCStartRegs
  CodeAddr = 7
  ClearTags = FALSE
  Evacuates = TRUE
  PrevHandler = "hotspot"
  MayHang = TRUE
SPECIFICATION LiveSpec
INVARIANTS
  TypeOK
  HealIsExact
  UsableIsCurrent
  DumpCutOnlyAtEdges
PROPERTIES
  HealKeepsReferences
  SlotKeepsObject
  FaultEnds
CHECK_DEADLOCK FALSE
