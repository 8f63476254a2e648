\* No previous SIGPROT handler, as in the JVM and the tests.
CONSTANTS
  AddrSpace = 24
  StackLo = 8
  StackHi = 12
  CrashWords = {0, 8, 9, 10, 22, 23}
  Threads = {2}
  MaxReg = 2
  NTried = 2
  Objects = {10, 20}
  CopyOf <- MCCopyOf
  StartRegs <- MCStartRegs
  CodeAddr = 7
  ClearTags = TRUE
  Evacuates = FALSE
  PrevHandler = "none"
  MayHang = TRUE
SPECIFICATION LiveSpec
PROPERTY FaultEnds
CHECK_DEADLOCK FALSE
