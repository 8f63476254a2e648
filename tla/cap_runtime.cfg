\* Two threads, more keys than the table has slots, a heap of two colour entries.
CONSTANTS
  Threads = {t1, t2}
  Keys = {8, 12, 16}
  CopyOf <- MCCopyOf
  NSlots = 2
  Hash <- MCHash
  None = 0
  HeapBytes = 16
  Addrs = {0, 12, 16}
  Colors = {0, 1, 2}
  MaxCycles = 1
SYMMETRY Symmetry
SPECIFICATION Spec
INVARIANTS
  TypeOK
  OneSlotPerKey
  CountIsExact
  AnswerIsForwarding
  InstalledIsFound
  FlipIsPerEntry
CHECK_DEADLOCK FALSE
