\* Racing insertions and lookups on colliding keys; the table fills and grows.
CONSTANTS
  Threads = {t1, t2}
  Keys = {1, 2, 3}
  Copies <- MCCopies
  Hash <- MCHash
  InitialCap = 2
  MaxCap = 4
  PlainKeys = {3}
  Deletes = FALSE
  GrowQuiesced = TRUE
SPECIFICATION LiveSpec
INVARIANTS TypeOK OneSlotPerKey AnswersAreCurrent NullMeansFull SizeIsExact
PROPERTIES MappingIsPermanent CasInsertReturns
