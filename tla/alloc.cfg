\* Three threads, requests with and without rounding (5 is reserved as 6, at an
\* even offset), room for two of the first and a gap between, one reset.
CONSTANTS
  Threads = {t1, t2, t3}
  Sizes = {3, 5}
  ArenaSize = 12
  Word = 32
  MaxResets = 1
  Rounded <- RoundedMC
  AlignUp <- AlignUpMC
  Low <- LowMC
  High <- HighMC
SPECIFICATION LiveSpec
INVARIANTS
  TypeOK
  CapsDisjoint
PROPERTIES
  CallReturns
