\* One arena; every sequence of calls until the epoch reaches MaxEpoch.
CONSTANTS
  Addrs = {a, b}
  None = None
  Regs = {r}
  Pages = {p, q}
  MaxLoops = 2
  FaultOpen = 1
  FaultClose = 1
  MaxEpoch = 6
SPECIFICATION LiveSpec
INVARIANTS
  TypeOK
  CleanOnSuccess
  OpenArms
PROPERTY CallReturns
