SPECIFICATION Spec
CONSTANTS
  Procs = 2
  NCalls = 1
  Root <- SameRoot
  DataBytes = 3
  MaxBlock = 2
  MaxFlips = 3
  CrcFlips = {FALSE}
  ResendFlips = 0
  Eager <- AllEager
INVARIANTS
  CommittedMatchesCrc
