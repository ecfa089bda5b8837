SPECIFICATION Spec
CONSTANTS
  Procs = 2
  NCalls = 2
  Root <- SameRoot
  DataBytes = 3
  MaxBlock = 2
  MaxFlips = 4
  CrcFlips = {FALSE, TRUE}
  ResendFlips = 1
  Eager <- AllEager
INVARIANTS
  TypeOK
  NoSilentCorruption
