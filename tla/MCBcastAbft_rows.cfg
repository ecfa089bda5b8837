SPECIFICATION FairSpec
CONSTANTS
  Procs = 3
  NCalls = 3
  Root <- RowOwners
  DataBytes = 1
  MaxBlock = 2
  MaxFlips = 2
  CrcFlips = {FALSE}
  ResendFlips = 0
  Eager <- SecondWaits
INVARIANTS
  ResendIsAwaited
  RootOwesNothing
PROPERTIES
  ImplementsReliableBcast
  EveryoneReturns
