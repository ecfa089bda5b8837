\* A grid whose arrays have more rows than ijvec accounts for.
CONSTANTS
  Size0 <- LongGrid
  Programs <- CutYZ
  Rehearsal = 1
  Times = {1}
  Target = 1
  Simgrid = 1
SPECIFICATION Spec
INVARIANT CellsCurrent
