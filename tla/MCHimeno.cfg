CONSTANTS
  Size0 <- SmallGrid
  Programs <- FourWays
  Rehearsal = 1
  Times = {1, 3}
  Target = 2
  Simgrid = 2
SPECIFICATION FairSpec
INVARIANTS TypeOK CellsCurrent OneLayerUnderWay GosaCountsEachPoint
PROPERTIES EveryRankEnds
