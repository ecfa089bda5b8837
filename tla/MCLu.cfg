\* Four rows on three ranks, one of which owns two.
CONSTANTS
  N = 4
  P = 3
  Q = 5
  Matrices <- FourByFour
  Eager <- SecondStepWaits
SPECIFICATION FairSpec
INVARIANTS TypeOK PivotIsOwners FactorsOfPrinted
PROPERTIES ImplementsGauss EveryRankEnds
