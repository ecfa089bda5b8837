\* Seven points, three clusters, three ranks, four iterations.
CONSTANTS
  numOfElements = 7
  numOfClusters = 3
  num_of_processes = 3
  MAX_ITERATIONS = 4
  Inputs <- Groups
  Eager <- SecondWaits
SPECIFICATION FairSpec
INVARIANTS TypeOK AssignsWithRootsMeans
PROPERTIES CostNeverGrows ImplementsLloyd EveryRankEnds
