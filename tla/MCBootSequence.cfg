SPECIFICATION FairSpec
CONSTANTS
  Replicas = {p1, p2}
  Images <- MCImages
  Files <- MCFiles
  Plan <- MCPlan
  Sum <- MCSum
  Sums <- MCSums
  None = None
  Attempts = 2
  MaxStarts = 3
  MaxFaults = 2
CHECK_DEADLOCK FALSE
INVARIANTS MigratedOnceInOrder ListenersAreReady FirstBootsMakeTheStores NoBootLosesARace
PROPERTY EveryBootEnds
