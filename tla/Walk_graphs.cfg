\* Nine graphs, a pool of two, and budgets from none to ample.
SPECIFICATION FairSpec
CONSTANTS
  Worlds <- MCWorlds
  Keys = {1, 2, 3, 4, 5}
  Root = 1
  MaxDepth = 2
  FetchConcurrency = 2
  Budgets = {0, 1, 2, 3, 9}
  None = None
INVARIANTS CompleteMeansAll FetchesAreUsed
PROPERTIES ImplementsSequentialWalk WalkEnds
CHECK_DEADLOCK FALSE
