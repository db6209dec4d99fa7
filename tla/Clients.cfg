\* Seven worlds and three budgets; the walk and the calls may be aborted.
SPECIFICATION FairSpec
CONSTANTS
  Worlds <- MCWorlds
  Keys = {1, 2, 3, 4, 5}
  Limits <- MCLimits
  None = None
INVARIANTS FetchedOncePerCharge ReportsTrue EdgesComplete
PROPERTY ClientsEnd
CHECK_DEADLOCK FALSE
