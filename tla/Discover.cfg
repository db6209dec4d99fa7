\* Eleven publishers, three budgets, windows of one and two.
SPECIFICATION FairSpec
CONSTANTS
  Publishers <- MCPublishers
  Limits <- MCLimits
  Concurrencies = {1, 2}
  None = None
INVARIANTS InListedOrder CompleteMeansAll
PROPERTY WalkEnds
CHECK_DEADLOCK FALSE
