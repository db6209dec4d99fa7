\* The serial path and windows of two and three over a source of up to five items.
SPECIFICATION FairMap
CONSTANTS
  Concurrencies = {1, 2, 3}
  MaxItems = 5
INVARIANT BlastRadius
PROPERTIES ImplementsOrderedMap EveryRequestAnswered
CHECK_DEADLOCK FALSE
