\* Every accepted configuration once; the traffic of one, three requests and one write.
SPECIFICATION Spec
CONSTANTS
  Configs <- MCConfigs
  Served <- MCServed
  Types <- MCTypes
  Ids <- MCIds
  SchemeOf <- MCSchemeOf
  Records <- MCRecords
  Principals = {p, q}
  PageSize = 1
  MaxAsked = 3
  MaxUpdates = 1
  None = None
  Star = Star
  Chars = {" ", "%20", ".", "%2e", "a", "b", "w", "m"}
  Letters = {"a", "b", "w", "m"}
SYMMETRY Symmetry
INVARIANTS RoutesRoundTrip NeverSomeoneElses PagesComplete
PROPERTY RevalidationExact
CHECK_DEADLOCK FALSE
