\* Seven suites, Relations in its three profiles, with up to two things that go wrong.
SPECIFICATION FairSpec
CONSTANTS
  Suites = {"core", "relations-core", "relations-full", "relations-authenticated", "answer", "evidence", "graph"}
  OptionSets <- SomeMissing
  MaxPages = 5
  MaxEntities = 4
  MaxTrouble = 2
INVARIANTS CleanExitMeansFinished NoRunnerBug RequestsWithinLimits
PROPERTY RunEnds
CHECK_DEADLOCK FALSE
