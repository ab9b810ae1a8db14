SPECIFICATION FairBuildSpec
CONSTANTS
  Services = {a, b, c}
  Strategies = {"parallel", "sequential", "none"}
  MaxStatuses = 3
INVARIANTS
  BuildsFollowTheGraph
  SolveTellsTheTruth
PROPERTIES
  ImplementsCacheCheck
  BuildsEnd
\* Both end.
CHECK_DEADLOCK FALSE
