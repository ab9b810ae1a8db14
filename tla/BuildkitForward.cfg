SPECIFICATION FairSpec
CONSTANTS
  MaxForwards = 5
  MaxAttempts = 2
  MaxBuilds = 2
INVARIANTS
  ErrorsStayWithTheirAttempt
  ForwardsAreSound
  RunLeavesNothingOpen
PROPERTIES
  RunTerminates
\* The command ends after its last build.
CHECK_DEADLOCK FALSE
