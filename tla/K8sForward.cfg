SPECIFICATION K8sFairSpec
CONSTANTS
  MaxStarts = 3
  Interruptible = TRUE
INVARIANTS
  ForwardsAreStopped
PROPERTIES
  StoppedForwardEnds
\* The session ends.
CHECK_DEADLOCK FALSE
