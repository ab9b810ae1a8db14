SPECIFICATION FairSpec
CONSTANTS
  MaxActivations = 1
  PersistentVolume = FALSE
  AutoDown = FALSE
  Events = {"interrupt"}
PROPERTIES
  InterruptEnds
\* The process ends.
CHECK_DEADLOCK FALSE
