SPECIFICATION FairSpec
CONSTANTS
  MaxActivations = 2
  PersistentVolume = TRUE
  AutoDown = FALSE
  Events = {"stateFileFails", "syncthingFails", "takeover"}
PROPERTIES
  LoopNeverStuck
  ExitIsHeard
\* The process ends.
CHECK_DEADLOCK FALSE
