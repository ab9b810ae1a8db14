SPECIFICATION Spec
CONSTANTS
  MaxActivations = 2
  PersistentVolume = FALSE
  AutoDown = TRUE
  Events = {"interrupt", "down", "takeover", "stateFileFails", "syncthingFails"}
INVARIANTS
  SessionIsSound
\* The process ends.
CHECK_DEADLOCK FALSE
