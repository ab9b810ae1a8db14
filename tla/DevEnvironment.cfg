SPECIFICATION Spec
CONSTANTS
  Deploys = {d1}
  Destroys = {x1}
  NoMap = NoMap
INVARIANTS
  StatusMatchesResult
  NothingIsLeftBehind
PROPERTIES
  NotResurrected
  LockIsHonoured
\* Commands end.
CHECK_DEADLOCK FALSE
