SPECIFICATION CommandsSpec
CONSTANTS
  MaxUps = 2
  MaxDowns = 1
  MaxCuts = 1
  MaxChanges = 1
  Commands = {"p", "q"}
  Requests <- MCRequests
  Retries = 1
  MaxKills = 1
  Spaces = {"n", "m", "me", "default"}
  AllowedSpaces = {"m", "default"}
  Environments = {x, y}
  Services = {"a"}
  UpdateConflictRetries = 2
  MaxDivertRuns <- MCDivertRuns
  MaxDivertChanges <- MCDivertChanges
SYMMETRY DivertSymmetry
INVARIANTS
  DevModeIsUndone
  ContextsStayWhole
  DivertsHold
PROPERTIES
  UserAppsStay
\* Commands end.
CHECK_DEADLOCK FALSE
