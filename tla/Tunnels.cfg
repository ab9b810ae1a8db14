SPECIFICATION TunnelsSpec
CONSTANTS
  NFolders = 2
  MaxRetries = 1
  MaxGlobalRetries = 1
  MaxDeletesRetries = 1
  HealthPeriod = 2
  Forwards <- MCForwards
  Reverses = {2, 3}
  Globals = {1, 4, 5}
  LabelledGlobals = {4}
  Privileged = {5}
  MaxActivations = 2
INVARIANTS
  SyncTellsTheTruth
  PortsAreServed
PROPERTIES
  LoopGoesOn
  TunnelsEnd
