SPECIFICATION ProgramsSpec
CONSTANTS
  Processes = {syncthing, remote}
  Synced = {syncthing}
  MaxRetries = 3
  Procs = {p1, p2, p3}
  NoFile = NoFile
  Empty = Empty
  Conns = {c1}
INVARIANTS
  ProcessesAreSound
  StopStopsAll
  AgentForwards
PROPERTIES
  ProgramsGoOn
  PidFileHandsOver
\* The programs end, and the supervisor blocks when both processes give up in one
\* round.
CHECK_DEADLOCK FALSE
