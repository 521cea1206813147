SPECIFICATION Spec
CONSTANTS
  t1 = t1
  s1 = s1
  s2 = s2
  x1 = x1
  x2 = x2
  r1 = r1
  r2 = r2
  r3 = r3
  none = none
  NoTask = none
  NoSession = none
  Tasks <- OneTask
  Slots <- OneSlot
  Sessions <- OneSession
  Requests <- OneRequest
  Sweeps = {}
  Ops = {"build"}
  MoveTargets = {}
  MaxAttempts = 3
  MaxStalls = 1
  MaxCrashes = 0
  ExecTimeout = TRUE
  DockerFails = FALSE
PROPERTY RetriesRun
CHECK_DEADLOCK FALSE
