SPECIFICATION Spec
CONSTANTS
  t1 = t1
  s1 = s1
  s2 = s2
  x1 = x1
  x2 = x2
  r1 = r1
  r2 = r2
  r3 = r3
  none = none
  NoTask = none
  NoSession = none
  Tasks <- OneTask
  Slots <- TwoSlots
  Sessions <- TwoSessions
  Requests <- TwoRequests
  Sweeps = {}
  Ops <- AllOps
  MoveTargets = {"PENDING", "IN_PROGRESS", "REVIEW"}
  MaxAttempts = 2
  MaxStalls = 1
  MaxCrashes = 1
  ExecTimeout = TRUE
  DockerFails = TRUE
SYMMETRY Symmetry
INVARIANTS TypeOK OneRunPerTask LinkedToOwnWorker
PROPERTY PoolSpec
CHECK_DEADLOCK FALSE
