SPECIFICATION Spec
CONSTANTS
  r1 = r1
  r2 = r2
  r3 = r3
  NoBox = NoBox
  Requests <- TwoRequests
  Ops <- AllOps
  Origins = {"create"}
  MaxBoxes = 2
  MaxCrashes = 0
  DockerFails = FALSE
INVARIANTS StoppedCanResume
CHECK_DEADLOCK FALSE
