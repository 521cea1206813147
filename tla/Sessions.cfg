SPECIFICATION FairSpec
CONSTANTS
  r1 = r1
  r2 = r2
  r3 = r3
  NoBox = NoBox
  Requests <- TwoRequests
  Ops <- AllOps
  Origins = {"create", "import"}
  MaxBoxes = 3
  MaxCrashes = 1
  DockerFails = TRUE
INVARIANTS TypeOK WorkKept
PROPERTIES CreatingEnds MismatchEnds
CHECK_DEADLOCK FALSE
