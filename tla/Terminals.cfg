SPECIFICATION FairTSpec
CONSTANTS
  r1 = r1
  s1 = s1
  s2 = s2
  NoBox = NoBox
  NoStart = NoStart
  Requests <- OneRequest
  Ops <- AllOps
  Origins = {"create"}
  MaxBoxes = 2
  MaxCrashes = 1
  DockerFails = TRUE
  Starts <- TwoStarts
  Attaches <- OneAttach
INVARIANTS TerminalTypeOK TableIsLive OneStream
PROPERTIES EntriesFade
CHECK_DEADLOCK FALSE
