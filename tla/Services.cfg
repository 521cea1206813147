SPECIFICATION ServicesSpec
CONSTANTS
  github = github
  host = host
  good = good
  bad = bad
  NoKey = NoKey
  r1 = r1
  r2 = r2
  i1 = i1
  q1 = q1
  x1 = x1
  e1 = e1
  e2 = e2
  e3 = e3
  v1 = v1
  n1 = n1
  n2 = n2
  n3 = n3
  n4 = n4
  p1 = p1
  p2 = p2
  a1 = a1
  a2 = a2
  d1 = d1
  tab = tab
  cli = cli
  page1 = page1
  page2 = page2
  o1 = o1
  o2 = o2
  k1 = k1
  k2 = k2
  b1 = b1
  b2 = b2
  b3 = b3
  j1 = j1
  c1 = c1
  c2 = c2
  NoToken = NoToken
  NoPortal = NoPortal
  NoPress = NoPress
  NoPlan = NoPlan
  NoRepo = NoRepo
  NoConfig = NoConfig
  Nodes <- FourNodes
  Triggers <- OneTrigger
  Graphs <- AllGraphs
  MaxLevel = 3
  Polls <- TwoPolls
  Approvals <- TwoApprovals
  Denials <- OneDenial
  Tabs <- OneTab
  Clis <- OneCli
  MaxConnects = 2
  MaxViews = 2
  Pages <- TwoPages
  MaxFetches = 3
  MaxIssued = 4
  Portals <- TwoOrgs
  Providers <- TwoProviders
  Homes <- TwoOrgs
  MaxLogins = 2
  Presses <- ThreePresses
  MaxEdits = 3
  Firings <- OneFiring
  Plans <- TwoPlans
  Tools <- TwoTools
  Required = github
  Keys <- TwoKeys
  GoodKeys <- OneGoodKey
  Repos <- TwoRepos
  Imports <- OneImport
  Clicks <- OneClick
  MaxRows = 3
  Secrets <- TwoKeys
  GoodSecrets <- OneGoodKey
  Picks <- OnePick
  Changes <- ThreeChanges
  Views <- OneView
  MaxPlugins = 2
INVARIANTS ServicesTypeOK JoinsWait InputsArePresent LevelsAreLongest NothingForgotten NoMoreThanGranted DeliveredTokensWork AttachedHearsOutput NotThrownOut KeysLiveOn PortalsHaveRepos NothingMeansNothing BuildsAreSound SchedulerFollowsRow FiresOnce
PROPERTIES RunEnds DenialIsFinal WatchersSubscribed SeedGoesForward SeedCatchesUp AnalysesEnd StatusCatchesUp
CHECK_DEADLOCK FALSE
