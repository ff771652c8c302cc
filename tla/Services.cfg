SPECIFICATION ServicesSpec
CONSTANTS
  Requests = {1, 2}
  QueuedTTL = 1
  CollectingTTL = 1
  UploadTTL = 1
  KeepTTL = 0
  MaxClock = 3
  Callers = {c1, c2}
  Timeout = 1
  Fallback = 1
  Waits = {2, 4}
  CollectClock = 4
  Calls = 3
  QuotaWindows = {"weekly"}
  Homes = {h1, h2}
  Period = 1
  Delay = 1
  Retry = 2
  ReadClock = 2
  case1 = case1
  case2 = case2
  Cases = {case1, case2}
  Shadowed <- OneShadow
  Falls = 1
  Paths <- ReviewPaths
  Dir <- PathDir
  Bytes <- PathBytes
  Generated = {"g"}
  Docs = {"d"}
  PathLimit = 4
  Limit = 6
  Ranges <- Branches
  Requested <- ReviewRequests
  AuthorFalls = 1
  Asks = 2
  Lanes = {"l1", "l2"}
  LaneConf <- TwoLanes
  Accounts = {"acc"}
  Capacity <- OneSlot
  TaskOrder <- ThreeTasks
  TaskConf <- TaskKinds
  Valid = 1
  RefusalTTL = 2
  Closes = 2
  RouteClock = 3
  Publications = 1
  Builds = {"b"}
  FixPlan <- OneFix
  Tickets = {"p"}
  Sections = {"k1", "k2"}
  AutoDispatch = FALSE
  DraftFalls = 1
  DraftPasses = 3
  Setups <- LaneTasks
  Files = {"patch"}
  Reply = "reply"
  Logins = 1
CHECK_DEADLOCK FALSE
INVARIANTS ServicesTyped ReceiptEarned CollectedShown ReadingsHonest EvalsTrue NothingUnreviewed FixRecovered
PROPERTIES AnsweredOnce ProviderRespected RefusalHonoured
