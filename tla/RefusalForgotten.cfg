SPECIFICATION RouteSpec
CONSTANTS
  Lanes = {"l1", "l2"}
  LaneConf <- TwoLanes
  Accounts = {"acc"}
  Capacity <- OneSlot
  TaskOrder <- ThreeTasks
  TaskConf <- TaskKinds
  Valid = 1
  RefusalTTL = 2
  Closes = 2
  RouteClock = 3
  Publications = 1
CHECK_DEADLOCK FALSE
PROPERTIES RefusalLasts
