SPECIFICATION LoopSpec
CONSTANTS
  Packets = {p1, p2}
  Landers = {l1, l2}
  Built = {p1}
  BoardTracked = TRUE
  MaxCrashes = 1
  NoPacket = NoPacket
  Boards = {b1, b2}
  Idle = 1
  Busy = 1
  PrepareTimeout = 1
  TickTimeout = 2
  Grace = 1
  Beat = 1
  Margin = 1
  Alarms = {"reading", "upload"}
  Renotify = 2
  WatchFaults = 2
CHECK_DEADLOCK FALSE
INVARIANTS LandingSound DrainPrompt DeadmanTrue
PROPERTIES LandingsSettle BoardsIndependent ProblemTold
