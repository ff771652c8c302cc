SPECIFICATION AttemptsSpec
CONSTANTS
  a1 = a1  a2 = a2  t1 = t1  t2 = t2  n1 = n1  n2 = n2  w1 = w1  m1 = m1  ws1 = ws1
  p1 = p1  p2 = p2
  Attempts = {a1, a2}
  Size <- OneAndTwo
  Space = 3
  MinFree = 1
  MaxRounds = 3
  GateMarks = {"red"}
  None = None
  AttemptIds = {a1, a2}
  TaskIds = {t1, t2}
  Accounts = {n1, n2}
  Workers = {p1, p2}
  Windows <- OneWindow
  Specs <- OneSpec
  Snapshots <- OneReading
  Estimates <- OneEstimate
  Receipts <- OneReceipt
  Rank <- FirstSecond
  Candidates <- UnknownThenKnown
  Reviewers = {"fb"}
  Categories <- Never
  Deadlines <- Never
  MaxTime = 0
  Skew = 0
  NoTask = NoTask  NoAccount = NoAccount  NoWorkspace = NoWorkspace
  NoReceipt = NoReceipt  NoSpec = NoSpec  NoSnapshot = NoSnapshot  NoOutcome = NoOutcome
CHECK_DEADLOCK FALSE
INVARIANTS ClaimsSeen WorkKept CompletedIsGated LaunchOnce CompletedIsStopped
PROPERTIES RoundJustified PacketsSettle SettlesAndReaps SettledByWorker
