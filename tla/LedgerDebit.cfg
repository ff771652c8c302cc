SPECIFICATION LedgerSpec
CONSTANTS
  a1 = a1  a2 = a2  t1 = t1  t2 = t2  n1 = n1  n2 = n2
  w1 = w1  w2 = w2  m1 = m1  ws1 = ws1  ws2 = ws2
  AttemptIds <- Attempts2
  TaskIds <- Tasks2
  Windows <- TwoWindows
  Specs <- OwnWorkspaces
  Skew = 0
  NoTask = NoTask  NoAccount = NoAccount  NoWorkspace = NoWorkspace
  NoReceipt = NoReceipt  NoSpec = NoSpec  NoSnapshot = NoSnapshot  NoOutcome = NoOutcome
  Accounts <- OneName
  Snapshots <- RoomForTwo
  Estimates <- EstimateOne
  Receipts <- GoodReceipt
  Reviewers <- Families
  Categories <- Never
  Deadlines <- Never
  MaxTime = 2
SYMMETRY NameSymmetry
CHECK_DEADLOCK FALSE
INVARIANTS NoErasedResolution
