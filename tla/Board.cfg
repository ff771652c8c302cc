SPECIFICATION Spec
CONSTANTS
  a1 = a1  a2 = a2  a3 = a3
  BoardTasks <- BoardIds
  Kind <- MCKind
  Order <- MCOrder
  ReviewOf <- MCReviewOf
  RetryIds <- BoardRetryIds
  InitialTasks = {"x", "p"}
  AttemptIds <- Attempts3
  Passes = {"tick"}
  Capacity = 2
  MaxCrashes = 1
  RetryDuringPass = FALSE
  SweepDuringPass = FALSE
  NoTask = NoTask
  NoAttempt = NoAttempt
SYMMETRY Symmetry
CHECK_DEADLOCK FALSE
INVARIANTS AcceptedInLedger
PROPERTIES SupersededStays FollowsLifecycle
