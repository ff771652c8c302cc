SPECIFICATION Spec
CONSTANTS
  a1 = a1  a2 = a2  a3 = a3
  BoardTasks <- PacketIds
  Kind <- MCKind
  Order <- PacketOrder
  ReviewOf <- NoReviews
  RetryIds <- PacketRetryIds
  InitialTasks = {"p"}
  AttemptIds <- Attempts2
  Passes = {"tick"}
  Capacity = 2
  MaxCrashes = 1
  RetryDuringPass = FALSE
  SweepDuringPass = TRUE
  NoTask = NoTask
  NoAttempt = NoAttempt
CHECK_DEADLOCK FALSE
INVARIANTS WorkedOnce FailoverOnce
PROPERTIES DeadRequeued
