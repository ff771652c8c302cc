SPECIFICATION DraftsSpec
CONSTANTS
  Builds = {"b"}
  FixPlan <- OneFix
  Tickets = {"p"}
  Sections = {"k1", "k2"}
  AutoDispatch = FALSE
  DraftFalls = 1
  DraftPasses = 3
CHECK_DEADLOCK FALSE
INVARIANTS FixNeverLost
