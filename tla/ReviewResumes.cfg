SPECIFICATION ReviewSpec
CONSTANTS
  Paths <- ReviewPaths
  Dir <- PathDir
  Bytes <- PathBytes
  Generated = {"g"}
  Docs = {"d"}
  PathLimit = 4
  Limit = 6
  Ranges <- Branches
  Requested <- ReviewRequests
  AuthorFalls = 1
  Asks = 2
CHECK_DEADLOCK FALSE
INVARIANTS RerunResumes
