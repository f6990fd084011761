SPECIFICATION Spec
CONSTANTS
  Segments = {"src", "docs"}
  MaxLines = 1
  MaxRecords = 1
  MaxChecks = 1
  MaxFiles = 2
  MaxCandidates = 2
  MaxRetries = 8
  MaxReviews = 3
CHECK_DEADLOCK FALSE
INVARIANTS OpenPRIsKept
