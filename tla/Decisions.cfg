SPECIFICATION Spec
CONSTANTS
  Segments = {"src", "docs"}
  MaxLines = 3
  MaxRecords = 3
  MaxChecks = 4
  MaxFiles = 2
  MaxCandidates = 2
  MaxRetries = 8
  MaxReviews = 3
CHECK_DEADLOCK FALSE
INVARIANTS NoFalseSuccess StoreVouches RetriesCountTheRecords ScopeIsExact
INVARIANTS BestIsPicked DelayGrows
INVARIANTS OneLaneActs OnlyQuietIssuesMove MergesAreVouched DeletesAreSafe
INVARIANTS GateTrustsHost HandedOffIsOurs RepairsHold
INVARIANTS StoreIsWhole LimitsHold
