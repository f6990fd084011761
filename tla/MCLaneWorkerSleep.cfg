SPECIFICATION Spec
CONSTANTS
  Procs = {p1, p2}
  p1 = p1
  p2 = p2
  NoProc = NoProc
  Lanes = {l1, l2}
  l2 = l2
  l1 = l1
  StaleAfter = 3
  LeaseTTL = 2
  Backoff = 1
  MaxDaemons = 1
  MaxCrashes = 1
  MaySuspend = TRUE
  RepairAnytime = TRUE

PROPERTIES OnlyStaleClaimsAreMarked
