SPECIFICATION Spec
CONSTANTS
  Procs = {p1, p2, p3}
  p1 = p1
  p2 = p2
  p3 = p3
  NoProc = NoProc
  Lanes = {l1}
  l1 = l1
  StaleAfter = 3
  LeaseTTL = 2
  Backoff = 1
  MaxDaemons = 3
  MaxCrashes = 1
  MaySuspend = FALSE
  RepairAnytime = FALSE
SYMMETRY Processes
INVARIANTS TypeOK HolderOwnsLease
PROPERTIES ImplementsContract BlockedUntilRepair OnlyStaleClaimsAreMarked
