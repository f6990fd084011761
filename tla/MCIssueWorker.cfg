SPECIFICATION Spec
CONSTANTS
  s1 = s1
  s2 = s2
  m1 = m1
  m2 = m2
  m3 = m3
  p1 = p1
  p2 = p2
  p3 = p3
  i1 = i1
  i2 = i2
  NoProc = NoProc
  NoPick = NoPick
  Procs = {p1, p2}
  Issues = {i1, i2}
  Schedulers = {s1, s2}
  Implementers = {m1, m2}
  SelfScheduling = {}
  ProcOf <- ProcOfDaemons
  LaneOf <- LaneOfDaemons
  StaleAfter = 2
  Capacity <- CapacityOfDaemons
  Backoff = 1
  MaxCrashes = 1
SYMMETRY AnyIssue
INVARIANTS TypeOK RunningBlocks OneClaimant
PROPERTIES UsesRunLocks BlockedUntilRepair
