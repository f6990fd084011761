SPECIFICATION FairSpec
CONSTANTS
  s1 = s1
  s2 = s2
  m1 = m1
  m2 = m2
  m3 = m3
  p1 = p1
  p2 = p2
  p3 = p3
  i1 = i1
  i2 = i2
  NoProc = NoProc
  NoPick = NoPick
  Procs = {p1, p3}
  Issues = {i1}
  Schedulers = {s1}
  Implementers = {m1, m3}
  SelfScheduling = {m3}
  ProcOf <- ProcOfMixed
  LaneOf <- LaneOfMixed
  StaleAfter = 2
  Capacity <- CapacityOfMixed
  Backoff = 1
  MaxCrashes = 1
INVARIANTS OneAttemptPerIssue
PROPERTIES AbandonedClaimSurfaces
