SPECIFICATION Spec
CONSTANTS
  w1 = w1
  w2 = w2
  w3 = w3
  w4 = w4
  p1 = p1
  p2 = p2
  p3 = p3
  h1 = h1
  h2 = h2
  Procs = {p1, p2}
  NoProc = NoProc
  StaleAfter = 1
  Workers = {w1, w2, w3}
  ProcOf <- ProcOfTwo
  HostOf <- HostOfTwo
  LockTTL = 2
  MaxCrashes = 1
  MayOverrun = FALSE
INVARIANTS OneRunAtATime
