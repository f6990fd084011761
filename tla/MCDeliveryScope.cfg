SPECIFICATION Spec
CONSTANTS
  Active = {"impl"}
  ReviewChoices = {TRUE}
  Failures = {"failed"}
  MaxPicks = 1
  MaxAttempts = 1
  MaxRounds = 0
  MaxFaults = 0
  MaxCrashes = 0
INVARIANTS HandedOffInScope
CHECK_DEADLOCK FALSE
