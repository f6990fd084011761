SPECIFICATION Spec
CONSTANTS
  Active = {"impl", "merge"}
  ReviewChoices = {TRUE}
  Failures = {"failed"}
  MaxPicks = 1
  MaxAttempts = 1
  MaxRounds = 1
  MaxFaults = 1
  MaxCrashes = 0
INVARIANTS MergedIsFinished
CHECK_DEADLOCK FALSE
