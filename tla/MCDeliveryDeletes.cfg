SPECIFICATION Spec
CONSTANTS
  Active = {"impl", "hand", "merge"}
  ReviewChoices = {TRUE}
  Failures = {"failed"}
  MaxPicks = 1
  MaxAttempts = 1
  MaxRounds = 1
  MaxFaults = 0
  MaxCrashes = 0
PROPERTIES DeletesRespectRuns
CHECK_DEADLOCK FALSE
