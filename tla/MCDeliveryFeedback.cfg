SPECIFICATION Spec
CONSTANTS
  Active = {"impl", "merge"}
  ReviewChoices = {TRUE}
  Failures = {"failed"}
  MaxPicks = 1
  MaxAttempts = 2
  MaxRounds = 1
  MaxFaults = 0
  MaxCrashes = 0
INVARIANTS FeedbackIsPicked
CHECK_DEADLOCK FALSE
