SPECIFICATION FairSpec
CONSTANTS
  Active = {"impl", "hand", "rev"}
  ReviewChoices = {TRUE}
  Failures = {"failed"}
  MaxPicks = 1
  MaxAttempts = 1
  MaxRounds = 0
  MaxFaults = 1
  MaxCrashes = 1
PROPERTIES PendingIsDrained
CHECK_DEADLOCK FALSE
