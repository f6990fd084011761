SPECIFICATION Spec
CONSTANTS
  Active = {"impl", "hand", "merge"}
  ReviewChoices = {TRUE}
  Failures = {"failed"}
  MaxPicks = 1
  MaxAttempts = 2
  MaxRounds = 1
  MaxFaults = 1
  MaxCrashes = 1
INVARIANTS TypeOK
INVARIANTS JobGoesOn
PROPERTIES ContractSpec
CHECK_DEADLOCK FALSE
