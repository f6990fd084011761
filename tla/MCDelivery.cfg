SPECIFICATION Spec
CONSTANTS
  Active = {"impl", "hand", "merge", "clean"}
  ReviewChoices = {TRUE, FALSE}
  Failures = {"failed"}
  MaxPicks = 1
  MaxAttempts = 1
  MaxRounds = 1
  MaxFaults = 1
  MaxCrashes = 1
INVARIANTS TypeOK
INVARIANTS JobGoesOn
PROPERTIES ContractSpec
CHECK_DEADLOCK FALSE
