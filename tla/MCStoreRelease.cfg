SPECIFICATION Spec
CONSTANTS
  Chunks = {1, 2}
  BatchLimit = 2
  Maintenance = FALSE
  MaxDamages = 1
  MaxErrors = 1
  MaxCrashes = 1
  MaxPowerLosses = 1
INVARIANTS
  StaysWithdrawn
