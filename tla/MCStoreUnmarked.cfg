SPECIFICATION Spec
CONSTANTS
  Chunks = {1, 2}
  BatchLimit = 1
  Maintenance = TRUE
  MaxDamages = 1
  MaxErrors = 1
  MaxCrashes = 0
  MaxPowerLosses = 0
INVARIANTS
  ReportedExists
