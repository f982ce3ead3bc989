SPECIFICATION FairSpec
CONSTANTS
  Chunks = {1, 2}
  BatchLimit = 1
  Maintenance = TRUE
  MaxDamages = 1
  MaxErrors = 1
  MaxCrashes = 1
  MaxPowerLosses = 1
INVARIANTS
  ReportedUnlessFailed
PROPERTIES
  OnlyReleaseUnfences
  PinnedStays
  MarkersRetired
