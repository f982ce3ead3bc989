SPECIFICATION RankSpec
CONSTANTS
  Base = 3
  Clocks = {0, 1, 4}
  Events = {"post_admission", "quarantined"}
  Fatal = "post_admission"
  MaxTotal = 2
  MaxMishaps = 1
  Dcp = 2
  ChunkFloor = 3
  SlotBytes = 4
  MaxBlocks = 3
  Configs <- MCConfigs
  Spans = {4, 8}
  Aheads = {1, 5}
  Pipeline = TRUE
INVARIANTS
  StrictlyNewer
  NeverWedged
  EventsKept
  RestoredRight
  PlansFeasible
