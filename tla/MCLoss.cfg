SPECIFICATION FairSpec
CONSTANTS
  Entries = {1, 2, 3}
  Spans = {1}
  Capacity = 3
  MaxReportEntries = 1
  Ranks = {0}
  HistoryLimit = 1
  BatchSize = 1
  DeltaHistoryLimit = 2
  CycleModulus = 3
  MaxGenerations = 1
  MaxEpoch = 1
  MaxSequence = 8
  MaxInFlight = 2
  MaxChanges = 2
  MaxFaults = 2
  MaxRollbacks = 0
INVARIANTS
  DirtyIsComplete
  Fresh
PROPERTIES
  EventuallyInSync
  ReadmittedWhole
