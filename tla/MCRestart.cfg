SPECIFICATION Spec
CONSTANTS
  Entries = {1, 2}
  Spans = {1, 2}
  Capacity = 2
  MaxReportEntries = 1
  Ranks = {0}
  HistoryLimit = 1
  BatchSize = 1
  DeltaHistoryLimit = 2
  CycleModulus = 3
  MaxGenerations = 2
  MaxEpoch = 2
  MaxSequence = 0
  MaxInFlight = 2
  MaxChanges = 0
  MaxFaults = 1
  MaxRollbacks = 1
INVARIANTS
  Fresh
  NoGhostProcess
