SPECIFICATION Spec
CONSTANTS
  Entries = {1, 2}
  Spans = {1, 2}
  Capacity = 1
  MaxReportEntries = 1
  Ranks = {0, 1}
  HistoryLimit = 1
  BatchSize = 1
  DeltaHistoryLimit = 2
  CycleModulus = 3
  MaxGenerations = 1
  MaxEpoch = 1
  MaxSequence = 6
  MaxInFlight = 1
  MaxChanges = 1
  MaxFaults = 1
  MaxRollbacks = 0
INVARIANTS
  QuorumIsHeld
