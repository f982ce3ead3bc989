SPECIFICATION FairSpec
CONSTANTS
  Keys = {1, 2}
  Scrubbers = {s1, s2}
  ItemBudget = 2
  MaxCycles = 2
  MaxRequests = 1
  MaxChanges = 1
  MaxFailures = 1
PROPERTIES
  CycleVisitsAll
  RequestsAnswered
  CycleEnds
CHECK_DEADLOCK FALSE
CONSTANTS
  s1 = s1
  s2 = s2
