SPECIFICATION FairSpec
CHECK_DEADLOCK FALSE
CONSTANTS
  Chunks = {1, 2}
  MaxEvents = 4
INVARIANTS
  FailuresWithdraw
  NoStaleSnapshot
  ReleasedReturns
  OpenWhileScrubbed
PROPERTIES
  RescansHappen
  ShutdownEnds
