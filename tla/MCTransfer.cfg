SPECIFICATION FairSpec
CONSTANTS
  Chunks = 2
  Prefixes = {2}
  DataBlocks = 1
  StateBlocks = 2
  SlotCount = 2
  SlotFiles = 2
  Mover = m
  Readers = {r1}
  Scrubbers = {s1}
  NoThread = none
  RestoreCredits = 2
  MaxFaults = 1
INVARIANT InFlightGuarded
PROPERTIES EveryTransferEnds ImplementsService
