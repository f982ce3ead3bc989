SPECIFICATION CatalogSpec
CONSTANTS
  Entries = {1, 2, 3}
  Spans = {1, 2}
  Capacity = 2
  MaxReportEntries = 2
  Ranks = {0, 1}
  HistoryLimit = 1
  Startups <- MCStartups
  Reports <- MCReports
  Candidates <- MCCandidates
INVARIANTS
  CatalogTypeOK
  IndexesAgree
  MemoryBounded
  QuorumOnlyWhenReady
  QuorumCountFresh
  PendingBounded
PROPERTIES
  OnlyNewerTakesOver
