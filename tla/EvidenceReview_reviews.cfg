CONSTANTS
  i1 = i1
  i2 = i2
  r1 = r1
  r2 = r2
  x1 = x1
  x2 = x2
  Items <- OneItem
  Reviewers <- MCReviewers
  Extractors <- OneExtractor
  Risks <- MCRisks
  Statuses <- MCStatuses
  Submitted <- MCBodies
  MaxSeq = 3
  MaxExtractions = 2
  MaxExportSeq = 2
  NoActor = NoActor
  NotGiven = NotGiven
SPECIFICATION ExportSpec
CHECK_DEADLOCK FALSE
SYMMETRY ReviewerSymmetry
INVARIANTS
  TypeOK
  AuditTrailReplays
  RatingsReplay
  NoLostUpdate
PROPERTIES
  ExportIsExplained
