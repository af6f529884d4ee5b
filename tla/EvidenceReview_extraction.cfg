CONSTANTS
  i1 = i1
  i2 = i2
  r1 = r1
  r2 = r2
  x1 = x1
  x2 = x2
  Items <- MCItems
  Reviewers <- OneReviewer
  Extractors <- MCExtractors
  Risks <- OnlyUnrated
  Statuses <- MCStatuses
  Submitted <- FewBodies
  MaxSeq = 3
  MaxExtractions = 2
  NoActor = NoActor
  NotGiven = NotGiven
SPECIFICATION FairSpec
CHECK_DEADLOCK FALSE
INVARIANTS
  UntouchedItemsAreCurrent
PROPERTIES
  ImplementsWorkflow
  ExtractionLockReleased
