CONSTANTS
  i1 = i1
  i2 = i2
  r1 = r1
  r2 = r2
  x1 = x1
  x2 = x2
  Items <- OneItem
  Reviewers <- OneReviewer
  Extractors <- OneExtractor
  Risks <- OnlyUnrated
  Statuses <- MCStatuses
  Submitted <- AllBodies
  MaxSeq = 2
  MaxExtractions = 2
  NoActor = NoActor
  NotGiven = NotGiven
SPECIFICATION Spec
CHECK_DEADLOCK FALSE
PROPERTY HistoryIsKept
