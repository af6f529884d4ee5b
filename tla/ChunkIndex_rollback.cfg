CONSTANTS
  r1 = r1
  r2 = r2
  Texts <- FewTexts
  Releases <- MCReleases
  Runs <- OneRun
  MaxRuns = 2
SPECIFICATION Spec
CHECK_DEADLOCK FALSE
INVARIANT VectorsOutliveRollback
