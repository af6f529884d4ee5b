CONSTANTS
  r1 = r1
  r2 = r2
  Texts <- MCTexts
  Releases <- MCReleases
  Runs <- MCRuns
  MaxRuns = 2
SPECIFICATION Spec
CHECK_DEADLOCK FALSE
SYMMETRY RunSymmetry
INVARIANTS
  ChunksCoverText
  ChunksAreWellFormed
  RowsAreOneChunking
  EmbeddedHasPoint
PROPERTY OutagesAreRepaired
