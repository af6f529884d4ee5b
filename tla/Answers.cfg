CONSTANTS
  Window = 3
  Second = 2
  Limit = 2
  DocumentOf <- MCDocumentOf
  RrfK = 1
  TopK = 2
  Sentinel <- MCSentinel
  IndexOf <- MCIndexOf
  Json = "json"
  Documents <- MCDocuments
  Rankings <- MCRankings
  Replies <- MCReplies
  Candidates = 3
  Symbols <- MCSymbols
  Completions <- MCCompletions
  Blocks <- MCBlocks
  Length = 3
  BatchSize = 2
  KeyOf <- MCKeyOf
  Blank = ""
  Supported <- MCSupported
  Proposals <- MCProposals
SPECIFICATION MCSpec
CHECK_DEADLOCK FALSE
INVARIANTS
  LimitIsHonest
  RankingRespectsLegs
  ClaimsNeverShown
  DraftIsPrefix
  AnswersAreSupported
  EvidenceIsBest
  VerifiedMeansAll
  ItemsAreQuoted
PROPERTIES
  SettledIsFinal
  SavesEachOnce
  AnswersSettle
