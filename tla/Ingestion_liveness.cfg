CONSTANTS
  j1 = j1
  j2 = j2
  r1 = r1
  r2 = r2
  Jobs <- OneJob
  Runs <- MCRuns
  MaxTries = 3
  EnqueueOutcomes <- AnyEnqueue
  Faults <- AnyFault
  NoJob = NoJob
SPECIFICATION OrderlyFairSpec
CHECK_DEADLOCK FALSE
INVARIANT JobMirrorsDocument
PROPERTY JobsSettle
