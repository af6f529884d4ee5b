CONSTANTS
  j1 = j1
  j2 = j2
  r1 = r1
  r2 = r2
  Jobs <- MCJobs
  Runs <- MCRuns
  MaxTries = 2
  EnqueueOutcomes <- AnyEnqueue
  Faults <- AnyFault
  NoJob = NoJob
SPECIFICATION Spec
CHECK_DEADLOCK FALSE
SYMMETRY RunSymmetry
INVARIANTS
  ReadyIsIndexed
