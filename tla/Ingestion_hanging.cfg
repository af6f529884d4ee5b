CONSTANTS
  j1 = j1
  j2 = j2
  r1 = r1
  r2 = r2
  Jobs <- OneJob
  Runs <- OneRun
  MaxTries = 2
  EnqueueOutcomes <- Queued
  Faults <- NoFault
  NoJob = NoJob
SPECIFICATION Spec
CHECK_DEADLOCK FALSE
INVARIANT NeverLeftHanging
