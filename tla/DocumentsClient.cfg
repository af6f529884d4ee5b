CONSTANTS
  d1 = d1
  o1 = o1
  Documents <- OneDocument
  Others <- OtherRequests
  Requests <- MCRequests
  Migration = Migration
  None = None
  MaxTries = 2
  MaxFaults = 1
SPECIFICATION FairSpec
CHECK_DEADLOCK FALSE
INVARIANTS
  OnePrincipal
  FirstPageLoads
  AnnouncedIsShown
PROPERTIES
  TableSettles
  WatchersFinish
