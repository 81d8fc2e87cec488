CONSTANTS
  r1 = r1
  r2 = r2
  p1 = p1
  p2 = p2
  d1 = d1
  d2 = d2
  None = None
  Runs <- TwoRuns
  Procs <- OneProc
  Deliveries <- Once
  MaxWorkers = 1
  MaxFaults = 0
  MaxCrashes = 1

\* The service is idle once every run was submitted: it may stop.
CHECK_DEADLOCK FALSE

SPECIFICATION FairSpec
PROPERTIES
  RestartFailsAbandonedRuns
