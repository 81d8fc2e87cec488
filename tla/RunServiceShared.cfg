CONSTANTS
  r1 = r1
  r2 = r2
  p1 = p1
  p2 = p2
  d1 = d1
  d2 = d2
  None = None
  Runs <- OneRun
  Procs <- TwoProcs
  Deliveries <- Twice
  MaxWorkers = 2
  MaxFaults = 2
  MaxCrashes = 2

\* The service is idle once every run was submitted: it may stop.
CHECK_DEADLOCK FALSE

SPECIFICATION Spec
INVARIANTS
  ChainIntact
  CompletedByClaimHolder
  SingleClaim
PROPERTIES
  StaleWorkerStops
  LifecycleSpec
