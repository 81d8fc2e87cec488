CONSTANTS
  b1 = b1
  b2 = b2
  b3 = b3
  d1 = d1
  d2 = d2
  p1 = p1
  p2 = p2
  None = None
  Ids <- ThreeIds
  Packages <- TwoPackages
  Procs <- TwoProcs
  Limits <- OneLimit
  MaxRuns = 2
  MaxStops = 1

SYMMETRY Symmetry

\* Nothing is started beyond MaxRuns.
CHECK_DEADLOCK FALSE

SPECIFICATION Spec
INVARIANTS
  PackageIsOneWrite
  EvidenceStays
  SuccessorContinues
  ChainCountsAll
