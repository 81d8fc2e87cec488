CONSTANTS
  None = None
  Samples = 1
  Generated <- FirstGenerated
  MaxAttempts = 2
  Consumed = 1
  AttemptLimit = 4
  Input <- MCInput
  Output = 1
  CostLimit = 13
  TokenLimit = 6
  Usages <- MCUsages
  MaxFaults = 1
  MaxStarts = 2

\* A benchmark that ended is not started more than MaxStarts times.
CHECK_DEADLOCK FALSE

SPECIFICATION Spec
INVARIANTS
  NeverOverspends
  EvidenceIsTrue
PROPERTIES
  SpendingSpec
