CONSTANTS
  None = None
  Samples = 2
  Generated <- FirstGenerated
  MaxAttempts = 2
  Consumed = 0
  AttemptLimit = 7
  Input <- MCInput
  Output = 1
  CostLimit = 100
  TokenLimit = 100
  Usages <- OneUsage
  MaxFaults = 0
  MaxStarts = 1

\* A benchmark that ended is not started more than MaxStarts times.
CHECK_DEADLOCK FALSE

SPECIFICATION Spec
INVARIANTS
  CompleteFitsProfile
