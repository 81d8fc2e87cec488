CONSTANTS
  None = None
  Limit = 1
  Statuses <- MCStatuses
  MaxBytes = 3
  MaxFaults = 2

\* A run that ended does nothing more.
CHECK_DEADLOCK FALSE

SPECIFICATION FairSpec
INVARIANTS
  VerdictIsTrue
  NoVerdictHasACause
  LeftBehindNeedsTwoFaults
PROPERTIES
  RunReturns
