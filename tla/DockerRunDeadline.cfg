CONSTANTS
  None = None
  Limit = 1
  Statuses <- ZeroOrOne
  MaxBytes = 3
  MaxFaults = 0

\* A run that ended does nothing more.
CHECK_DEADLOCK FALSE

SPECIFICATION Spec
INVARIANTS
  DeadlineSparesTheEnded
