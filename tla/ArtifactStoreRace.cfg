CONSTANTS
  c1 = c1
  c2 = c2
  c3 = c3
  old = old
  new = new
  oldPath = oldPath
  newPath = newPath
  None = None
  Calls <- MCCalls
  Paths <- MCPaths
  Dirs <- MCDirs
  DirOf <- MCDirOf
  OldDirs <- MCOldDirs
  Size = 2
  MaxErrors = 1
  MaxLosses = 1
  CachedRuns = {r1, r2, r3, r4}
  Workers = 2
  MaxCacheFaults = 1

\* Every call returns: the system may stop.
CHECK_DEADLOCK FALSE

SPECIFICATION MCSpec
INVARIANTS
  NeverTorn
  AcknowledgedSurvives
  AnswersAreFew
PROPERTIES
  StoreSpec
