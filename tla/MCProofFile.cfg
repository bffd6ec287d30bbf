SPECIFICATION Spec
CONSTANTS
  Clauses <- MCClauses
  Vars <- MCVars
  MaxEntries = 3
  BufSize = 4
INVARIANTS
  LogOnDisk
  TraverseIsLog
PROPERTY
  RetrieveIsLog
CHECK_DEADLOCK FALSE
