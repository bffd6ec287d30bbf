SPECIFICATION Spec
CONSTANTS
  Library <- MCLibrary
  Files <- MCFiles
  Missing <- MCMissing
  Typed <- MCTyped
  Scripts <- MCScripts
INVARIANT
  ProperMode
PROPERTIES
  LineRuns
  DofileEnds
CHECK_DEADLOCK FALSE
