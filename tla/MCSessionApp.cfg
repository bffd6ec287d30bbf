SPECIFICATION Spec
CONSTANTS
  Library <- MCLibrary
  Files <- AppFiles
  Missing <- MCMissing
  Typed <- AppTyped
  Scripts <- AppScripts
PROPERTY
  DofileEnds
CHECK_DEADLOCK FALSE
