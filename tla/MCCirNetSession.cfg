SPECIFICATION Spec
CONSTANTS
  Files <- MCFiles
  SupportCounts = {4, 6}
  MaxReads = 2
  MaxFiled = 6
  DefaultSupports = 6
  Levels = 5
  NullEdge = NullEdge
  NoNet = NoNet
INVARIANTS
  ReadIsFile
  BddsAreGates
  NetworkIsCircuit
CHECK_DEADLOCK FALSE
