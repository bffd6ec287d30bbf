SPECIFICATION FairSpec
CONSTANTS
  PiCount = 1
  LatchCount = 2
  Family = "named"
  NPi = 1
  NL = 2
  NPo = 1
  MonitorStates = {1, 2}
  Circuits <- MCCircuits
  MaxLevel = 2
  NullNode = NullNode
INVARIANTS
  TypeOK
  VerdictSound
  FramesExact
  FixedIsReachable
  SafeToDepth
PROPERTIES
  ImplementsSearch
  
CHECK_DEADLOCK FALSE
