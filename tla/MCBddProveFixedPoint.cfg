SPECIFICATION Spec
CONSTANTS
  PiCount = 1
  LatchCount = 1
  Family = "all"
  NPi = 1
  NL = 1
  NPo = 1
  MonitorStates = {1}
  Circuits <- MCCircuits
  MaxLevel = 3
  NullNode = NullNode
INVARIANTS
  FixedPointIsReached
CHECK_DEADLOCK FALSE
