SPECIFICATION Spec
CONSTANTS
  Circuits <- MCCircuits
  Targets <- MCTargets
  MaxDepth = 4
INVARIANTS
  TraceReplays
  VerdictExact
  FramesAreRuns
CHECK_DEADLOCK FALSE
