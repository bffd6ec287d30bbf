SPECIFICATION FairSpec
CONSTANTS
  Design <- MCDesign
  MaxCycles = 3
  MaxTotal = 4
  SafeIndices = {0, 1}
INVARIANTS
  UnsafeIsReal
  
PROPERTIES
  ContinuesWhereItStopped
  
