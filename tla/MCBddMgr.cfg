SPECIFICATION Spec
CONSTANTS
  LevelSpan = 65536
  MaxNodes = 40
  AddressesGrow = FALSE
  nameA = nameA
  nameB = nameB
  Names = {nameA, nameB}
  DefaultSupports = 4
  DefaultCache = 3
  NumLevels = 4
  SupportCounts = {4}
  CacheSizes = {3}
  VarLevels = {1, 2, 3, 4}
  MaxArgs = 2
  NodeBudget = 5
  FreshMemory = TRUE
SYMMETRY NameSymmetry
INVARIANTS
  TypeOK
  CacheSound
  MoveIsRename
  

  
CHECK_DEADLOCK FALSE
