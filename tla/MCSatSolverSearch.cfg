SPECIFICATION FairSpec
CONSTANTS
  Problems <- MCProblems
  Questions <- MCQuestions
  Budgets <- MCBudgets
  MaxSolves = 2
  MaxStarts = 5
  FirstConflicts = 2
  LearntShare = 8
INVARIANTS
  TypeOK
  ProofExact
  PropagationComplete
  WatchesIntact
  ReasonsAlive
  NoVariableLost
PROPERTIES
  ImplementsOracle
  SolveEnds
