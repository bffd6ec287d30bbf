SPECIFICATION ItpSpec
CONSTANTS
  Problems <- MCProblems
  Questions <- MCQuestions
  OnSets <- MCOnSets
  Budgets = {}
  MaxSolves = 1
  MaxStarts = 5
  FirstConflicts = 2
  LearntShare = 8
INVARIANTS
  ItpSeparates
  CoreRefutes
CHECK_DEADLOCK FALSE
