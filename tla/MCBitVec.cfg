SPECIFICATION Spec
CONSTANTS
  WordBits = 2
  ShortBits = 4
  Sizes = {1, 2, 3}
  ShiftSizes <- MCShiftSizes
INVARIANTS
  Sound
  ComparesAsSets
