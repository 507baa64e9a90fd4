SPECIFICATION Spec
CONSTANTS
  Notes = {1, 2, 3, 4, 5}
  MinSize = 1
  MaxRounds = 30
  MaxPasses = 12
INVARIANTS
  LevelsAgree
  PartsAreSubjects
PROPERTIES
  MovesClimb
CHECK_DEADLOCK FALSE
