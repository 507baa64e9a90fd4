\* Three files, two names they may answer to.
SPECIFICATION IndexSpec
CONSTANTS
  LastPath = 3
  Names = {x, y}
  Bodies = {b, c}
  None = none
INVARIANTS
  LexicalIsFull
