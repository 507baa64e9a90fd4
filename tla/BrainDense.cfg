\* One note, ranked by meaning: the warmup, the passes, the views and a restart.
SPECIFICATION Spec
CONSTANTS
  Paths = {p}
  Contents = {1, 2, 3, torn, mixed}
  Absent = absent
  Torn = torn
  Mixed = mixed
  NoIndex = none
  Scopes = {tech}
  Dense = TRUE
  Writers = {w}
  MaxChanges = 3
  MaxDeletions = 0
  MaxBoots = 2
  StartupEdits = FALSE
  PromptWrites = TRUE
INVARIANTS
  DenseNotForgotten
  ViewsAreCurrent
PROPERTIES
  EventuallySemantic
CHECK_DEADLOCK FALSE
