\* A file is deleted between being listed and being read.
SPECIFICATION Spec
CONSTANTS
  Paths = {p, q}
  Contents = {1, 2, torn, mixed}
  Absent = absent
  Torn = torn
  Mixed = mixed
  NoIndex = none
  Scopes = {}
  Dense = FALSE
  Writers = {}
  MaxChanges = 2
  MaxDeletions = 1
  MaxBoots = 2
  StartupEdits = FALSE
  PromptWrites = TRUE
PROPERTIES
  ReloadsAreSurvived
CHECK_DEADLOCK FALSE
