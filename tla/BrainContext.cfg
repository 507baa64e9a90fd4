\* The vault, its editors, two tool calls and the server, ranking lexically.
SPECIFICATION Spec
CONSTANTS
  Paths = {p, q}
  Contents = {1, 2, 3, torn, mixed}
  Absent = absent
  Torn = torn
  Mixed = mixed
  NoIndex = none
  Scopes = {}
  Dense = FALSE
  Writers = {w, x}
  MaxChanges = 3
  MaxDeletions = 1
  MaxBoots = 3
  StartupEdits = FALSE
  PromptWrites = TRUE
INVARIANTS
  TypeOK
  NoEventForgotten
  QuietMeansServed
PROPERTIES
  EventuallyServed
CHECK_DEADLOCK FALSE
