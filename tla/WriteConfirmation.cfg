\* Two identities, two notes each may propose for two audiences, a form and a code, a restart, an audit of which two lines are read.
SPECIFICATION ConfirmSpec
CONSTANTS
  Agents = {k, l}
  Bodies = {b, c}
  Audiences = {us, them}
  TTL = 1
  FormTimeout = 1
  Memory = 1
  TailLines = 2
  MaxTime = 2
  MaxBoots = 2
  MaxAsked = 2
  MaxYes = 1
INVARIANTS
  WritesAreConfirmed
PROPERTIES
  TimeoutsOutliveRestarts
SYMMETRY ConfirmSymmetry
CHECK_DEADLOCK FALSE
