\* Two calls on two notes, or both on one, pushed to a remote that others push to.
SPECIFICATION Spec
CONSTANTS
  Files = {a, b}
  MaxCalls = 2
INVARIANTS
  OutcomesAreTrue
  PushedOrReported
  CloseWaits
PROPERTIES
  EventuallyPushed
CHECK_DEADLOCK FALSE
