\* Two calls, each an agent's or the owner's, two promotions, a folder the agent has, one it has not and one that is ignored.
SPECIFICATION Spec
CONSTANTS
  Dirs = {inbox, memory, aside}
  Home = inbox
  Ignored = {aside}
  Asked = {"shared"}
  MaxCalls = 2
  MaxProms = 2
  None = None
  Torn = Torn
CHECK_DEADLOCK FALSE
INVARIANTS
  UnvouchedTextWaits
PROPERTIES
  CommitMovesTheNote
