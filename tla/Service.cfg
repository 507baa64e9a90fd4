\* Two identities, two tasks, a plain call, a record's life of one tick.
SPECIFICATION Spec
CONSTANTS
  Tasks = {t1, t2}
  Owners = {owner, agent}
  Calls = {c1}
  TTL = 1
  MaxTime = 1
  MaxBoots = 2
  None = none
INVARIANTS
  OwnersOnly
  AnsweredIsAudited
PROPERTIES
  ContractKept
  UnknownIsFinal
  ShutdownEnds
CHECK_DEADLOCK FALSE
