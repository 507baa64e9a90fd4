\* Two agents and a spare token, two master tokens, two clients, two codes.
SPECIFICATION Spec
CONSTANTS
  Masters = {m1, m2}
  Agents = {care, coding}
  Secrets = {s1, s2}
  Clients = {cl1, cl2}
  Codes = {k1, k2}
  Verifiers = {v1, v2}
  CodeTTL = 1
  MaxTime = 2
  MaxBoots = 3
  None = none
INVARIANTS
  TokensAreConsented
  
  EachEraItsAnswerer
SYMMETRY Symmetry
CHECK_DEADLOCK FALSE
