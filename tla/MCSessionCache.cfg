SPECIFICATION Spec
CONSTANTS
  s1 = s1
  r1 = r1
  r2 = r2
  w1 = w1
  w2 = w2
  None = None
  Sessions = {s1}
  Readers = {r1, r2}
  Writers = {w1, w2}
  CacheTTL = 3
  TombTTL = 3
  NegTTL = 1
  FetchMax = 1
  CommitMax = 1
  MaxLeft = 9
  MaxInfo = 1
SYMMETRY Symmetry
INVARIANTS
  RevokedNotServed
  PolicyInForce
  StaleIsBounded
CHECK_DEADLOCK FALSE
