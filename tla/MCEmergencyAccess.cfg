SPECIFICATION Spec
CONSTANTS
  g1 = g1
  r3 = r3
  r1 = r1
  r2 = r2
  None = None
  Grants = {g1}
  Requests = {r1, r2, r3}
  MaxKey = 3
  MaxAsks = 2
SYMMETRY Symmetry
INVARIANTS
  NoStaleEscrow
  KeysMatch
PROPERTIES
  OverStaysOver
  WaitIsServed
CHECK_DEADLOCK FALSE
