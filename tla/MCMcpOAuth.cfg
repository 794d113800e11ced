SPECIFICATION Spec
CONSTANTS
  c1 = c1
  p1 = p1
  p2 = p2
  p3 = p3
  r1 = r1
  r2 = r2
  r3 = r3
  Codes = {c1}
  Pairs = {p1, p2, p3}
  Requests = {r1, r2, r3}
  NoCode = NoCode
  NoPair = NoPair
SYMMETRY Symmetry
INVARIANTS
  OneFamilyPerCode
  OneHead
  LoserKillsWinner
  RevocationSticks
PROPERTIES
  DeadStaysDead
