SPECIFICATION Spec
CONSTANTS
  p1 = p1
  p2 = p2
  t1 = t1
  t2 = t2
  d1 = d1
  d2 = d2
  Publishers = {p1, p2}
  Tenants = {t1}
  Destinations = {d1, d2}
  Cadence = 2
  PauseCap = 2
  MaxClock = 3
  MaxSeq = 1
SYMMETRY Symmetry
INVARIANTS
  ManifestChainSound
  LinkResolves
  PauseIsBounded
CHECK_DEADLOCK FALSE
