SPECIFICATION Spec
CONSTANTS
  r1 = r1
  r2 = r2
  t1 = t1
  t2 = t2
  w1 = w1
  w2 = w2
  Tenants = {t1, t2}
  Rows = {r1, r2}
  NoRow = NoRow
  TenantOf <- OneTenant
  Malformed = {}
  FanoutRows = {r1}
  Workers = {w1, w2}
  BatchSize = 2
  MaxAttempts = 2
  AttemptBound = 2
  Switchable = {}
  Pausable = {}
SYMMETRY WorkerSymmetry
INVARIANTS
  LoggedAtMostOnce
  ChainIntact
  PurgeAttribution
CHECK_DEADLOCK FALSE
