SPECIFICATION FairSpec
CONSTANTS
  r1 = r1
  r2 = r2
  t1 = t1
  t2 = t2
  w1 = w1
  w2 = w2
  Tenants = {t1}
  Rows = {r1}
  NoRow = NoRow
  TenantOf <- OneTenant
  Malformed = {}
  FanoutRows = {r1}
  Workers = {w1, w2}
  BatchSize = 1
  MaxAttempts = 2
  AttemptBound = 3
  Switchable = {t1}
  Pausable = {t1}
INVARIANTS
  Accounted
PROPERTIES
  ImplementsLedger
  EventuallySettled
CHECK_DEADLOCK FALSE
