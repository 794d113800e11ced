SPECIFICATION FairSpec
CONSTANTS
  r1 = r1
  r2 = r2
  t1 = t1
  t2 = t2
  w1 = w1
  w2 = w2
  Rows = {r1}
  Targets = {t1, t2}
  NoDeliverer = {t2}
  Workers = {w1, w2}
  BatchSize = 2
  MaxAttempts = 2
  WorkerSight = {TRUE, FALSE}
  Refailable = {r1}
INVARIANTS
  TypeOK
  DeliveredOrReported
PROPERTIES EventuallySettled
CHECK_DEADLOCK FALSE
