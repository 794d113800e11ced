SPECIFICATION VerifySpec
CONSTANTS
  MaxLen = 4
  Times = {1, 2}
  RowCap = 3
  WorkerSight = {TRUE, FALSE}
INVARIANTS
  NoFalseAlarm
  ChangeDetected
CHECK_DEADLOCK FALSE
