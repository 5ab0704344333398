CONSTANTS
  Rows = {r1, r2}
  Times = {1, 2}
  TiesPossible = FALSE
  Daemons = {d1, d2}
  Scripts = {}
  Txs = {t1, t2, t3}
  BatchIds = {b1, b2, b3}
  NoTx = NoTx
  NoBatch = NoBatch
  MaxAttempts = 2
  FaultKinds = {}
  MaxFaults = 0
  NoRow = NoRow
SPECIFICATION PageSpec
CHECK_DEADLOCK FALSE
INVARIANTS
  NoFalseAlarm
