CONSTANTS
  Rows = {r1, r2, r3}
  Times = {1, 2, 3}
  TiesPossible = FALSE
  Daemons = {d1}
  Scripts = {}
  Txs = {t1, t2, t3}
  BatchIds = {b1, b2, b3}
  NoTx = NoTx
  NoBatch = NoBatch
  MaxAttempts = 2
  FaultKinds = {"select", "submit", "wait", "insert", "stamp", "crash"}
  MaxFaults = 2
  NoRow = NoRow
SPECIFICATION PageSpec
SYMMETRY RowSymmetry
CHECK_DEADLOCK FALSE
INVARIANTS
  PageTypeOK
  VerificationPasses
  PassIsSound
  NoFalseAlarm
