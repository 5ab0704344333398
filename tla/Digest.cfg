CONSTANTS
  Rows = {r1, r2}
  Times = {1, 2}
  TiesPossible = TRUE
  Daemons = {d1}
  Scripts = {s1}
  Txs = {t1, t2, t3, t4, t5}
  BatchIds = {b1, b2, b3, b4, b5}
  NoTx = NoTx
  NoBatch = NoBatch
  MaxAttempts = 2
  FaultKinds = {"submit", "wait", "insert", "stamp", "select", "crash"}
  MaxFaults = 1
SPECIFICATION FairSpec
CHECK_DEADLOCK FALSE
PROPERTIES
  ImplementsAnchoring
  EveryDigestAnchored
