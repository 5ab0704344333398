SPECIFICATION SessionSpec
CONSTANTS
  None = None
  Partial = Partial
  Processes = {t1}
  Names = {alice}
  Passwords = {p1, p2}
  Keys = {k1, k2}
  MaxSignups = 2
  MaxFaults = 1
SYMMETRY SessionSymmetry
CHECK_DEADLOCK FALSE
INVARIANT LostResponseRecoverable
