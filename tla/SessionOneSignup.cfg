SPECIFICATION SessionSpec
CONSTANTS
  None = None
  Partial = Partial
  Processes = {t1, t2}
  Names = {alice, bob}
  Passwords = {p1, p2}
  Keys = {k1, k2, k3}
  MaxSignups = 1
  MaxFaults = 2
SYMMETRY SessionSymmetry
CHECK_DEADLOCK FALSE
INVARIANT SessionTypeOK
INVARIANT PublishedKeyRecoverable
