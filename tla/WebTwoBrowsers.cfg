SPECIFICATION Spec
CONSTANTS
  None = None
  Browsers = {b1, b2}
  Names = {alice}
  Passwords = {p1, p2}
  Keys = {k1, k2}
  Tasks = {t1, t2}
SYMMETRY WebSymmetry
CHECK_DEADLOCK FALSE
INVARIANT WebTypeOK
INVARIANT ServerCopyOpens
