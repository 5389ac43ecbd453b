SPECIFICATION Spec
CONSTANTS
  NONE = NONE
  t1 = t1
  t2 = t2
  t3 = t3
  g1 = g1
  g2 = g2
  Threads = {t1, t2}
  OwnedGuards = {g1}
  MaxId = 3
  MaxGuards = 2
  Forgetful = TRUE
  LateGuards = FALSE
SYMMETRY Sym
INVARIANT GuardIsActive
