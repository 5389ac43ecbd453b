SPECIFICATION Spec
CONSTANTS
  NULL = NULL
  t1 = t1
  t2 = t2
  t3 = t3
  Threads = {t1, t2, t3}
SYMMETRY Sym
INVARIANT HeavyOrders
