SPECIFICATION Spec
CONSTANTS
  NULL = NULL
  t1 = t1
  t2 = t2
  t3 = t3
  o1 = o1
  o2 = o2
  o3 = o3
  Threads = {t1, t2, t3}
  Objects = {o1, o2, o3}
  BatchSize = 1
SYMMETRY Sym
INVARIANT TypeOK
INVARIANT RetiredOnce
INVARIANT PushHasRoom
INVARIANT ReservedUnlessSpent
