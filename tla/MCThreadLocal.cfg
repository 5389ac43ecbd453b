SPECIFICATION Spec
CONSTANTS
  Bits = 3
  ZERO_ENTRY = 0
  NULL = NULL
  t1 = t1
  t2 = t2
  t3 = t3
  p1 = p1
  p2 = p2
  p3 = p3
  p4 = p4
  Threads = {t1, t2, t3}
  Ids = {1, 3, 4}
  Ptrs = {p1, p2, p3, p4}
  Capacities = {0, 1}
SYMMETRY Sym
CHECK_DEADLOCK FALSE
INVARIANT TypeOK
INVARIANT OneBucket
INVARIANT NoBucketLeak
INVARIANT ReadsInitialised
INVARIANT IteratesAll
INVARIANT InOrder
INVARIANT FillsLastBucket
INVARIANT NineBits
PROPERTY EntriesStay
PROPERTY ImplementsTable
