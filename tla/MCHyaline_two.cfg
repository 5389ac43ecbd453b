SPECIFICATION Spec
CONSTANTS
  NULL = NULL
  INACTIVE = INACTIVE
  s1 = s1
  s2 = s2
  s3 = s3
  o1 = o1
  o2 = o2
  o3 = o3
  o4 = o4
  c1 = c1
  c2 = c2
  b1 = b1
  b2 = b2
  b3 = b3
  Slots = {s1, s2}
  Objects = {o1, o2, o3}
  Cells = {c1}
  Batches = {b1, b2, b3}
  BatchSize = 1
  Width = 4
  FastBarrier = TRUE
  MaxGuards = 2
  MaxDepth = 1
SYMMETRY Sym
INVARIANT NoUseAfterReclaim
INVARIANT FreeOnce
INVARIANT NoLeakWhenQuiescent
INVARIANT IndInv
PROPERTY NoReclaimUnderGuard
