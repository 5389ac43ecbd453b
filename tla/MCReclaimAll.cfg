SPECIFICATION SweepSpec
CONSTANTS
  NULL = NULL
  INACTIVE = INACTIVE
  DROP = DROP
  s1 = s1
  s2 = s2
  o1 = o1
  o2 = o2
  o3 = o3
  c1 = c1
  b1 = b1
  b2 = b2
  b3 = b3
  Slots = {s1, s2}
  Objects = {o1, o2, o3}
  Cells = {c1}
  Batches = {b1, b2, b3}
  BatchSize = 2
  Width = 4
  FastBarrier = TRUE
  MaxGuards = 1
  MaxDepth = 2
  Helpers = TRUE
SYMMETRY Sym
CHECK_DEADLOCK FALSE
INVARIANT FreeOnce
INVARIANT RetiredBeforeReclaimed
INVARIANT GuardsOutliveSweep
INVARIANT NoLeakAfterSweep
PROPERTY ImplementsSweeping
