\* Two processes with two blocks each, three buffers, four blocks, one of them indirect;
\* two allocators; lab4's layout.
CONSTANTS
  p1 = p1
  p2 = p2
  b1 = b1
  b2 = b2
  b3 = b3
  k1 = k1
  k2 = k2
  k3 = k3
  i = i
  Proc = {p1, p2}
  Buf = {b1, b2, b3}
  Block = {k1, k2, k3, i}
  Indirect = {i}
  zero = zero
  one = one
  Val = {zero, one}
  Zero = zero
  NoBlock = NoBlock
  NoBuf = NoBuf
  NoProc = NoProc
  Users = 2
  DriveFails = FALSE
  Spurious = TRUE
SPECIFICATION AllSpec
SYMMETRY Symmetry
INVARIANTS
  CacheExact
  SleepersWoken
  NoPanic
PROPERTIES
  StoreSpec
  RegionSpec
  MallocSpec
  LayoutSpec
CHECK_DEADLOCK FALSE
