CONSTANTS
  Slot = {1, 2, 3}
  d1 = d1
  d2 = d2
  Pgdir = {d1, d2}
  None = None
  PGSIZE = 2
  USERTOP = 6
  UintSize = 16
  Delta <- Steps
  Frames = 5
  Serial = {d1, d2}
  QuietSbrk = FALSE
SPECIFICATION Spec
SYMMETRY Symmetry
INVARIANT SizesAgree
CHECK_DEADLOCK FALSE
