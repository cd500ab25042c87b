SPECIFICATION Spec
CONSTANTS
  Proc = {p, q}
  NoProc = NoProc
  a = a
  b = b
  Name = {a}
  NINODES = 3
  NINODE = 3
  Calls <- UpCalls
  MaxCrashes = 0
INVARIANT NoPanic
CHECK_DEADLOCK FALSE
SYMMETRY Symmetry
