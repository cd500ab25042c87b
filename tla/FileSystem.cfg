SPECIFICATION Spec
CONSTANTS
  Proc = {p, q}
  NoProc = NoProc
  a = a
  b = b
  Name = {a, b}
  NINODES = 3
  NINODE = 3
  Calls <- TreeCalls
  MaxCrashes = 1
INVARIANTS
  RefsExact
  Intact
  CrashSafe
  NeverStuck
CHECK_DEADLOCK FALSE
SYMMETRY Symmetry
