\* A process exits while a thread of it runs on the other processor.
SPECIFICATION Spec
CONSTANTS
  NPROC = 3
  CPU = {c1, c2}
  Pgdir = {d1, d2, d3}
  MaxPid = 3
  KillPid = {}
  Threads = TRUE
  JoinFirst = FALSE
  NoCpu = NoCpu
  NoPgdir = NoPgdir
SYMMETRY Symmetry

PROPERTY ZombieStays
