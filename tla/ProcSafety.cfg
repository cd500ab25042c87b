\* Processes with kill(), threads that are joined before exit() and exec(), and a full
\* table: four entries, two processors.
SPECIFICATION AllSpec
CONSTANTS
  NPROC = 4
  CPU = {c1, c2}
  Pgdir = {d1, d2, d3, d4}
  MaxPid = 5
  KillPid = {2, 3}
  Threads = TRUE
  JoinFirst = TRUE
  NoCpu = NoCpu
  NoPgdir = NoPgdir
SYMMETRY Symmetry

INVARIANTS
  TypeOK
  OneCpuPerProc
  RunningIffOnCpu
  MemoryOwned
  ExitsNoticed
PROPERTIES
  ZombieStays
