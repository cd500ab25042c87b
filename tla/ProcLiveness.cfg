\* One processor, processes with kill(): what must eventually happen.
SPECIFICATION OrderedFairSpec
CONSTANTS
  NPROC = 3
  CPU = {c1}
  Pgdir = {1, 2, 3}
  MaxPid = 3
  KillPid = {2}
  Threads = FALSE
  JoinFirst = FALSE
  NoCpu = NoCpu
  NoPgdir = 0
PROPERTIES
  KilledDies
  OrphansReaped
  ReadyRuns
