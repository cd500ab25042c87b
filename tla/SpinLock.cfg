\* Two processors, two processes, and three locks that nest: a lock taken before
\* ptable.lock, ptable.lock, and kmem.lock.
CONSTANTS
  c1 = c1
  c2 = c2
  p1 = p1
  p2 = p2
  lk = lk
  km = km
  PT = PT
  None = None
  CPU = {c1, c2}
  Proc = {p1, p2}
  Outer = {lk}
  Inner = {km}
SPECIFICATION Spec
SYMMETRY Symmetry
INVARIANTS
  TypeOK
  Mutex
  HoldingTrue
  InterruptsRestored
  SpinsForRunning
