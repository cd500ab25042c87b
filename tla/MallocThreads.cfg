\* Two threads that call malloc() and free() whenever they like.
CONSTANTS
  t1 = t1
  t2 = t2
  Thread = {t1, t2}
  NoThread = NoThread
  MORE = 4
  Heap = 8
  Units = {2, 3}
  Serial = FALSE
SPECIFICATION Spec
INVARIANT ListGuarded
