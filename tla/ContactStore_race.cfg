\* Two handler threads and no command.
CONSTANTS
  t1 = t1
  t2 = t2
  c1 = c1
  f1 = f1
  f2 = f2
  f3 = f3
  None = None
  Thread = {t1, t2}
  Command = {}
  Fp = {f1, f2}
  Successor <- MCNoRotation
  Old = {}
  MaxMessages = 2
  MaxBoots = 1
SPECIFICATION Spec
INVARIANTS StoreReadable
CHECK_DEADLOCK FALSE
