SPECIFICATION Spec
CONSTANTS
  Components = {k1, k2}
  Main = Main
  None = None
  Ids = {1, 2, 3}
  Low = 2
INVARIANTS
  HeapsPrivate
CHECK_DEADLOCK FALSE
