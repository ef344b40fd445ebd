SPECIFICATION MCSpec
CONSTANTS
  Components = {k1, k2, k3}
  Main = Main
  None = None
  Ids = {1, 2, 3}
  Low = 2
  W = 8
  Sizes = {1, 8, 13}
  Contents = {0}
INVARIANTS
  TypeOK
  AllJoined
  HeapFound
  OwnHeapUnlessAlike
  HeapTypeOK
  Tiled
  FreeListSorted
PROPERTIES
  ProgramEnds
  OwnedUntouched
  NullOnlyIfNoneFits
  OperationsEnd
CHECK_DEADLOCK FALSE
