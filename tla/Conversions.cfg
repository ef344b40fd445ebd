SPECIFICATION LibrarySpec
CONSTANTS
  Keys = {k1}
  Values = {1}
  Length <- LengthOf
  Rooms = {2}
  Absent = 0
  Capacity = 1
  Unit = 1000
  IntLimit = 16384
  BufferSize = 7
  NULL = NULL
INVARIANTS
  NumbersKept
CHECK_DEADLOCK FALSE
