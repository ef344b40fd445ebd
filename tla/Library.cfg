SPECIFICATION MCSpec
CONSTANTS
  Keys = {k1, k2, k3}
  Values = {1, 2}
  Length <- LengthOf
  Rooms = {2, 3}
  Absent = 0
  Capacity = 2
  Unit = 1000
  IntLimit = 16384
  BufferSize = 7
  NULL = NULL
  Blocks = {m1, m2, m3, m4, m5}
  Null = Null
  Free = Free
  StringVars = {x1, x2}
  ArrayVars = {y1}
  AnyVars = {z1}
  MaxLength = 2
  LengthMod = 4
  CountMod = 32
SYMMETRY Alike
INVARIANTS
  PairsSound
  MemoryExact
  FunctionsAgree
  SearchFinds
  TypeOK
  CountExact
  NoDangling
  NothingForgotten
  CallsDecRefFunction
PROPERTIES
  IsStringMap
