SPECIFICATION Spec
CONSTANTS
  NULL = NULL
  s1 = s1
  s2 = s2
  r1 = r1
  v = v
  Outs = {s1, s2}
  Ins = {r1}
  Values = {v}
  Topologies <- Mesh
INVARIANTS
  BufferHeld
