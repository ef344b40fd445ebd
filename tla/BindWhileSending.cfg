SPECIFICATION ConnSpec
CONSTANTS
  NULL = NULL
  s1 = s1
  r1 = r1
  r2 = r2
  v = v
  k1 = k1
  Outs = {s1}
  Ins = {r1, r2}
  Values = {v}
  Topologies <- OneConnected
  Connectors = {k1}
  TypeSize <- SameSize
  Operations = {"bind"}
INVARIANTS
  ConnsSemNeverAboveOne
CHECK_DEADLOCK FALSE
