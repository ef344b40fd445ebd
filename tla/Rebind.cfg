SPECIFICATION ConnSpec
CONSTANTS
  NULL = NULL
  s1 = s1
  r1 = r1
  v = v
  k1 = k1
  Outs = {s1}
  Ins = {r1}
  Values = {v}
  Topologies <- AllConnected
  Connectors = {k1}
  TypeSize <- SameSize
  Operations = {"bind", "unbind"}
INVARIANTS
  ReturnedHoldsNoMutex
CHECK_DEADLOCK FALSE
