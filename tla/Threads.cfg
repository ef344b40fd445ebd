SPECIFICATION MCSpec
CONSTANTS
  NULL = NULL
  s1 = s1
  r1 = r1
  v = v
  Outs = {s1}
  Ins = {r1}
  Values = {v}
  Topologies <- AllConnected
  Connectors = {t1, t2}
  TypeSize <- SameSize
  Operations = {"bind", "unbind", "drop"}
  Threads = {Main, t1, t2}
  Main = Main
  Blocks = {b1, b2}
  Items = {c1, c2, c3}
  Null = Null
  Own = Own
  Components = {c1, c2, c3}
  Creator = Creator
  Nobody = Nobody
  Cores = 2
SYMMETRY Alike
INVARIANTS
  ConnTypeOK
  ChannelLifetime
  OneRightPerList
  ListIntact
  EntriesCover
  LostOnlyInRace
  RoundRobin
CHECK_DEADLOCK FALSE
