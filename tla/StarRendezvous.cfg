SPECIFICATION FairSpec
CONSTANTS
  NULL = NULL
  s1 = s1
  r1 = r1
  r2 = r2
  v1 = v1
  v2 = v2
  Outs = {s1}
  Ins = {r1, r2}
  Values = {v1, v2}
  Topologies <- OneSenderEach
PROPERTIES
  SynchronousTransfer
  RendezvousHappens
  MatchedReturns
CHECK_DEADLOCK FALSE
