SPECIFICATION Spec
CONSTANTS
  NULL = NULL
  s1 = s1
  s2 = s2
  r1 = r1
  r2 = r2
  v = v
  Outs = {s1, s2}
  Ins = {r1, r2}
  Values = {v}
  Topologies <- Chain
INVARIANTS
  TypeOK
  NoLostRendezvous
  WakeupMatchesTransfer
  TransferExclusive
  AckConservation
