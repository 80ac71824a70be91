CONSTANTS
  g = g
  a1 = a1
  a2 = a2
  a3 = a3
  b1 = b1
  b2 = b2
  bx = bx
  a = a
  b = b
  c = c
  d = d
  k1 = k1
  k2 = k2
  NoBlock = NoBlock
  Genesis = g
  KeyImage <- Images
  weight <- UnitWeight
  rate <- Rates
  Block <- Clash
  parent <- ClashParent
  path <- ClashPath
  work <- ClashWork
  blockTxs <- ClashTxs
  TxId <- FourTxs
  images <- FourImages
  ring <- FourRing
  BadHeader = {}
  BadReward = {}
  Age = 1
  Room = 9
  Env = {"drop", "pop", "mine", "crash"}
SPECIFICATION Spec
INVARIANTS
  FaultsTolerated
  TemplateFresh
