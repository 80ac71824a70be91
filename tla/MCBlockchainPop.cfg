CONSTANTS
  g = g
  a1 = a1
  a2 = a2
  a3 = a3
  b1 = b1
  b2 = b2
  bx = bx
  a = a
  b = b
  c = c
  d = d
  k1 = k1
  k2 = k2
  NoBlock = NoBlock
  Genesis = g
  KeyImage <- Images
  weight <- UnitWeight
  rate <- Rates
  Block <- Rivals
  parent <- RivalsParent
  path <- RivalsPath
  work <- RivalsWork
  blockTxs <- RivalsTxs
  TxId <- ThreeTxs
  images <- ThreeImages
  ring <- ThreeRing
  BadHeader = {a3}
  BadReward = {bx}
  Age = 1
  Room = 9
  Env = {"pop"}
SPECIFICATION FairSpec
PROPERTIES
  EventuallyHeaviest
