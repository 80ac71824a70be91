CONSTANTS
  a = a
  b = b
  d = d
  k1 = k1
  k2 = k2
  TxId <- Few
  KeyImage <- Images
  images <- FewImages
  ring <- FewRing
  weight <- FewWeight
  rate <- FewRate
  Malformed = {}
  BadOutputs = {d}
  MinRate = 1
  MaxWeight = 2
  WMod = 5
  Livetime = 0
  AltLivetime = 1
  MaxAge = 1
SPECIFICATION Spec
INVARIANTS
  KeyImagesExact
  SortedExact
  WeightExact
  PoolChainSound
PROPERTIES
  LoanReturned
  PrunedAfterAdd
