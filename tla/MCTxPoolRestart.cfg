CONSTANTS
  a = a
  b = b
  d = d
  k1 = k1
  k2 = k2
  TxId <- Few
  KeyImage <- Images
  images <- FewImages
  ring <- FewRing
  weight <- FewWeight
  rate <- FewRate
  Malformed = {}
  BadOutputs = {d}
  MinRate = 1
  MaxWeight = 2
  WMod = 64
  Livetime = 0
  AltLivetime = 1
  MaxAge = 0
SPECIFICATION Spec
INVARIANTS
  RestartSucceeds
