SPECIFICATION MinerFairSpec
CONSTANTS
  MaxTip = 1
  OpenCL = TRUE
  Nil = Nil
  Torn = Torn
INVARIANTS
  OneWorker
  WorksOnTemplate
PROPERTIES
  MinerProgress
