SPECIFICATION FairSpec
CONSTANTS
  bg = bg bb = bb bc = bc bd = bd
  mg = mg mb = mb mc = mc md = md tx = tx ty = ty tz = tz
  k1 = k1 k2 = k2
  Tx <- Txs
  Block <- Blocks
  Image = {k1, k2}
  vin <- Inputs
  vout <- Outputs
  version <- Versions
  miner_tx <- Miners
  tx_hashes <- Bodies
  prev_id <- Parents
  major_version <- MajorVersions
  Gen = Gen
  Other = Other
  None = None
  Ample = 99
  Writer = {w1, w2}
  Reader = {r1}
  Genesis = bg
  PoolTx = {tx}
  AltBlock = {bc}
  Peek = {0}
  MaxOps = 2
  MaxResizes = 1
  MaxCrashes = 1
  Room <- FullAfter
INVARIANTS
  TablesExact
  QueriesExact
PROPERTIES
  BatchesIsolated
  BatchesEnd
  StoresChain
