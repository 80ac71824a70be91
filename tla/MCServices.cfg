SPECIFICATION ServicesSpec
CONSTANTS
  Wallets <- MCWallets
  Payments <- MCPayments
  RealWeights <- MCReal
  EstimatedWeight <- MCEstimated
  FeePerWeight = 1
  Quantum = 1
  WeightTarget = 4
  WeightLimit = 7
  Distributions <- MCDistributions
  Age = 2
  FakeOuts = 2
  Requested = 4
  Passwords = {"old", "new"}
  Lookaheads = {2, 3}
  MaxIndex = 1
  MaxFileEvents = 2
  Q = 46337
  BitWidth = 2
  BulletproofMaxOutputs = 4
  Hash <- MCHash
  Rand <- MCRand
  Accounts = {"alice", "bob"}
  Miners = {"alice"}
  AccountKeys <- MCKeys
  SubaddressIndexes <- MCIndexes
  RingSize = 2
  MoneySupply = 12
  EmissionSpeed = 2
  CoinbaseUnlockTime = 1
  SpendableAge = 1
  TxSpendableAge = 1
  MaxEvents = 2
  Fees = {1}
  MaxHeight = 4
  MaxAttempts = 4
  MaxConstructions = 2
  Genesis = "g"
  Prev <- MCPrev
  Body <- MCBody
  Coinbase <- MCCoinbase
  Work <- MCWork
  Reward <- MCReward
  Fee <- MCFee
  Images <- MCImages
  Outs <- MCOuts
  Unlock <- MCUnlock
  Matching <- MCMatching
  Blockable = {"h1", "h2"}
  MaxBlocks = 3
  MaxIds = 3
  InitNodes <- MCInitNodes
  Requests <- MCRequests
  Word = 1000
  MaxThreads = 4
  MaxCalls = 2
  Commands <- MCCommands
  Numeral <- MCNumeral
  Hashes <- MCHashes
  DefaultBan = 1
  Peers = {"p", "q", "r"}
  Links <- MCLinks
  Sound = {"t1", "t2", "t3", "t4"}
  Size <- MCSize
  MaxTxSize = 10
  Reserved = 1
  CacheSize = 2
  Fluffy = {"p", "q"}
  Scenarios <- MCScenarios
  Clients = {u1, u2, u3}
  NoClient = NoClient
  Sessions <- MCSessions
  NumberWord <- MCNumberWord
  AmountWord <- MCAmountWord
  AddressWords = {"A", "B"}
  IndexWord <- MCIndexWord
  TxidWord <- MCTxidWord
  PairWord <- MCPairWord
  OnChain <- MCOnChain
  InMempool <- MCInMempool
  Guesses = {0, 7}
  MaxSplit = 2

  
  
  
  
  
PROPERTIES
  HttpSound
CHECK_DEADLOCK FALSE
