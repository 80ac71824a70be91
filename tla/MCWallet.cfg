SPECIFICATION WalletSpec
CONSTANTS
    Genesis = "g"
    TxsOf <- MCTxsOf
    Ins <- MCIns
    Outs <- MCOuts
    MinerTxs = {"mined"}
    Amount <- MCAmount
    Account <- MCAccount
    Key <- MCKey
    UnlockHeight <- MCUnlock
    YearBlocks = 5
    RefreshFrom = 2
    HistoryDense = 2
    ReorgBuffer = 1
    Chains <- MCChains
    OwnTxs = {"own"}
    Batch = 2
    ScannedMax = 1
    SpendableAge = 1
    AllowedDelta = 1
    MaxSwitches = 2
    MaxFaults = 2

  
PROPERTIES
  EventuallyCurrent
