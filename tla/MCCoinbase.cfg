SPECIFICATION Spec
CONSTANTS
  Blocks <- OwnBlocks
  Genesis = "G"
  Prev <- OwnPrev
  Height <- OwnHeight
  Anc <- OwnAnc
  Txs <- OwnTxs
  Vtx <- OwnVtx
  In <- OwnIn
  Out <- OwnOut
  ScriptsOk <- AllTxs
  Lock <- OwnLock
  CbHeight <- OwnCbHeight
  RulesV2 <- AllBlocks
  CheckOk <- AllBlocks
  StrictOk <- AllBlocks
  ContextOk <- AllBlocks
  COINBASE_MATURITY = 100
  SUBSIDY = 4
  HALVING = 8
  MAX_ORPHAN_BLOCKS = 2
  CheckBlocks = 2
  NetHeight = 0
  SyncEvery = 500
  CrashKinds = {}
  MaxCrashes = 0
  None = None
  Absent = Absent
INVARIANT CoinbaseMature
